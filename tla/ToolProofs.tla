------------------------------ MODULE ToolProofs ------------------------------
(***************************************************************************)
(* Whether a tool may run, and whether it has the machine it runs on.      *)
(*                                                                         *)
(* The floors of ToolGate hold for every set of tools, every division of   *)
(* it into kinds that keeps to ApartAssumption, every default grid and any *)
(* number of calls and of changes of the settings.  The argument is IInv:  *)
(* each station of the chain hands on a decision that is above the floors  *)
(* if it allows.  The grid is as tight as the trigger asks when the turn   *)
(* starts, what the toolbox leaves out is denied, the taint is as tight as *)
(* the approvals, and the only ways to loosen a decision, a rule and the   *)
(* look ahead, have a floor of their own.                                  *)
(*                                                                         *)
(* The promises of Machines hold for every set of bots, any number of      *)
(* slots, requests, restarts and deletions.  The argument is MachinesInv:  *)
(* of a bot that is not excused one caller at a time is at the machine     *)
(* (Alone), and what that caller saw or was told is still so (Informed).   *)
(* The lock gives the first to tools, panel and reaper; a delivery does    *)
(* not take it, and a bot whose delivery meets a holder of it is excused.  *)
(***************************************************************************)
EXTENDS ToolGate, Machines, WellFoundedInduction, TLAPS


-----------------------------------------------------------------------------
(***************************************************************************)
(* The operators of the chain                                              *)
(***************************************************************************)

\* A decision of the grid, of the judge or of the rules is a decision.
LEMMA GridType ==
  ASSUME TypeOK
  PROVE  GetPermissions \in [Tool -> Decision] /\ PermissionsForRun \in [Tool -> Decision]
  BY ToolAssumption DEF TypeOK, GetPermissions, PermissionsForRun, Decision, Unset

\* What run_turn's grid allows an unattended run is in no tighten_set.
LEMMA GridTight ==
  ASSUME TypeOK, trigger # "chat"
  PROVE  \A t \in Unattended : PermissionsForRun[t] # "allow"
  BY ToolAssumption DEF TypeOK, PermissionsForRun

\* decide_call narrows: what it allows is above all floors, and nothing else is
\* made of a refusal except for a question.
LEMMA DecideCallFloors ==
  ASSUME TypeOK, NEW t \in Tool, NEW wait \in BOOLEAN,
         trigger # "chat" => \A u \in Unattended : perms[u] # "allow"
  PROVE  /\ DecideCall(perms[t], t, wait) \in {"allow", "ask", "deny"}
         /\ DecideCall(perms[t], t, wait) = "allow" => Liftable(t)
         /\ perms[t] = "deny" /\ t \notin Question => DecideCall(perms[t], t, wait) = "deny"
  <1> perms[t] \in {"allow", "ask", "deny"}
    BY DEF TypeOK, Decision
  <1> QED
    BY ToolAssumption, ApartAssumption
    DEF DecideCall, NoMoreThanAsk, Liftable, Pinned, TypeOK

\* A rule allows only what is above all floors.
LEMMA ResolveFloors ==
  ASSUME NEW matched, NEW t
  PROVE  /\ ResolveDecision(matched, t) \in Decision
         /\ ResolveDecision(matched, t) = "allow" => Liftable(t)
  BY DEF ResolveDecision, Decision

-----------------------------------------------------------------------------
(***************************************************************************)
(* The inductive invariant                                                 *)
(***************************************************************************)

LEMMA InitInv == Init => IInv
  <1> SUFFICES ASSUME Init PROVE IInv
    OBVIOUS
  <1>a. /\ stored \in [Tool -> Decision \cup {Unset}]
        /\ rules \in [Tool -> Behaviour \cup {Unset}]
        /\ perms \in [Tool -> Decision] /\ offered \subseteq Tool
    BY ToolAssumption DEF Init
  <1>b. /\ judgeOn \in BOOLEAN /\ wasOff \in BOOLEAN
        /\ tainted \in BOOLEAN /\ read \in BOOLEAN
        /\ pc \in PC /\ decision \in Decision
    BY DEF Init, PC, Decision
  <1>c. calls \in 0 .. MaxCalls /\ edits \in 0 .. MaxEdits
    BY BoundAssumption DEF Init
  <1>1. TypeOK
    BY <1>a, <1>b, <1>c DEF Init, TypeOK
  <1> QED
    BY <1>1 DEF Init, IInv, Stations, TurnIsTight, AllowedIsLiftable, DeniedIsDenied,
      DangerousInChain, UnjudgedInChain, ReadsAreAsked, UnattendedIsAsked, TaintIsAsked,
      DangerousIsHeld, RiskyIsJudged, NeverIsFinal, Unset, InChain

\* The history invariants, as one name.
Floors == /\ ReadsAreAsked /\ UnattendedIsAsked /\ TaintIsAsked
          /\ DangerousIsHeld /\ RiskyIsJudged /\ NeverIsFinal

\* A step that runs nothing keeps what is said of the calls that were run.
LEMMA KeptByOthers ==
  ASSUME IInv, UNCHANGED <<ran, trigger>>, wasOff => wasOff'
  PROVE  Floors'
  BY DEF IInv, Floors, ReadsAreAsked, UnattendedIsAsked, TaintIsAsked, DangerousIsHeld,
    RiskyIsJudged, NeverIsFinal

\* A toolbox is built: nobody's decision rests on it yet.
LEMMA BuildInv == IInv /\ Build => IInv'
  <1> SUFFICES ASSUME IInv, Build PROVE IInv'
    OBVIOUS
  <1>1. TypeOK'
    BY DEF IInv, TypeOK, Build, settings, chain, PC
  <1>2. Floors'
    BY KeptByOthers DEF Build, settings, chain
  <1>3. Stations' /\ DangerousInChain' /\ TurnIsTight'
    BY DEF IInv, Build, settings, chain, Stations, DangerousInChain, TurnIsTight, InChain
  <1>4. AllowedIsLiftable' /\ DeniedIsDenied' /\ UnjudgedInChain'
    BY DEF IInv, Build, settings, chain, AllowedIsLiftable, DeniedIsDenied, UnjudgedInChain, InChain
  <1> QED
    BY <1>1, <1>2, <1>3, <1>4 DEF IInv, Floors

LEMMA StartTurnInv == IInv /\ StartTurn => IInv'
  <1> SUFFICES ASSUME IInv, StartTurn PROVE IInv'
    OBVIOUS
  <1>1. TypeOK'
    BY GridType DEF IInv, TypeOK, StartTurn, settings, chain, PC
  <1>2. Floors'
    BY KeptByOthers DEF StartTurn, settings, chain
  <1>3. Stations' /\ DangerousInChain'
    BY DEF IInv, StartTurn, settings, chain, Stations, DangerousInChain, InChain
  <1>4. TurnIsTight'
    <2>1. read' => tainted'
      BY DEF IInv, TypeOK, StartTurn
    <2>2. trigger' # "chat" => \A t \in Unattended : perms'[t] # "allow"
      BY GridTight DEF IInv, StartTurn
    <2> QED
      BY <2>1, <2>2 DEF TurnIsTight
  <1>5. AllowedIsLiftable' /\ DeniedIsDenied' /\ UnjudgedInChain'
    BY DEF IInv, StartTurn, settings, AllowedIsLiftable, DeniedIsDenied, UnjudgedInChain, InChain
  <1> QED
    BY <1>1, <1>2, <1>3, <1>4, <1>5 DEF IInv, Floors

\* Each action in turn.
LEMMA GateInv ==
  ASSUME IInv, NEW t \in Tool, NEW wait \in BOOLEAN, Gate(t, wait)
  PROVE  IInv'
  <1>a. decision' \in Decision
    BY DecideCallFloors DEF IInv, TypeOK, Gate, TurnIsTight, Decision
  <1>b. calls' \in 0 .. MaxCalls
    BY BoundAssumption DEF IInv, TypeOK, Gate
  <1>c. call' \in Call
    BY DEF Gate, Call
  <1>1. TypeOK'
    BY <1>a, <1>b, <1>c DEF IInv, TypeOK, Gate, settings, turn, PC
  <1>2. Floors'
    BY KeptByOthers DEF Gate, settings
  <1>3. Stations'
    BY DEF IInv, Gate, Stations, Unset
  <1>4. TurnIsTight'
    BY DEF IInv, TurnIsTight, Gate, turn
  <1>5. AllowedIsLiftable'
    BY DecideCallFloors DEF IInv, Gate, AllowedIsLiftable, Liftable, turn, TurnIsTight, InChain
  <1>6. DeniedIsDenied'
    <2>1. perms[t] = "deny" /\ t \notin Question => decision' = "deny"
      BY DecideCallFloors DEF IInv, Gate, TurnIsTight
    <2> QED
      BY <2>1 DEF DeniedIsDenied, Gate, turn
  <1>7. DangerousInChain'
    BY DEF Gate, DangerousInChain, Unset
  <1>8. UnjudgedInChain'
    BY DEF IInv, Gate, settings, UnjudgedInChain
  <1> QED
    BY <1>1, <1>2, <1>3, <1>4, <1>5, <1>6, <1>7, <1>8 DEF IInv, Floors

LEMMA JudgeInv ==
  ASSUME IInv, Judge
  PROVE  IInv'
  <1>1. TypeOK'
    BY DEF IInv, TypeOK, Judge, settings, turn, PC, Verdict, Decision, DecisionFor
  <1>2. Floors'
    BY KeptByOthers DEF Judge, settings
  <1>3. Stations'
    BY DEF IInv, Judge, Stations, Unset
  <1>4. TurnIsTight'
    BY DEF IInv, TurnIsTight, Judge, turn
  <1>5. AllowedIsLiftable'
    BY DEF IInv, Judge, Stations, AllowedIsLiftable, Liftable, turn, InChain
  <1>6. DeniedIsDenied'
    BY DEF IInv, Stations, DeniedIsDenied, Judge, turn, InChain
  <1>7. DangerousInChain'
    BY DEF IInv, TypeOK, Judge, DangerousInChain, DecisionFor, Verdict
  <1>8. UnjudgedInChain'
    BY DEF IInv, Judge, settings, UnjudgedInChain
  <1> QED
    BY <1>1, <1>2, <1>3, <1>4, <1>5, <1>6, <1>7, <1>8 DEF IInv, Floors

LEMMA LoadRulesInv ==
  ASSUME IInv, LoadRules
  PROVE  IInv'
  <1>1. TypeOK'
    BY DEF IInv, TypeOK, LoadRules, settings, turn, PC
  <1>2. Floors'
    BY KeptByOthers DEF LoadRules, settings
  <1>3. Stations'
    BY DEF IInv, LoadRules, Stations
  <1>4. TurnIsTight'
    BY DEF IInv, TurnIsTight, LoadRules, turn
  <1>5. AllowedIsLiftable'
    BY DEF IInv, LoadRules, AllowedIsLiftable, Liftable, turn, InChain
  <1>6. DeniedIsDenied'
    BY DEF IInv, Stations, DeniedIsDenied, LoadRules, turn, InChain
  <1>7. DangerousInChain'
    BY DEF IInv, LoadRules, DangerousInChain, DecisionFor, InChain
  <1>8. UnjudgedInChain'
    BY DEF IInv, LoadRules, settings, UnjudgedInChain
  <1> QED
    BY <1>1, <1>2, <1>3, <1>4, <1>5, <1>6, <1>7, <1>8 DEF IInv, Floors

LEMMA ClassifyInv ==
  ASSUME IInv, Classify
  PROVE  IInv'
  <1>1. TypeOK'
    BY ResolveFloors DEF IInv, TypeOK, Classify, settings, turn, PC
  <1>2. Floors'
    BY KeptByOthers DEF Classify, settings
  <1>3. Stations'
    BY DEF IInv, Classify, Stations
  <1>4. TurnIsTight'
    BY DEF IInv, TurnIsTight, Classify, turn
  <1>5. AllowedIsLiftable'
    BY ResolveFloors DEF IInv, Classify, AllowedIsLiftable, Liftable, turn, InChain
  <1>6. DeniedIsDenied'
    BY DEF IInv, Stations, DeniedIsDenied, Classify, turn, InChain
  <1>7. DangerousInChain'
    BY DEF IInv, Stations, Classify, DangerousInChain
  <1>8. UnjudgedInChain'
    BY DEF IInv, Classify, settings, UnjudgedInChain
  <1> QED
    BY <1>1, <1>2, <1>3, <1>4, <1>5, <1>6, <1>7, <1>8 DEF IInv, Floors

LEMMA EndOfChainInv ==
  ASSUME IInv, EndOfChain
  PROVE  IInv'
  <1>1. TypeOK'
    BY DEF IInv, TypeOK, EndOfChain, settings, turn, chain, PC
  <1>2. Floors'
    BY KeptByOthers DEF EndOfChain, settings
  <1>3. Stations'
    BY DEF IInv, EndOfChain, Stations, chain, Unset
  <1>4. TurnIsTight'
    BY DEF IInv, TurnIsTight, EndOfChain, turn
  <1>5. AllowedIsLiftable'
    BY DEF IInv, EndOfChain, AllowedIsLiftable, Liftable, turn, chain, InChain
  <1>6. DeniedIsDenied'
    BY DEF IInv, Stations, DeniedIsDenied, EndOfChain, turn, chain, InChain
  <1>7. DangerousInChain'
    BY DEF IInv, EndOfChain, DangerousInChain, DecisionFor, chain, InChain
  <1>8. UnjudgedInChain'
    BY DEF IInv, EndOfChain, settings, chain, UnjudgedInChain
  <1> QED
    BY <1>1, <1>2, <1>3, <1>4, <1>5, <1>6, <1>7, <1>8 DEF IInv, Floors

LEMMA EndJudgeInv ==
  ASSUME IInv, EndJudge
  PROVE  IInv'
  <1>1. TypeOK'
    BY DEF IInv, TypeOK, EndJudge, settings, turn, PC, Verdict, Decision, DecisionFor
  <1>2. Floors'
    BY KeptByOthers DEF EndJudge, settings
  <1>3. Stations'
    BY DEF IInv, EndJudge, Stations, Unset
  <1>4. TurnIsTight'
    BY DEF IInv, TurnIsTight, EndJudge, turn
  <1>5. AllowedIsLiftable'
    BY DEF IInv, EndJudge, Stations, AllowedIsLiftable, Liftable, turn, InChain
  <1>6. DeniedIsDenied'
    BY DEF IInv, Stations, DeniedIsDenied, EndJudge, turn, InChain
  <1>7. DangerousInChain'
    BY DEF IInv, TypeOK, EndJudge, DangerousInChain, DecisionFor, Verdict
  <1>8. UnjudgedInChain'
    BY DEF IInv, EndJudge, settings, UnjudgedInChain, Verdict, Unset
  <1> QED
    BY <1>1, <1>2, <1>3, <1>4, <1>5, <1>6, <1>7, <1>8 DEF IInv, Floors

LEMMA BeforeAskInv ==
  ASSUME IInv, BeforeAsk
  PROVE  IInv'
  <1>1. TypeOK'
    BY DEF IInv, TypeOK, BeforeAsk, settings, turn, PC, Decision
  <1>2. Floors'
    BY KeptByOthers DEF BeforeAsk, settings
  <1>3. Stations'
    BY DEF IInv, BeforeAsk, Stations
  <1>4. TurnIsTight'
    BY DEF IInv, TurnIsTight, BeforeAsk, turn
  <1>5. AllowedIsLiftable'
    BY DEF IInv, BeforeAsk, AllowedIsLiftable, Liftable, turn, InChain
  <1>6. DeniedIsDenied'
    BY DEF IInv, Stations, DeniedIsDenied, BeforeAsk, turn, InChain
  <1>7. DangerousInChain'
    BY ApartAssumption DEF IInv, BeforeAsk, Stations, DangerousInChain, DecisionFor, InChain, Unset
  <1>8. UnjudgedInChain'
    BY ApartAssumption DEF IInv, BeforeAsk, settings, UnjudgedInChain
  <1> QED
    BY <1>1, <1>2, <1>3, <1>4, <1>5, <1>6, <1>7, <1>8 DEF IInv, Floors

LEMMA ParkInv ==
  ASSUME IInv, Park
  PROVE  IInv'
  <1>1. TypeOK'
    BY DEF IInv, TypeOK, Park, settings, turn, chain, PC
  <1>2. Floors'
    BY KeptByOthers DEF Park, settings
  <1>3. Stations' /\ DangerousInChain'
    BY ToolAssumption DEF IInv, TypeOK, Park, Stations, DangerousInChain, DecisionFor, chain, InChain
  <1>4. TurnIsTight'
    BY DEF IInv, TurnIsTight, Park, turn
  <1>5. AllowedIsLiftable' /\ DeniedIsDenied' /\ UnjudgedInChain'
    BY DEF IInv, Park, AllowedIsLiftable, DeniedIsDenied, UnjudgedInChain, settings, turn, chain, InChain
  <1> QED
    BY <1>1, <1>2, <1>3, <1>4, <1>5 DEF IInv, Floors

LEMMA RefuseInv ==
  ASSUME IInv, Refuse
  PROVE  IInv'
  <1>1. TypeOK'
    BY DEF IInv, TypeOK, Refuse, settings, turn, chain, PC
  <1>2. Floors'
    BY KeptByOthers DEF Refuse, settings
  <1>3. Stations' /\ DangerousInChain'
    BY ToolAssumption DEF IInv, TypeOK, Refuse, Stations, DangerousInChain, DecisionFor, chain, InChain
  <1>4. TurnIsTight'
    BY DEF IInv, TurnIsTight, Refuse, turn
  <1>5. AllowedIsLiftable' /\ DeniedIsDenied' /\ UnjudgedInChain'
    BY DEF IInv, Refuse, AllowedIsLiftable, DeniedIsDenied, UnjudgedInChain, settings, turn, chain, InChain
  <1> QED
    BY <1>1, <1>2, <1>3, <1>4, <1>5 DEF IInv, Floors

LEMMA ApproveInv ==
  ASSUME IInv, Approve
  PROVE  IInv'
  <1>1. TypeOK'
    BY DEF IInv, TypeOK, Approve, settings, turn, chain, PC
  <1>2. Floors'
    BY KeptByOthers DEF Approve, settings
  <1>3. Stations' /\ DangerousInChain'
    BY ToolAssumption DEF IInv, TypeOK, Approve, Stations, DangerousInChain, DecisionFor, chain, InChain
  <1>4. TurnIsTight'
    BY DEF IInv, TurnIsTight, Approve, turn
  <1>5. AllowedIsLiftable' /\ DeniedIsDenied' /\ UnjudgedInChain'
    BY DEF IInv, Approve, AllowedIsLiftable, DeniedIsDenied, UnjudgedInChain, settings, turn, chain, InChain
  <1> QED
    BY <1>1, <1>2, <1>3, <1>4, <1>5 DEF IInv, Floors

LEMMA RejectInv ==
  ASSUME IInv, Reject
  PROVE  IInv'
  <1>1. TypeOK'
    BY DEF IInv, TypeOK, Reject, settings, turn, chain, PC
  <1>2. Floors'
    BY KeptByOthers DEF Reject, settings
  <1>3. Stations' /\ DangerousInChain'
    BY ToolAssumption DEF IInv, TypeOK, Reject, Stations, DangerousInChain, DecisionFor, chain, InChain
  <1>4. TurnIsTight'
    BY DEF IInv, TurnIsTight, Reject, turn
  <1>5. AllowedIsLiftable' /\ DeniedIsDenied' /\ UnjudgedInChain'
    BY DEF IInv, Reject, AllowedIsLiftable, DeniedIsDenied, UnjudgedInChain, settings, turn, chain, InChain
  <1> QED
    BY <1>1, <1>2, <1>3, <1>4, <1>5 DEF IInv, Floors

LEMMA ExpireInv ==
  ASSUME IInv, Expire
  PROVE  IInv'
  <1>1. TypeOK'
    BY DEF IInv, TypeOK, Expire, settings, turn, chain, PC
  <1>2. Floors'
    BY KeptByOthers DEF Expire, settings
  <1>3. Stations' /\ DangerousInChain'
    BY ToolAssumption DEF IInv, TypeOK, Expire, Stations, DangerousInChain, DecisionFor, chain, InChain
  <1>4. TurnIsTight'
    BY DEF IInv, TurnIsTight, Expire, turn
  <1>5. AllowedIsLiftable' /\ DeniedIsDenied' /\ UnjudgedInChain'
    BY DEF IInv, Expire, AllowedIsLiftable, DeniedIsDenied, UnjudgedInChain, settings, turn, chain, InChain
  <1> QED
    BY <1>1, <1>2, <1>3, <1>4, <1>5 DEF IInv, Floors

\* The record of a call that is run.
Entry(asked) == [tool |-> call.tool, wait |-> call.wait, asked |-> asked,
                 read |-> read, verdict |-> verdict,
                 offered |-> call.tool \in offered, grid |-> perms[call.tool]]

\* An entry above the floors keeps what is said of all of them.
LEMMA KeptByRun ==
  ASSUME IInv, NEW asked \in BOOLEAN, Runs(asked),
         UNCHANGED <<trigger, wasOff>>,
         asked \/ /\ call.tool \notin Fulfilled
                  /\ trigger # "chat" => call.tool \notin Unattended \ Prechecked
                  /\ read => call.tool \notin TaintSet
                  /\ verdict # "dangerous"
                  /\ call.tool \in Risky /\ verdict = Unset => wasOff
                  /\ call.tool \in offered,
         verdict = "dangerous" => trigger = "chat",
         call.tool \in offered \/ call.tool \in Fulfilled \cup Question,
         perms[call.tool] # "deny" \/ call.tool \in Question
  PROVE  Floors' /\ ran' \in SUBSET Ran
  <1>1. ran' = ran \cup {Entry(asked)}
    BY DEF Runs, Entry
  <1>2. Entry(asked) \in Ran
    BY DEF IInv, TypeOK, Entry, Ran, Call
  <1>3. /\ Entry(asked).tool = call.tool /\ Entry(asked).asked = asked
        /\ Entry(asked).read = read /\ Entry(asked).verdict = verdict
        /\ Entry(asked).grid = perms[call.tool]
    BY DEF Entry
  <1>4. Entry(asked).offered = (call.tool \in offered)
    BY DEF Entry
  <1>5. ReadsAreAsked' /\ UnattendedIsAsked'
    BY <1>1, <1>3 DEF IInv, ReadsAreAsked, UnattendedIsAsked
  <1>6. TaintIsAsked' /\ DangerousIsHeld'
    BY <1>1, <1>3 DEF IInv, TaintIsAsked, DangerousIsHeld
  <1>7. RiskyIsJudged' /\ NeverIsFinal'
    BY <1>1, <1>3, <1>4 DEF IInv, RiskyIsJudged, NeverIsFinal
  <1> QED
    BY <1>1, <1>2, <1>5, <1>6, <1>7 DEF IInv, TypeOK, Floors

LEMMA RunToolInv ==
  ASSUME IInv, RunTool
  PROVE  IInv'
  <1>1. Liftable(call.tool) \/ call.tool \in Prechecked
    BY DEF IInv, RunTool, AllowedIsLiftable, InChain
  <1>2. call.tool \in offered /\ (perms[call.tool] # "deny" \/ call.tool \in Question)
    BY DEF IInv, RunTool, DeniedIsDenied, InChain
  <1>3. verdict # "dangerous"
    BY DEF IInv, RunTool, DangerousInChain, DecisionFor, InChain
  <1>4. call.tool \in Risky /\ verdict = Unset => wasOff
    BY DEF IInv, RunTool, UnjudgedInChain
  <1>5. read => tainted
    BY DEF IInv, RunTool, TurnIsTight
  <1>6. Floors' /\ ran' \in SUBSET Ran
    BY <1>1, <1>2, <1>3, <1>4, <1>5, KeptByRun, ApartAssumption
    DEF RunTool, settings, Liftable, Pinned
  <1>7. TypeOK'
    BY <1>6 DEF IInv, TypeOK, RunTool, settings, turn, chain, PC
  <1>8. Stations' /\ DangerousInChain' /\ TurnIsTight'
    BY <1>3 DEF IInv, RunTool, Stations, DangerousInChain, TurnIsTight, turn, chain, InChain
  <1>9. AllowedIsLiftable' /\ DeniedIsDenied' /\ UnjudgedInChain'
    BY DEF IInv, RunTool, AllowedIsLiftable, DeniedIsDenied, UnjudgedInChain, settings, InChain
  <1> QED
    BY <1>6, <1>7, <1>8, <1>9 DEF IInv, Floors

LEMMA ResumeInv ==
  ASSUME IInv, Resume
  PROVE  IInv'
  <1>1. perms[call.tool] # "deny" \/ call.tool \in Question
    BY DEF IInv, Resume, DeniedIsDenied
  <1>2. verdict = "dangerous" => trigger = "chat"
    BY DEF IInv, Resume, DangerousInChain
  <1>3. Floors' /\ ran' \in SUBSET Ran
    <2>1. CASE Runs(TRUE) /\ (call.tool \in offered \/ call.tool \in Fulfilled \cup Question)
      BY <2>1, <1>1, <1>2, KeptByRun DEF Resume, settings
    <2>2. CASE UNCHANGED ran
      BY <2>2, KeptByOthers DEF IInv, TypeOK, Resume, settings
    <2> QED
      BY <2>1, <2>2 DEF Resume
  <1>4. TypeOK'
    BY <1>3 DEF IInv, TypeOK, Resume, settings, turn, chain, PC
  <1>5. Stations' /\ DangerousInChain' /\ TurnIsTight'
    BY DEF IInv, Resume, Stations, DangerousInChain, TurnIsTight, turn, chain, InChain
  <1>6. AllowedIsLiftable' /\ DeniedIsDenied' /\ UnjudgedInChain'
    BY DEF IInv, Resume, AllowedIsLiftable, DeniedIsDenied, UnjudgedInChain, settings, InChain
  <1> QED
    BY <1>3, <1>4, <1>5, <1>6 DEF IInv, Floors

\* A change of the settings touches the run only through what it reads later.
LEMMA SettingsInv ==
  ASSUME IInv, stored' \in [Tool -> Decision \cup {Unset}],
         rules' \in [Tool -> Behaviour \cup {Unset}],
         judgeOn' \in BOOLEAN, wasOff' \in BOOLEAN,
         wasOff => wasOff', judgeOn' \/ wasOff',
         edits' \in 0 .. MaxEdits,
         UNCHANGED <<trigger, pc, turn, call, chain, read, calls, ran>>
  PROVE  IInv'
  <1>1. TypeOK'
    BY DEF IInv, TypeOK, turn, chain
  <1>2. Floors'
    BY KeptByOthers
  <1>3. Stations' /\ DangerousInChain' /\ TurnIsTight' /\ DeniedIsDenied'
    BY DEF IInv, Stations, DangerousInChain, DecisionFor, TurnIsTight, DeniedIsDenied, turn, chain
  <1>4. AllowedIsLiftable'
    BY DEF IInv, AllowedIsLiftable, Liftable, turn, chain
  <1>5. UnjudgedInChain'
    BY DEF IInv, TypeOK, UnjudgedInChain, chain
  <1> QED
    BY <1>1, <1>2, <1>3, <1>4, <1>5 DEF IInv, Floors

\* What is stored is a change of the defaults.
LEMMA SetPermissionsType ==
  ASSUME NEW map \in [Tool -> Decision], SetPermissions(map)
  PROVE  stored' \in [Tool -> Decision \cup {Unset}]
  BY DEF SetPermissions

LEMMA EditsInv ==
  ASSUME IInv, \/ \E d \in {"allow", "deny"} : Remember(d)
               \/ \E t \in Tool, d \in Decision : PutPermission(t, d)
               \/ \E t \in Tool, b \in Behaviour \cup {Unset} : PutRule(t, b)
               \/ \E on \in BOOLEAN : SetJudge(on)
  PROVE  IInv'
  <1>1. judgeOn \in BOOLEAN /\ wasOff \in BOOLEAN /\ (judgeOn \/ wasOff)
    BY DEF IInv, TypeOK, UnjudgedInChain
  <1>2. Edit => edits' \in 0 .. MaxEdits
    BY BoundAssumption DEF IInv, TypeOK, Edit
  <1>3. ASSUME NEW d \in {"allow", "deny"}, Remember(d) PROVE IInv'
    <2>1. [GetPermissions EXCEPT ![call.tool] = d] \in [Tool -> Decision]
      BY GridType DEF IInv, Decision
    <2>2. stored' \in [Tool -> Decision \cup {Unset}]
      BY <1>3, <2>1, SetPermissionsType DEF Remember
    <2>3. rules' \in [Tool -> Behaviour \cup {Unset}]
      BY <1>3 DEF IInv, TypeOK, Remember, Behaviour
    <2> QED
      BY <1>1, <1>2, <1>3, <2>2, <2>3, SettingsInv DEF Remember
  <1>4. ASSUME NEW t \in Tool, NEW d \in Decision, PutPermission(t, d) PROVE IInv'
    <2>1. [GetPermissions EXCEPT ![t] = d] \in [Tool -> Decision]
      BY GridType DEF IInv
    <2>2. stored' \in [Tool -> Decision \cup {Unset}]
      BY <1>4, <2>1, SetPermissionsType DEF PutPermission
    <2> QED
      BY <1>1, <1>2, <1>4, <2>2, SettingsInv DEF PutPermission, IInv, TypeOK
  <1>5. ASSUME NEW t \in Tool, NEW b \in Behaviour \cup {Unset}, PutRule(t, b) PROVE IInv'
    <2>1. rules' \in [Tool -> Behaviour \cup {Unset}]
      BY <1>5 DEF IInv, TypeOK, PutRule
    <2> QED
      BY <1>1, <1>2, <1>5, <2>1, SettingsInv DEF PutRule, IInv, TypeOK
  <1>6. ASSUME NEW on \in BOOLEAN, SetJudge(on) PROVE IInv'
    <2>1. judgeOn' \in BOOLEAN /\ wasOff' \in BOOLEAN /\ (wasOff => wasOff') /\ (judgeOn' \/ wasOff')
      BY <1>1, <1>6 DEF SetJudge
    <2> QED
      BY <1>2, <1>6, <2>1, SettingsInv DEF SetJudge, IInv, TypeOK
  <1> QED
    BY <1>3, <1>4, <1>5, <1>6

LEMMA NextInv == IInv /\ [Next]_vars => IInv'
  <1> SUFFICES ASSUME IInv, [Next]_vars PROVE IInv'
    OBVIOUS
  <1>1. CASE UNCHANGED vars
    BY <1>1 DEF vars, settings, turn, chain, IInv, TypeOK, Stations, TurnIsTight,
      AllowedIsLiftable, Liftable, DeniedIsDenied, DangerousInChain, DecisionFor,
      UnjudgedInChain, ReadsAreAsked, UnattendedIsAsked, TaintIsAsked, DangerousIsHeld,
      RiskyIsJudged, NeverIsFinal
  <1>2. CASE Next
    BY <1>2, BuildInv, StartTurnInv, GateInv, JudgeInv, LoadRulesInv, ClassifyInv, EndOfChainInv,
      EndJudgeInv, BeforeAskInv, ParkInv, RefuseInv, RunToolInv, ApproveInv, RejectInv,
      ExpireInv, ResumeInv, EditsInv
    DEF Next
  <1> QED
    BY <1>1, <1>2

-----------------------------------------------------------------------------
(***************************************************************************)
(* The theorems                                                            *)
(***************************************************************************)

\* Along the whole chain, and across every pause and change of the settings,
\* what is allowed is above the floors.
THEOREM InductiveInvariant == Spec => []IInv
  BY InitInv, NextInv, PTL DEF Spec

\* read_file never runs but by the approval of that call.
THEOREM SafetyReads == Spec => []ReadsAreAsked
  <1>1. IInv => ReadsAreAsked
    BY DEF IInv
  <1> QED
    BY <1>1, InductiveInvariant, PTL

\* An unattended run never runs a tool of tighten_set unasked.
THEOREM SafetyUnattended == Spec => []UnattendedIsAsked
  <1>1. IInv => UnattendedIsAsked
    BY DEF IInv
  <1> QED
    BY <1>1, InductiveInvariant, PTL

\* A run that has read Josh's files never again runs an egress or memory tool
\* unasked.
THEOREM SafetyTaint == Spec => []TaintIsAsked
  <1>1. IInv => TaintIsAsked
    BY DEF IInv
  <1> QED
    BY <1>1, InductiveInvariant, PTL

\* What the judge called dangerous runs only by an approval in a chat.
THEOREM SafetyDangerous == Spec => []DangerousIsHeld
  <1>1. IInv => DangerousIsHeld
    BY DEF IInv
  <1> QED
    BY <1>1, InductiveInvariant, PTL

\* While the judge is on, no risky call runs unasked and unjudged.
THEOREM SafetyJudged == Spec => []RiskyIsJudged
  <1>1. IInv => RiskyIsJudged
    BY DEF IInv
  <1> QED
    BY <1>1, InductiveInvariant, PTL

\* What the run's copies of the grid deny is not run, a result that came with
\* an approval and ask_josh apart.
THEOREM SafetyNever == Spec => []NeverIsFinal
  <1>1. IInv => NeverIsFinal
    BY DEF IInv
  <1> QED
    BY <1>1, InductiveInvariant, PTL

\* No later station of the chain takes a refusal back.
THEOREM RefusalIsKept == Spec => RefusalStays
  <1>1. IInv /\ [Next]_vars => [decision = "deny" /\ calls' = calls => decision' = "deny"]_vars
    <2> SUFFICES ASSUME IInv, Next, decision = "deny", calls' = calls PROVE decision' = "deny"
      BY DEF vars
    <2>1. \A t \in Tool, wait \in BOOLEAN : ~Gate(t, wait)
      BY DEF IInv, TypeOK, Gate
    <2> QED
      BY <2>1 DEF Next, IInv, Stations, Build, StartTurn, Judge, LoadRules, Classify, EndOfChain,
        EndJudge, BeforeAsk, Park, Refuse, RunTool, Remember, Approve, Reject, Expire,
        Resume, PutPermission, PutRule, SetJudge, chain
  <1> QED
    BY <1>1, InductiveInvariant, PTL DEF Spec, RefusalStays

-----------------------------------------------------------------------------
(***************************************************************************)
(* Machines: the inductive invariant                                       *)
(***************************************************************************)

\* Of every bot: who holds the lock is at its machine, a row is whole, and the
\* reaper is at one machine at a time.
Held(b) ==
  /\ desk[b] = "tool" <=> at[b]["tool"].pc # "away"
  /\ desk[b] = "panel" <=> at[b]["panel"].pc # "away"
  /\ at[b]["panel"].pc \in {"away", "inspect", "answered"}
  /\ desk[b] = "reaper" => sweep.pc \in {"stop", "write"}
  /\ row[b].state = "none" => row[b] = NoRow

OneReaper == \A b, c \in Bot : desk[b] = "reaper" /\ desk[c] = "reaper" => b = c

\* Of a caller whose bot is not excused: it knows the slot of the row, and what
\* it goes by is still so.
Informed(b, k) ==
  /\ at[b][k].pc # "away" => row[b].state # "none" /\ at[b][k].slot = row[b].slot
  /\ at[b][k].pc = "run" => box[b].is = "absent"
  /\ at[b][k].pc = "start" => box[b].is \in {"created", "exited"}
  /\ at[b][k].pc = "answered" => (at[b][k].ok <=> box[b].is = "running")
  /\ at[b][k].pc = "has" /\ at[b][k].ok => box[b].is = "running"

\* Of a bot that is not excused: one caller at a time, the container has the
\* slot of the row, and a machine that runs is awake in its row, or about to be.
Clean(b) ==
  /\ at[b]["delivery"].pc # "away" => desk[b] = "free"
  /\ box[b].is # "absent" => row[b].state # "none" /\ box[b].slot = row[b].slot
  /\ Informed(b, "tool") /\ Informed(b, "delivery")
  /\ at[b]["panel"].pc = "answered" => (at[b]["panel"].ok <=> box[b].is = "running")
  /\ desk[b] = "reaper" /\ sweep.pc = "write" => box[b].is # "running"
  /\ box[b].is = "running" =>
       Awake(b) \/ at[b]["tool"].pc = "answered" \/ at[b]["delivery"].pc = "answered"

MachinesInv ==
  /\ MachinesOK
  /\ OneReaper
  /\ \A b \in Bot : Held(b) /\ (b \in excused \/ Clean(b))

-----------------------------------------------------------------------------
(***************************************************************************)
(* Machines: the operators                                                 *)
(***************************************************************************)

\* next_slot: among free slots there is a least one.
LEMMA LeastSlot ==
  ASSUME MachinesOK, FreeSlots # {}
  PROVE  Min(FreeSlots) \in FreeSlots
<1>1. FreeSlots \in SUBSET Nat
  BY MachinesAssumption DEF FreeSlots, Slot
<1>2. PICK x \in FreeSlots : \A y \in FreeSlots : ~ (<<y, x>> \in OpToRel(<, Nat))
  BY <1>1, NatLessThanWellFounded, WFMin
<1>3. ASSUME NEW y \in FreeSlots PROVE x <= y
  <2>1. x \in Nat /\ y \in Nat
    BY <1>1
  <2>2. ~ (y < x)
    BY <1>2, <2>1 DEF OpToRel
  <2> QED
    BY <2>1, <2>2
<1> QED
  BY <1>3 DEF Min

\* A row is whole: no state, no row.
LEMMA RowOrNot == ASSUME NEW b \in Bot, Held(b) PROVE HasRow(b) <=> row[b].state # "none"
  BY DEF Held, HasRow, NoRow

\* touch and set_state write the state of a row there is, and nothing else but
\* its stamp.
LEMMA TouchRow ==
  ASSUME MachinesOK, NEW b \in Bot, Held(b), NEW stamp \in Stamp,
         NEW state \in {"running", "starting", "stopped"},
         Touch(b, stamp, state) \/ SetState(b, state)
  PROVE  /\ row' \in [Bot -> [slot : 0 .. Slots, state : {"none", "new", "starting", "running", "stopped"}, used : Stamp]]
         /\ row'[b].slot = row[b].slot
         /\ row[b].state = "none" => row'[b] = row[b]
         /\ row[b].state # "none" => row'[b].state = state
         /\ \A c \in Bot \ {b} : row'[c] = row[c]
<1> DEFINE Row == [slot : 0 .. Slots, state : {"none", "new", "starting", "running", "stopped"}, used : Stamp]
<1>1. row \in [Bot -> Row] /\ row[b] \in Row
  BY DEF MachinesOK
<1>2. HasRow(b) <=> row[b].state # "none"
  BY RowOrNot
<1>3. CASE ~ HasRow(b)
  BY <1>1, <1>2, <1>3 DEF Touch, SetState
<1>4. CASE HasRow(b) /\ Touch(b, stamp, state)
  <2> DEFINE new == [row[b] EXCEPT !.state = state, !.used = stamp]
  <2>1. new \in Row /\ new.slot = row[b].slot /\ new.state = state
    BY <1>1
  <2>2. row' = [row EXCEPT ![b] = new]
    BY <1>4 DEF Touch
  <2> QED
    BY <1>1, <1>2, <1>4, <2>1, <2>2
<1>5. CASE HasRow(b) /\ SetState(b, state)
  BY <1>1, <1>2, <1>5 DEF SetState
<1> QED
  BY <1>3, <1>4, <1>5

\* A container's record comes back from docker as one.
LEMMA DockerType ==
  ASSUME MachinesOK, NEW b \in Bot, NEW slot \in 0 .. Slots,
         NEW result \in {DockerRun(b, slot), DockerStart(b), DockerStop(b)}
  PROVE  /\ result.done \in BOOLEAN
         /\ result.box \in [is : {"absent", "created", "exited", "running"}, slot : 0 .. Slots]
<1>1. box[b] \in [is : {"absent", "created", "exited", "running"}, slot : 0 .. Slots]
  BY DEF MachinesOK
<1>2. CASE result = DockerRun(b, slot)
  BY <1>1, <1>2 DEF DockerRun
<1>3. CASE result = DockerStart(b)
  BY <1>1, <1>3 DEF DockerStart
<1>4. CASE result = DockerStop(b)
  BY <1>1, <1>4 DEF DockerStop
<1> QED
  BY <1>2, <1>3, <1>4

\* A docker call moves the container of its bot only, and as it was told to
\* unless that excuses the bot.
LEMMA CalledBox ==
  ASSUME MachinesOK, NEW b \in Bot, NEW result, NEW ok \in BOOLEAN,
         result.box \in [is : {"absent", "created", "exited", "running"}, slot : 0 .. Slots],
         Called(b, result, ok)
  PROVE  /\ box' \in [Bot -> [is : {"absent", "created", "exited", "running"}, slot : 0 .. Slots]]
         /\ \A c \in Bot \ {b} : box'[c] = box[c]
         /\ b \in excused' \/ (ok = result.done /\ box'[b] = result.box)
         /\ Excuse({}) \/ Excuse({b})
<1> DEFINE Box == [is : {"absent", "created", "exited", "running"}, slot : 0 .. Slots]
<1>1. box \in [Bot -> Box] /\ result.box \in Box
  BY DEF MachinesOK
<1>2. box' = box \/ box' = [box EXCEPT ![b] = result.box]
  BY DEF Called
<1>3. /\ box' \in [Bot -> Box]
      /\ \A c \in Bot \ {b} : box'[c] = box[c]
  <2> HIDE DEF Box
  <2> QED
    BY <1>1, <1>2
<1>4. CASE ok = result.done /\ box' = [box EXCEPT ![b] = result.box] /\ Excuse({})
  <2>1. box'[b] = result.box
    BY <1>1, <1>4
  <2> QED
    BY <1>3, <1>4, <2>1
<1>5. CASE Excuse({b})
  <2>1. b \in excused'
    BY <1>5 DEF Excuse
  <2> QED
    BY <1>3, <1>5, <2>1
<1> QED
  BY <1>4, <1>5 DEF Called

-----------------------------------------------------------------------------
(***************************************************************************)
(* Machines: what a step leaves alone                                      *)
(***************************************************************************)

\* What the invariant looks at of bot c is as it was.
Kept(c) ==
  /\ row'[c].state = row[c].state /\ row'[c].slot = row[c].slot
  /\ row[c] = NoRow => row'[c] = NoRow
  /\ box'[c] = box[c] /\ desk'[c] = desk[c]
  /\ \A k \in Caller : /\ at'[c][k].pc = at[c][k].pc
                       /\ at'[c][k].slot = at[c][k].slot
                       /\ at'[c][k].ok = at[c][k].ok
  /\ sweep'.pc = sweep.pc \/ desk[c] # "reaper"

LEMMA KeptBot ==
  ASSUME NEW c \in Bot, Held(c), c \in excused \/ Clean(c), Kept(c), excused \subseteq excused'
  PROVE  Held(c)' /\ (c \in excused' \/ Clean(c)')
<1>1. Held(c)'
  BY DEF Held, Kept, Caller, NoRow
<1>2. ASSUME Clean(c) PROVE Clean(c)'
  <2>1. Informed(c, "tool")' /\ Informed(c, "delivery")'
    BY <1>2 DEF Clean, Informed, Kept, Caller
  <2> QED
    BY <1>2, <2>1 DEF Clean, Kept, Caller, Awake
<1> QED
  BY <1>1, <1>2

\* What a step of one bot's machine has to show.
LEMMA OneBot ==
  ASSUME MachinesInv, NEW b \in Bot, MachinesOK',
         excused \subseteq excused',
         \A c \in Bot \ {b} : Kept(c),
         desk'[b] = "reaper" => desk[b] = "reaper" \/ \A c \in Bot : desk[c] # "reaper",
         Held(b)', b \in excused' \/ Clean(b)'
  PROVE  MachinesInv'
<1>1. \A c \in Bot : Held(c)' /\ (c \in excused' \/ Clean(c)')
  BY KeptBot DEF MachinesInv
<1>2. OneReaper'
  BY DEF MachinesInv, OneReaper, Kept
<1> QED
  BY <1>1, <1>2 DEF MachinesInv

\* What is excused stays excused, and a delivery beside a holder of the lock is.
LEMMA Excused ==
  ASSUME MachinesOK, NEW more \in SUBSET Bot, Excuse(more)
  PROVE  /\ excused \subseteq excused' /\ excused' \subseteq Bot /\ more \subseteq excused'
         /\ \A b \in Bot : at'[b]["delivery"].pc # "away" /\ desk'[b] # "free" => b \in excused'
  BY DEF MachinesOK, Excuse, Overlap

\* ensure_vm and the panel move their own place only.
LEMMA GoAt ==
  ASSUME MachinesOK, NEW b \in Bot, NEW k \in Caller,
         NEW to \in {"away", "inspect", "run", "start", "answered", "has"}, NEW ok \in BOOLEAN,
         \/ Go(b, k, to) /\ ok = at[b][k].ok
         \/ Answer(b, k, ok) /\ to = "answered"
  PROVE  /\ at' \in [Bot -> [Caller -> [pc : {"away", "inspect", "run", "start", "answered", "has"},
                                        slot : 0 .. Slots, stamp : Stamp, ok : BOOLEAN]]]
         /\ at'[b][k].pc = to /\ at'[b][k].ok = ok /\ at'[b][k].slot = at[b][k].slot
         /\ \A j \in Caller \ {k} : at'[b][j] = at[b][j]
         /\ \A c \in Bot \ {b} : at'[c] = at[c]
<1> DEFINE Place == [pc : {"away", "inspect", "run", "start", "answered", "has"},
                     slot : 0 .. Slots, stamp : Stamp, ok : BOOLEAN]
<1> DEFINE new == [at[b][k] EXCEPT !.pc = to, !.ok = ok]
<1>1. at \in [Bot -> [Caller -> Place]] /\ at[b] \in [Caller -> Place] /\ at[b][k] \in Place
  BY DEF MachinesOK
<1>2. new \in Place /\ new.pc = to /\ new.ok = ok /\ new.slot = at[b][k].slot
  BY <1>1
<1>3. CASE Go(b, k, to) /\ ok = at[b][k].ok
  <2>1. [at[b][k] EXCEPT !.pc = to] = new
    BY <1>1, <1>3
  <2> QED
    BY <1>1, <1>2, <1>3, <2>1 DEF Go
<1>4. CASE Answer(b, k, ok) /\ to = "answered"
  <2>1. at' = [at EXCEPT ![b][k] = new]
    BY <1>1, <1>4 DEF Answer
  <2> HIDE DEF new
  <2>2. at'[b] = [at[b] EXCEPT ![k] = new] /\ \A c \in Bot \ {b} : at'[c] = at[c]
    BY <1>1, <2>1
  <2>3. at' \in [Bot -> [Caller -> Place]]
    <3> HIDE DEF Place
    <3> QED
      BY <1>1, <1>2, <2>1
  <2> QED
    BY <1>1, <1>2, <2>2, <2>3
<1> QED
  BY <1>3, <1>4

LEMMA LeaveAt ==
  ASSUME MachinesOK, NEW b \in Bot, NEW k \in Caller, Leave(b, k)
  PROVE  /\ at' \in [Bot -> [Caller -> [pc : {"away", "inspect", "run", "start", "answered", "has"},
                                        slot : 0 .. Slots, stamp : Stamp, ok : BOOLEAN]]]
         /\ desk' \in [Bot -> {"free", "tool", "panel", "reaper"}]
         /\ at'[b][k].pc = "away"
         /\ \A j \in Caller \ {k} : at'[b][j] = at[b][j]
         /\ \A c \in Bot \ {b} : at'[c] = at[c] /\ desk'[c] = desk[c]
         /\ desk'[b] = IF k = "delivery" THEN desk[b] ELSE "free"
<1>1. Away \in [pc : {"away", "inspect", "run", "start", "answered", "has"},
                slot : 0 .. Slots, stamp : Stamp, ok : BOOLEAN] /\ Away.pc = "away"
  BY MachinesAssumption DEF Away, Stamp
<1> QED
  BY <1>1 DEF MachinesOK, Leave

-----------------------------------------------------------------------------
(***************************************************************************)
(* Machines: the steps of ensure_vm and of the tool                        *)
(***************************************************************************)

LEMMA AskInv ==
  ASSUME MachinesInv, NEW b \in Bot, NEW k \in Caller, Ask(b, k)
  PROVE  MachinesInv'
<1> DEFINE Row == [slot : 0 .. Slots, state : {"none", "new", "starting", "running", "stopped"}, used : Stamp]
<1> DEFINE Place == [pc : {"away", "inspect", "run", "start", "answered", "has"},
                     slot : 0 .. Slots, stamp : Stamp, ok : BOOLEAN]
<1>0. MachinesOK /\ Held(b) /\ (b \in excused \/ Clean(b))
  BY DEF MachinesInv
<1>1. /\ k \in {"tool", "delivery"} /\ at[b][k].pc = "away"
      /\ UNCHANGED <<alive, box, sweep, mishaps>> /\ uses' \in 0 .. MaxUses
      /\ IF k = "tool" THEN desk[b] = "free" /\ desk' = [desk EXCEPT ![b] = "tool"] ELSE desk' = desk
  BY <1>0, MachinesAssumption DEF Ask, Away, MachinesOK
<1>2. /\ excused \subseteq excused' /\ excused' \subseteq Bot
      /\ at'[b]["delivery"].pc # "away" /\ desk'[b] # "free" => b \in excused'
  BY <1>0, Excused DEF Ask
<1>3. row \in [Bot -> Row] /\ row[b] \in Row /\ at \in [Bot -> [Caller -> Place]] /\ at[b] \in [Caller -> Place]
  BY <1>0 DEF MachinesOK
<1>4. HasRow(b) <=> row[b].state # "none"
  BY <1>0, RowOrNot
<1>5. PICK slot \in 0 .. Slots :
        /\ slot = IF HasRow(b) THEN row[b].slot ELSE Min(FreeSlots)
        /\ row' = IF HasRow(b) THEN row
                  ELSE [row EXCEPT ![b] = [slot |-> slot, state |-> "new", used |-> "fresh"]]
        /\ at' = [at EXCEPT ![b][k] = [pc |-> "inspect", slot |-> slot, stamp |-> "fresh", ok |-> TRUE]]
  <2>1. CASE HasRow(b)
    BY <1>3, <2>1 DEF Ask
  <2>2. CASE ~ HasRow(b)
    <3>1. FreeSlots # {}
      BY <2>2 DEF Ask
    <3>2. Min(FreeSlots) \in 0 .. Slots
      BY <1>0, <3>1, LeastSlot, MachinesAssumption DEF FreeSlots, Slot
    <3> QED
      BY <2>2, <3>2 DEF Ask
  <2> QED
    BY <2>1, <2>2
<1> DEFINE new == [pc |-> "inspect", slot |-> slot, stamp |-> "fresh", ok |-> TRUE]
<1>6. new \in Place /\ new.pc = "inspect" /\ new.slot = slot
  BY DEF Stamp
<1>7. /\ row' \in [Bot -> Row] /\ row'[b].slot = slot /\ row'[b].state # "none"
      /\ row[b].state # "none" => row'[b] = row[b]
      /\ \A c \in Bot \ {b} : row'[c] = row[c]
  BY <1>3, <1>4, <1>5 DEF Stamp
<1>8. /\ at'[b][k] = new /\ \A j \in Caller \ {k} : at'[b][j] = at[b][j]
      /\ \A c \in Bot \ {b} : at'[c] = at[c]
  <2> HIDE DEF Place
  <2> QED
    BY <1>3, <1>5
<1>9. at' \in [Bot -> [Caller -> Place]]
  <2> HIDE DEF Place, new
  <2>1. at' = [at EXCEPT ![b][k] = new]
    BY <1>5 DEF new
  <2> QED
    BY <1>3, <1>6, <2>1
<1>10. /\ desk' \in [Bot -> {"free", "tool", "panel", "reaper"}]
       /\ \A c \in Bot \ {b} : desk'[c] = desk[c]
       /\ desk'[b] = IF k = "tool" THEN "tool" ELSE desk[b]
       /\ k = "tool" => desk[b] = "free"
  BY <1>0, <1>1 DEF MachinesOK
<1>11. MachinesOK'
  BY <1>0, <1>1, <1>2, <1>7, <1>9, <1>10 DEF MachinesOK
<1>12. \A c \in Bot \ {b} : Kept(c)
  BY <1>1, <1>7, <1>8, <1>10 DEF Kept
<1>13. Held(b)'
  BY <1>0, <1>1, <1>6, <1>7, <1>8, <1>10 DEF Held, Caller
<1>14. ASSUME b \notin excused' PROVE Clean(b)'
  <2>1. Clean(b) /\ box'[b] = box[b] /\ sweep' = sweep
    BY <1>0, <1>1, <1>2, <1>14
  <2>2. row[b].state = "none" => box[b].is = "absent"
    BY <2>1 DEF Clean
  <2>3. row'[b].state # "none" /\ row'[b].slot = slot /\ (row[b].state # "none" => row'[b] = row[b])
    BY <1>7
  <2>4. Informed(b, k)'
    BY <1>6, <1>8, <2>3 DEF Informed
  <2>5. ASSUME NEW j \in {"tool", "delivery"} \ {k} PROVE Informed(b, j)'
    <3>1. at'[b][j] = at[b][j] /\ Informed(b, j)
      BY <1>8, <2>1 DEF Clean, Caller
    <3> QED
      BY <2>1, <2>3, <3>1 DEF Informed
  <2>6. Informed(b, "tool")' /\ Informed(b, "delivery")'
    BY <1>1, <2>4, <2>5
  <2>7. at'[b]["delivery"].pc # "away" => desk'[b] = "free"
    BY <1>2, <1>14
  <2>8. at'[b]["panel"] = at[b]["panel"]
    BY <1>1, <1>8 DEF Caller
  <2>9. box[b].is = "running" => Awake(b)' \/ at'[b]["tool"].pc = "answered" \/ at'[b]["delivery"].pc = "answered"
    BY <1>1, <1>8, <2>1, <2>2, <2>3 DEF Clean, Awake, Caller
  <2>10. box[b].is # "absent" => box[b].slot = row'[b].slot
    BY <2>1, <2>2, <2>3 DEF Clean
  <2>11. desk'[b] = "reaper" => desk[b] = "reaper"
    BY <1>10
  <2> QED
    BY <2>1, <2>3, <2>6, <2>7, <2>8, <2>9, <2>10, <2>11 DEF Clean
<1>15. desk'[b] = "reaper" => desk[b] = "reaper"
  BY <1>10
<1> QED
  BY <1>2, <1>11, <1>12, <1>13, <1>14, <1>15, OneBot

\* Who holds a machine that is not excused is alone with it.
LEMMA Alone ==
  ASSUME NEW b \in Bot, Held(b), Clean(b), NEW k \in {"tool", "delivery"}, at[b][k].pc # "away"
  PROVE  /\ \A j \in Caller \ {k} : at[b][j].pc = "away"
         /\ desk[b] # "reaper"
  BY DEF Held, Clean, Caller

\* A step of an ensure: it moves its caller, and the row or the container of
\* its bot.  What is left to show is that the caller goes by what is so.
LEMMA Ensured ==
  ASSUME MachinesInv, NEW b \in Bot, NEW k \in {"tool", "delivery"}, at[b][k].pc # "away",
         UNCHANGED <<alive, sweep, limits, desk>>,
         NEW to \in {"inspect", "run", "start", "answered", "has"}, NEW ok \in BOOLEAN,
         \/ Go(b, k, to) /\ ok = at[b][k].ok
         \/ Answer(b, k, ok) /\ to = "answered",
         NEW more \in SUBSET Bot, Excuse(more),
         \/ row' = row
         \/ \E stamp \in Stamp, state \in {"running", "starting", "stopped"} : Touch(b, stamp, state),
         box' \in [Bot -> [is : {"absent", "created", "exited", "running"}, slot : 0 .. Slots]],
         \A c \in Bot \ {b} : box'[c] = box[c],
         \/ b \in excused'
         \/ /\ box'[b].is # "absent" => box'[b].slot = row[b].slot
            /\ to = "run" => box'[b].is = "absent"
            /\ to = "start" => box'[b].is \in {"created", "exited"}
            /\ to = "answered" => (ok <=> box'[b].is = "running")
            /\ to = "has" /\ ok => box'[b].is = "running"
            /\ box'[b].is = "running" => Awake(b)' \/ to = "answered"
  PROVE  MachinesInv'
<1>0. MachinesOK /\ Held(b) /\ (b \in excused \/ Clean(b))
  BY DEF MachinesInv
<1>1. /\ excused \subseteq excused' /\ excused' \subseteq Bot
      /\ at'[b]["delivery"].pc # "away" /\ desk'[b] # "free" => b \in excused'
  BY <1>0, Excused
<1>2. /\ row' \in [Bot -> [slot : 0 .. Slots, state : {"none", "new", "starting", "running", "stopped"}, used : Stamp]]
      /\ row'[b].slot = row[b].slot
      /\ row[b].state = "none" => row'[b] = row[b]
      /\ row[b].state # "none" => row'[b].state # "none"
      /\ \A c \in Bot \ {b} : row'[c] = row[c]
  <2>1. CASE row' = row
    BY <1>0, <2>1 DEF MachinesOK
  <2>2. ASSUME NEW stamp \in Stamp, NEW state \in {"running", "starting", "stopped"}, Touch(b, stamp, state)
        PROVE  <1>2!:
    BY <1>0, <2>2, TouchRow
  <2> QED
    BY <2>1, <2>2
<1>3. k \in Caller /\ to # "away"
  BY DEF Caller
<1>4. /\ at' \in [Bot -> [Caller -> [pc : {"away", "inspect", "run", "start", "answered", "has"},
                                     slot : 0 .. Slots, stamp : Stamp, ok : BOOLEAN]]]
      /\ at'[b][k].pc = to /\ at'[b][k].ok = ok /\ at'[b][k].slot = at[b][k].slot
      /\ \A j \in Caller \ {k} : at'[b][j] = at[b][j]
      /\ \A c \in Bot \ {b} : at'[c] = at[c]
  BY <1>0, <1>3, GoAt
<1>5. MachinesOK'
  BY <1>0, <1>1, <1>2, <1>4 DEF MachinesOK, limits
<1>6. \A c \in Bot \ {b} : Kept(c)
  BY <1>2, <1>4 DEF Kept
<1>7. Held(b)'
  BY <1>0, <1>2, <1>3, <1>4 DEF Held, Caller
<1>8. ASSUME b \notin excused' PROVE Clean(b)'
  <2>1. Clean(b)
    BY <1>0, <1>1, <1>8
  <2>2. /\ \A j \in Caller \ {k} : at'[b][j].pc = "away"
        /\ desk'[b] # "reaper"
    <3>1. (\A j \in Caller \ {k} : at[b][j].pc = "away") /\ desk[b] # "reaper"
      BY <1>0, <2>1, Alone
    <3>2. desk' = desk
      OBVIOUS
    <3> QED
      BY <1>4, <3>1, <3>2
  <2>3. row'[b].state # "none" /\ at'[b][k].slot = row'[b].slot
    BY <1>2, <1>4, <2>1 DEF Clean, Informed
  <2>4. Informed(b, k)'
    BY <1>2, <1>4, <1>8, <2>3 DEF Informed
  <2>5. ASSUME NEW j \in {"tool", "delivery"} \ {k} PROVE Informed(b, j)'
    BY <2>2 DEF Informed, Caller
  <2>6. Informed(b, "tool")' /\ Informed(b, "delivery")'
    BY <2>4, <2>5
  <2>7. at'[b]["panel"].pc = "away"
    BY <2>2 DEF Caller
  <2>8. box'[b].is = "running" =>
          Awake(b)' \/ at'[b]["tool"].pc = "answered" \/ at'[b]["delivery"].pc = "answered"
    BY <1>4, <1>8
  <2> QED
    BY <1>1, <1>2, <1>8, <2>2, <2>3, <2>6, <2>7, <2>8 DEF Clean
<1>9. desk'[b] = desk[b]
  OBVIOUS
<1> QED
  BY <1>1, <1>5, <1>6, <1>7, <1>8, <1>9, OneBot

LEMMA InspectInv ==
  ASSUME MachinesInv, NEW b \in Bot, NEW k \in Caller, Inspect(b, k)
  PROVE  MachinesInv'
<1>0. MachinesOK /\ Held(b) /\ (b \in excused \/ Clean(b))
  BY DEF MachinesInv
<1>1. /\ k \in {"tool", "delivery"} /\ at[b][k].pc = "inspect" /\ box' = box
      /\ UNCHANGED <<alive, sweep, limits, desk>>
  BY DEF Inspect
<1>2. /\ at[b][k].stamp \in Stamp /\ at[b][k].ok \in BOOLEAN
      /\ box' \in [Bot -> [is : {"absent", "created", "exited", "running"}, slot : 0 .. Slots]]
  BY <1>0, <1>1 DEF MachinesOK, Caller
<1>3. ASSUME b \notin excused', excused \subseteq excused'
      PROVE  /\ box[b].is # "absent" => box[b].slot = row[b].slot
             /\ row[b].state # "none"
             /\ box[b].is = "running" => Awake(b)
  <2>1. Clean(b) /\ Informed(b, k)
    BY <1>0, <1>1, <1>3 DEF Clean
  <2>2. \A j \in Caller \ {k} : at[b][j].pc = "away"
    BY <1>0, <1>1, <2>1, Alone
  <2> QED
    BY <1>1, <2>1, <2>2 DEF Clean, Informed, Caller
<1>4. ASSUME box[b].is = "running", Touch(b, at[b][k].stamp, "running"), Go(b, k, "has"), Excuse({})
      PROVE  MachinesInv'
  <2>1. excused \subseteq excused'
    BY <1>0, <1>4, Excused
  <2>2. row[b].state # "none" => Awake(b)'
    BY <1>0, <1>2, <1>4, TouchRow DEF Awake
  <2> QED
    BY <1>1, <1>2, <1>3, <1>4, <2>1, <2>2, Ensured
<1>5. ASSUME box[b].is \in {"created", "exited"}, Go(b, k, "start"), Excuse({}), row' = row
      PROVE  MachinesInv'
  <2>1. excused \subseteq excused'
    BY <1>0, <1>5, Excused
  <2> QED
    BY <1>1, <1>2, <1>3, <1>5, <2>1, Ensured
<1>6. ASSUME box[b].is = "absent", Go(b, k, "run"), Excuse({}), row' = row
      PROVE  MachinesInv'
  BY <1>1, <1>2, <1>6, Ensured
<1>7. ASSUME Go(b, k, "run"), Excuse({b}), row' = row
      PROVE  MachinesInv'
  <2>1. b \in excused'
    BY <1>0, <1>7, Excused
  <2> QED
    BY <1>1, <1>2, <1>7, <2>1, Ensured
<1> QED
  BY <1>1, <1>4, <1>5, <1>6, <1>7 DEF Inspect

\* A docker call of a caller, whatever comes of it.
LEMMA AnsweredInv ==
  ASSUME MachinesInv, NEW b \in Bot, NEW k \in {"tool", "delivery"}, at[b][k].pc # "away",
         UNCHANGED <<alive, row, sweep, limits, desk>>,
         NEW result, result.box \in [is : {"absent", "created", "exited", "running"}, slot : 0 .. Slots],
         NEW ok \in BOOLEAN, Answer(b, k, ok), Called(b, result, ok),
         Clean(b) =>
           /\ result.done <=> result.box.is = "running"
           /\ result.box.is # "absent" => result.box.slot = row[b].slot
  PROVE  MachinesInv'
<1>0. MachinesOK /\ (b \in excused \/ Clean(b))
  BY DEF MachinesInv
<1>1. /\ box' \in [Bot -> [is : {"absent", "created", "exited", "running"}, slot : 0 .. Slots]]
      /\ \A c \in Bot \ {b} : box'[c] = box[c]
      /\ b \in excused' \/ (ok = result.done /\ box'[b] = result.box)
      /\ Excuse({}) \/ Excuse({b})
  BY <1>0, CalledBox
<1>2. PICK more \in SUBSET Bot : Excuse(more)
  <2>1. Excuse({}) \/ Excuse({b})
    BY <1>1
  <2>2. {} \in SUBSET Bot /\ {b} \in SUBSET Bot
    OBVIOUS
  <2> QED
    BY <2>1, <2>2
<1>3. excused \subseteq excused'
  BY <1>0, <1>2, Excused
<1>4. \/ b \in excused'
      \/ /\ box'[b].is # "absent" => box'[b].slot = row[b].slot
         /\ ok <=> box'[b].is = "running"
  BY <1>0, <1>1, <1>3
<1> QED
  BY <1>1, <1>2, <1>4, Ensured

LEMMA RunInv ==
  ASSUME MachinesInv, NEW b \in Bot, NEW k \in Caller, Run(b, k)
  PROVE  MachinesInv'
<1>0. MachinesOK /\ Held(b)
  BY DEF MachinesInv
<1>1. k \in {"tool", "delivery"} /\ at[b][k].pc = "run" /\ at[b][k].slot \in 0 .. Slots
  BY <1>0 DEF Run, Held, MachinesOK, Caller
<1> DEFINE result == DockerRun(b, at[b][k].slot)
<1>2. result.box \in [is : {"absent", "created", "exited", "running"}, slot : 0 .. Slots]
  BY <1>0, <1>1, DockerType
<1>3. PICK ok \in BOOLEAN : Answer(b, k, ok) /\ Called(b, result, ok)
  BY DEF Run
<1>4. ASSUME Clean(b)
      PROVE  /\ result.done <=> result.box.is = "running"
             /\ result.box.is # "absent" => result.box.slot = row[b].slot
  <2>1. box[b].is = "absent" /\ at[b][k].slot = row[b].slot
    BY <1>1, <1>4 DEF Clean, Informed
  <2> QED
    BY <2>1 DEF DockerRun
<1>5. UNCHANGED <<alive, row, sweep, limits, desk>>
  BY DEF Run
<1> HIDE DEF result
<1> QED
  BY <1>1, <1>2, <1>3, <1>4, <1>5, AnsweredInv

LEMMA StartInv ==
  ASSUME MachinesInv, NEW b \in Bot, NEW k \in Caller, Start(b, k)
  PROVE  MachinesInv'
<1>0. MachinesOK /\ Held(b)
  BY DEF MachinesInv
<1>1. k \in {"tool", "delivery"} /\ at[b][k].pc = "start" /\ at[b][k].slot \in 0 .. Slots
  BY <1>0 DEF Start, Held, MachinesOK, Caller
<1> DEFINE result == DockerStart(b)
<1>2. result.box \in [is : {"absent", "created", "exited", "running"}, slot : 0 .. Slots]
  BY <1>0, <1>1, DockerType
<1>3. PICK ok \in BOOLEAN : Answer(b, k, ok) /\ Called(b, result, ok)
  BY DEF Start
<1>4. ASSUME Clean(b)
      PROVE  /\ result.done <=> result.box.is = "running"
             /\ result.box.is # "absent" => result.box.slot = row[b].slot
  <2>1. box[b].is \in {"created", "exited"} /\ box[b].slot = row[b].slot
    BY <1>1, <1>4 DEF Clean, Informed
  <2>2. box[b] \in [is : {"absent", "created", "exited", "running"}, slot : 0 .. Slots]
    BY <1>0 DEF MachinesOK
  <2> QED
    BY <2>1, <2>2 DEF DockerStart
<1>5. UNCHANGED <<alive, row, sweep, limits, desk>>
  BY DEF Start
<1> HIDE DEF result
<1> QED
  BY <1>1, <1>2, <1>3, <1>4, <1>5, AnsweredInv

LEMMA RecordInv ==
  ASSUME MachinesInv, NEW b \in Bot, NEW k \in Caller, Record(b, k)
  PROVE  MachinesInv'
<1>0. MachinesOK /\ Held(b) /\ (b \in excused \/ Clean(b))
  BY DEF MachinesInv
<1>1. /\ k \in {"tool", "delivery"} /\ at[b][k].pc = "answered" /\ box' = box
      /\ UNCHANGED <<alive, sweep, limits, desk>> /\ Go(b, k, "has") /\ Excuse({})
      /\ Touch(b, at[b][k].stamp, IF at[b][k].ok THEN "starting" ELSE "stopped")
  BY DEF Record
<1>2. /\ at[b][k].stamp \in Stamp /\ at[b][k].ok \in BOOLEAN
      /\ box' \in [Bot -> [is : {"absent", "created", "exited", "running"}, slot : 0 .. Slots]]
  BY <1>0, <1>1 DEF MachinesOK, Caller
<1>3. excused \subseteq excused'
  BY <1>0, <1>1, Excused
<1>4. ASSUME b \notin excused'
      PROVE  /\ box[b].is # "absent" => box[b].slot = row[b].slot
             /\ at[b][k].ok <=> box[b].is = "running"
             /\ row[b].state # "none"
  BY <1>0, <1>1, <1>3, <1>4 DEF Clean, Informed
<1>5. row[b].state # "none" /\ at[b][k].ok => Awake(b)'
  BY <1>0, <1>1, <1>2, TouchRow DEF Awake
<1> QED
  BY <1>1, <1>2, <1>4, <1>5, Ensured

LEMMA ReleaseInv ==
  ASSUME MachinesInv, NEW b \in Bot, NEW k \in Caller, Release(b, k)
  PROVE  MachinesInv'
<1>0. MachinesOK /\ Held(b) /\ (b \in excused \/ Clean(b))
  BY DEF MachinesInv
<1>1. /\ k \in {"tool", "delivery"} /\ at[b][k].pc = "has" /\ Leave(b, k) /\ Excuse({})
      /\ UNCHANGED <<alive, row, box, sweep, limits>>
  BY DEF Release
<1>2. /\ excused \subseteq excused' /\ excused' \subseteq Bot
      /\ at'[b]["delivery"].pc # "away" /\ desk'[b] # "free" => b \in excused'
  BY <1>0, <1>1, Excused
<1>3. /\ at' \in [Bot -> [Caller -> [pc : {"away", "inspect", "run", "start", "answered", "has"},
                                     slot : 0 .. Slots, stamp : Stamp, ok : BOOLEAN]]]
      /\ desk' \in [Bot -> {"free", "tool", "panel", "reaper"}]
      /\ at'[b][k].pc = "away"
      /\ \A j \in Caller \ {k} : at'[b][j] = at[b][j]
      /\ \A c \in Bot \ {b} : at'[c] = at[c] /\ desk'[c] = desk[c]
      /\ desk'[b] = IF k = "delivery" THEN desk[b] ELSE "free"
  BY <1>0, <1>1, LeaveAt DEF Caller
<1>4. MachinesOK'
  BY <1>0, <1>1, <1>2, <1>3 DEF MachinesOK, limits
<1>5. \A c \in Bot \ {b} : Kept(c)
  BY <1>1, <1>3 DEF Kept
<1>6. Held(b)'
  BY <1>0, <1>1, <1>3 DEF Held, Caller
<1>7. ASSUME b \notin excused' PROVE Clean(b)'
  <2>1. Clean(b)
    BY <1>0, <1>2, <1>7
  <2>2. (\A j \in Caller \ {k} : at[b][j].pc = "away") /\ desk[b] # "reaper"
    BY <1>0, <1>1, <2>1, Alone
  <2>3. \A j \in Caller : at'[b][j].pc = "away"
    BY <1>3, <2>2
  <2> QED
    BY <1>1, <1>3, <2>1, <2>2, <2>3 DEF Clean, Informed, Awake, Caller
<1>8. desk'[b] = "reaper" => desk[b] = "reaper"
  BY <1>3
<1> QED
  BY <1>2, <1>4, <1>5, <1>6, <1>7, <1>8, OneBot

-----------------------------------------------------------------------------
(***************************************************************************)
(* Machines: the viewer, the panel, the reaper                             *)
(***************************************************************************)

LEMMA ViewInv ==
  ASSUME MachinesInv, NEW b \in Bot, View(b)
  PROVE  MachinesInv'
<1>0. MachinesOK /\ Held(b) /\ (b \in excused \/ Clean(b))
  BY DEF MachinesInv
<1>1. /\ UNCHANGED <<alive, box, desk, at, sweep, mishaps>> /\ HasRow(b) /\ Excuse({})
      /\ row' = [row EXCEPT ![b].used = "fresh"] /\ uses' \in 0 .. MaxUses
  BY <1>0, MachinesAssumption DEF View, callers, MachinesOK
<1>2. excused \subseteq excused' /\ excused' \subseteq Bot
  BY <1>0, <1>1, Excused
<1>3. /\ row' \in [Bot -> [slot : 0 .. Slots, state : {"none", "new", "starting", "running", "stopped"}, used : Stamp]]
      /\ row'[b].slot = row[b].slot /\ row'[b].state = row[b].state
      /\ \A c \in Bot \ {b} : row'[c] = row[c]
  <2> DEFINE Row == [slot : 0 .. Slots, state : {"none", "new", "starting", "running", "stopped"}, used : Stamp]
  <2> DEFINE new == [row[b] EXCEPT !.used = "fresh"]
  <2>1. row \in [Bot -> Row] /\ row[b] \in Row /\ "fresh" \in Stamp
    BY <1>0 DEF MachinesOK, Stamp
  <2>2. new \in Row /\ new.slot = row[b].slot /\ new.state = row[b].state
    BY <2>1
  <2>3. row' = [row EXCEPT ![b] = new]
    BY <1>1
  <2> QED
    BY <2>1, <2>2, <2>3
<1>4. MachinesOK'
  BY <1>0, <1>1, <1>2, <1>3 DEF MachinesOK
<1>5. \A c \in Bot : Kept(c)
  BY <1>1, <1>3 DEF Kept, HasRow
<1>6. Held(b)' /\ (b \in excused' \/ Clean(b)')
  BY <1>0, <1>2, <1>5, KeptBot
<1>7. desk'[b] = desk[b]
  BY <1>1
<1> QED
  BY <1>2, <1>4, <1>5, <1>6, <1>7, OneBot

LEMMA LookInv ==
  ASSUME MachinesInv, NEW b \in Bot, Look(b)
  PROVE  MachinesInv'
<1>0. MachinesOK /\ Held(b) /\ (b \in excused \/ Clean(b))
  BY DEF MachinesInv
<1>1. /\ UNCHANGED <<alive, row, box, sweep, limits>> /\ Excuse({}) /\ desk[b] = "free"
      /\ desk' = [desk EXCEPT ![b] = "panel"] /\ Go(b, "panel", "inspect")
  BY DEF Look, Go
<1>2. /\ excused \subseteq excused' /\ excused' \subseteq Bot
      /\ at'[b]["delivery"].pc # "away" /\ desk'[b] # "free" => b \in excused'
  BY <1>0, <1>1, Excused
<1>3. at[b]["panel"].ok \in BOOLEAN /\ "panel" \in Caller
  BY <1>0 DEF MachinesOK, Caller
<1>4. /\ at' \in [Bot -> [Caller -> [pc : {"away", "inspect", "run", "start", "answered", "has"},
                                     slot : 0 .. Slots, stamp : Stamp, ok : BOOLEAN]]]
      /\ at'[b]["panel"].pc = "inspect"
      /\ \A j \in Caller \ {"panel"} : at'[b][j] = at[b][j]
      /\ \A c \in Bot \ {b} : at'[c] = at[c]
  BY <1>0, <1>1, <1>3, GoAt
<1>5. /\ desk' \in [Bot -> {"free", "tool", "panel", "reaper"}]
      /\ desk'[b] = "panel" /\ \A c \in Bot \ {b} : desk'[c] = desk[c]
  BY <1>0, <1>1 DEF MachinesOK
<1>6. MachinesOK'
  BY <1>0, <1>1, <1>2, <1>4, <1>5 DEF MachinesOK, limits
<1>7. \A c \in Bot \ {b} : Kept(c)
  BY <1>1, <1>4, <1>5 DEF Kept
<1>8. Held(b)'
  BY <1>0, <1>1, <1>4, <1>5 DEF Held, Caller
<1>9. ASSUME b \notin excused' PROVE Clean(b)'
  <2>1. Clean(b)
    BY <1>0, <1>2, <1>9
  <2>2. at'[b]["tool"] = at[b]["tool"] /\ at'[b]["delivery"] = at[b]["delivery"]
    BY <1>4 DEF Caller
  <2>3. Informed(b, "tool")' /\ Informed(b, "delivery")'
    BY <1>1, <2>1, <2>2 DEF Clean, Informed
  <2> QED
    BY <1>1, <1>2, <1>4, <1>5, <1>9, <2>1, <2>2, <2>3 DEF Clean, Awake
<1> QED
  BY <1>2, <1>5, <1>6, <1>7, <1>8, <1>9, OneBot

LEMMA LookedInv ==
  ASSUME MachinesInv, NEW b \in Bot, Looked(b)
  PROVE  MachinesInv'
<1>0. MachinesOK /\ Held(b) /\ (b \in excused \/ Clean(b))
  BY DEF MachinesInv
<1>1. UNCHANGED <<alive, row, box, sweep, limits>> /\ Excuse({}) /\ at[b]["panel"].pc = "inspect"
  BY DEF Looked
<1>2. /\ excused \subseteq excused' /\ excused' \subseteq Bot
      /\ at'[b]["delivery"].pc # "away" /\ desk'[b] # "free" => b \in excused'
  BY <1>0, <1>1, Excused
<1>3. "panel" \in Caller /\ desk[b] = "panel" /\ (box[b].is = "running") \in BOOLEAN
  BY <1>0, <1>1 DEF Held, Caller
<1>4. /\ at' \in [Bot -> [Caller -> [pc : {"away", "inspect", "run", "start", "answered", "has"},
                                     slot : 0 .. Slots, stamp : Stamp, ok : BOOLEAN]]]
      /\ desk' \in [Bot -> {"free", "tool", "panel", "reaper"}]
      /\ \/ at'[b]["panel"].pc = "away" /\ desk'[b] = "free"
         \/ /\ at'[b]["panel"].pc = "answered" /\ desk'[b] = "panel"
            /\ at'[b]["panel"].ok = (box[b].is = "running")
      /\ \A j \in Caller \ {"panel"} : at'[b][j] = at[b][j]
      /\ \A c \in Bot \ {b} : at'[c] = at[c] /\ desk'[c] = desk[c]
  <2>1. CASE Leave(b, "panel")
    BY <1>0, <1>3, <2>1, LeaveAt
  <2>2. CASE Answer(b, "panel", box[b].is = "running") /\ desk' = desk
    <3>1. desk' \in [Bot -> {"free", "tool", "panel", "reaper"}] /\ desk'[b] = "panel"
      BY <1>0, <1>3, <2>2 DEF MachinesOK
    <3>2. PICK ok \in BOOLEAN : ok = (box[b].is = "running")
      BY <1>3
    <3>3. Answer(b, "panel", ok)
      BY <2>2, <3>2
    <3> QED
      BY <1>0, <1>3, <2>2, <3>1, <3>2, <3>3, GoAt
  <2> QED
    BY <2>1, <2>2 DEF Looked
<1>6. MachinesOK'
  BY <1>0, <1>1, <1>2, <1>4 DEF MachinesOK, limits
<1>7. \A c \in Bot \ {b} : Kept(c)
  BY <1>1, <1>4 DEF Kept
<1>8. Held(b)'
  BY <1>0, <1>1, <1>3, <1>4 DEF Held, Caller
<1>9. ASSUME b \notin excused' PROVE Clean(b)'
  <2>1. Clean(b)
    BY <1>0, <1>2, <1>9
  <2>2. at'[b]["tool"] = at[b]["tool"] /\ at'[b]["delivery"] = at[b]["delivery"]
    BY <1>4 DEF Caller
  <2>3. Informed(b, "tool")' /\ Informed(b, "delivery")'
    BY <1>1, <2>1, <2>2 DEF Clean, Informed
  <2> QED
    BY <1>1, <1>2, <1>4, <1>9, <2>1, <2>2, <2>3 DEF Clean, Awake
<1>10. desk'[b] # "reaper"
  BY <1>4
<1> QED
  BY <1>2, <1>6, <1>7, <1>8, <1>9, <1>10, OneBot

LEMMA SettleInv ==
  ASSUME MachinesInv, NEW b \in Bot, Settle(b)
  PROVE  MachinesInv'
<1>0. MachinesOK /\ Held(b) /\ (b \in excused \/ Clean(b))
  BY DEF MachinesInv
<1>1. /\ UNCHANGED <<alive, box, sweep, limits>> /\ Excuse({}) /\ at[b]["panel"].pc = "answered"
      /\ SetState(b, IF at[b]["panel"].ok THEN "running" ELSE "stopped") /\ Leave(b, "panel")
  BY DEF Settle
<1>2. /\ excused \subseteq excused' /\ excused' \subseteq Bot
      /\ at'[b]["delivery"].pc # "away" /\ desk'[b] # "free" => b \in excused'
  BY <1>0, <1>1, Excused
<1>3. "panel" \in Caller /\ desk[b] = "panel" /\ "fresh" \in Stamp
  BY <1>0, <1>1 DEF Held, Caller, Stamp
<1>4. /\ at' \in [Bot -> [Caller -> [pc : {"away", "inspect", "run", "start", "answered", "has"},
                                     slot : 0 .. Slots, stamp : Stamp, ok : BOOLEAN]]]
      /\ desk' \in [Bot -> {"free", "tool", "panel", "reaper"}]
      /\ at'[b]["panel"].pc = "away" /\ desk'[b] = "free"
      /\ \A j \in Caller \ {"panel"} : at'[b][j] = at[b][j]
      /\ \A c \in Bot \ {b} : at'[c] = at[c] /\ desk'[c] = desk[c]
  BY <1>0, <1>1, <1>3, LeaveAt
<1> DEFINE state == IF at[b]["panel"].ok THEN "running" ELSE "stopped"
<1>5. /\ row' \in [Bot -> [slot : 0 .. Slots, state : {"none", "new", "starting", "running", "stopped"}, used : Stamp]]
      /\ row'[b].slot = row[b].slot
      /\ row[b].state = "none" => row'[b] = row[b]
      /\ row[b].state # "none" => row'[b].state = state
      /\ \A c \in Bot \ {b} : row'[c] = row[c]
  BY <1>0, <1>1, <1>3, TouchRow
<1>6. MachinesOK'
  BY <1>0, <1>1, <1>2, <1>4, <1>5 DEF MachinesOK, limits
<1>7. \A c \in Bot \ {b} : Kept(c)
  BY <1>1, <1>4, <1>5 DEF Kept
<1>8. Held(b)'
  BY <1>0, <1>1, <1>3, <1>4, <1>5 DEF Held, Caller
<1>9. ASSUME b \notin excused' PROVE Clean(b)'
  <2>1. Clean(b)
    BY <1>0, <1>2, <1>9
  <2>2. at'[b]["tool"] = at[b]["tool"] /\ at'[b]["delivery"] = at[b]["delivery"]
    BY <1>4 DEF Caller
  <2>3. Informed(b, "tool")' /\ Informed(b, "delivery")'
    BY <1>1, <1>5, <2>1, <2>2 DEF Clean, Informed
  <2>4. box[b].is = "running" => Awake(b)'
    BY <1>1, <1>5, <2>1 DEF Clean, Awake
  <2>5. box[b].is # "absent" => row'[b].state # "none" /\ box[b].slot = row'[b].slot
    BY <1>5, <2>1 DEF Clean
  <2> QED
    BY <1>1, <1>4, <2>2, <2>3, <2>4, <2>5 DEF Clean
<1> QED
  BY <1>2, <1>4, <1>6, <1>7, <1>8, <1>9, OneBot

\* A step of the reaper at bot b: it moves its own place, the lock of b, and
\* the row or the container of b.
LEMMA Reaped ==
  ASSUME MachinesInv, NEW b \in Bot, UNCHANGED <<alive, at, limits>>,
         excused \subseteq excused', excused' \subseteq Bot,
         sweep' \in [todo : SUBSET Bot, pc : {"rest", "going", "stop", "write"}],
         desk' \in [Bot -> {"free", "tool", "panel", "reaper"}],
         \A c \in Bot \ {b} : desk'[c] = desk[c],
         desk[b] \in {"free", "reaper"}, desk'[b] \in {"free", "reaper"},
         sweep'.pc = sweep.pc \/ \A c \in Bot \ {b} : desk[c] # "reaper",
         desk'[b] = "reaper" => /\ sweep'.pc \in {"stop", "write"}
                                /\ desk[b] = "reaper" \/ \A c \in Bot : desk[c] # "reaper",
         at'[b]["delivery"].pc # "away" /\ desk'[b] # "free" => b \in excused',
         row' = row \/ (desk[b] = "reaper" /\ SetState(b, "stopped")),
         box' \in [Bot -> [is : {"absent", "created", "exited", "running"}, slot : 0 .. Slots]],
         \A c \in Bot \ {b} : box'[c] = box[c],
         \/ box'[b] = box[b]
         \/ desk[b] = "reaper",
         \/ b \in excused'
         \/ /\ box'[b] = box[b] \/ (box'[b].is = "exited" /\ box[b].is = "running" /\ box'[b].slot = box[b].slot)
            /\ desk'[b] = "reaper" /\ sweep'.pc = "write" => box'[b].is # "running"
            /\ row' # row => box'[b].is # "running"
  PROVE  MachinesInv'
<1>0. MachinesOK /\ Held(b) /\ (b \in excused \/ Clean(b))
  BY DEF MachinesInv
<1>1. at' = at /\ alive' = alive /\ limits' = limits
  OBVIOUS
<1>2. /\ row' \in [Bot -> [slot : 0 .. Slots, state : {"none", "new", "starting", "running", "stopped"}, used : Stamp]]
      /\ row'[b].slot = row[b].slot
      /\ row[b].state = "none" => row'[b] = row[b]
      /\ row[b].state # "none" => row'[b].state # "none"
      /\ \A c \in Bot \ {b} : row'[c] = row[c]
  <2>1. CASE row' = row
    BY <1>0, <2>1 DEF MachinesOK
  <2>2. CASE SetState(b, "stopped")
    <3>1. "fresh" \in Stamp
      BY DEF Stamp
    <3> QED
      BY <1>0, <2>2, <3>1, TouchRow
  <2> QED
    BY <2>1, <2>2
<1>3. MachinesOK'
  BY <1>0, <1>1, <1>2 DEF MachinesOK, limits
<1>4. \A c \in Bot \ {b} : Kept(c)
  BY <1>1, <1>2 DEF Kept
<1>5. Held(b)'
  BY <1>0, <1>1, <1>2 DEF Held
<1>6. ASSUME b \notin excused' PROVE Clean(b)'
  <2>1. Clean(b)
    BY <1>0, <1>6
  <2>2. row[b].state # "none" => row'[b].state # "none" /\ row'[b].slot = row[b].slot
    BY <1>2
  <2>3. desk[b] = "reaper" \/ desk'[b] = "reaper" => \A k \in Caller : at[b][k].pc = "away"
    BY <1>0, <1>1, <1>6, <2>1 DEF Held, Clean, Caller
  <2>4. Informed(b, "tool")' /\ Informed(b, "delivery")'
    <3>1. ASSUME NEW k \in {"tool", "delivery"} PROVE Informed(b, k)'
      <4>1. Informed(b, k) /\ k \in Caller
        BY <2>1 DEF Clean, Caller
      <4>2. at[b][k].pc = "away" \/ box'[b] = box[b]
        BY <2>3, <4>1
      <4> QED
        BY <1>1, <2>2, <4>1, <4>2 DEF Informed
    <3> QED
      BY <3>1
  <2>5. at[b]["panel"].pc = "away" \/ desk[b] # "reaper"
    BY <2>3 DEF Caller
  <2>6. at'[b]["panel"].pc = "answered" => (at'[b]["panel"].ok <=> box'[b].is = "running")
    BY <1>1, <2>1, <2>5 DEF Clean
  <2>7. box'[b].is # "absent" => row'[b].state # "none" /\ box'[b].slot = row'[b].slot
    BY <1>2, <1>6, <2>1, <2>2 DEF Clean
  <2>8. box'[b].is = "running" =>
          Awake(b)' \/ at'[b]["tool"].pc = "answered" \/ at'[b]["delivery"].pc = "answered"
    BY <1>1, <1>6, <2>1 DEF Clean, Awake
  <2>9. /\ at'[b]["delivery"].pc # "away" => desk'[b] = "free"
        /\ desk'[b] = "reaper" /\ sweep'.pc = "write" => box'[b].is # "running"
    BY <1>6
  <2> QED
    BY <2>4, <2>6, <2>7, <2>8, <2>9 DEF Clean
<1> QED
  BY <1>3, <1>4, <1>5, <1>6, OneBot

LEMMA SpareInv ==
  ASSUME MachinesInv, NEW b \in Bot, Spare(b)
  PROVE  MachinesInv'
<1>0. MachinesOK /\ (\A c \in Bot : Held(c) /\ (c \in excused \/ Clean(c))) /\ OneReaper
  BY DEF MachinesInv
<1>1. /\ UNCHANGED <<alive, row, box, desk, at, limits, excused>>
      /\ sweep.pc = "going" /\ sweep' = [sweep EXCEPT !.todo = @ \ {b}]
  BY DEF Spare
<1>2. /\ sweep' \in [todo : SUBSET Bot, pc : {"rest", "going", "stop", "write"}] /\ sweep'.pc = sweep.pc
  BY <1>0, <1>1 DEF MachinesOK
<1>3. MachinesOK'
  BY <1>0, <1>1, <1>2 DEF MachinesOK, limits
<1>4. \A c \in Bot : Kept(c)
  BY <1>1, <1>2 DEF Kept
<1>5. Held(b)' /\ (b \in excused' \/ Clean(b)')
  BY <1>0, <1>1, <1>4, KeptBot
<1> QED
  BY <1>1, <1>3, <1>4, <1>5, OneBot

LEMMA DoomInv ==
  ASSUME MachinesInv, NEW b \in Bot, Doom(b)
  PROVE  MachinesInv'
<1>0. MachinesOK /\ (\A c \in Bot : Held(c)) /\ (b \in excused \/ Clean(b))
  BY DEF MachinesInv
<1>1. /\ UNCHANGED <<alive, row, box, at, limits>> /\ Excuse({}) /\ desk[b] = "free"
      /\ sweep.pc = "going" /\ sweep' = [sweep EXCEPT !.pc = "stop"]
      /\ desk' = [desk EXCEPT ![b] = "reaper"]
  BY DEF Doom
<1>2. /\ excused \subseteq excused' /\ excused' \subseteq Bot
      /\ at'[b]["delivery"].pc # "away" /\ desk'[b] # "free" => b \in excused'
  BY <1>0, <1>1, Excused
<1>3. /\ sweep' \in [todo : SUBSET Bot, pc : {"rest", "going", "stop", "write"}] /\ sweep'.pc = "stop"
      /\ desk' \in [Bot -> {"free", "tool", "panel", "reaper"}]
      /\ desk'[b] = "reaper" /\ \A c \in Bot \ {b} : desk'[c] = desk[c]
      /\ box' \in [Bot -> [is : {"absent", "created", "exited", "running"}, slot : 0 .. Slots]]
  BY <1>0, <1>1 DEF MachinesOK
<1>4. \A c \in Bot : desk[c] # "reaper"
  BY <1>0, <1>1 DEF Held
<1> QED
  BY <1>1, <1>2, <1>3, <1>4, Reaped

LEMMA StopInv ==
  ASSUME MachinesInv, NEW b \in Bot, Stop(b)
  PROVE  MachinesInv'
<1>0. MachinesOK /\ OneReaper
  BY DEF MachinesInv
<1>1. /\ UNCHANGED <<alive, row, desk, at, limits>> /\ desk[b] = "reaper"
      /\ sweep.pc = "stop" /\ sweep' = [sweep EXCEPT !.pc = "write"]
  BY DEF Stop
<1> DEFINE result == DockerStop(b)
<1>2. PICK ok \in BOOLEAN : Called(b, result, ok)
  BY DEF Stop
<1>3. 0 \in 0 .. Slots
  BY MachinesAssumption
<1>4. result.box \in [is : {"absent", "created", "exited", "running"}, slot : 0 .. Slots]
  BY <1>0, <1>3, DockerType
<1>5. /\ result.box.is # "running"
      /\ result.box = box[b] \/ (result.box.is = "exited" /\ box[b].is = "running" /\ result.box.slot = box[b].slot)
  <2>1. box[b] \in [is : {"absent", "created", "exited", "running"}, slot : 0 .. Slots]
    BY <1>0 DEF MachinesOK
  <2> QED
    BY <2>1 DEF DockerStop
<1> HIDE DEF result
<1>6. /\ box' \in [Bot -> [is : {"absent", "created", "exited", "running"}, slot : 0 .. Slots]]
      /\ \A c \in Bot \ {b} : box'[c] = box[c]
      /\ b \in excused' \/ box'[b] = result.box
  BY <1>0, <1>2, <1>4, CalledBox
<1>7. PICK more \in SUBSET Bot : Excuse(more)
  <2>1. Excuse({}) \/ Excuse({b})
    BY <1>0, <1>2, <1>4, CalledBox
  <2>2. {} \in SUBSET Bot /\ {b} \in SUBSET Bot
    OBVIOUS
  <2> QED
    BY <2>1, <2>2
<1>8. /\ excused \subseteq excused' /\ excused' \subseteq Bot
      /\ at'[b]["delivery"].pc # "away" /\ desk'[b] # "free" => b \in excused'
  BY <1>0, <1>7, Excused
<1>9. /\ sweep' \in [todo : SUBSET Bot, pc : {"rest", "going", "stop", "write"}] /\ sweep'.pc = "write"
      /\ desk' \in [Bot -> {"free", "tool", "panel", "reaper"}]
  BY <1>0, <1>1 DEF MachinesOK
<1>10. \A c \in Bot \ {b} : desk[c] # "reaper"
  BY <1>0, <1>1 DEF OneReaper
<1> QED
  BY <1>1, <1>5, <1>6, <1>8, <1>9, <1>10, Reaped

LEMMA AsleepInv ==
  ASSUME MachinesInv, NEW b \in Bot, Asleep(b)
  PROVE  MachinesInv'
<1>0. MachinesOK /\ OneReaper /\ (b \in excused \/ Clean(b))
  BY DEF MachinesInv
<1>1. /\ UNCHANGED <<alive, box, at, limits>> /\ Excuse({}) /\ desk[b] = "reaper"
      /\ sweep.pc = "write" /\ sweep' = [todo |-> sweep.todo \ {b}, pc |-> "going"]
      /\ desk' = [desk EXCEPT ![b] = "free"] /\ SetState(b, "stopped")
  BY DEF Asleep
<1>2. /\ excused \subseteq excused' /\ excused' \subseteq Bot
      /\ at'[b]["delivery"].pc # "away" /\ desk'[b] # "free" => b \in excused'
  BY <1>0, <1>1, Excused
<1>3. /\ sweep' \in [todo : SUBSET Bot, pc : {"rest", "going", "stop", "write"}]
      /\ desk' \in [Bot -> {"free", "tool", "panel", "reaper"}]
      /\ desk'[b] = "free" /\ \A c \in Bot \ {b} : desk'[c] = desk[c]
      /\ box' \in [Bot -> [is : {"absent", "created", "exited", "running"}, slot : 0 .. Slots]]
  BY <1>0, <1>1 DEF MachinesOK
<1>4. \A c \in Bot \ {b} : desk[c] # "reaper"
  BY <1>0, <1>1 DEF OneReaper
<1>5. b \in excused' \/ box'[b].is # "running"
  BY <1>0, <1>1, <1>2 DEF Clean
<1> QED
  BY <1>1, <1>2, <1>3, <1>4, <1>5, Reaped

-----------------------------------------------------------------------------
(***************************************************************************)
(* Machines: the sweep, time, deletions and restarts                       *)
(***************************************************************************)

LEMMA AllKept ==
  ASSUME MachinesInv, MachinesOK', excused \subseteq excused', \A c \in Bot : Kept(c)
  PROVE  MachinesInv'
<1>1. \A c \in Bot : Held(c)' /\ (c \in excused' \/ Clean(c)')
  BY KeptBot DEF MachinesInv
<1>2. OneReaper'
  BY DEF MachinesInv, OneReaper, Kept
<1> QED
  BY <1>1, <1>2 DEF MachinesInv

\* Time and the sweep's start move stamps only, and a stamp that is past stays so.
LEMMA StampsMove ==
  ASSUME MachinesOK, NEW moved \in [Stamp -> Stamp], moved["past"] = "past",
         row' = [b \in Bot |-> [row[b] EXCEPT !.used = moved[row[b].used]]],
         at' = [b \in Bot |-> [k \in Caller |-> [at[b][k] EXCEPT !.stamp = moved[at[b][k].stamp]]]]
  PROVE  /\ row' \in [Bot -> [slot : 0 .. Slots, state : {"none", "new", "starting", "running", "stopped"}, used : Stamp]]
         /\ at' \in [Bot -> [Caller -> [pc : {"away", "inspect", "run", "start", "answered", "has"},
                                        slot : 0 .. Slots, stamp : Stamp, ok : BOOLEAN]]]
         /\ \A c \in Bot : /\ row'[c].state = row[c].state /\ row'[c].slot = row[c].slot
                           /\ row[c] = NoRow => row'[c] = NoRow
                           /\ \A k \in Caller : /\ at'[c][k].pc = at[c][k].pc
                                                /\ at'[c][k].slot = at[c][k].slot
                                                /\ at'[c][k].ok = at[c][k].ok
<1> DEFINE Row == [slot : 0 .. Slots, state : {"none", "new", "starting", "running", "stopped"}, used : Stamp]
<1> DEFINE Place == [pc : {"away", "inspect", "run", "start", "answered", "has"},
                     slot : 0 .. Slots, stamp : Stamp, ok : BOOLEAN]
<1>1. ASSUME NEW c \in Bot
      PROVE  /\ row'[c] \in Row
             /\ row'[c].state = row[c].state /\ row'[c].slot = row[c].slot
             /\ row[c] = NoRow => row'[c] = NoRow
  <2>1. row[c] \in Row /\ row'[c] = [row[c] EXCEPT !.used = moved[row[c].used]]
    BY DEF MachinesOK
  <2>2. row[c].used \in Stamp /\ moved[row[c].used] \in Stamp
    BY <2>1
  <2> QED
    BY <2>1, <2>2 DEF NoRow
<1>2. ASSUME NEW c \in Bot, NEW k \in Caller
      PROVE  /\ at'[c][k] \in Place
             /\ at'[c][k].pc = at[c][k].pc /\ at'[c][k].slot = at[c][k].slot /\ at'[c][k].ok = at[c][k].ok
  <2>1. at[c][k] \in Place /\ at'[c][k] = [at[c][k] EXCEPT !.stamp = moved[at[c][k].stamp]]
    BY DEF MachinesOK
  <2>2. at[c][k].stamp \in Stamp /\ moved[at[c][k].stamp] \in Stamp
    BY <2>1
  <2> QED
    BY <2>1, <2>2
<1>3. row' \in [Bot -> Row]
  <2> HIDE DEF Row
  <2> QED
    BY <1>1
<1>4. at' \in [Bot -> [Caller -> Place]]
  <2> HIDE DEF Place
  <2>1. ASSUME NEW c \in Bot PROVE at'[c] \in [Caller -> Place]
    <3>1. at'[c] = [k \in Caller |-> [at[c][k] EXCEPT !.stamp = moved[at[c][k].stamp]]]
      OBVIOUS
    <3> QED
      BY <1>2, <3>1
  <2> QED
    BY <2>1
<1> QED
  BY <1>1, <1>2, <1>3, <1>4

LEMMA SweepInv ==
  ASSUME MachinesInv, Sweep
  PROVE  MachinesInv'
<1>0. MachinesOK /\ (\A c \in Bot : Held(c))
  BY DEF MachinesInv
<1>1. /\ UNCHANGED <<alive, box, limits, desk>> /\ Excuse({})
      /\ sweep.pc = "rest" /\ sweep' = [todo |-> {b \in Bot : Awake(b)}, pc |-> "going"]
      /\ row' = [b \in Bot |-> [row[b] EXCEPT !.used = Passed(@)]]
      /\ at' = [b \in Bot |-> [k \in Caller |-> [at[b][k] EXCEPT !.stamp = Passed(@)]]]
  BY DEF Sweep
<1>2. excused \subseteq excused' /\ excused' \subseteq Bot
  BY <1>0, <1>1, Excused
<1> DEFINE moved == [s \in Stamp |-> Passed(s)]
<1>3. /\ moved \in [Stamp -> Stamp] /\ moved["past"] = "past"
      /\ row' = [b \in Bot |-> [row[b] EXCEPT !.used = moved[row[b].used]]]
      /\ at' = [b \in Bot |-> [k \in Caller |-> [at[b][k] EXCEPT !.stamp = moved[at[b][k].stamp]]]]
  <2>1. moved \in [Stamp -> Stamp] /\ moved["past"] = "past"
    BY DEF Stamp, Passed
  <2>2. ASSUME NEW b \in Bot PROVE [row[b] EXCEPT !.used = Passed(@)] = [row[b] EXCEPT !.used = moved[row[b].used]]
    BY <1>0 DEF MachinesOK
  <2>3. ASSUME NEW b \in Bot, NEW k \in Caller
        PROVE  [at[b][k] EXCEPT !.stamp = Passed(@)] = [at[b][k] EXCEPT !.stamp = moved[at[b][k].stamp]]
    BY <1>0 DEF MachinesOK
  <2> HIDE DEF moved
  <2> QED
    BY <1>1, <2>1, <2>2, <2>3
<1> HIDE DEF moved
<1>4. /\ row' \in [Bot -> [slot : 0 .. Slots, state : {"none", "new", "starting", "running", "stopped"}, used : Stamp]]
      /\ at' \in [Bot -> [Caller -> [pc : {"away", "inspect", "run", "start", "answered", "has"},
                                     slot : 0 .. Slots, stamp : Stamp, ok : BOOLEAN]]]
      /\ \A c \in Bot : /\ row'[c].state = row[c].state /\ row'[c].slot = row[c].slot
                        /\ row[c] = NoRow => row'[c] = NoRow
                        /\ \A k \in Caller : /\ at'[c][k].pc = at[c][k].pc
                                             /\ at'[c][k].slot = at[c][k].slot
                                             /\ at'[c][k].ok = at[c][k].ok
  BY <1>0, <1>1, <1>3, StampsMove
<1>5. sweep' \in [todo : SUBSET Bot, pc : {"rest", "going", "stop", "write"}]
  BY <1>1
<1>6. MachinesOK'
  BY <1>0, <1>1, <1>2, <1>4, <1>5 DEF MachinesOK, limits
<1>7. \A c \in Bot : Kept(c)
  BY <1>0, <1>1, <1>4 DEF Kept, Held
<1> QED
  BY <1>2, <1>6, <1>7, AllKept

LEMMA IdlePassesInv ==
  ASSUME MachinesInv, IdlePasses
  PROVE  MachinesInv'
<1>0. MachinesOK
  BY DEF MachinesInv
<1>1. /\ UNCHANGED <<alive, box, desk, sweep, limits, excused>>
      /\ row' = [b \in Bot |-> [row[b] EXCEPT !.used = Aged(@)]]
      /\ at' = [b \in Bot |-> [k \in Caller |-> [at[b][k] EXCEPT !.stamp = Aged(@)]]]
  BY DEF IdlePasses
<1> DEFINE moved == [s \in Stamp |-> Aged(s)]
<1>2. /\ moved \in [Stamp -> Stamp] /\ moved["past"] = "past"
      /\ row' = [b \in Bot |-> [row[b] EXCEPT !.used = moved[row[b].used]]]
      /\ at' = [b \in Bot |-> [k \in Caller |-> [at[b][k] EXCEPT !.stamp = moved[at[b][k].stamp]]]]
  <2>1. moved \in [Stamp -> Stamp] /\ moved["past"] = "past"
    BY DEF Stamp, Aged
  <2>2. ASSUME NEW b \in Bot PROVE [row[b] EXCEPT !.used = Aged(@)] = [row[b] EXCEPT !.used = moved[row[b].used]]
    BY <1>0 DEF MachinesOK
  <2>3. ASSUME NEW b \in Bot, NEW k \in Caller
        PROVE  [at[b][k] EXCEPT !.stamp = Aged(@)] = [at[b][k] EXCEPT !.stamp = moved[at[b][k].stamp]]
    BY <1>0 DEF MachinesOK
  <2> HIDE DEF moved
  <2> QED
    BY <1>1, <2>1, <2>2, <2>3
<1> HIDE DEF moved
<1>3. /\ row' \in [Bot -> [slot : 0 .. Slots, state : {"none", "new", "starting", "running", "stopped"}, used : Stamp]]
      /\ at' \in [Bot -> [Caller -> [pc : {"away", "inspect", "run", "start", "answered", "has"},
                                     slot : 0 .. Slots, stamp : Stamp, ok : BOOLEAN]]]
      /\ \A c \in Bot : /\ row'[c].state = row[c].state /\ row'[c].slot = row[c].slot
                        /\ row[c] = NoRow => row'[c] = NoRow
                        /\ \A k \in Caller : /\ at'[c][k].pc = at[c][k].pc
                                             /\ at'[c][k].slot = at[c][k].slot
                                             /\ at'[c][k].ok = at[c][k].ok
  BY <1>0, <1>1, <1>2, StampsMove
<1>4. MachinesOK'
  BY <1>0, <1>1, <1>3 DEF MachinesOK, limits
<1>5. \A c \in Bot : Kept(c)
  BY <1>1, <1>3 DEF Kept
<1> QED
  BY <1>1, <1>4, <1>5, AllKept

LEMMA SweepEndInv ==
  ASSUME MachinesInv, SweepEnd
  PROVE  MachinesInv'
<1>0. MachinesOK /\ (\A c \in Bot : Held(c))
  BY DEF MachinesInv
<1>1. /\ UNCHANGED <<alive, row, box, desk, at, limits, excused>>
      /\ sweep.pc = "going" /\ sweep' = [todo |-> {}, pc |-> "rest"]
  BY DEF SweepEnd, Resting
<1>2. MachinesOK'
  BY <1>0, <1>1 DEF MachinesOK, limits
<1>3. \A c \in Bot : Kept(c)
  BY <1>0, <1>1 DEF Kept, Held
<1> QED
  BY <1>1, <1>2, <1>3, AllKept

LEMMA CreateInv ==
  ASSUME MachinesInv, NEW b \in Bot, Create(b)
  PROVE  MachinesInv'
<1>0. MachinesOK
  BY DEF MachinesInv
<1>1. /\ UNCHANGED <<row, box, desk, at, sweep, limits, excused>> /\ alive' \subseteq Bot
  BY <1>0 DEF Create, callers, MachinesOK
<1>2. MachinesOK'
  BY <1>0, <1>1 DEF MachinesOK, limits
<1>3. \A c \in Bot : Kept(c)
  BY <1>1 DEF Kept
<1> QED
  BY <1>1, <1>2, <1>3, AllKept

LEMMA DeleteInv ==
  ASSUME MachinesInv, NEW b \in Bot, Delete(b)
  PROVE  MachinesInv'
<1>0. MachinesOK /\ Held(b)
  BY DEF MachinesInv
<1>1. /\ UNCHANGED <<box, desk, at, sweep, uses>> /\ alive' \subseteq Bot
      /\ row' = [row EXCEPT ![b] = NoRow] /\ mishaps' \in 0 .. MaxMishaps /\ Excuse({b})
  BY <1>0, MachinesAssumption DEF Delete, callers, MachinesOK
<1>2. excused \subseteq excused' /\ excused' \subseteq Bot /\ b \in excused'
  BY <1>0, <1>1, Excused
<1>3. /\ row' \in [Bot -> [slot : 0 .. Slots, state : {"none", "new", "starting", "running", "stopped"}, used : Stamp]]
      /\ row'[b] = NoRow /\ \A c \in Bot \ {b} : row'[c] = row[c]
  <2>1. NoRow \in [slot : 0 .. Slots, state : {"none", "new", "starting", "running", "stopped"}, used : Stamp]
    BY MachinesAssumption DEF NoRow, Stamp
  <2> QED
    BY <1>0, <1>1, <2>1 DEF MachinesOK
<1>4. MachinesOK'
  BY <1>0, <1>1, <1>2, <1>3 DEF MachinesOK
<1>5. \A c \in Bot \ {b} : Kept(c)
  BY <1>1, <1>3 DEF Kept
<1>6. Held(b)'
  BY <1>0, <1>1, <1>3 DEF Held
<1> QED
  BY <1>1, <1>2, <1>4, <1>5, <1>6, OneBot

LEMMA CrashInv ==
  ASSUME MachinesInv, Crash
  PROVE  MachinesInv'
<1>0. MachinesOK /\ (\A c \in Bot : Held(c) /\ (c \in excused \/ Clean(c)))
  BY DEF MachinesInv
<1>1. /\ UNCHANGED <<alive, row, box, uses>> /\ mishaps' \in 0 .. MaxMishaps
      /\ excused' = excused \cup {b \in Bot : at[b] # [k \in Caller |-> Away] \/ desk[b] # "free"}
      /\ desk' = [b \in Bot |-> "free"]
      /\ at' = [b \in Bot |-> [k \in Caller |-> Away]]
      /\ sweep' = [todo |-> {}, pc |-> "rest"]
  BY <1>0, MachinesAssumption DEF Crash, Resting, MachinesOK
<1>2. Away \in [pc : {"away", "inspect", "run", "start", "answered", "has"},
                slot : 0 .. Slots, stamp : Stamp, ok : BOOLEAN] /\ Away.pc = "away"
  BY MachinesAssumption DEF Away, Stamp
<1>3. MachinesOK'
  BY <1>0, <1>1, <1>2 DEF MachinesOK
<1>4. ASSUME NEW c \in Bot PROVE Held(c)'
  <2>1. at'[c]["tool"] = Away /\ at'[c]["panel"] = Away /\ desk'[c] = "free" /\ row'[c] = row[c]
    BY <1>1 DEF Caller
  <2> QED
    BY <1>0, <1>2, <2>1 DEF Held
<1>5. ASSUME NEW c \in Bot, c \notin excused' PROVE Clean(c)'
  <2>1. Clean(c) /\ at[c] = [k \in Caller |-> Away] /\ desk[c] = "free"
    BY <1>0, <1>1, <1>5
  <2>2. /\ at'[c] = at[c] /\ desk'[c] = "free" /\ row'[c] = row[c] /\ box'[c] = box[c]
        /\ at[c]["tool"].pc = "away" /\ at[c]["delivery"].pc = "away" /\ at[c]["panel"].pc = "away"
    BY <1>1, <1>2, <2>1 DEF Caller
  <2> QED
    BY <2>1, <2>2 DEF Clean, Informed, Awake
<1>6. OneReaper'
  BY <1>1 DEF OneReaper
<1> QED
  BY <1>3, <1>4, <1>5, <1>6 DEF MachinesInv

LEMMA MachinesInitInv == MachinesInit => MachinesInv
<1> SUFFICES ASSUME MachinesInit PROVE MachinesInv
  OBVIOUS
<1>1. /\ Away \in [pc : {"away", "inspect", "run", "start", "answered", "has"},
                   slot : 0 .. Slots, stamp : Stamp, ok : BOOLEAN] /\ Away.pc = "away"
      /\ NoRow \in [slot : 0 .. Slots, state : {"none", "new", "starting", "running", "stopped"}, used : Stamp]
      /\ NoBox \in [is : {"absent", "created", "exited", "running"}, slot : 0 .. Slots] /\ NoBox.is = "absent"
      /\ Resting \in [todo : SUBSET Bot, pc : {"rest", "going", "stop", "write"}]
  BY MachinesAssumption DEF Away, NoRow, NoBox, Resting, Stamp
<1>2. MachinesOK
  BY <1>1, MachinesAssumption DEF MachinesInit, MachinesOK
<1>3. ASSUME NEW b \in Bot PROVE Held(b) /\ Clean(b)
  <2>1. /\ row[b] = NoRow /\ box[b] = NoBox /\ desk[b] = "free"
        /\ at[b]["tool"] = Away /\ at[b]["delivery"] = Away /\ at[b]["panel"] = Away
    BY <1>3 DEF MachinesInit, Caller
  <2> QED
    BY <1>1, <2>1 DEF Held, Clean, Informed
<1>4. OneReaper
  BY DEF MachinesInit, OneReaper
<1> QED
  BY <1>2, <1>3, <1>4 DEF MachinesInv

LEMMA MachinesNextInv == MachinesInv /\ [MachinesNext]_machines => MachinesInv'
<1> SUFFICES ASSUME MachinesInv, [MachinesNext]_machines PROVE MachinesInv'
  OBVIOUS
<1>1. ASSUME NEW b \in Bot, NEW k \in Caller, Ask(b, k) \/ Ensuring(b, k) PROVE MachinesInv'
  BY <1>1, AskInv, InspectInv, RunInv, StartInv, RecordInv, ReleaseInv DEF Ensuring
<1>2. ASSUME NEW b \in Bot, View(b) \/ Look(b) \/ Looking(b) PROVE MachinesInv'
  BY <1>2, ViewInv, LookInv, LookedInv, SettleInv DEF Looking
<1>3. ASSUME NEW b \in Bot, Reaping(b) \/ Delete(b) \/ Create(b) PROVE MachinesInv'
  BY <1>3, SpareInv, DoomInv, StopInv, AsleepInv, DeleteInv, CreateInv DEF Reaping
<1>4. ASSUME Sweep \/ SweepEnd \/ IdlePasses \/ Crash PROVE MachinesInv'
  BY <1>4, SweepInv, SweepEndInv, IdlePassesInv, CrashInv
<1>5. ASSUME UNCHANGED machines PROVE MachinesInv'
  <2>1. UNCHANGED <<alive, row, box, desk, at, sweep, uses, mishaps, excused>>
    BY <1>5 DEF machines, callers, limits
  <2>2. MachinesOK'
    BY <2>1 DEF MachinesInv, MachinesOK
  <2>3. \A c \in Bot : Kept(c)
    BY <2>1 DEF Kept
  <2> QED
    BY <2>1, <2>2, <2>3, AllKept
<1> QED
  BY <1>1, <1>2, <1>3, <1>4, <1>5 DEF MachinesNext

-----------------------------------------------------------------------------
(***************************************************************************)
(* Machines: the theorems                                                  *)
(***************************************************************************)

\* vm.rs: the lock has one holder, who goes by what is so, and a machine that
\* nothing got in the way of has the slot of its row and is awake in it.
THEOREM MachinesInvariant == MachinesSpec => []MachinesInv
  BY MachinesInitInv, MachinesNextInv, PTL DEF MachinesSpec

\* ensure_vm, the reaper: a tool that was told its machine is up works on its
\* own machine, and on one that is up, under any number of bots and slots.
THEOREM SafetyToolHasItsMachine == MachinesSpec => []ToolHasItsMachine
<1>1. MachinesInv => ToolHasItsMachine
  <2> SUFFICES ASSUME MachinesInv, NEW b \in Bot \ excused, at[b]["tool"].pc = "has", at[b]["tool"].ok
               PROVE  box[b] = [is |-> "running", slot |-> at[b]["tool"].slot]
    BY DEF ToolHasItsMachine
  <2>1. Clean(b) /\ box[b] \in [is : {"absent", "created", "exited", "running"}, slot : 0 .. Slots]
    BY DEF MachinesInv, MachinesOK
  <2>2. box[b].is = "running" /\ box[b].slot = at[b]["tool"].slot
    BY <2>1 DEF Clean, Informed
  <2> QED
    BY <2>1, <2>2
<1> QED
  BY <1>1, MachinesInvariant, PTL

\* hibernate_idle looks at rows only: a machine nobody is at runs only under a
\* row that says so, for any number of bots and of uses.
THEOREM SafetyNothingRunsUnseen == MachinesSpec => []NothingRunsUnseen
<1>1. MachinesInv => NothingRunsUnseen
  <2> SUFFICES ASSUME MachinesInv, NEW b \in Bot \ excused,
                      desk[b] = "free", at[b]["delivery"].pc = "away", box[b].is = "running"
               PROVE  Awake(b)
    BY DEF NothingRunsUnseen
  <2>1. Clean(b) /\ Held(b)
    BY DEF MachinesInv
  <2>2. at[b]["tool"].pc = "away"
    BY <2>1 DEF Held
  <2> QED
    BY <2>1, <2>2 DEF Clean
<1> QED
  BY <1>1, MachinesInvariant, PTL
=============================================================================
