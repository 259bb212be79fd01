------------------------------ MODULE ToolGate ------------------------------
(***************************************************************************)
(* What decides whether a tool call runs, waits for Josh or is refused:    *)
(* the permission grid (permissions.rs), the auto-review judge (judge.rs), *)
(* the auto-review rules (rules.rs), the chain run_turn puts them in       *)
(* (runs.rs) and the buttons of an approval (routes/approvals.rs).         *)
(*                                                                         *)
(* One run of one bot, turn by turn.  The grid is read twice for a turn:   *)
(* when its toolbox is built, and, with the taint, when run_turn starts,   *)
(* which a resume does only after the approved call was run.  The rules    *)
(* and the judge's switch are read once per call; the judge and the        *)
(* classifier are awaited, and Josh may change every setting between any   *)
(* two steps.  The session aliases of shell (shell_open and its two        *)
(* siblings) have permissions but no tool, and are left out.               *)
(***************************************************************************)
EXTENDS Naturals

CONSTANTS Tool,        \* the tools the toolbox offers
          Fulfilled,   \* CLIENT_FULFILLED: the client's app runs the call
          Prechecked,  \* purchase, propose_tool: a look ahead before asking
          Question,    \* ask_josh
          Unattended,  \* tighten_set
          TaintSet,    \* TAINT_TIGHTEN_SET
          Risky,       \* RISKY_TOOLS
          Default,     \* default_decisions
          MaxCalls,    \* bound: calls of the run
          MaxEdits     \* bound: changes Josh makes while the run lasts

Decision == {"allow", "ask", "deny"}
Pinned == Fulfilled \cup Prechecked

ASSUME ToolAssumption ==
  /\ Pinned \cup Question \cup Unattended \cup TaintSet \cup Risky \subseteq Tool
  /\ Default \in [Tool -> Decision]
ASSUME ApartAssumption ==
  /\ Fulfilled \cap Prechecked = {} /\ Pinned \cap (TaintSet \cup Question) = {}
  /\ Prechecked \cap Risky = {} /\ Question \cap Unattended = {}
ASSUME BoundAssumption == MaxCalls \in Nat /\ MaxEdits \in Nat

VARIABLES
  stored,   \* bots.permissions: the decisions Josh changed
  rules,    \* auto_review_rules: the behaviour of the rule about each tool
  judgeOn,  \* models.autoReviewJudge
  trigger,  \* what started the run
  pc,       \* where the run is
  offered,  \* toolbox.specs
  perms,    \* run_turn's perms
  tainted,  \* run_turn's tainted
  call,     \* the call being decided on, or parked
  decision, \* run_turn's decision
  verdict,  \* what the judge said of the call
  loaded,   \* behaviours of the rules handed to the classifier
  read,     \* an approved CLIENT_FULFILLED approval of this run exists
  calls,    \* calls made
  edits,    \* changes made
  ran,      \* history: the calls that were run
  wasOff    \* history: the judge has been off

settings == <<stored, rules, judgeOn, edits, wasOff>>
turn == <<offered, perms, tainted>>
chain == <<decision, verdict, loaded>>
vars == <<settings, trigger, pc, turn, call, chain, read, calls, ran>>

Behaviour == {"allow", "ask", "never"}
Verdict == {"safe", "risky", "dangerous"}
Unset == "none"
PC == {"idle", "built", "resuming", "turn", "judge", "rules", "classify", "end", "endJudge", "check",
       "act", "parked", "approved", "over"}
Call == [tool : Tool, wait : BOOLEAN]
Ran == [tool : Tool, wait : BOOLEAN, asked : BOOLEAN, read : BOOLEAN,
        verdict : Verdict \cup {Unset, "unavailable"}, offered : BOOLEAN, grid : Decision]

TypeOK ==
  /\ stored \in [Tool -> Decision \cup {Unset}]
  /\ rules \in [Tool -> Behaviour \cup {Unset}]
  /\ judgeOn \in BOOLEAN /\ wasOff \in BOOLEAN
  /\ trigger \in {"chat", "routine"}
  /\ pc \in PC
  /\ offered \subseteq Tool /\ perms \in [Tool -> Decision]
  /\ tainted \in BOOLEAN /\ read \in BOOLEAN
  /\ call \in Call
  /\ decision \in Decision
  /\ verdict \in Verdict \cup {Unset, "unavailable"}
  /\ loaded \in SUBSET Behaviour
  /\ calls \in 0 .. MaxCalls /\ edits \in 0 .. MaxEdits
  /\ ran \in SUBSET Ran

-----------------------------------------------------------------------------
(***************************************************************************)
(* permissions.rs                                                          *)
(***************************************************************************)

\* get_permissions: the stored overrides over the defaults.
GetPermissions == [t \in Tool |-> IF stored[t] = Unset THEN Default[t] ELSE stored[t]]

\* set_permissions stores what differs from the defaults.
SetPermissions(map) ==
  stored' = [t \in Tool |-> IF map[t] = Default[t] THEN Unset ELSE map[t]]

\* permissions_for_run: nobody watches an unattended run.
PermissionsForRun ==
  [t \in Tool |-> IF trigger # "chat" /\ t \in Unattended /\ GetPermissions[t] = "allow"
                  THEN "ask" ELSE GetPermissions[t]]

\* The pin and the taint narrow: a stored "deny" stays.
NoMoreThanAsk(base) == IF base = "deny" THEN "deny" ELSE "ask"

\* decide_call; the pin comes first, then the taint, then ask_josh's own rule.
DecideCall(base, t, wait) ==
  CASE t \in Pinned -> NoMoreThanAsk(base)
    [] tainted /\ t \in TaintSet -> NoMoreThanAsk(base)
    [] t \in Question /\ ~(tainted /\ t \in TaintSet) -> IF wait THEN "ask" ELSE "allow"
    [] OTHER -> base

-----------------------------------------------------------------------------
(***************************************************************************)
(* judge.rs and rules.rs                                                   *)
(***************************************************************************)

\* decision_for.
DecisionFor(v) ==
  CASE v = "safe" -> "allow"
    [] v = "risky" -> "ask"
    [] v = "dangerous" -> IF trigger = "chat" THEN "ask" ELSE "deny"

\* The three floors under a rule that allows.
Liftable(t) ==
  /\ t \notin Pinned
  /\ trigger # "chat" => t \notin Unattended
  /\ tainted => t \notin TaintSet

\* resolve_decision: never > ask > allow among the rules that matched.
ResolveDecision(matched, t) ==
  CASE matched = {} -> "ask"
    [] "never" \in matched -> "deny"
    [] matched = {"allow"} /\ Liftable(t) -> "allow"
    [] OTHER -> "ask"

-----------------------------------------------------------------------------
Init ==
  /\ stored = [t \in Tool |-> Unset]
  /\ rules = [t \in Tool |-> Unset]
  /\ judgeOn = TRUE /\ wasOff = FALSE
  /\ trigger \in {"chat", "routine"}
  /\ pc = "idle"
  /\ offered = {} /\ perms = Default /\ tainted = FALSE
  /\ call \in Call
  /\ decision = "deny" /\ verdict = Unset /\ loaded = {}
  /\ read = FALSE
  /\ calls = 0 /\ edits = 0
  /\ ran = {}

(***************************************************************************)
(* run_turn (runs.rs)                                                      *)
(***************************************************************************)

\* tools::build: a tool the grid denies by now is not offered.  For a fresh
\* run, a refused call, or an approved one that is about to be run.
Build ==
  /\ pc \in {"idle", "approved"}
  /\ offered' = {t \in Tool : PermissionsForRun[t] # "deny"}
  /\ pc' = IF pc = "idle" THEN "built" ELSE "resuming"
  /\ UNCHANGED <<settings, trigger, perms, tainted, call, chain, read, calls, ran>>

\* Slip: the taint is carried from turn to turn.
StartTurnCarried ==
  /\ pc = "built"
  /\ pc' = "turn"
  /\ perms' = PermissionsForRun
  /\ UNCHANGED <<settings, trigger, offered, tainted, call, chain, read, calls, ran>>

\* The top of run_turn: the grid for the trigger, and the taint as the
\* approvals tell it; a failed read of the approvals counts as tainted.
StartTurn ==
  /\ pc = "built"
  /\ pc' = "turn"
  /\ perms' = PermissionsForRun
  /\ tainted' \in {read, TRUE}
  /\ UNCHANGED <<settings, trigger, offered, call, chain, read, calls, ran>>

\* The model asks for a call.  What is not in the toolbox is denied, the rest is
\* for decide_call; an allowed risky call goes to the judge if the judge is on.
Gate(t, wait) ==
  /\ pc = "turn" /\ calls < MaxCalls
  /\ wait => t \in Question
  /\ call' = [tool |-> t, wait |-> wait]
  /\ decision' = IF t \in offered THEN DecideCall(perms[t], t, wait) ELSE "deny"
  /\ verdict' = Unset /\ loaded' = {}
  /\ pc' = IF decision' = "allow" /\ t \in Risky /\ judgeOn THEN "judge" ELSE "rules"
  /\ calls' = calls + 1
  /\ UNCHANGED <<settings, trigger, turn, read, ran>>

\* The judge's first pass, for what the grid allows.  It fails open.
Judge ==
  /\ pc = "judge"
  /\ \/ \E v \in Verdict : verdict' = v /\ decision' = DecisionFor(v)
     \/ verdict' = "unavailable" /\ UNCHANGED decision
  /\ pc' = "rules"
  /\ UNCHANGED <<settings, trigger, turn, call, loaded, read, calls, ran>>

\* Slip: the rules are read whatever the judge said.
LoadRulesAlways ==
  /\ pc = "rules"
  /\ loaded' = IF decision = "ask" THEN {rules[t] : t \in Tool} \ {Unset} ELSE {}
  /\ pc' = IF loaded' = {} THEN "end" ELSE "classify"
  /\ UNCHANGED <<settings, trigger, turn, call, decision, verdict, read, calls, ran>>

\* The rules are read for a call that is to be asked about, unless the judge
\* found it dangerous.
LoadRules ==
  /\ pc = "rules"
  /\ loaded' = IF decision = "ask" /\ verdict # "dangerous"
               THEN {rules[t] : t \in Tool} \ {Unset} ELSE {}
  /\ pc' = IF loaded' = {} THEN "end" ELSE "classify"
  /\ UNCHANGED <<settings, trigger, turn, call, decision, verdict, read, calls, ran>>

\* The classifier, a model, may match any of the rules; its answer decides.
Classify ==
  /\ pc = "classify"
  /\ \E matched \in SUBSET loaded : decision' = ResolveDecision(matched, call.tool)
  /\ pc' = "end"
  /\ UNCHANGED <<settings, trigger, turn, call, verdict, loaded, read, calls, ran>>

\* A risky call that is allowed by now and was not judged is judged here.
EndOfChain ==
  /\ pc = "end"
  /\ pc' = IF decision = "allow" /\ call.tool \in Risky /\ verdict = Unset /\ judgeOn
           THEN "endJudge" ELSE "check"
  /\ UNCHANGED <<settings, trigger, turn, call, chain, read, calls, ran>>

\* The second pass: risky does not ask again what a rule has lifted.
EndJudge ==
  /\ pc = "endJudge"
  /\ \/ \E v \in Verdict :
          /\ verdict' = v
          /\ decision' = IF v = "dangerous" THEN DecisionFor(v) ELSE "allow"
     \/ verdict' = "unavailable" /\ UNCHANGED decision
  /\ pc' = "check"
  /\ UNCHANGED <<settings, trigger, turn, call, loaded, read, calls, ran>>

\* before_ask_purchase and before_ask_propose_tool: what the tool is going to
\* refuse anyway is not asked about.
BeforeAsk ==
  /\ pc = "check"
  /\ IF decision # "deny" /\ call.tool \in Prechecked
     THEN decision' \in {"allow", "ask"} ELSE UNCHANGED decision
  /\ pc' = "act"
  /\ UNCHANGED <<settings, trigger, turn, call, verdict, loaded, read, calls, ran>>

Park ==
  /\ pc = "act" /\ decision = "ask"
  /\ pc' = "parked"
  /\ UNCHANGED <<settings, trigger, turn, call, chain, read, calls, ran>>

Refuse ==
  /\ pc = "act" /\ decision = "deny"
  /\ pc' = "turn"
  /\ UNCHANGED <<settings, trigger, turn, call, chain, read, calls, ran>>

Runs(asked) ==
  ran' = ran \cup {[tool |-> call.tool, wait |-> call.wait, asked |-> asked,
                    read |-> read, verdict |-> verdict,
                    offered |-> call.tool \in offered, grid |-> perms[call.tool]]}

RunTool ==
  /\ pc = "act" /\ decision = "allow"
  /\ Runs(FALSE)
  /\ pc' = "turn"
  /\ UNCHANGED <<settings, trigger, turn, call, chain, read, calls>>

-----------------------------------------------------------------------------
(***************************************************************************)
(* The approval (routes/approvals.rs decide, runs.rs decide_approval)      *)
(***************************************************************************)

Edit == edits < MaxEdits /\ edits' = edits + 1

\* "Always allow" and "Never": the grid and a rule, before the claim of the
\* approval; a question is not remembered and a pinned tool not as allowed.
Remember(d) ==
  /\ Edit /\ pc = "parked"
  /\ call.tool \notin Question
  /\ d = "allow" => call.tool \notin Pinned
  /\ SetPermissions([GetPermissions EXCEPT ![call.tool] = d])
  /\ rules' = [rules EXCEPT ![call.tool] = IF d = "allow" THEN "allow" ELSE "never"]
  /\ UNCHANGED <<judgeOn, wasOff, trigger, pc, turn, call, chain, read, calls, ran>>

Approve ==
  /\ pc = "parked"
  /\ pc' = "approved"
  /\ read' = (read \/ call.tool \in Fulfilled)
  /\ UNCHANGED <<settings, trigger, turn, call, chain, calls, ran>>

\* A refused call leaves the turn to go on, with a fresh toolbox and run_turn.
Reject ==
  /\ pc = "parked"
  /\ pc' = "idle"
  /\ UNCHANGED <<settings, trigger, turn, call, chain, read, calls, ran>>

Expire ==
  /\ pc = "parked"
  /\ pc' = "over"
  /\ UNCHANGED <<settings, trigger, turn, call, chain, read, calls, ran>>

\* Slip: an approved call is run without another look at the grid.
ResumeUnchecked ==
  /\ pc = "resuming"
  /\ Runs(TRUE)
  /\ pc' = "built"
  /\ UNCHANGED <<settings, trigger, turn, call, chain, read, calls>>

\* An approved call runs if its tool is still offered; a result that came
\* with the approval is taken in any case.  The turn goes on with this toolbox.
Resume ==
  /\ pc = "resuming"
  /\ \/ (call.tool \in offered \/ call.tool \in Fulfilled \cup Question) /\ Runs(TRUE)
     \/ call.tool \notin offered /\ UNCHANGED ran
  /\ pc' = "built"
  /\ UNCHANGED <<settings, trigger, turn, call, chain, read, calls>>

-----------------------------------------------------------------------------
(***************************************************************************)
(* Josh's settings (routes/permissions.rs, approvals.rs, judge.rs)         *)
(***************************************************************************)

\* The client puts back the merged map with one decision changed.
PutPermission(t, d) ==
  /\ Edit
  /\ SetPermissions([GetPermissions EXCEPT ![t] = d])
  /\ UNCHANGED <<rules, judgeOn, wasOff, trigger, pc, turn, call, chain, read, calls, ran>>

\* create_rule, put_rule and delete_rule.
PutRule(t, b) ==
  /\ Edit
  /\ rules' = [rules EXCEPT ![t] = b]
  /\ UNCHANGED <<stored, judgeOn, wasOff, trigger, pc, turn, call, chain, read, calls, ran>>

SetJudge(on) ==
  /\ Edit
  /\ judgeOn' = on /\ wasOff' = (wasOff \/ ~on)
  /\ UNCHANGED <<stored, rules, trigger, pc, turn, call, chain, read, calls, ran>>

Next ==
  \/ Build \/ StartTurn \/ \E t \in Tool, wait \in BOOLEAN : Gate(t, wait)
  \/ Judge \/ LoadRules \/ Classify \/ EndOfChain \/ EndJudge \/ BeforeAsk
  \/ Park \/ Refuse \/ RunTool
  \/ \E d \in {"allow", "deny"} : Remember(d)
  \/ Approve \/ Reject \/ Expire \/ Resume
  \/ \E t \in Tool, d \in Decision : PutPermission(t, d)
  \/ \E t \in Tool, b \in Behaviour \cup {Unset} : PutRule(t, b)
  \/ \E on \in BOOLEAN : SetJudge(on)

Spec == Init /\ [][Next]_vars

-----------------------------------------------------------------------------
(***************************************************************************)
(* Properties                                                              *)
(***************************************************************************)

\* S13b-03-02: a read of Josh's own machine runs only when that very call was
\* approved, whatever grid, rules, judge and "Always allow" say.
ReadsAreAsked == \A e \in ran : e.tool \in Fulfilled => e.asked

\* tighten_set: what an unattended run must not hold on "allow" is not run
\* unasked by one, not even through a rule or a setting changed meanwhile.
UnattendedIsAsked ==
  \A e \in ran : trigger # "chat" /\ e.tool \in Unattended \ Prechecked => e.asked

\* Design 4.5: after an approved read, the run's egress and memory tools wait
\* for Josh for the rest of the run, across parks and resumes.
TaintIsAsked == \A e \in ran : e.read /\ e.tool \in TaintSet => e.asked

\* S4-04: a call judged dangerous is run only when Josh approved it, and by
\* an unattended run not at all; no rule lifts it.
DangerousIsHeld ==
  \A e \in ran : e.verdict = "dangerous" => e.asked /\ trigger = "chat"

\* S4-R F9: while the judge is on, no risky call runs unasked and unjudged,
\* also one a rule lifted; only an outage lets it through.
RiskyIsJudged ==
  \A e \in ran : e.tool \in Risky /\ ~e.asked /\ e.verdict = Unset => wasOff

\* "Never" is final for the copies the run goes by, which may be older than
\* Josh's last word: what the grid denied when the toolbox was built is run
\* neither by a rule, nor by the judge failing open, nor by an approval given
\* before it was set (only a result the client already computed is taken); what
\* it denied when the turn began is not run either, ask_josh apart, whose own
\* rule does not honour a "deny".
NeverIsFinal ==
  \A e \in ran :
    /\ ~e.offered => e.asked /\ e.tool \in Fulfilled \cup Question
    /\ e.grid = "deny" => e.tool \in Question

\* A refusal is not taken back further down the chain.
RefusalStays == [][decision = "deny" /\ calls' = calls => decision' = "deny"]_vars

(***************************************************************************)
(* The inductive invariant                                                 *)
(***************************************************************************)

InChain == {"judge", "rules", "classify", "end", "endJudge", "check", "act"}

\* Where the run is says what the decision can be.
Stations ==
  /\ pc \in {"judge", "endJudge"} => decision = "allow"
  /\ pc = "classify" => decision = "ask"
  /\ pc \in {"judge", "classify", "endJudge"} => verdict # "dangerous"
  /\ pc \in {"judge", "endJudge"} \/ verdict # Unset => call.tool \in Risky

\* The turn's copies are as tight as what they were read from.
TurnIsTight ==
  /\ read /\ pc \notin {"idle", "approved", "resuming", "built"} => tainted
  /\ pc \notin {"idle", "built"} /\ trigger # "chat" => \A t \in Unattended : perms[t] # "allow"

\* What is allowed along the chain is above all floors, except what the look
\* ahead lets through to be refused.
AllowedIsLiftable ==
  pc \in InChain /\ decision = "allow" =>
    Liftable(call.tool) \/ (pc = "act" /\ call.tool \in Prechecked)

\* What either copy denies is denied along the chain, and is not parked.
DeniedIsDenied ==
  /\ pc \in InChain /\ call.tool \notin offered => decision = "deny"
  /\ (pc \in InChain /\ decision # "deny") \/ pc \in {"parked", "approved", "resuming"} =>
       perms[call.tool] # "deny" \/ call.tool \in Question

DangerousInChain ==
  verdict = "dangerous" =>
    /\ pc \in InChain => decision = DecisionFor("dangerous")
    /\ pc \in {"parked", "approved", "resuming"} => trigger = "chat"

UnjudgedInChain ==
  /\ judgeOn \/ wasOff
  /\ pc \in {"check", "act"} /\ decision = "allow" /\ call.tool \in Risky /\ verdict = Unset
       => wasOff

\* The chain as a whole: what each station hands on to the next.
IInv ==
  /\ TypeOK
  /\ Stations /\ TurnIsTight /\ AllowedIsLiftable
  /\ DeniedIsDenied /\ DangerousInChain /\ UnjudgedInChain
  /\ ReadsAreAsked /\ UnattendedIsAsked /\ TaintIsAsked
  /\ DangerousIsHeld /\ RiskyIsJudged /\ NeverIsFinal

\* decide_call: "ask_josh with wait: true has to park the run".
WaitParks == \A e \in ran : e.wait => e.asked
=============================================================================
