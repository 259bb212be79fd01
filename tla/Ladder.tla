------------------------------- MODULE Ladder -------------------------------
(***************************************************************************)
(* Which model a run calls, and whether it may start at all: the rungs and  *)
(* the floor of unattended work (model/src/ladder.rs), the climb of a run   *)
(* that is stuck (tools/escalate.rs), the routing of a question before its  *)
(* first turn (drive in runs.rs) and the ceilings (spend.rs).  Settings are *)
(* one row per key, written by people at any time; every operator takes     *)
(* them as they are when the code reads them.  Money is counted in cents.   *)
(***************************************************************************)
EXTENDS Integers

Model == {"flash-lite", "grok", "sonnet", "gemini-flash", "opus", "fable", "other", "sol"}

Kind == {"code", "reason", "vision"}

CheapDefault == "flash-lite"     \* also the default for images
DefaultPremium == "fable"
DefaultMid == "opus"
DefaultTier1 == [code |-> "grok", reason |-> "sonnet", vision |-> "gemini-flash"]

\* The names Josh called out.  "sonnet" is not among them.
LooksPremium(model) == model \in {"opus", "fable", "sol"}

Trigger == {"chat", "routine", "webhook", "goal"}

\* The keys models.default, mid, premium and tier1.*, defaults filled in.
Settings == [default : Model, mid : Model, premium : Model, tier1 : [Kind -> Model]]

Shipped ==
  [default |-> CheapDefault, mid |-> DefaultMid, premium |-> DefaultPremium, tier1 |-> DefaultTier1]

IsPremium(s, model) == LooksPremium(model) \/ model = s.premium

\* PUT default-model refuses what is premium at the time; the other keys take
\* any model, and none looks at what the default was set to before.
PutDefault(s, model) == IF IsPremium(s, model) THEN s ELSE [s EXCEPT !.default = model]
PutMid(s, model) == [s EXCEPT !.mid = model]
PutPremium(s, model) == [s EXCEPT !.premium = model]
PutTier1(s, kind, model) == [s EXCEPT !.tier1[kind] = model]

-----------------------------------------------------------------------------
SafeFallback(s) == IF IsPremium(s, s.default) THEN CheapDefault ELSE s.default

Attended(trigger, room) == trigger = "chat" /\ ~room

ModelForRun(s, trigger, requested, room) ==
  IF room \/ (trigger # "chat" /\ IsPremium(s, requested)) THEN SafeFallback(s) ELSE requested

\* One call to the provider: unattended work lifts off the cheap floor when it
\* sends an image.
ModelForTurn(s, trigger, room, model, image) ==
  IF image /\ ~Attended(trigger, room) /\ model = CheapDefault THEN s.tier1["vision"] ELSE model

-----------------------------------------------------------------------------
\* What a model is configured as beats what its name looks like.
TierOf(s, model) ==
  CASE model = s.premium -> 3
    [] model # s.premium /\ model = s.mid -> 2
    [] model \notin {s.premium, s.mid} /\ \E kind \in Kind : model = s.tier1[kind] -> 1
    [] OTHER -> IF LooksPremium(model) THEN 3 ELSE 0

MayEscalate(trigger) == trigger = "chat"

Refused == "refused"

\* A rung that is configured as one of the rungs above it is taken from the
\* defaults instead.
SpecialistFor(s, kind) ==
  IF s.tier1[kind] \in {s.mid, s.premium} THEN DefaultTier1[kind] ELSE s.tier1[kind]
MidRung(s) == IF s.mid = s.premium THEN DefaultMid ELSE s.mid

\* The top rung closes when the money is nearly gone.
Climb(s, model, kind, lowBudget) ==
  CASE TierOf(s, model) = 0 -> SpecialistFor(s, kind)
    [] TierOf(s, model) = 1 -> MidRung(s)
    [] TierOf(s, model) = 2 -> IF lowBudget THEN Refused ELSE s.premium
    [] TierOf(s, model) = 3 -> Refused

\* A question is classified only if the specialist for reasoning is above the
\* model the run has; a failed classification reads as "lookup".
IsRoutable(trigger, room, lastFromUser) == Attended(trigger, room) /\ lastFromUser

Routed(s, enabled, trigger, room, lastFromUser, model, verdict) ==
  IF /\ enabled /\ IsRoutable(trigger, room, lastFromUser)
     /\ TierOf(s, model) < TierOf(s, s.tier1["reason"])
     /\ verdict = "work"
  THEN s.tier1["reason"] ELSE model

-----------------------------------------------------------------------------
NoFigure == -1

\* A stored ceiling is never negative.
CleanCeiling(usd) == IF usd < 0 THEN 0 ELSE usd

\* A balance that cannot be read allows the run and says so.
AccountGate(ceiling, used) ==
  CASE used = NoFigure -> "warned"
    [] used # NoFigure /\ used >= ceiling -> "denied"
    [] OTHER -> IF (ceiling - used) * 100 <= ceiling * 15 THEN "warned" ELSE "allowed"

\* A member's own ceiling comes first; a sum that cannot be read does not stop him.
GateRun(own, spent, ceiling, used) ==
  IF own # NoFigure /\ spent # NoFigure /\ spent >= own THEN "denied" ELSE AccountGate(ceiling, used)

OverUserCeiling(own, spent) == own # NoFigure /\ spent # NoFigure /\ spent >= own

InLastReserve(ceiling, spent) ==
  ceiling <= 0 \/ spent = NoFigure \/ (ceiling - spent) * 100 <= ceiling * 15

=============================================================================
