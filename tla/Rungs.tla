------------------------------- MODULE Rungs --------------------------------
(***************************************************************************)
(* What Ladder promises, checked for all settings, whatever order people    *)
(* wrote them in.                                                          *)
(***************************************************************************)
EXTENDS Integers

L == INSTANCE Ladder

\* The settings that differ in what the operators below look at.
Few == {"flash-lite", "sonnet", "opus", "fable", "other"}
Set(default, mid, premium, reason) ==
  [default |-> default, mid |-> mid, premium |-> premium,
   tier1 |-> [L!DefaultTier1 EXCEPT !["reason"] = reason, !["vision"] = reason]]
AllSettings == {Set(d, m, p, r) : d \in Few, m \in Few, p \in Few, r \in Few}

Unattended == {<<t, room>> \in L!Trigger \X BOOLEAN : ~L!Attended(t, room)}

\* The model of an unattended run or of a room round is never premium, by name
\* or by configuration, though the default it falls back to was made premium
\* afterwards, or by hand ("a floor that cannot be configured away").  The cheap
\* model itself remains, should somebody name it the premium one.
ASSUME FloorHolds ==
  \A s \in AllSettings, u \in Unattended, requested \in Few :
    LET model == L!ModelForRun(s, u[1], requested, u[2])
    IN  model = L!CheapDefault \/ ~L!IsPremium(s, model)

\* It is needed: PUT default-model looks at what is premium then, PUT
\* premium-model at no default.
ASSUME DefaultTurnsPremium ==
  \E model \in L!Model :
    LET s == L!PutPremium(L!PutDefault(L!Shipped, model), model)
    IN  s.default # L!Shipped.default /\ L!IsPremium(s, s.default)

\* A room round does not even look at the pin of the member.
ASSUME RoundIgnoresPins ==
  \A s \in AllSettings, t \in L!Trigger, a, b \in Few :
    L!ModelForRun(s, t, a, TRUE) = L!ModelForRun(s, t, b, TRUE)

\* Once an image is sent the floor is as good as the specialist for images, no
\* better: no other model gets in.
ASSUME LiftIsTheSpecialist ==
  \A s \in AllSettings, u \in Unattended, requested \in Few, image \in BOOLEAN :
    LET floor == L!ModelForRun(s, u[1], requested, u[2])
        model == L!ModelForTurn(s, u[1], u[2], floor, image)
    IN  model # floor => image /\ floor = L!CheapDefault /\ model = s.tier1["vision"]

\* And that specialist may be a premium model: PUT tier1-models refuses nothing,
\* so a timer's turn with a screenshot can reach one after all ("no timer ever
\* reaches Fable, Sol or Astra").
ASSUME LiftMayBePremium ==
  \E u \in Unattended :
    LET s == L!PutTier1(L!Shipped, "vision", "fable")
        floor == L!ModelForRun(s, u[1], "fable", u[2])
    IN  L!IsPremium(s, L!ModelForTurn(s, u[1], u[2], floor, TRUE))

-----------------------------------------------------------------------------
\* No rung is configured as another.
Apart(s) ==
  /\ s.mid # s.premium
  /\ \A kind \in L!Kind : s.tier1[kind] \notin {s.mid, s.premium}

\* On rungs that are apart a climb is one rung up, never two and never none, up
\* to the premium model and no further, whatever kind of stuck each step is.
ASSUME OneRungUp ==
  \A s \in {q \in AllSettings : Apart(q)}, model \in L!Model, kind \in L!Kind, low \in BOOLEAN :
    LET next == L!Climb(s, model, kind, low)
        tier == L!TierOf(s, model)
    IN  /\ next # L!Refused => L!TierOf(s, next) = tier + 1
        /\ next = L!Refused <=> (tier = 3 \/ (tier = 2 /\ low))

\* Where they are not, the defaults stand in, and a run can be left where it
\* was, or be two rungs up at once ("One rung up, never two").
ASSUME CollapsedRungs ==
  LET lifted == L!PutTier1(L!Shipped, "reason", L!DefaultMid)
      lowered == L!PutMid(L!Shipped, "sonnet")
  IN  /\ L!TierOf(lifted, L!Climb(lifted, L!CheapDefault, "reason", FALSE)) = 0
      /\ L!TierOf(lowered, L!Climb(lowered, L!CheapDefault, "reason", FALSE)) = 2

\* No climb goes down, collapsed or not, and only the top rung is ever closed
\* for money.
ASSUME NeverDown ==
  \A s \in AllSettings, model \in L!Model, kind \in L!Kind :
    LET next == L!Climb(s, model, kind, FALSE)
    IN  /\ next # L!Refused => L!TierOf(s, next) >= L!TierOf(s, model)
        /\ L!Climb(s, model, kind, TRUE) # next => L!TierOf(s, model) = 2

\* A routing only ever moves a chat run up.
ASSUME RoutedUp ==
  \A s \in AllSettings, model \in L!Model, t \in L!Trigger, room, on, last \in BOOLEAN,
     verdict \in {"lookup", "action", "work"} :
    LET next == L!Routed(s, on, t, room, last, model, verdict)
    IN  next # model => (L!Attended(t, room) /\ on /\ L!TierOf(s, next) > L!TierOf(s, model))

-----------------------------------------------------------------------------
Figures == (-1)..21
Ceilings == {L!CleanCeiling(usd) : usd \in (-1)..20}

\* More spent never opens what was closed: neither the start of a run nor the
\* top rung, which closes before the runs do.
ASSUME SpendingOnlyCloses ==
  \A c \in Ceilings, u, v \in Figures \ {L!NoFigure} : u <= v =>
    /\ L!AccountGate(c, u) = "denied" => L!AccountGate(c, v) = "denied"
    /\ L!InLastReserve(c, u) => L!InLastReserve(c, v)
    /\ L!AccountGate(c, u) # "allowed" => L!InLastReserve(c, u)

\* The two questions asked of a member's own ceiling agree, before a routine
\* and before a message, and the platform's holds for members as well.
ASSUME CeilingsAgree ==
  \A own, spent, used \in {-1, 0, 3, 4, 5, 20}, c \in Ceilings :
    L!GateRun(own, spent, c, used) = "denied"
      <=> L!OverUserCeiling(own, spent) \/ L!AccountGate(c, used) = "denied"

=============================================================================
