----------------------------- MODULE Purchasing -----------------------------
(***************************************************************************)
(* Purchases of one bot (server/src/purchasing.rs, routes/purchasing.rs,    *)
(* and the purchase tool's way through run_turn and decide_approval).  A    *)
(* call is looked at before Josh is asked, waits for him, and is recorded   *)
(* as a pending purchase.  When the card is charged, Stripe asks by webhook *)
(* and a handler matches the charge with a pending purchase, marks it and   *)
(* answers, taking the database's lock anew for each.  Stripe delivers a    *)
(* webhook at least once.                                                   *)
(*                                                                         *)
(* Amounts are in dollars; a charge fits a purchase within five percent.    *)
(* Left out: that names of merchants must fit too (a charge that does not   *)
(* fit by its amount stands for those), refunds, and cards.                 *)
(***************************************************************************)
EXTENDS Integers, Sequences, FiniteSets

CONSTANTS
  Call,       \* calls of the purchase tool, by any runs of the bot
  Charge,     \* authorizations Stripe asks for
  Delivery,   \* deliveries of Stripe's question
  Amounts, Limits,
  MaxMonth, MaxEdits

Nobody == [charge |-> FALSE]

ASSUME PurchasingAssumption ==
  /\ Amounts \subseteq Nat \ {0} /\ Limits \subseteq Nat
  /\ {MaxMonth, MaxEdits} \subseteq Nat
  /\ Nobody \notin Charge

VARIABLES
  month,
  settings,   \* can_buy and monthly_limit_usd of the bot (0 for none)
  call,       \* Call -> where it is
  purchases,  \* the table, in the order of created_at
  charge,     \* Charge -> what Stripe knows of it
  handler,    \* Delivery -> where its handler is
  high,       \* history: month -> the highest limit in force in it
  edits

purchasing == <<month, settings, call, purchases, charge, handler, high, edits>>

Month == 0..MaxMonth
Purchase ==
  [amount : Amounts, status : {"pending", "authorized", "settled"}, settled : Amounts \cup {0},
   charge : Charge \cup {Nobody}, created : Month,
   \* history: was Josh asked, had the sums moved since the look ahead, was it
   \* recorded without the sum of the month, how often was it authorized
   asked : BOOLEAN, moved : BOOLEAN, blind : BOOLEAN, times : Nat]

PurchasingOK ==
  /\ month \in Month
  /\ settings \in [canBuy : BOOLEAN, limit : Limits \cup {0}]
  /\ call \in [Call -> [pc : {"idle", "look", "ask", "granted", "run", "over"},
                        amount : Amounts \cup {0}, asked : BOOLEAN, sums : Seq(Nat)]]
  /\ purchases \in Seq(Purchase)
  /\ charge \in [Charge -> [amount : Amounts \cup {0}, answer : {"none", "open", "approved", "declined"},
                            captured : Amounts \cup {0}]]
  /\ handler \in [Delivery -> [pc : {"idle", "find", "mark", "tell", "over"}, charge : Charge \cup {Nobody}, row : Nat]]
  /\ high \in [Month -> Limits \cup {0}]
  /\ edits \in 0..MaxEdits

Resting == [pc |-> "idle", amount |-> 0, asked |-> FALSE, sums |-> <<>>]

PurchasingInit ==
  /\ month = 0
  /\ settings \in [canBuy : {TRUE}, limit : Limits]
  /\ call = [c \in Call |-> Resting]
  /\ purchases = <<>>
  /\ charge = [a \in Charge |-> [amount |-> 0, answer |-> "none", captured |-> 0]]
  /\ handler = [d \in Delivery |-> [pc |-> "idle", charge |-> Nobody, row |-> 0]]
  /\ high = [m \in Month |-> IF m = 0 THEN settings.limit ELSE 0]
  /\ edits = 0

bot == <<month, settings, high, edits>>
stripe == <<charge, handler>>

-----------------------------------------------------------------------------
(***************************************************************************)
(* What counts against the limit, and what does not fit.                   *)
(***************************************************************************)
Counts(row) == IF row.status = "settled" THEN row.settled ELSE row.amount

\* The sum of a sequence of numbers.
Total(numbers) ==
  LET upto[i \in 0..Len(numbers)] == IF i = 0 THEN 0 ELSE upto[i - 1] + numbers[i]
  IN  upto[Len(numbers)]

\* monthly_spent_usd: by the month of the approval, whatever became of it.
CountsIn(m, row) == IF row.created = m THEN Counts(row) ELSE 0
MonthlySpent(m) == Total([i \in DOMAIN purchases |-> CountsIn(m, purchases[i])])

\* What the sum of the month is read as: a read that fails finds nothing spent.
Readings == {0, MonthlySpent(month)}

WouldExceed(amount, spent) == settings.limit = 0 \/ spent + amount > settings.limit

Offered == settings.canBuy /\ settings.limit > 0

\* Within five percent of what was approved.
Fits(approved, asked) ==
  LET off == IF approved > asked THEN approved - asked ELSE asked - approved
  IN  20 * off <= approved

Matching(amount) ==
  {i \in DOMAIN purchases : purchases[i].status = "pending" /\ Fits(purchases[i].amount, amount)}

-----------------------------------------------------------------------------
(***************************************************************************)
(* A call of the tool.                                                     *)
(***************************************************************************)
CallTo(c, pc) == call' = [call EXCEPT ![c].pc = pc]
CallEnds(c) == call' = [call EXCEPT ![c] = [Resting EXCEPT !.pc = "over"]]

\* The model calls the tool, if the turn offers it.
Propose(c, amount) ==
  /\ call[c].pc = "idle"
  /\ Offered
  /\ call' = [call EXCEPT ![c] = [@ EXCEPT !.pc = "look", !.amount = amount]]
  /\ UNCHANGED <<bot, purchases, stripe>>

Sums == <<settings.limit, month, MonthlySpent(month)>>

\* Slip: the look ahead refuses what the limit still admits.
LookAheadStrictly(c) ==
  /\ call[c].pc = "look"
  /\ call' = [call EXCEPT ![c] =
       [@ EXCEPT !.pc = IF MonthlySpent(month) + call[c].amount >= settings.limit THEN "run" ELSE "ask",
                 !.sums = Sums]]
  /\ UNCHANGED <<bot, purchases, stripe>>

\* before_ask_purchase, after the gate: what would exceed the limit goes on to
\* the tool, which refuses it; the rest is asked.
LookAhead(c) ==
  /\ call[c].pc = "look"
  /\ \E spent \in Readings :
       call' = [call EXCEPT ![c] =
         [@ EXCEPT !.pc = IF WouldExceed(call[c].amount, spent) THEN "run" ELSE "ask", !.sums = Sums]]
  /\ UNCHANGED <<bot, purchases, stripe>>

Decide(c) ==
  /\ call[c].pc = "ask"
  /\ \/ call' = [call EXCEPT ![c] = [@ EXCEPT !.pc = "granted", !.asked = TRUE]]
     \/ CallEnds(c)
  /\ UNCHANGED <<bot, purchases, stripe>>

\* An approved call runs if the tool is still offered (offered_specs_for_model).
Resume(c) ==
  /\ call[c].pc = "granted"
  /\ IF Offered THEN CallTo(c, "run") ELSE CallEnds(c)
  /\ UNCHANGED <<bot, purchases, stripe>>

AsPurchase(c, spent) ==
  [amount |-> call[c].amount, status |-> "pending", settled |-> 0, charge |-> Nobody,
   created |-> month, asked |-> call[c].asked, moved |-> call[c].sums # Sums,
   blind |-> spent # MonthlySpent(month), times |-> 0]

\* Slip: what Josh granted is not held against the limit again.
RecordGranted(c) ==
  /\ call[c].pc = "run"
  /\ purchases' = IF ~call[c].asked /\ WouldExceed(call[c].amount, MonthlySpent(month)) THEN purchases
                  ELSE Append(purchases, AsPurchase(c, MonthlySpent(month)))
  /\ CallEnds(c)
  /\ UNCHANGED <<bot, stripe>>

\* run_purchase_tool: check and insert under one lock.
RecordPurchase(c) ==
  /\ call[c].pc = "run"
  /\ \E spent \in Readings :
       purchases' = IF WouldExceed(call[c].amount, spent) THEN purchases
                    ELSE Append(purchases, AsPurchase(c, spent))
  /\ CallEnds(c)
  /\ UNCHANGED <<bot, stripe>>

-----------------------------------------------------------------------------
(***************************************************************************)
(* Stripe's webhooks (handle_stripe_webhook).                              *)
(***************************************************************************)
\* The card is charged, and Stripe asks.
Authorize(a, amount) ==
  /\ charge[a].answer = "none"
  /\ charge' = [charge EXCEPT ![a] = [@ EXCEPT !.amount = amount, !.answer = "open"]]
  /\ UNCHANGED <<bot, call, purchases, handler>>

\* Also again, when it had no answer in time.
Deliver(d, a) ==
  /\ charge[a].answer # "none"
  /\ handler[d].pc = "idle"
  /\ handler' = [handler EXCEPT ![d] = [@ EXCEPT !.pc = "find", !.charge = a]]
  /\ UNCHANGED <<bot, call, purchases, charge>>

\* find_matching_pending_purchase: the oldest that fits.
Find(d) ==
  /\ handler[d].pc = "find"
  /\ LET found == Matching(charge[handler[d].charge].amount)
     IN  handler' = [handler EXCEPT ![d] =
           IF found = {} THEN [@ EXCEPT !.pc = "tell"]
           ELSE [@ EXCEPT !.pc = "mark", !.row = CHOOSE i \in found : \A j \in found : i <= j]]
  /\ UNCHANGED <<bot, call, purchases, charge>>

\* The purchase is marked by its id, whatever it has become since.
Mark(d) ==
  /\ handler[d].pc = "mark"
  /\ LET row == purchases[handler[d].row]
     IN  purchases' = [purchases EXCEPT ![handler[d].row] =
           [row EXCEPT !.status = "authorized", !.charge = handler[d].charge, !.times = row.times + 1]]
  /\ handler' = [handler EXCEPT ![d].pc = "tell"]
  /\ UNCHANGED <<bot, call, charge>>

\* Stripe takes the first answer; it may not get it at all.
Tell(d) ==
  /\ handler[d].pc = "tell"
  /\ \/ /\ charge[handler[d].charge].answer = "open"
        /\ charge' = [charge EXCEPT ![handler[d].charge].answer =
                        IF handler[d].row = 0 THEN "declined" ELSE "approved"]
     \/ UNCHANGED charge
  /\ handler' = [handler EXCEPT ![d] = [pc |-> "over", charge |-> Nobody, row |-> 0]]
  /\ UNCHANGED <<bot, call, purchases>>

\* The merchant takes the money, not always to the cent what was authorized.
Capture(a, amount) ==
  /\ charge[a].answer = "approved" /\ charge[a].captured = 0
  /\ charge' = [charge EXCEPT ![a].captured = amount]
  /\ UNCHANGED <<bot, call, purchases, handler>>

\* handle_transaction_created: some purchase of this authorization is settled.
Settle(a) ==
  /\ charge[a].captured > 0
  /\ \E i \in DOMAIN purchases :
       /\ purchases[i].charge = a
       /\ purchases' = [purchases EXCEPT ![i] =
            [@ EXCEPT !.status = "settled", !.settled = charge[a].captured]]
  /\ UNCHANGED <<bot, call, stripe>>

-----------------------------------------------------------------------------
(***************************************************************************)
(* People and time.                                                        *)
(***************************************************************************)
PutPurchasing(new) ==
  /\ edits < MaxEdits
  /\ edits' = edits + 1
  /\ settings' = new
  /\ high' = [high EXCEPT ![month] = IF new.limit > @ THEN new.limit ELSE @]
  /\ UNCHANGED <<month, call, purchases, stripe>>

NextMonth ==
  /\ month < MaxMonth
  /\ month' = month + 1
  /\ high' = [high EXCEPT ![month + 1] = settings.limit]
  /\ UNCHANGED <<settings, call, purchases, stripe, edits>>

-----------------------------------------------------------------------------
PurchasingNext ==
  \/ \E c \in Call :
       \/ \E amount \in Amounts : Propose(c, amount)
       \/ LookAhead(c) \/ Decide(c) \/ Resume(c) \/ RecordPurchase(c)
  \/ \E a \in Charge :
       \/ \E amount \in Amounts : Authorize(a, amount) \/ Capture(a, amount)
       \/ Settle(a)
  \/ \E d \in Delivery :
       \/ \E a \in Charge : Deliver(d, a)
       \/ Find(d) \/ Mark(d) \/ Tell(d)
  \/ \E new \in [canBuy : BOOLEAN, limit : Limits \cup {0}] : PutPurchasing(new)
  \/ NextMonth

PurchasingSpec == PurchasingInit /\ [][PurchasingNext]_purchasing

-----------------------------------------------------------------------------
\* What merchants took beyond the approved amounts.
ExcessIn(m, row) ==
  IF row.created = m /\ row.status = "settled" /\ row.settled > row.amount
  THEN row.settled - row.amount ELSE 0
Excess(m) == Total([i \in DOMAIN purchases |-> ExcessIn(m, purchases[i])])

\* Recorded with the sum of the month at hand, and marked by one request at most.
Plain(row) == ~row.blind /\ row.times <= 1

\* The purchases of a month stay below the highest limit of that month, but for
\* what merchants took beyond the approved amounts: though several calls wait
\* for Josh at once and each was below the limit when he was asked, limits
\* change, and what is settled below its amount makes room for more.  Only a
\* purchase that two overlapping requests marked may count again after that,
\* and only one recorded while the read of the sum failed (monthly_spent_usd's
\* unwrap_or(0.0)) may go beyond.
WithinLimit ==
  \A m \in Month :
    (\A i \in DOMAIN purchases : purchases[i].created = m => Plain(purchases[i]))
      => MonthlySpent(m) <= high[m] + Excess(m)

\* "This always asks Josh first" holds but for a call that was over the limit
\* when it was looked at, and no longer when it ran: the limit was raised, a
\* purchase was settled for less, or a month began in between; or the read of
\* the sum failed when it ran.
AskedUnlessMoved ==
  \A i \in DOMAIN purchases : purchases[i].asked \/ purchases[i].moved \/ purchases[i].blind

\* tools/purchase.rs: "This always asks Josh first".
AlwaysAsks == \A i \in DOMAIN purchases : purchases[i].asked

=============================================================================
