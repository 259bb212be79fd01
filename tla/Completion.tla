----------------------------- MODULE Completion -----------------------------
(***************************************************************************)
(* One completion: the requests it makes of the provider and the events it  *)
(* turns the response into (OpenRouterPort::stream and parse_sse_stream in  *)
(* model/src/port.rs, image_transport.rs for requests with an image).  The  *)
(* provider is the input: the replies to the requests, then the lines of    *)
(* the response.  A text, a name, a piece of arguments is one token; the    *)
(* texts of errors are left out, and the size of a fragment is its tokens.  *)
(***************************************************************************)
EXTENDS Integers, Sequences, FiniteSets, SequencesExt

BusyTries == 3
FallbackModels == <<"flash-lite", "oss">>
Model == {"flash-lite", "oss", "pinned"}

\* The tries, in order.  An image turn waits for its own model.
Attempts(model, image) ==
  [i \in 1..BusyTries |-> model]
    \o IF image THEN <<>> ELSE <<SelectSeq(FallbackModels, LAMBDA m : m # model)[1]>>

Unsaid == -100

\* Seconds asked for in the body come before those of the header.
BusyWaitMs(status, body, header) ==
  LET seconds == IF body # Unsaid THEN body ELSE IF header # Unsaid THEN header ELSE 1
      ms == IF seconds < 0 THEN 0 ELSE seconds * 1000
  IN  IF status # 429 THEN 0 ELSE IF ms > 5000 THEN 5000 ELSE ms

-----------------------------------------------------------------------------
(***************************************************************************)
(* The requests.  asked lists the models requested, end is what came of it; *)
(* keys tells of each try whether a key is found when it begins.            *)
(***************************************************************************)
Unsent == [asked |-> <<>>, try |-> 1, choice |-> FALSE, end |-> "open"]

Ask(s, models) == [s EXCEPT !.asked = Append(@, models[s.try])]

\* A busy model is tried again, with the request as it was.
Busy(s, models, choice) ==
  IF s.try = Len(models) THEN [s EXCEPT !.end = "busy"]
                         ELSE [s EXCEPT !.try = @ + 1, !.choice = choice]

\* One reply to one request.  A 400 is retried once in each try without the
\* tool choice; any other failure ends the completion, one in transport too.
Exchange(s, models, choice, keys, reply) ==
  CASE s.end # "open" -> s
    [] s.end = "open" /\ ~keys[s.try] -> [s EXCEPT !.end = "failed"]
    [] s.end = "open" /\ keys[s.try] ->
         CASE reply = 200 -> [Ask(s, models) EXCEPT !.end = "stream"]
           [] reply = 429 -> Busy(Ask(s, models), models, choice)
           [] reply = 400 /\ s.choice -> [Ask(s, models) EXCEPT !.choice = FALSE]
           [] OTHER -> [Ask(s, models) EXCEPT !.end = "failed"]

Requests(model, choice, keys, replies) ==
  FoldLeft(LAMBDA s, r : Exchange(s, Attempts(model, FALSE), choice, keys, r),
           [Unsent EXCEPT !.choice = choice], replies)

\* With an image: HTTPS and no proxy or nothing is sent, nor if the request is
\* too large; no tool choice goes along, and a redirect is an error, like a 429
\* whose body is too large or does not arrive in time.
ImageExchange(s, models, keys, reply) ==
  CASE s.end # "open" -> s
    [] s.end = "open" /\ ~keys[s.try] -> [s EXCEPT !.end = "failed"]
    [] s.end = "open" /\ keys[s.try] ->
         CASE reply = 200 -> [Ask(s, models) EXCEPT !.end = "stream"]
           [] reply = 429 -> Busy(Ask(s, models), models, FALSE)
           [] OTHER -> [Ask(s, models) EXCEPT !.end = "failed"]

ImageRequests(model, direct, fits, keys, replies) ==
  IF direct /\ fits
  THEN FoldLeft(LAMBDA s, r : ImageExchange(s, Attempts(model, TRUE), keys, r), Unsent, replies)
  ELSE [Unsent EXCEPT !.end = "failed"]

-----------------------------------------------------------------------------
(***************************************************************************)
(* The response: chunks of bytes to lines.  lim is what bounds an image's   *)
(* response; off, there are no bounds.                                      *)
(***************************************************************************)
NoLimits == [on |-> FALSE]
ImageLimits(chunk, line, calls, output) ==
  [on |-> TRUE, chunk |-> chunk, line |-> line, calls |-> calls, output |-> output]

Newline == "nl"
Unread == [buffer |-> <<>>, lines |-> <<>>, over |-> FALSE]

Byte(lim, r, b) ==
  CASE r.over -> r
    [] ~r.over /\ lim.on /\ Len(r.buffer) >= lim.line -> [r EXCEPT !.over = TRUE]
    [] OTHER -> IF b = Newline THEN [r EXCEPT !.lines = Append(@, r.buffer), !.buffer = <<>>]
                               ELSE [r EXCEPT !.buffer = Append(@, b)]

Chunk(lim, r, chunk) ==
  IF lim.on /\ Len(chunk) > lim.chunk THEN [r EXCEPT !.over = TRUE]
  ELSE FoldLeft(LAMBDA q, b : Byte(lim, q, b), r, chunk)

\* What is left in the buffer at the end is dropped.
Read(lim, chunks) == FoldLeft(LAMBDA r, c : Chunk(lim, r, c), Unread, chunks)

-----------------------------------------------------------------------------
(***************************************************************************)
(* Lines to events.  A line is noise (a comment, an empty one), "[DONE]",   *)
(* junk that is no frame, or a frame; and the response may be cut: silent   *)
(* for a minute, broken off, out of time, or over its limits.               *)
(***************************************************************************)
NoUsage == 0
NoReason == "none"

Failure == [kind |-> "error"]
Delta(text) == [kind |-> "delta", text |-> text]
Done(s) == [kind |-> "done", model |-> s.model, usage |-> s.usage, finish |-> s.finish]
ToolCalls(s) == [kind |-> "calls", calls |-> s.calls, usage |-> s.usage]

Begin(model) ==
  [model |-> model, usage |-> NoUsage, calls |-> <<>>, finish |-> NoReason, toolFinish |-> FALSE,
   texts |-> 0, size |-> 0, out |-> <<>>, open |-> TRUE]

End(s, event) == [s EXCEPT !.out = Append(@, event), !.open = FALSE]

\* final_event: an empty answer is told as an error if the provider said so,
\* and calls are run only if it said that they are complete.
FinalEvent(s) ==
  CASE s.texts = 0 /\ DOMAIN s.calls = {} -> IF s.finish = "error" THEN Failure ELSE Done(s)
    [] DOMAIN s.calls # {} /\ s.toolFinish -> ToolCalls(s)
    [] OTHER -> Done(s)

NoCall == [name |-> "", args |-> <<>>]

\* A fragment of a call: the first brings the name, all bring arguments.
Fragment(lim, s, f) ==
  LET old == IF f.index \in DOMAIN s.calls THEN s.calls[f.index] ELSE NoCall
      new == [name |-> IF f.name = "" THEN old.name ELSE f.name, args |-> old.args \o f.args]
      size == Len(f.args) + (IF f.name = "" THEN 0 ELSE 1)
      over == \/ f.index \notin DOMAIN s.calls /\ Cardinality(DOMAIN s.calls) >= lim.calls
              \/ s.size + size > lim.output
  IN  CASE ~s.open -> s
        [] s.open /\ lim.on /\ over -> End(s, Failure)
        [] OTHER -> [s EXCEPT !.size = @ + size,
                              !.calls = [i \in DOMAIN s.calls \cup {f.index} |->
                                           IF i = f.index THEN new ELSE s.calls[i]]]

Text(lim, s, text) ==
  CASE ~s.open \/ text = "" -> s
    [] s.open /\ text # "" /\ lim.on /\ s.size >= lim.output -> End(s, Failure)
    [] OTHER -> [s EXCEPT !.size = @ + 1, !.texts = @ + 1, !.out = Append(@, Delta(text))]

\* A frame: model, usage, error, reason, fragments, text, in this order.
Frame(lim, s, f) ==
  LET told == [s EXCEPT !.model = IF f.model = "" THEN @ ELSE f.model,
                        !.usage = IF f.usage = NoUsage THEN @ ELSE f.usage]
      reasoned == [told EXCEPT !.toolFinish = @ \/ f.finish = "tool_calls",
                               !.finish = IF f.finish = NoReason THEN @ ELSE f.finish]
  IN  IF f.error THEN End(told, Failure)
      ELSE Text(lim, FoldLeft(LAMBDA t, c : Fragment(lim, t, c), reasoned, f.calls), f.text)

Line(lim, s, line) ==
  CASE ~s.open \/ line.kind = "noise" -> s
    [] s.open /\ line.kind = "[DONE]" -> End(s, FinalEvent(s))
    [] s.open /\ line.kind = "junk" -> IF lim.on THEN End(s, Failure) ELSE s
    [] s.open /\ line.kind = "cut" -> End(s, Failure)
    [] s.open /\ line.kind = "frame" -> Frame(lim, s, line)

\* A response that just ends is decided like one that says it is done.
Events(lim, model, lines) ==
  LET s == FoldLeft(LAMBDA t, l : Line(lim, t, l), Begin(model), lines)
  IN  IF s.open THEN Append(s.out, FinalEvent(s)) ELSE s.out

=============================================================================
