------------------------------ MODULE Answers -------------------------------
(***************************************************************************)
(* What Completion promises the turn that waits for it, checked for all     *)
(* short exchanges, splits of the bytes and sequences of lines.             *)
(***************************************************************************)
EXTENDS Integers, Sequences, SequencesExt, FiniteSetsExt

C == INSTANCE Completion

Rebuffs == BoundedSeq({429, 400}, 8)
Exchanges == {<<r, last>> : r \in Rebuffs, last \in {200, 500}}
AllKeys == [try \in 1..4 |-> TRUE]
Replies(x) == x[1] \o <<x[2]>>

Twice(seq, x) == \E i \in 1..(Len(seq) - 1) : seq[i] = x /\ seq[i + 1] = x

\* However the provider replies, the requests come to an end: at most four
\* tries, each repeated at most once without its tool choice, so eight; and
\* with no tool choice there is nothing to repeat.
ASSUME RequestsEnd ==
  \A model \in C!Model, choice \in BOOLEAN, x \in Exchanges :
    LET s == C!Requests(model, choice, AllKeys, Replies(x))
    IN  /\ s.end # "open"
        /\ Len(s.asked) <= IF choice THEN 8 ELSE 4
        /\ s.end = "stream" => x[2] = 200 /\ Len(s.asked) = Len(Replies(x))

\* The fallback is asked only when the requested model was busy three times, it
\* is another model, and there is no way back.
ASSUME FallbackIsLast ==
  \A model \in C!Model, choice \in BOOLEAN, x \in Exchanges :
    LET s == C!Requests(model, choice, AllKeys, Replies(x))
        others == {i \in DOMAIN s.asked : s.asked[i] # model}
    IN  \A i \in others :
          /\ Cardinality({j \in 1..(i - 1) : Replies(x)[j] = 429}) = 3
          /\ \A j \in i..Len(s.asked) : s.asked[j] = s.asked[i]

\* The retry after a 400 is used up in its try, and given back in the next: two
\* in a row are an error, two around a 429 are not.
ASSUME ChoiceIsTriedPerTry ==
  \A model \in C!Model, x \in Exchanges :
    LET s == C!Requests(model, TRUE, AllKeys, Replies(x))
        heard == SubSeq(Replies(x), 1, Len(s.asked))
    IN  /\ Twice(heard, 400) => s.end = "failed"
        /\ s.end = "failed" => Twice(heard, 400) \/ Last(heard) = 500

\* A key that disappears between two tries ends the completion before its next
\* request.
ASSUME KeyIsReadPerTry ==
  \A gone \in 1..4, x \in Exchanges :
    LET s == C!Requests("pinned", FALSE, [AllKeys EXCEPT ![gone] = FALSE], Replies(x))
    IN  Len(s.asked) < gone

\* A screen is only ever shown to the model it was meant for, at most three
\* times, and over a direct connection or not at all.
ASSUME ImageStays ==
  \A model \in C!Model, direct, fits \in BOOLEAN, x \in Exchanges :
    LET s == C!ImageRequests(model, direct, fits, AllKeys, Replies(x))
    IN  /\ \A i \in DOMAIN s.asked : s.asked[i] = model
        /\ Len(s.asked) <= 3
        /\ s.asked # <<>> => direct /\ fits
        /\ 400 \in {Replies(x)[i] : i \in DOMAIN s.asked} => s.end = "failed"

\* Whatever a provider asks for, nobody sleeps longer than five seconds.
ASSUME WaitIsShort ==
  \A status \in {200, 400, 429}, body, header \in {C!Unsaid, -3, 0, 1, 4, 5, 6, 3600} :
    C!BusyWaitMs(status, body, header) \in 0..5000

-----------------------------------------------------------------------------
Bytes == BoundedSeq({C!Newline, "a", "b"}, 5)

\* The bytes, cut behind every position of at.
Cut(bytes, at) ==
  LET stops == SetToSortSeq(at \cup {Len(bytes)}, <)
  IN  [i \in 1..Len(stops) |-> SubSeq(bytes, (IF i = 1 THEN 0 ELSE stops[i - 1]) + 1, stops[i])]

Cuts(bytes) == SUBSET (1..(Len(bytes) - 1))

\* The line that ends at a newline: what is between it and the one before.
LineAt(bytes, end) ==
  LET before == {i \in 1..(end - 1) : bytes[i] = C!Newline}
  IN  SubSeq(bytes, (IF before = {} THEN 0 ELSE Max(before)) + 1, end - 1)

LinesOf(bytes) ==
  LET ends == SetToSortSeq({i \in DOMAIN bytes : bytes[i] = C!Newline}, <)
  IN  [i \in DOMAIN ends |-> LineAt(bytes, ends[i])]

\* "However the input is split into chunks the resulting event sequence is
\* identical": the lines are those of the whole.
ASSUME ChunksDoNotMatter ==
  \A bytes \in Bytes : \A at \in Cuts(bytes) :
    C!Read(C!NoLimits, Cut(bytes, at)).lines = LinesOf(bytes)

\* Nor do they for an image, chunks of one buffer's size: whether its response
\* is refused depends on its lines alone.
ASSUME LineLimitIsOfTheLine ==
  \A bytes \in Bytes : \A at \in Cuts(bytes) :
    LET lim == C!ImageLimits(5, 2, 1, 3)
        whole == C!Read(lim, <<bytes>>)
    IN  /\ C!Read(lim, Cut(bytes, at)) = whole
        /\ ~whole.over => whole.lines = LinesOf(bytes)
        /\ (\E i \in DOMAIN LinesOf(bytes) : Len(LinesOf(bytes)[i]) >= 2) => whole.over

-----------------------------------------------------------------------------
Part(index, name, arg) == [index |-> index, name |-> name, args |-> IF arg = "" THEN <<>> ELSE <<arg>>]
Told(text, calls, finish, usage, error, model) ==
  [kind |-> "frame", text |-> text, calls |-> calls, finish |-> finish, usage |-> usage,
   error |-> error, model |-> model]
Say(text) == Told(text, <<>>, C!NoReason, C!NoUsage, FALSE, "")
Call(parts) == Told("", parts, C!NoReason, C!NoUsage, FALSE, "")
StopsFor(reason) == Told("", <<>>, reason, C!NoUsage, FALSE, "")
Usage(n) == Told("", <<>>, C!NoReason, n, FALSE, "")
Other(kind) == [kind |-> kind]

Frames ==
  {Say("x"), Say("y"), Call(<<Part(0, "f", "a")>>), Call(<<Part(0, "", "b"), Part(1, "g", "c")>>),
   StopsFor("stop"), StopsFor("tool_calls"), StopsFor("error"), Usage(1), Usage(2),
   Told("z", <<>>, C!NoReason, 3, TRUE, "oss")}

Responses == BoundedSeq(Frames \cup {Other(k) : k \in {"junk", "[DONE]", "cut"}}, 4)
Small == C!ImageLimits(5, 2, 1, 2)
Limits == {C!NoLimits, Small}

\* The frames that were read: all before the first line that ends the response.
Stops(lim, l) ==
  l.kind \in {"[DONE]", "cut"} \/ (l.kind = "junk" /\ lim.on) \/ (l.kind = "frame" /\ l.error)
Heard(lim, lines) ==
  LET stops == {i \in DOMAIN lines : Stops(lim, lines[i])}
  IN  SelectSeq(SubSeq(lines, 1, IF stops = {} THEN Len(lines) ELSE Min(stops) - 1),
                LAMBDA l : l.kind = "frame")
Parts(frames) == FlattenSeq([i \in DOMAIN frames |-> frames[i].calls])

\* The turn hears exactly one end, and nothing after it.
ASSUME OneEnd ==
  \A lim \in Limits, lines \in Responses :
    LET out == C!Events(lim, "pinned", lines)
    IN  \A i \in DOMAIN out : (out[i].kind # "delta") <=> i = Len(out)

\* What was said is told whole and in order, up to the line that ended it; only
\* an image's response may be told in part, and then ends in an error.
ASSUME TextIsWhole ==
  \A lim \in Limits, lines \in Responses :
    LET out == C!Events(lim, "pinned", lines)
        texts == [i \in 1..(Len(out) - 1) |-> out[i].text]
        said == SelectSeq([i \in DOMAIN Heard(lim, lines) |-> Heard(lim, lines)[i].text], LAMBDA t : t # "")
    IN  IF Last(out).kind = "error" /\ lim.on THEN IsPrefix(texts, said) ELSE texts = said

\* Calls are run only if the provider said that they were complete, and then
\* all of them, with every piece of their arguments in order.  A response that
\* breaks off between two pieces runs nothing.
ASSUME CallsAreWhole ==
  \A lim \in Limits, lines \in Responses :
    LET end == Last(C!Events(lim, "pinned", lines))
        frames == Heard(lim, lines)
        of(i) == SelectSeq(Parts(frames), LAMBDA p : p.index = i)
    IN  end.kind = "calls" =>
          /\ \E i \in DOMAIN frames : frames[i].finish = "tool_calls"
          /\ DOMAIN end.calls = {Parts(frames)[i].index : i \in DOMAIN Parts(frames)}
          /\ \A i \in DOMAIN end.calls :
               end.calls[i].args = FlattenSeq([j \in DOMAIN of(i) |-> of(i)[j].args])

\* A response that was cut, or told an error, is an error, whatever came before:
\* no answer of a part is taken for the whole.
ASSUME CutIsTold ==
  \A lim \in Limits, lines \in Responses :
    LET stops == {i \in DOMAIN lines : Stops(lim, lines[i])}
    IN  (stops # {} /\ lines[Min(stops)].kind # "[DONE]")
          => Last(C!Events(lim, "pinned", lines)).kind = "error"

\* "Instead of a silent empty Done": a provider that stops with an error and
\* said nothing is an error; with a text before it, it is an answer.
ASSUME ErrorIsNotAnAnswer ==
  \A lines \in Responses :
    LET out == C!Events(C!NoLimits, "pinned", lines)
        end == Last(out)
    IN  end.kind = "done" /\ end.finish = "error"
          => Len(out) > 1 \/ Parts(Heard(C!NoLimits, lines)) # <<>>

\* The charge is the last the provider told, frames after the reason included.
ASSUME UsageIsTheLast ==
  \A lines \in Responses :
    LET end == Last(C!Events(C!NoLimits, "pinned", lines))
        told == SelectSeq(Heard(C!NoLimits, lines), LAMBDA f : f.usage # C!NoUsage)
    IN  end.kind # "error" => end.usage = IF told = <<>> THEN C!NoUsage ELSE Last(told).usage

\* Two limits of what is promised.  A response that just stops is an answer
\* like one that says [DONE], and an error loses the charge that came with it.
ASSUME SilentEndIsDone ==
  C!Events(C!NoLimits, "pinned", <<Say("x")>>)
    = C!Events(C!NoLimits, "pinned", <<Say("x"), Other("[DONE]")>>)
ASSUME ErrorDropsUsage ==
  \E lines \in Responses :
    LET end == Last(C!Events(C!NoLimits, "pinned", lines))
    IN  /\ end.kind = "error" /\ "usage" \notin DOMAIN end
        /\ \E i \in DOMAIN lines : lines[i].kind = "frame" /\ lines[i].usage # C!NoUsage

=============================================================================
