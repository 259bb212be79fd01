----------------------------- MODULE RunPromise -----------------------------
(***************************************************************************)
(* What a run promises to whoever started it and to whoever decides its    *)
(* approvals (routes/messages.rs and routes/approvals.rs over runs.rs):    *)
(* work stops while a call waits for its decision, a granted call runs at  *)
(* most once and only then, a refused one never does, and a run that is    *)
(* over stays over.  Rows, tasks, requests and sweeps are not visible.     *)
(***************************************************************************)
EXTENDS Naturals

CONSTANTS Run, Step

Phase == {"absent", "working", "blocked", "over"}
CallState == {"unasked", "asked", "granted", "refused", "performed"}

VARIABLES phase, call
promiseVars == <<phase, call>>

PromiseTypeOK ==
  /\ phase \in [Run -> Phase]
  /\ call \in [Run -> [Step -> CallState]]

PromiseInit ==
  /\ phase = [r \in Run |-> "absent"]
  /\ call = [r \in Run |-> [k \in Step |-> "unasked"]]

Begin(r) ==
  /\ phase[r] = "absent"
  /\ phase' = [phase EXCEPT ![r] = "working"]
  /\ UNCHANGED call

\* A call needs a decision: the run blocks on it, and on nothing else.
Ask(r, k) ==
  /\ phase[r] = "working"
  /\ call[r][k] = "unasked"
  /\ phase' = [phase EXCEPT ![r] = "blocked"]
  /\ call' = [call EXCEPT ![r][k] = "asked"]

\* Granted or refused (by a person, or because nobody answered in time).
Decide(r, k) ==
  /\ phase[r] = "blocked"
  /\ call[r][k] = "asked"
  /\ \E verdict \in {"granted", "refused"} :
       call' = [call EXCEPT ![r][k] = verdict]
  /\ UNCHANGED phase

\* Work goes on only when no call is undecided.
Proceed(r) ==
  /\ phase[r] = "blocked"
  /\ \A k \in Step : call[r][k] # "asked"
  /\ phase' = [phase EXCEPT ![r] = "working"]
  /\ UNCHANGED call

Perform(r, k) ==
  /\ phase[r] = "working"
  /\ call[r][k] = "granted"
  /\ call' = [call EXCEPT ![r][k] = "performed"]
  /\ UNCHANGED phase

End(r) ==
  /\ phase[r] \in {"working", "blocked"}
  /\ \A k \in Step : call[r][k] # "asked"
  /\ phase' = [phase EXCEPT ![r] = "over"]
  /\ UNCHANGED call

PromiseNext ==
  \E r \in Run :
    \/ Begin(r) \/ Proceed(r) \/ End(r)
    \/ \E k \in Step : Ask(r, k) \/ Decide(r, k) \/ Perform(r, k)

PromiseSpec == PromiseInit /\ [][PromiseNext]_promiseVars
=============================================================================
