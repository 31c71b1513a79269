------------------------------- MODULE Commands -------------------------------
(***************************************************************************)
(* The commands that send one request to every target and return:          *)
(* capabilities, get, set, getset, diff and subscribe once.  A goroutine   *)
(* per target works through the stages of its command; an error goes to    *)
(* errCh, whose capacity is fixed when the command starts and which nobody *)
(* reads before all the goroutines are done.                               *)
(*                                                                         *)
(* A stage either succeeds or logs its errors, and then the goroutine goes *)
(* on, ends, or skips the printing of the response.  Two kinds of stage    *)
(* may last for ever: subscribe once dials again until the target is       *)
(* reached, and a once stream has no time-out.  The sets of stages follow  *)
(* the code; what the requests hold is left out.                           *)
(***************************************************************************)
EXTENDS Naturals, SequencesExt

CONSTANTS Targets, Ref,  \* the targets, and the one diff compares with
          Runs           \* the commands checked: [cmd, reqs, prints], reqs set requests or
                         \* subscriptions; prints says whether printing may fail

VARIABLES
  run,      \* the command, one of Runs
  main,     \* ready, wait, diff, log, check, done
  at,       \* the stage a target's goroutine is at, 0 = not running
  pend,     \* the errors it is logging
  slots,    \* the errors in errCh
  closed,   \* errCh is closed
  answers,  \* the targets in rspChan, and then those still to be compared
  panic     \* a goroutine sent on the closed channel

vars == <<run, main, at, pend, slots, closed, answers, panic>>

Stage(name, errs, then) == [name |-> name, errs |-> errs, then |-> then]

ReqCapabilities ==
  <<Stage("print", 1, "on"), Stage("rpc", 1, "end"), Stage("print", 1, "on")>>
\* A failure of filterModels is logged by getRequest and by its caller.
FilterModels == <<Stage("rpc", 2, "end"), Stage("models", 1, "on")>>
GetRequest ==
  <<Stage("build", 1, "end")>> \o FilterModels
  \o <<Stage("print", 1, "on"), Stage("rpc", 1, "end"), Stage("print", 1, "on")>>
\* The answers go to a channel with a slot per target.
GetRequestEvent ==
  <<Stage("build", 1, "end")>> \o FilterModels
  \o <<Stage("print", 1, "on"), Stage("rpc", 1, "end"), Stage("convert", 1, "on")>>
\* One request: a failed one does not end the goroutine.
SetRequestOne ==
  <<Stage("print", 1, "on"), Stage("rpc", 1, "skip"), Stage("print", 1, "on")>>
SetRequest(reqs) ==
  <<Stage("build", 1, "end")>> \o FlattenSeq([i \in 1 .. reqs |-> SetRequestOne])
GetSetRequest ==
  <<Stage("rpc", 1, "end"), Stage("models", 1, "on"), Stage("print", 1, "on"),
    Stage("rpc", 1, "end"), Stage("print", 1, "on"), Stage("condition", 1, "end"),
    Stage("build", 1, "end")>> \o SetRequestOne
GetBasedDiff == <<Stage("rpc", 1, "end")>>
SubscribeBasedDiff == <<Stage("dial", 1, "end"), Stage("stream", 1, "end")>>
\* A dial that fails is logged and tried again, whatever became of the context; then one
\* stream per subscription, the next when the target closes it.
SubscribeOnce(subs) ==
  <<Stage("init", 1, "end"), Stage("redial", 0, "end")>> \o [i \in 1 .. subs |-> Stage("stream", 1, "end")]

Stages ==
  CASE run.cmd = "capabilities" -> ReqCapabilities
    [] run.cmd = "get"          -> GetRequest
    [] run.cmd = "get-event"    -> GetRequestEvent
    [] run.cmd = "set"          -> SetRequest(run.reqs)
    [] run.cmd = "getset"       -> GetSetRequest
    [] run.cmd = "diff"         -> GetBasedDiff
    [] run.cmd = "diff-sub"     -> SubscribeBasedDiff
    [] run.cmd = "once"         -> SubscribeOnce(run.reqs)

Diffs == {"diff", "diff-sub"}
N == Cardinality(Targets)

ErrCapOne == N

\* The capacity of errCh, in the commands that make it.
ErrCap ==
  CASE run.cmd \in {"get", "get-event", "getset"} -> 3 * N
    [] run.cmd \in {"capabilities", "set"} \cup Diffs -> 2 * N
    [] run.cmd = "once" -> N

TypeOK ==
  /\ run \in Runs /\ main \in {"ready", "wait", "diff", "log", "check", "done"}
  /\ at \in [Targets -> 0 .. Len(Stages)] /\ pend \in [Targets -> 0 .. 2]
  /\ slots \in 0 .. ErrCap /\ {closed, panic} \subseteq BOOLEAN
  /\ answers \subseteq Targets

Init ==
  /\ run \in Runs /\ main = "ready"
  /\ at = [t \in Targets |-> 0] /\ pend = at
  /\ slots = 0 /\ closed = FALSE /\ answers = {} /\ panic = FALSE

-----------------------------------------------------------------------------

\* wg.Add, a goroutine for every target, and wg.Wait.
Start ==
  /\ main = "ready" /\ main' = "wait"
  /\ at' = [t \in Targets |-> 1]
  /\ UNCHANGED <<run, pend, slots, closed, answers, panic>>

\* diff returns before it waits when the request cannot be built or, with --sub,
\* when a target cannot be initialised: the earlier goroutines run on.
DiffEarly ==
  /\ main = "ready" /\ run.cmd \in Diffs
  /\ \E G \in SUBSET Targets :
       /\ G # Targets /\ (G # {} => run.cmd = "diff-sub" /\ Ref \in G)
       /\ at' = [t \in Targets |-> IF t \in G THEN 1 ELSE 0]
  /\ main' = "log"
  /\ UNCHANGED <<run, pend, slots, closed, answers, panic>>

\* The stage after stage k; 0 once the goroutine is through.
After(k, how) ==
  LET n == IF how = "end" THEN 0 ELSE IF how = "skip" THEN k + 2 ELSE k + 1
  IN  IF n > Len(Stages) THEN 0 ELSE n

\* A goroutine that got an answer in diff hands it over before it ends.
Answered(t, how) ==
  IF run.cmd \in Diffs /\ how = "on" /\ at[t] = Len(Stages) /\ t # Ref
    THEN answers \cup {t} ELSE answers

Succeed(t) ==
  /\ at[t] > 0 /\ pend[t] = 0
  /\ at' = [at EXCEPT ![t] = After(at[t], "on")]
  /\ answers' = Answered(t, "on")
  /\ UNCHANGED <<run, main, pend, slots, closed, panic>>

Fail(t) ==
  /\ at[t] > 0 /\ pend[t] = 0
  /\ Stages[at[t]].errs > 0
  /\ Stages[at[t]].name = "print" => run.prints
  /\ pend' = [pend EXCEPT ![t] = Stages[at[t]].errs]
  /\ UNCHANGED <<run, main, at, slots, closed, answers, panic>>

\* logError: the send blocks while errCh is full.
LogError(t) ==
  /\ pend[t] > 0 /\ ~closed /\ slots < ErrCap
  /\ slots' = slots + 1 /\ pend' = [pend EXCEPT ![t] = @ - 1]
  /\ at' = [at EXCEPT ![t] = IF pend[t] > 1 THEN @ ELSE After(@, Stages[@].then)]
  /\ UNCHANGED <<run, main, closed, answers, panic>>

LogClosed(t) ==
  /\ pend[t] > 0 /\ closed /\ ~panic /\ panic' = TRUE
  /\ UNCHANGED <<run, main, at, pend, slots, closed, answers>>

\* wg.Wait returns.
Wait ==
  /\ main = "wait" /\ \A t \in Targets : at[t] = 0
  /\ main' = IF run.cmd \notin Diffs THEN "check" ELSE IF answers = {} THEN "log" ELSE "diff"
  /\ UNCHANGED <<run, at, pend, slots, closed, answers, panic>>

\* responsesDiff, which may fail, once per answer.
Compare(t) ==
  /\ main = "diff" /\ t \in answers
  /\ slots' \in {slots, slots + 1} /\ slots' <= ErrCap
  /\ answers' = answers \ {t}
  /\ main' = IF answers' = {} THEN "check" ELSE "diff"
  /\ UNCHANGED <<run, at, pend, closed, panic>>

\* DiffRunE logs the error of diff itself.
MainLogs ==
  /\ main = "log" /\ slots < ErrCap
  /\ slots' = slots + 1 /\ main' = "check"
  /\ UNCHANGED <<run, at, pend, closed, answers, panic>>

CheckErrors ==
  /\ main = "check" /\ closed' = TRUE /\ main' = "done"
  /\ UNCHANGED <<run, at, pend, slots, answers, panic>>

-----------------------------------------------------------------------------

Goroutine(t) == Succeed(t) \/ Fail(t) \/ LogError(t) \/ LogClosed(t)
Main == Start \/ DiffEarly \/ Wait \/ (\E t \in Targets : Compare(t)) \/ MainLogs \/ CheckErrors

Next == Main \/ \E t \in Targets : Goroutine(t)

\* The goroutine waits for its target, and nothing bounds how long: CreateGNMIClient is called
\* until it succeeds, or SubscribeOnceChan receives.
Awaits(t) == at[t] > 0 /\ pend[t] = 0 /\ Stages[at[t]].name \in {"redial", "stream"}

Spec == Init /\ [][Next]_vars
\* Goroutines run; every other call ends, at the latest with the target's timeout.
Running(t) == ~Awaits(t) /\ Goroutine(t)
FairSpec == Spec /\ WF_vars(Main) /\ \A t \in Targets : WF_vars(Running(t))

-----------------------------------------------------------------------------

\* The commands that can have more errors to report than their errCh holds: a set of more than
\* two requests, and a set of two or a getset whose messages cannot be printed either.
Overflows ==
  \/ run.cmd = "set" /\ (run.reqs > 2 \/ (run.reqs = 2 /\ run.prints))
  \/ run.cmd = "getset" /\ run.prints

\* Whatever fails for whichever targets, the command comes to its end: no
\* goroutine is stuck on an errCh that is only read after all of them are done
\* (logError, checkErrors and the capacities the commands choose).  Exempt are a
\* target that subscribe once cannot reach, a once stream its target does not end,
\* and a full errCh of the commands that can overflow it.
Returned ==
  \/ main = "done"
  \/ main = "wait" /\ \E t \in Targets : Awaits(t)
  \/ Overflows /\ slots = ErrCap
CommandReturns == []<>Returned
=============================================================================
