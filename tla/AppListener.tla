----------------------------- MODULE AppListener -----------------------------
(***************************************************************************)
(* A target of the classic subscribe command: one Subscribe goroutine per  *)
(* subscription, which retries for ever, two shared channels, and the      *)
(* listener of StartTargetsManager that exports what it reads.  A target   *)
(* whose subscriptions are all ONCE ends its listener by counting.         *)
(***************************************************************************)
EXTENDS Integers, Sequences, FiniteSets

CONSTANTS Subs,
          BufferSize,  \* of subscribeResponses and errors
          MaxFails     \* bound: failed dials and receives

VARIABLES
  mode,     \* "once" or "stream"
  pc,       \* the Subscribe goroutines
  sent,     \* what the device sent on the current stream: 0 nothing, 1 data, 2 sync
  resp, errs,   \* the channels
  lis,      \* the listener runs (activeTargets)
  rem,      \* remainingOnceSubscriptions
  stopped,  \* StopChan closed and contexts cancelled
  got,      \* subscriptions with exported data
  fails

vars == <<mode, pc, sent, resp, errs, lis, rem, stopped, got, fails>>

Once == {s \in Subs : mode[s] = "once"}

\* Targets queued on targetsChan get a listener; clientSubscribe starts the goroutines.
Init ==
  /\ mode \in [Subs -> {"once", "stream"}]
  /\ pc = [s \in Subs |-> "dial"] /\ sent = [s \in Subs |-> 0]
  /\ resp = <<>> /\ errs = <<>> /\ lis = TRUE
  /\ rem = Cardinality(Once)
  /\ stopped = FALSE /\ got = {} /\ fails = 0

Goto(s, p) == pc' = [pc EXCEPT ![s] = p]
Fails == fails < MaxFails /\ fails' = fails + 1

-----------------------------------------------------------------------------
(* Target.Subscribe. *)

Dial(s) ==
  /\ pc[s] = "dial"
  /\ \/ stopped /\ Goto(s, "done") /\ UNCHANGED <<sent, fails>>
     \/ ~stopped /\ Goto(s, "recv") /\ sent' = [sent EXCEPT ![s] = 0] /\ UNCHANGED fails
     \/ ~stopped /\ Fails /\ UNCHANGED sent
        /\ (Goto(s, "noClient") \/ Goto(s, "retrying"))  \* no client, or no request sent
  /\ UNCHANGED <<mode, resp, errs, lis, rem, stopped, got>>

\* The error of a failed dial is sent without a look at the context.
NoClient(s) ==
  /\ pc[s] = "noClient" /\ Len(errs) < BufferSize
  /\ errs' = Append(errs, s) /\ Goto(s, "retry")
  /\ UNCHANGED <<mode, sent, resp, lis, rem, stopped, got, fails>>

\* Data and then the sync response; ONCE ends with it.
Recv(s) ==
  /\ pc[s] = "recv" /\ ~stopped /\ sent[s] < 2 /\ Len(resp) < BufferSize
  /\ sent' = [sent EXCEPT ![s] = @ + 1]
  /\ resp' = Append(resp, [sub |-> s, sync |-> sent[s] = 1])
  /\ IF sent[s] = 1 /\ s \in Once THEN Goto(s, "done") ELSE UNCHANGED pc
  /\ UNCHANGED <<mode, errs, lis, rem, stopped, got, fails>>

RecvFails(s) ==
  /\ pc[s] = "recv"
  /\ \/ stopped /\ Goto(s, "done") /\ UNCHANGED fails
     \/ ~stopped /\ Fails /\ Goto(s, "error")
  /\ UNCHANGED <<mode, sent, resp, errs, lis, rem, stopped, got>>

\* An error goes out twice, once as "retrying in"; a ONCE subscription stops at EOF.
SendError(s) ==
  /\ pc[s] \in {"error", "retrying"}
  /\ \/ stopped /\ Goto(s, "done") /\ UNCHANGED errs
     \/ /\ Len(errs) < BufferSize /\ errs' = Append(errs, s)
        /\ IF pc[s] = "retrying" THEN Goto(s, "retry")
           ELSE Goto(s, "retrying") \/ (s \in Once /\ Goto(s, "done"))
  /\ UNCHANGED <<mode, sent, resp, lis, rem, stopped, got, fails>>

Retry(s) ==
  /\ pc[s] = "retry" /\ Goto(s, IF stopped THEN "done" ELSE "dial")
  /\ UNCHANGED <<mode, sent, resp, errs, lis, rem, stopped, got, fails>>

-----------------------------------------------------------------------------
(* The listener. *)

\* Mutant: a target with both kinds of subscription ends with its ONCE ones.
OnceOver(r) == r = 0 /\ Once # {}

\* All subscriptions are ONCE and all are counted.
AllOnceOver(r) == r = 0 /\ Once = Subs

Counts(s) == IF rem > 0 /\ s \in Once THEN rem - 1 ELSE rem

\* Every output the subscription or the target names gets the response.
Export(m) == IF m.sync THEN got ELSE got \cup {m.sub}

ListenResponse ==
  /\ lis /\ resp # <<>>
  /\ LET m == Head(resp) IN
     /\ got' = Export(m)
     /\ rem' = IF m.sync THEN Counts(m.sub) ELSE rem
  /\ resp' = Tail(resp) /\ lis' = ~AllOnceOver(rem')
  /\ UNCHANGED <<mode, pc, sent, errs, stopped, fails>>

ListenError ==
  /\ lis /\ errs # <<>>
  /\ rem' = Counts(Head(errs)) /\ errs' = Tail(errs) /\ lis' = ~AllOnceOver(rem')
  /\ UNCHANGED <<mode, pc, sent, resp, stopped, got, fails>>

ListenStop ==
  /\ lis /\ stopped /\ lis' = FALSE
  /\ UNCHANGED <<mode, pc, sent, resp, errs, rem, stopped, got, fails>>

\* StopSubscriptions.
Stop ==
  /\ ~stopped /\ stopped' = TRUE
  /\ UNCHANGED <<mode, pc, sent, resp, errs, lis, rem, got, fails>>

Subscribe(s) == Dial(s) \/ NoClient(s) \/ Recv(s) \/ RecvFails(s) \/ SendError(s) \/ Retry(s)
Listener == ListenResponse \/ ListenError \/ ListenStop
Next == Stop \/ Listener \/ \E s \in Subs : Subscribe(s)
Spec == Init /\ [][Next]_vars

\* Goroutines run; the listener's select is fair to each of its channels.
FairSpec ==
  /\ Spec /\ \A s \in Subs : WF_vars(Subscribe(s))
  /\ SF_vars(ListenResponse) /\ SF_vars(ListenError) /\ WF_vars(ListenStop)

-----------------------------------------------------------------------------
\* What a stream delivers is exported, whatever the ONCE subscriptions beside it do and
\* however often either fails, unless the target is stopped.
Exported(s) == mode[s] = "stream" /\ sent[s] > 0 => s \in got \/ stopped
StreamExported == \A s \in Subs : []<>Exported(s)
=============================================================================
