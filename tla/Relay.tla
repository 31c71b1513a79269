-------------------------------- MODULE Relay ---------------------------------
(* RPCs relayed to several targets: Set of pkg/gnmiserver, Get and Set of the  *)
(* gNMI output, Get, Set and Subscribe of "gnmic proxy" (pkg/app/proxy.go).    *)
(* They share one shape. The handler selects the targets and starts a worker   *)
(* for each; the workers hand their results over on an unbuffered channel to   *)
(* a collector goroutine, which leaves when the RPC's context is done; the     *)
(* handler waits for the workers, closes the channels and, if no worker        *)
(* failed, waits for the collector.                                            *)
EXTENDS Integers, FiniteSets, Sequences, SequencesExt

CONSTANTS RelayTargets,  \* the configured targets
          RpcKinds,      \* subset of {"get", "set", "once", "stream"}
          Selectors,     \* subset of {"app", "collector"}: whose selectTargets
          Asks,          \* requested names: sequences of targets, <<"*">> for all
          MaxResults,    \* results of one target
          MaxRpcs,
          MaxFails,      \* dials and calls that fail
          MayCancel      \* whether the client may give up

VARIABLES who, created, rpcs, kind, hpc, sel, temp, wpc, left, got, item, synced,
          coll, gone, stop, errs, out, fails

vars == <<who, created, rpcs, kind, hpc, sel, temp, wpc, left, got, item, synced,
          coll, gone, stop, errs, out, fails>>
rpcVars == <<kind, wpc, left, got, item, synced, coll, gone, stop, errs>>

AllOff == [t \in RelayTargets |-> "off"]

Init ==
  /\ who \in Selectors
  /\ created \in SUBSET RelayTargets  \* a.Targets; "collector": the connected ones
  /\ rpcs = 0 /\ kind = "none" /\ hpc = "idle" /\ sel = {} /\ temp = {}
  /\ wpc = AllOff /\ left = [t \in RelayTargets |-> 0] /\ got = {} /\ synced = {}
  /\ coll = "off" /\ gone = FALSE /\ stop = FALSE /\ errs = 0 /\ out = "none"
  /\ fails = 0 /\ item = <<>>

-------------------------------------------------------------------------------
(* selectTargets. *)

\* How many names are walked, none of which is selected (have), before one that is ends
\* the walk with NotFound: a name selected already is taken for an unknown one (the OUTER loop).
Walked(ask, have) ==
  CHOOSE i \in 0 .. Len(ask) :
    /\ \A j \in 1 .. i : ask[j] \notin have
    /\ i = Len(ask) \/ ask[i + 1] \in have

Walk(ask) ==
  LET have == ToSet(ask) \cap created
      n == Walked(ask, have) IN
  IF have = ToSet(ask) THEN [found |-> ToSet(ask), ok |-> TRUE]
  ELSE [found |-> have \cup {ask[j] : j \in 1 .. n}, ok |-> n = Len(ask)]

\* "app" keeps what it dials in a.Targets; "collector" dials what is not
\* connected for this RPC only, and closes it when the RPC returns.
Select(ask) ==
  LET names == IF ask = <<"*">> THEN RelayTargets ELSE ToSet(ask)
      walk == IF who = "app" /\ ask # <<"*">> THEN Walk(ask) ELSE [found |-> names, ok |-> TRUE]
      dial == walk.found \ created
  IN
  /\ \/ /\ walk.ok
        /\ hpc' = "run" /\ out' = "none"
        /\ sel' = walk.found
        /\ UNCHANGED fails
        /\ created' = IF who = "app" THEN created \cup dial ELSE created
        /\ temp' = IF who = "app" THEN {} ELSE dial
     \/ /\ ~walk.ok
        /\ hpc' = "idle" /\ out' = "notFound"
        /\ sel' = {} /\ temp' = {} /\ UNCHANGED fails
        /\ created' = created \cup dial
     \/ /\ fails < MaxFails /\ dial # {}
        /\ fails' = fails + 1
        /\ hpc' = "idle" /\ out' = "error"
        /\ sel' = {} /\ temp' = {}
        /\ \E d \in SUBSET dial :
             /\ d # dial
             /\ created' = IF who = "app" THEN created \cup d ELSE created

Request(k, ask) ==
  /\ hpc = "idle" /\ rpcs < MaxRpcs
  /\ rpcs' = rpcs + 1
  /\ Select(ask)
  /\ kind' = k
  /\ wpc' = [t \in RelayTargets |-> IF t \in sel' THEN "call" ELSE "off"]
  /\ left' = [t \in RelayTargets |-> MaxResults + IF k = "once" THEN 1 ELSE 0]
  /\ got' = {} /\ item' = <<>> /\ synced' = {} /\ gone' = FALSE /\ stop' = FALSE /\ errs' = 0
  /\ coll' = IF hpc' = "run" THEN "on" ELSE "off"
  /\ UNCHANGED who

\* The client cancels, or the unary timeout of pkg/api/server expires.
Cancel ==
  /\ MayCancel /\ hpc # "idle" /\ ~gone
  /\ gone' = TRUE
  /\ UNCHANGED <<who, created, rpcs, kind, hpc, sel, temp, wpc, left, got, item, synced,
                 coll, stop, errs, out, fails>>

-------------------------------------------------------------------------------
(* The workers. *)

Subscribes == kind \in {"once", "stream"}

\* The call ends with an error: errChan has room for one of each target.
CallFails(t) ==
  /\ wpc[t] = "call" /\ fails < MaxFails
  /\ fails' = fails + 1
  /\ errs' = errs + 1
  /\ wpc' = [wpc EXCEPT ![t] = "exit"]
  /\ UNCHANGED <<who, created, rpcs, kind, hpc, sel, temp, left, got, item, synced, coll,
                 gone, stop, out>>

\* A unary call returns its results; a subscription yields its next response.
CallReturns(t) ==
  /\ wpc[t] = "call"
  /\ IF left[t] = 0
       THEN /\ kind # "stream"
            /\ wpc' = [wpc EXCEPT ![t] = "exit"]
       ELSE wpc' = [wpc EXCEPT ![t] = "send"]
  /\ UNCHANGED <<who, created, rpcs, kind, hpc, sel, temp, left, got, item, synced, coll,
                 gone, stop, errs, out, fails>>

\* Between two responses a subscription's worker also looks at the context and
\* at stop; a unary call returns the context's error.
WorkerStops(t) ==
  /\ wpc[t] = "call" /\ (gone \/ (Subscribes /\ stop))
  /\ errs' = IF Subscribes THEN errs ELSE errs + 1
  /\ wpc' = [wpc EXCEPT ![t] = "exit"]
  /\ UNCHANGED <<who, created, rpcs, kind, hpc, sel, temp, left, got, item, synced, coll,
                 gone, stop, out, fails>>

\* results <- r: the collector has it and the worker goes on.
Hand(t) ==
  /\ wpc[t] = "send" /\ coll = "on"
  /\ coll' = "busy" /\ item' = <<t, left[t]>>
  /\ left' = [left EXCEPT ![t] = @ - 1]
  /\ wpc' = [wpc EXCEPT ![t] = IF Subscribes THEN "call" ELSE IF left[t] > 1 THEN "send" ELSE "exit"]
  /\ UNCHANGED <<who, created, rpcs, kind, hpc, sel, temp, got, synced, gone, stop, errs,
                 out, fails>>

-------------------------------------------------------------------------------
(* The collector and the handler. *)

\* The result in hand: the last item of "once" is the sync, which is not passed
\* on; any other is appended to the answer or sent to the client.
Collect ==
  /\ coll = "busy"
  /\ IF kind = "once" /\ item[2] = 1
       THEN /\ synced' = synced \cup {item[1]}
            /\ coll' = IF synced' = sel THEN "done" ELSE "on"
            /\ UNCHANGED <<got, stop>>
       ELSE \/ /\ got' = got \cup {item} /\ coll' = "on"
               /\ UNCHANGED <<synced, stop>>
            \/ /\ Subscribes /\ gone  \* stream.Send failed
               /\ stop' = TRUE /\ coll' = "done"
               /\ UNCHANGED <<got, synced>>
  /\ UNCHANGED <<who, created, rpcs, kind, hpc, sel, temp, wpc, left, item, gone, errs, out, fails>>

\* ctx.Done: the unary collectors leave without closing done.
CollectorLeaves ==
  /\ coll = "on" /\ gone
  /\ coll' = IF Subscribes THEN "done" ELSE "left"
  /\ UNCHANGED <<who, created, rpcs, kind, hpc, sel, temp, wpc, left, got, item, synced,
                 gone, stop, errs, out, fails>>

WorkersDone == \A t \in sel : wpc[t] = "exit"

\* wg.Wait returned and results is closed.
CollectorEnds ==
  /\ coll = "on" /\ hpc = "drain"
  /\ coll' = "done"
  /\ UNCHANGED <<who, created, rpcs, kind, hpc, sel, temp, wpc, left, got, item, synced,
                 gone, stop, errs, out, fails>>

WaitWorkers ==
  /\ hpc = "run" /\ WorkersDone
  /\ hpc' = "drain"
  /\ UNCHANGED <<who, created, rpcs, kind, sel, temp, wpc, left, got, item, synced, coll,
                 gone, stop, errs, out, fails>>

\* Mutant: the handler does not wait for the collector.
ReturnsAtOnce == hpc = "drain"
MayReturn == hpc = "drain" /\ (errs > 0 \/ coll = "done")

Return ==
  /\ MayReturn
  /\ out' = IF errs > 0 THEN "error" ELSE "ok"
  /\ hpc' = "idle" /\ temp' = {}
  /\ UNCHANGED <<who, created, rpcs, sel, rpcVars, fails>>

Worker(t) == CallFails(t) \/ CallReturns(t) \/ WorkerStops(t) \/ Hand(t)
Collector == Collect \/ CollectorLeaves \/ CollectorEnds

Next ==
  \/ \E k \in RpcKinds, ask \in Asks : Request(k, ask)
  \/ Cancel
  \/ \E t \in RelayTargets : Worker(t)
  \/ Collector
  \/ WaitWorkers \/ Return

\* Targets answer, and every goroutine that can go on does.
Fairness ==
  /\ \A t \in RelayTargets : WF_vars(Worker(t))
  /\ WF_vars(Collector) /\ WF_vars(WaitWorkers) /\ WF_vars(Return)

Spec == Init /\ [][Next]_vars
FairSpec == Spec /\ Fairness

-------------------------------------------------------------------------------
(* A Get, Set or ONCE answered without error carries every result of every     *)
(* selected target: none is still on its way to the collector.                 *)
AnswerComplete ==
  out = "ok" /\ kind # "stream" /\ (Subscribes => ~gone) =>
    got = {<<t, i>> : t \in sel, i \in (IF kind = "once" THEN 2 .. MaxResults + 1 ELSE 1 .. MaxResults)}
===============================================================================
