---------------------------- MODULE ServingProofs ----------------------------
(***************************************************************************)
(* Theorems about the messages that are built and handed out: a relayed    *)
(* RPC that is answered without error carries every result (Relay), for    *)
(* any targets, results, faults and cancellations; scrapes of the          *)
(* Prometheus output do not take a metric back in time (PromTable), for    *)
(* any metrics, workers and expiration; no option of package api disturbs  *)
(* what another has set (Requests), for any options, messages and values;  *)
(* a rate limiter keeps events apart, and merging and grouping lose no     *)
(* name or value of an update (EventPipeline), for any events and outputs. *)
(***************************************************************************)
EXTENDS Relay, FiniteSetTheorems, SequenceTheorems, WellFoundedInduction, TLAPS

-----------------------------------------------------------------------------
(* Relay.  A result is counted by left[t] until its worker hands it over,  *)
(* and then it is in the collector's hand or in the answer; results and    *)
(* errors are the only ways out of a worker's loop while nobody cancels.   *)

Total == MaxResults + IF kind = "once" THEN 1 ELSE 0

\* An RPC runs, or was answered without error.
Answering == hpc # "idle" \/ out = "ok"

\* Only a client that is gone stops a subscription half way.
CutShort == Subscribes /\ gone

RelayTypes ==
  /\ hpc \in {"idle", "run", "drain"} /\ sel \subseteq RelayTargets
  /\ hpc # "idle" => out = "none"
  /\ left \in [RelayTargets -> Int] /\ errs \in Nat
  /\ wpc \in [RelayTargets -> {"off", "call", "send", "exit"}]
  /\ \A t \in RelayTargets \ sel : wpc[t] = "off"
  /\ stop => CutShort
  /\ gone \in BOOLEAN

\* A worker that is to send has something left, and one that is done without an error
\* has nothing.
Counted ==
  Answering =>
    \A t \in sel : /\ left[t] \in 0 .. Total /\ wpc[t] # "off"
                   /\ wpc[t] = "send" => left[t] >= 1
                   /\ wpc[t] = "exit" /\ errs = 0 => left[t] = 0 \/ CutShort

\* What a worker handed over is in the answer, in the collector's hand, or a sync.
Handed ==
  Answering =>
    \A t \in sel : \A i \in 1 .. Total :
      i > left[t] => \/ <<t, i>> \in got
                     \/ coll = "busy" /\ item = <<t, i>>
                     \/ kind = "once" /\ i = 1
                     \/ stop

\* Nothing else is in the answer.
OnlyResults ==
  Answering =>
    /\ \A r \in got : \E t \in sel : \E i \in 1 .. Total : r = <<t, i>> /\ (kind = "once" => i # 1)
    /\ coll = "busy" => \E t \in sel : \E i \in 1 .. Total : item = <<t, i>>

\* The handler is past wg.Wait when every worker is done, and past the collector's end when
\* it answers.
Waited ==
  /\ hpc = "drain" \/ out = "ok" => WorkersDone
  /\ out = "ok" => hpc = "idle" /\ errs = 0 /\ coll = "done"

RelayInv == RelayTypes /\ Counted /\ Handed /\ OnlyResults /\ Waited

AsksAreTargets == Asks \subseteq Seq(RelayTargets) \cup {<<"*">>}

LEMMA RequestKeeps ==
  ASSUME MaxResults \in Nat, AsksAreTargets, NEW k \in RpcKinds, NEW ask \in Asks, Request(k, ask)
  PROVE  RelayInv'
<1>1. CASE hpc' = "run"
  <2>1. out' = "none" /\ sel' \subseteq RelayTargets
    <3>1. PICK names : /\ names = IF ask = <<"*">> THEN RelayTargets ELSE ToSet(ask)
                       /\ out' = "none"
                       /\ sel' = (IF who = "app" /\ ask # <<"*">> THEN Walk(ask)
                                  ELSE [found |-> names, ok |-> TRUE]).found
                       /\ (IF who = "app" /\ ask # <<"*">> THEN Walk(ask)
                           ELSE [found |-> names, ok |-> TRUE]).ok
      BY <1>1 DEF Request, Select
    <3>2. ask # <<"*">> => ToSet(ask) \subseteq RelayTargets /\ \A j \in 1 .. Len(ask) : ask[j] \in RelayTargets
      BY DEF AsksAreTargets, ToSet
    <3>3. CASE who = "app" /\ ask # <<"*">>
      <4>1. Walk(ask).ok /\ sel' = Walk(ask).found
        BY <3>1, <3>3
      <4>2. \A x \in Walk(ask).found : x \in ToSet(ask) \/ \E j \in 1 .. Len(ask) : x = ask[j]
        <5>1. CASE ToSet(ask) \cap created = ToSet(ask)
          BY <5>1 DEF Walk
        <5>2. CASE ToSet(ask) \cap created # ToSet(ask)
          <6>1. Walked(ask, ToSet(ask) \cap created) = Len(ask)
            BY <4>1, <5>2 DEF Walk
          <6>2. Walk(ask).found = (ToSet(ask) \cap created) \cup {ask[j] : j \in 1 .. Len(ask)}
            BY <5>2, <6>1 DEF Walk
          <6> QED BY <6>2
        <5> QED BY <5>1, <5>2
      <4> QED BY <3>1, <3>2, <3>3, <4>1, <4>2
    <3>4. CASE ~(who = "app" /\ ask # <<"*">>)
      BY <3>1, <3>2, <3>4
    <3> QED BY <3>1, <3>3, <3>4
  <2>2. /\ wpc' = [t \in RelayTargets |-> IF t \in sel' THEN "call" ELSE "off"]
        /\ left' = [t \in RelayTargets |-> MaxResults + IF k = "once" THEN 1 ELSE 0]
        /\ got' = {} /\ ~gone' /\ ~stop' /\ errs' = 0 /\ kind' = k /\ coll' = "on" /\ gone' \in BOOLEAN
    BY <1>1 DEF Request
  <2>3. RelayTypes'
    BY <1>1, <2>1, <2>2 DEF RelayTypes
  <2>4. \A t \in sel' : left'[t] = Total' /\ wpc'[t] = "call"
    BY <2>1, <2>2 DEF Total
  <2>5. Total' \in Nat
    BY DEF Total
  <2>6. Counted'
    BY <2>4, <2>5 DEF Counted
  <2>7. Handed' /\ OnlyResults'
    BY <2>2, <2>4, <2>5 DEF Handed, OnlyResults
  <2>8. Waited'
    BY <1>1, <2>1 DEF Waited
  <2> QED BY <2>3, <2>6, <2>7, <2>8 DEF RelayInv
<1>2. CASE hpc' # "run"
  <2>1. hpc' = "idle" /\ out' \in {"notFound", "error"} /\ sel' = {}
    BY <1>2 DEF Request, Select
  <2>2. /\ wpc' = [t \in RelayTargets |-> IF t \in sel' THEN "call" ELSE "off"]
        /\ left' = [t \in RelayTargets |-> MaxResults + IF k = "once" THEN 1 ELSE 0]
        /\ ~stop' /\ errs' = 0 /\ gone' = FALSE
    BY DEF Request
  <2>3. RelayTypes'
    <3>1. wpc' \in [RelayTargets -> {"off", "call", "send", "exit"}] /\ left' \in [RelayTargets -> Int]
      BY <2>2
    <3> QED BY <2>1, <2>2, <3>1 DEF RelayTypes
  <2> QED BY <2>1, <2>3 DEF RelayInv, Counted, Handed, OnlyResults, Waited, Answering
<1> QED BY <1>1, <1>2

\* The steps of a worker.
LEMMA WorkerKeeps ==
  ASSUME MaxResults \in Nat, RelayInv, NEW t \in RelayTargets, Worker(t)
  PROVE  RelayInv'
<1>0. /\ RelayTypes /\ Total \in Nat /\ Total' = Total /\ CutShort' = CutShort
      /\ (Subscribes' <=> Subscribes) /\ Answering' = Answering
      /\ UNCHANGED <<hpc, out, sel, kind, got, gone, stop>>
  BY DEF RelayInv, Worker, CallFails, CallReturns, WorkerStops, Hand, Total, CutShort, Subscribes, Answering
<1>1. /\ wpc[t] # "exit" /\ wpc[t] # "off"
      /\ \A u \in RelayTargets \ {t} : wpc'[u] = wpc[u] /\ left'[u] = left[u]
      /\ errs' \in Nat /\ (errs' = 0 => errs = 0)
  BY <1>0 DEF RelayTypes, Worker, CallFails, CallReturns, WorkerStops, Hand
<1>2. RelayTypes'
  <2>1. wpc' \in [RelayTargets -> {"off", "call", "send", "exit"}]
    BY <1>0 DEF RelayTypes, Worker, CallFails, CallReturns, WorkerStops, Hand
  <2>2. left' \in [RelayTargets -> Int]
    BY <1>0 DEF RelayTypes, Worker, CallFails, CallReturns, WorkerStops, Hand
  <2> QED BY <1>0, <1>1, <2>1, <2>2 DEF RelayTypes
\* A worker that moves is of a target of an RPC that runs, or of none.
<1>3. t \in sel /\ (Answering => hpc = "run")
  <2>1. t \in sel
    BY <1>0, <1>1 DEF RelayTypes
  <2>2. ~WorkersDone
    BY <1>1, <2>1 DEF WorkersDone
  <2> QED BY <1>0, <2>1, <2>2 DEF RelayInv, RelayTypes, Waited, Answering
<1>4. Waited'
  BY <1>0, <1>1, <1>3 DEF RelayInv, RelayTypes, Waited, WorkersDone, Answering
<1>5. Counted'
  <2> SUFFICES ASSUME Answering, NEW u \in sel
               PROVE  /\ left'[u] \in 0 .. Total /\ wpc'[u] # "off"
                      /\ wpc'[u] = "send" => left'[u] >= 1
                      /\ wpc'[u] = "exit" /\ errs' = 0 => left'[u] = 0 \/ CutShort
    BY <1>0 DEF Counted
  <2>1. u \in RelayTargets
    BY <1>0 DEF RelayTypes
  <2>2. CASE u # t
    BY <1>1, <2>1, <2>2 DEF RelayInv, Counted
  <2>3. CASE u = t
    <3>1. left[t] \in 0 .. Total /\ (wpc[t] = "send" => left[t] >= 1)
      BY <2>3 DEF RelayInv, Counted
    <3>2. CASE CallFails(t)
      BY <1>0, <2>3, <3>1, <3>2 DEF RelayTypes, CallFails
    <3>3. CASE CallReturns(t)
      BY <1>0, <2>3, <3>1, <3>3 DEF RelayTypes, CallReturns
    <3>4. CASE WorkerStops(t)
      BY <1>0, <2>3, <3>1, <3>4 DEF RelayInv, RelayTypes, WorkerStops, CutShort
    <3>5. CASE Hand(t)
      BY <1>0, <2>3, <3>1, <3>5 DEF RelayTypes, Hand
    <3> QED BY <3>2, <3>3, <3>4, <3>5 DEF Worker
  <2> QED BY <2>2, <2>3
<1>6. Handed' /\ OnlyResults'
  <2>1. CASE Hand(t)
    <3>1. /\ coll = "on" /\ coll' = "busy" /\ item' = <<t, left[t]>> /\ left'[t] = left[t] - 1
          /\ wpc[t] = "send"
      BY <1>0, <2>1 DEF Hand, RelayTypes
    <3>2. Answering => left[t] \in 1 .. Total
      BY <1>0, <1>3, <3>1 DEF RelayInv, Counted
    <3>3. Handed'
      <4> SUFFICES ASSUME Answering, NEW u \in sel, NEW i \in 1 .. Total, i > left'[u]
                   PROVE  <<u, i>> \in got \/ item' = <<u, i>> \/ (kind = "once" /\ i = 1) \/ stop
        BY <1>0, <3>1 DEF Handed
      <4>1. u \in RelayTargets
        BY <1>0 DEF RelayTypes
      <4>2. (u = t /\ i = left[t]) \/ i > left[u]
        BY <1>1, <3>1, <3>2, <4>1
      <4> QED BY <3>1, <4>2 DEF RelayInv, Handed
    <3>4. OnlyResults'
      BY <1>0, <1>3, <3>1, <3>2 DEF RelayInv, OnlyResults
    <3> QED BY <3>3, <3>4
  <2>2. CASE ~Hand(t)
    <3>1. UNCHANGED <<coll, item, left>>
      BY <2>2 DEF Worker, CallFails, CallReturns, WorkerStops
    <3> QED BY <1>0, <3>1 DEF RelayInv, Handed, OnlyResults
  <2> QED BY <2>1, <2>2
<1> QED BY <1>2, <1>4, <1>5, <1>6 DEF RelayInv

\* The steps of the collector: what it holds goes into the answer, unless the client is gone.
LEMMA CollectorKeeps ==
  ASSUME RelayInv, Collector
  PROVE  RelayInv'
<1>0. /\ Total' = Total /\ CutShort' = CutShort /\ Answering' = Answering
      /\ UNCHANGED <<hpc, out, sel, kind, gone, wpc, left, errs, item>>
  BY DEF Collector, Collect, CollectorLeaves, CollectorEnds, Total, CutShort, Subscribes, Answering
<1>1. RelayTypes'
  <2>1. stop' => CutShort
    BY DEF RelayInv, RelayTypes, Collector, Collect, CollectorLeaves, CollectorEnds, CutShort
  <2> QED BY <1>0, <2>1 DEF RelayInv, RelayTypes
<1>2. Counted' /\ Waited'
  <2>1. coll # "done"
    BY DEF Collector, Collect, CollectorLeaves, CollectorEnds
  <2> QED BY <1>0, <2>1 DEF RelayInv, Counted, Waited, WorkersDone
<1>3. Handed' /\ OnlyResults'
  <2>1. CASE Collect
    <3>1. CASE kind = "once" /\ item[2] = 1
      <4>1. coll = "busy" /\ coll' # "busy" /\ UNCHANGED <<got, stop>>
        BY <2>1, <3>1 DEF Collect
      <4> QED BY <1>0, <3>1, <4>1 DEF RelayInv, Handed, OnlyResults
    <3>2. CASE ~(kind = "once" /\ item[2] = 1) /\ stop'
      <4>1. coll = "busy" /\ coll' # "busy" /\ got' \subseteq got \cup {item}
        BY <2>1, <3>2 DEF Collect
      <4>2. Handed'
        BY <3>2 DEF Handed
      <4>3. OnlyResults'
        BY <1>0, <3>2, <4>1 DEF RelayInv, OnlyResults
      <4> QED BY <4>2, <4>3
    <3>3. CASE ~(kind = "once" /\ item[2] = 1) /\ ~stop'
      <4>1. coll = "busy" /\ coll' # "busy" /\ got' = got \cup {item} /\ UNCHANGED stop
        BY <2>1, <3>3 DEF Collect
      <4>2. Handed'
        BY <1>0, <4>1 DEF RelayInv, Handed
      <4>3. OnlyResults'
        BY <1>0, <3>3, <4>1 DEF RelayInv, OnlyResults
      <4> QED BY <4>2, <4>3
    <3> QED BY <3>1, <3>2, <3>3
  <2>2. CASE ~Collect
    <3>1. coll # "busy" /\ coll' # "busy" /\ UNCHANGED <<got, stop>>
      BY <2>2 DEF Collector, CollectorLeaves, CollectorEnds
    <3> QED BY <1>0, <3>1 DEF RelayInv, Handed, OnlyResults
  <2> QED BY <2>1, <2>2
<1> QED BY <1>1, <1>2, <1>3 DEF RelayInv

\* The client gives up; the handler waits for the workers and returns.
LEMMA HandlerKeeps ==
  ASSUME RelayInv, Cancel \/ WaitWorkers \/ Return
  PROVE  RelayInv'
<1>1. /\ Total' = Total /\ UNCHANGED <<sel, kind, wpc, left, got, item, coll, stop, errs>>
      /\ (CutShort => CutShort')
  BY DEF Cancel, WaitWorkers, Return, rpcVars, Total, CutShort, Subscribes
<1>2. Answering' => Answering
  BY DEF Cancel, WaitWorkers, Return, MayReturn, Answering
<1>3. RelayTypes'
  BY <1>1 DEF RelayInv, RelayTypes, Cancel, WaitWorkers, Return, MayReturn, rpcVars
<1>4. Counted' /\ Handed' /\ OnlyResults'
  BY <1>1, <1>2 DEF RelayInv, Counted, Handed, OnlyResults
<1>5. Waited'
  BY <1>1 DEF RelayInv, RelayTypes, Waited, WorkersDone, Cancel, WaitWorkers, Return, MayReturn, rpcVars
<1> QED BY <1>3, <1>4, <1>5 DEF RelayInv

\* A Get, Set or ONCE of the collector's gNMI server, the gNMI output and the proxy that is
\* answered without error carries every result of every selected target, and nothing else.
THEOREM AnswersComplete ==
  ASSUME MaxResults \in Nat, AsksAreTargets
  PROVE  Spec => []AnswerComplete
<1>1. Init => RelayInv
  <2> SUFFICES ASSUME Init PROVE RelayInv
    OBVIOUS
  <2>1. ~Answering /\ sel = {} /\ ~stop /\ out # "ok" /\ hpc = "idle"
    BY DEF Init, Answering
  <2>2. RelayTypes
    <3>1. wpc \in [RelayTargets -> {"off", "call", "send", "exit"}] /\ \A t \in RelayTargets : wpc[t] = "off"
      BY DEF Init, AllOff
    <3>2. left \in [RelayTargets -> Int] /\ errs \in Nat /\ out = "none"
      BY DEF Init
    <3>3. gone \in BOOLEAN
      BY DEF Init
    <3> QED BY <2>1, <3>1, <3>2, <3>3 DEF RelayTypes
  <2> QED BY <2>1, <2>2 DEF RelayInv, Counted, Handed, OnlyResults, Waited, WorkersDone
<1>2. RelayInv /\ [Next]_vars => RelayInv'
  <2> SUFFICES ASSUME RelayInv, [Next]_vars PROVE RelayInv'
    OBVIOUS
  <2>1. CASE UNCHANGED vars
    BY <2>1 DEF vars, RelayInv, RelayTypes, Counted, Handed, OnlyResults, Waited, WorkersDone,
                Answering, CutShort, Subscribes, Total
  <2> QED BY <2>1, RequestKeeps, WorkerKeeps, CollectorKeeps, HandlerKeeps DEF Next
<1>3. RelayInv => AnswerComplete
  <2> SUFFICES ASSUME RelayInv, out = "ok", kind # "stream", Subscribes => ~gone
               PROVE  got = {<<t, i>> : t \in sel, i \in (IF kind = "once" THEN 2 .. MaxResults + 1
                                                           ELSE 1 .. MaxResults)}
    BY DEF AnswerComplete
  <2> DEFINE Due == IF kind = "once" THEN 2 .. MaxResults + 1 ELSE 1 .. MaxResults
  <2>1. Answering /\ ~CutShort /\ ~stop /\ coll = "done" /\ errs = 0 /\ WorkersDone
    BY DEF RelayInv, RelayTypes, Waited, Answering, CutShort
  <2>2. \A i : i \in Due <=> i \in 1 .. Total /\ (kind = "once" => i # 1)
    BY DEF Total
  <2>3. ASSUME NEW t \in sel, NEW i \in Due PROVE <<t, i>> \in got
    <3>1. left[t] = 0 /\ i > left[t]
      BY <2>1, <2>2 DEF RelayInv, Counted, WorkersDone
    <3> QED BY <2>1, <2>2, <3>1 DEF RelayInv, Handed
  <2>4. ASSUME NEW r \in got PROVE \E t \in sel, i \in Due : r = <<t, i>>
    BY <2>1, <2>2 DEF RelayInv, OnlyResults
  <2> QED BY <2>3, <2>4
<1> QED BY <1>1, <1>2, <1>3, PTL DEF Spec

-----------------------------------------------------------------------------
(* PromTable, while timestamps are exported and the configuration has not   *)
(* changed.  What was exported of a metric is no later than its entry, or    *)
(* so old that an entry that could go back behind it is expired before it is *)
(* exported.                                                                 *)

CONSTANTS Keys, Workers, MaxTime, Expiration, MaxUpdates
VARIABLES export, now, hold, entries, updates, panic, seen

Prom == INSTANCE PromTable

PromTypes ==
  /\ now \in Nat /\ updates \in Nat /\ seen \in [Keys -> Nat]
  /\ hold \in [Workers -> {<<>>} \cup [key : Keys, time : Nat, added : Nat]]
  /\ entries \in [DOMAIN entries -> [time : Nat, added : Nat]] /\ DOMAIN entries \subseteq Keys

AsConfigured == export /\ updates = 0

\* Every metric has a time.
Timed ==
  AsConfigured =>
    /\ \A w \in Workers : hold[w] # <<>> => hold[w].time >= 1
    /\ \A k \in DOMAIN entries : entries[k].time >= 1

\* What was exported of a metric no later entry goes back behind.
Behind ==
  AsConfigured =>
    \A k \in Keys : \/ seen[k] = 0 \/ seen[k] < now - Expiration
                    \/ k \in DOMAIN entries /\ seen[k] <= entries[k].time

PromInv == PromTypes /\ Timed /\ Behind

LEMMA PromInit == Prom!Init => PromInv
BY DEF Prom!Init, PromInv, PromTypes, Timed, Behind

LEMMA BuildKeeps ==
  ASSUME Expiration \in Int, PromInv, NEW w \in Workers, Prom!Build(w)
  PROVE  PromInv' /\ Prom!NoScrapeBack
<1>1. PICK k \in Keys :
        hold' = [hold EXCEPT ![w] = [key |-> k, time |-> IF export THEN now + 1 ELSE 0, added |-> now + 1]]
  BY DEF Prom!Build, Prom!NoTime
<1>2. now' = now + 1 /\ UNCHANGED <<export, entries, updates, seen>> /\ now \in Nat
  BY DEF Prom!Build, PromInv, PromTypes
<1>3. hold' \in [Workers -> {<<>>} \cup [key : Keys, time : Nat, added : Nat]]
  BY <1>1, <1>2 DEF PromInv, PromTypes
<1>4. \A v \in Workers : hold'[v] # <<>> /\ export /\ v # w => hold'[v] = hold[v]
  BY <1>1 DEF PromInv, PromTypes
<1>5. export => hold'[w].time = now + 1
  BY <1>1 DEF PromInv, PromTypes
<1>6. Timed'
  <2> SUFFICES ASSUME export, updates = 0
               PROVE  /\ \A v \in Workers : hold'[v] # <<>> => hold'[v].time >= 1
                      /\ \A x \in DOMAIN entries : entries[x].time >= 1
    BY <1>2 DEF Timed, AsConfigured
  <2>1. /\ \A v \in Workers : hold[v] # <<>> => hold[v].time >= 1
        /\ \A x \in DOMAIN entries : entries[x].time >= 1
    BY DEF PromInv, Timed, AsConfigured
  <2>2. ASSUME NEW v \in Workers, hold'[v] # <<>> PROVE hold'[v].time >= 1
    <3>1. CASE v = w
      BY <1>2, <1>5, <3>1
    <3>2. CASE v # w
      BY <1>4, <2>1, <2>2, <3>2
    <3> QED BY <3>1, <3>2
  <2> QED BY <2>1, <2>2
<1>7. Behind'
  BY <1>2 DEF PromInv, PromTypes, Behind, AsConfigured
<1>8. PromTypes' /\ Prom!NoScrapeBack
  BY <1>2, <1>3 DEF PromInv, PromTypes, Prom!NoScrapeBack
<1> QED BY <1>6, <1>7, <1>8 DEF PromInv

LEMMA StoreKeeps ==
  ASSUME PromInv, NEW w \in Workers, Prom!Store(w)
  PROVE  PromInv' /\ Prom!NoScrapeBack
<1> DEFINE m == hold[w]
<1>1. /\ UNCHANGED <<export, now, updates, seen>> /\ hold' = [hold EXCEPT ![w] = <<>>]
      /\ m \in [key : Keys, time : Nat, added : Nat]
  BY DEF Prom!Store, PromInv, PromTypes
<1>2. \/ entries' = entries
      \/ /\ entries' = [x \in DOMAIN entries \cup {m.key} |->
                         IF x = m.key THEN [time |-> m.time, added |-> m.added] ELSE entries[x]]
         /\ m.key \in DOMAIN entries /\ AsConfigured => entries[m.key].time < m.time \/ m.time = 0
  BY DEF Prom!Store, Prom!Newer, Prom!Put, Prom!NoTime
<1>3. AsConfigured => m.time >= 1
  BY DEF PromInv, Timed, Prom!Store
<1>4. hold' \in [Workers -> {<<>>} \cup [key : Keys, time : Nat, added : Nat]]
  BY <1>1 DEF PromInv, PromTypes
<1>5. \A v \in Workers : hold'[v] # <<>> => hold'[v] = hold[v]
  BY <1>1 DEF PromInv, PromTypes
<1>6. CASE entries' = entries
  BY <1>1, <1>4, <1>5, <1>6 DEF PromInv, PromTypes, Timed, Behind, AsConfigured, Prom!NoScrapeBack
<1>7. CASE entries' # entries
  <2> DEFINE e == [time |-> m.time, added |-> m.added]
  <2>1. /\ DOMAIN entries' = DOMAIN entries \cup {m.key} /\ entries'[m.key] = e
        /\ \A x \in DOMAIN entries : x # m.key => entries'[x] = entries[x]
        /\ m.key \in Keys /\ e \in [time : Nat, added : Nat] /\ e.time = m.time
    BY <1>1, <1>2, <1>7
  <2>2. entries' \in [DOMAIN entries' -> [time : Nat, added : Nat]]
    BY <1>1, <1>2, <1>7, <2>1 DEF PromInv, PromTypes
  <2> HIDE DEF e, m
  <2>3. PromTypes' /\ Prom!NoScrapeBack
    BY <1>1, <1>4, <2>1, <2>2 DEF PromInv, PromTypes, Prom!NoScrapeBack
  <2>4. Timed'
    BY <1>1, <1>3, <1>5, <2>1 DEF PromInv, Timed, AsConfigured
  <2>5. Behind'
    <3>1. AsConfigured /\ m.key \in DOMAIN entries => entries[m.key].time < m.time
      BY <1>2, <1>3, <1>7 DEF m
    <3> QED BY <1>1, <2>1, <3>1 DEF PromInv, PromTypes, Behind, AsConfigured
  <2> QED BY <2>3, <2>4, <2>5 DEF PromInv
<1> QED BY <1>6, <1>7

\* An entry that expires leaves nothing later behind than what is expired too.
LEMMA ExpireKeeps ==
  ASSUME Expiration \in Int, PromInv, Prom!Expire, UNCHANGED <<export, now, updates, hold>>
  PROVE  /\ entries' \in [DOMAIN entries' -> [time : Nat, added : Nat]] /\ DOMAIN entries' \subseteq Keys
         /\ AsConfigured => \A k \in DOMAIN entries' : entries'[k].time >= 1
         /\ AsConfigured => \A k \in Keys :
              IF k \in DOMAIN entries' THEN seen[k] <= entries'[k].time
              ELSE seen[k] = 0 \/ seen[k] < now - Expiration
<1>1. CASE Prom!NilTime
  <2>1. ~AsConfigured
    BY <1>1 DEF Prom!NilTime, Prom!NoTime, PromInv, Timed
  <2>2. entries' = entries
    BY <1>1 DEF Prom!Expire
  <2> QED BY <2>1, <2>2 DEF PromInv, PromTypes
<1>2. CASE ~Prom!NilTime
  <2>1. entries' = [k \in DOMAIN entries \ Prom!Expired |-> entries[k]]
    BY <1>2 DEF Prom!Expire, Prom!Restrict
  <2>2. /\ DOMAIN entries' = DOMAIN entries \ Prom!Expired
        /\ \A k \in DOMAIN entries' : entries'[k] = entries[k] /\ k \in DOMAIN entries
        /\ entries' \in [DOMAIN entries' -> [time : Nat, added : Nat]] /\ DOMAIN entries' \subseteq Keys
    BY <2>1 DEF PromInv, PromTypes
  <2>3. AsConfigured => \A k \in DOMAIN entries' : entries'[k].time >= 1
    BY <2>2 DEF PromInv, Timed
  <2>4. ASSUME AsConfigured, NEW k \in Keys
        PROVE  IF k \in DOMAIN entries' THEN seen[k] <= entries'[k].time
               ELSE seen[k] = 0 \/ seen[k] < now - Expiration
    <3>1. k \in DOMAIN entries => (k \in Prom!Expired <=> entries[k].time < now - Expiration)
      BY <2>4 DEF Prom!Expired, Prom!Stale, AsConfigured
    <3>2. k \in DOMAIN entries => entries[k].time \in Nat /\ entries[k].time >= 1
      BY <2>4 DEF PromInv, PromTypes, Timed
    <3>3. \/ seen[k] = 0 \/ seen[k] < now - Expiration
          \/ k \in DOMAIN entries /\ seen[k] <= entries[k].time
      BY <2>4 DEF PromInv, Behind
    <3>4. seen[k] \in Nat /\ now \in Nat
      BY DEF PromInv, PromTypes
    <3> QED BY <2>2, <3>1, <3>2, <3>3, <3>4
  <2> QED BY <2>2, <2>3, <2>4
<1> QED BY <1>1, <1>2

\* A scrape exports what is left after it, the timer nothing.
LEMMA ScrapeKeeps ==
  ASSUME Expiration \in Int, PromInv, Prom!Collect \/ Prom!ExpireTimer
  PROVE  PromInv' /\ Prom!NoScrapeBack
<1>1. Prom!Expire /\ UNCHANGED <<export, now, updates, hold>>
  BY DEF Prom!Collect, Prom!ExpireTimer
<1>2. /\ entries' \in [DOMAIN entries' -> [time : Nat, added : Nat]] /\ DOMAIN entries' \subseteq Keys
      /\ AsConfigured => \A k \in DOMAIN entries' : entries'[k].time >= 1
      /\ AsConfigured => \A k \in Keys :
           IF k \in DOMAIN entries' THEN seen[k] <= entries'[k].time
           ELSE seen[k] = 0 \/ seen[k] < now - Expiration
  BY <1>1, ExpireKeeps
<1>3. AsConfigured' = AsConfigured
  BY <1>1 DEF AsConfigured
<1>4. Timed'
  BY <1>1, <1>2, <1>3 DEF PromInv, Timed
<1>5. CASE Prom!ExpireTimer
  <2>1. UNCHANGED seen
    BY <1>5 DEF Prom!ExpireTimer
  <2>2. PromTypes' /\ Prom!NoScrapeBack
    BY <1>1, <1>2, <2>1 DEF PromInv, PromTypes, Prom!NoScrapeBack
  <2>3. Behind'
    BY <1>1, <1>2, <1>3, <2>1 DEF Behind
  <2> QED BY <1>4, <2>2, <2>3 DEF PromInv
<1>6. CASE Prom!Collect
  <2>1. seen' = [k \in Keys |-> IF k \in DOMAIN entries' THEN entries'[k].time ELSE seen[k]]
    BY <1>6 DEF Prom!Collect
  <2>2. \A k \in Keys : seen[k] \in Nat /\ (k \in DOMAIN entries' => entries'[k].time \in Nat)
    BY <1>2 DEF PromInv, PromTypes
  <2>3. PromTypes'
    BY <1>1, <1>2, <2>1, <2>2 DEF PromInv, PromTypes
  <2>4. Behind'
    BY <1>1, <1>2, <1>3, <2>1, <2>2 DEF Behind
  <2>5. Prom!NoScrapeBack
    BY <1>2, <2>1, <2>2 DEF Prom!NoScrapeBack, AsConfigured
  <2> QED BY <1>4, <2>3, <2>4, <2>5 DEF PromInv
<1> QED BY <1>5, <1>6

\* With timestamps exported a metric never goes back in time from one scrape to the next, for
\* any metrics, workers, expiration and order of stores, while the configuration stays.
THEOREM ScrapesForward ==
  ASSUME Expiration \in Int
  PROVE  Prom!Spec => Prom!ScrapesMoveForward
<1>1. PromInv /\ [Prom!Next]_Prom!vars => PromInv' /\ [Prom!NoScrapeBack]_Prom!vars
  <2> SUFFICES ASSUME PromInv, [Prom!Next]_Prom!vars
               PROVE  PromInv' /\ [Prom!NoScrapeBack]_Prom!vars
    OBVIOUS
  <2>1. CASE UNCHANGED Prom!vars
    BY <2>1 DEF Prom!vars, PromInv, PromTypes, Timed, Behind, AsConfigured
  <2>2. CASE Prom!Update
    <3>1. PromInv'
      BY <2>2 DEF Prom!Update, PromInv, PromTypes, Timed, Behind, AsConfigured
    <3>2. Prom!NoScrapeBack
      BY <2>2 DEF Prom!Update, PromInv, PromTypes, Prom!NoScrapeBack
    <3> QED BY <3>1, <3>2
  <2> QED BY <2>1, <2>2, BuildKeeps, StoreKeeps, ScrapeKeeps DEF Prom!Next
<1> QED BY <1>1, PromInit, PTL DEF Prom!Spec, Prom!ScrapesMoveForward

-----------------------------------------------------------------------------
(* Requests.  An option of package api writes one field of the message     *)
(* (a prefix also drops the target), and options that write the same field *)
(* of one kind of message override each other or add to it.                *)

CONSTANTS SubConfigs, GetFlags, SetFlags, SetFiles, UserKinds, UserOptions, MaxOptions, BadPath
VARIABLES job, opts, msg, used

Req == INSTANCE Requests

Filling == DOMAIN Req!FieldOf

\* Fields that none of the options above fills.
OtherFields == {"val", "sample", "heartbeat", "suppress", "op", "encodings", "ext", "update", "replace",
                "union", "subs", "results", "notification"}

OtherNames == {"Value", "SubscriptionMode", "SampleInterval", "HeartbeatInterval", "SuppressRedundant",
               "Operation", "SupportedEncoding", "Extension", "CommitRequest", "CommitConfirm",
               "CommitCancel", "CommitRollback", "Depth", "Snapshot", "Range", "EncodingCustom",
               "Update", "Replace", "UnionReplace", "Subscription", "UpdateResult", "Notification"}

\* An option of the package.  An empty prefix, target or data type says nothing.
IsOption(o) ==
  /\ o.o \in Filling \cup OtherNames
  /\ o.o \in {"Prefix", "Target", "DataType"} => o.v # ""

IsSeq(s) == s \in Seq({s[k] : k \in DOMAIN s})
Has(m, x, v) == \E k \in DOMAIN m.f[x] : m.f[x][k] = v

\* What New and the options make.
Built(m) ==
  /\ m = [kind |-> m.kind, f |-> m.f]
  /\ DOMAIN m.f = Req!Fields /\ \A x \in Req!Fields : IsSeq(m.f[x])

LEMMA AppendHas ==
  ASSUME NEW s, IsSeq(s), NEW v
  PROVE  /\ IsSeq(Append(s, v))
         /\ \E k \in DOMAIN Append(s, v) : Append(s, v)[k] = v
         /\ \A k \in DOMAIN s : k \in DOMAIN Append(s, v) /\ Append(s, v)[k] = s[k]
<1> DEFINE S == {s[k] : k \in DOMAIN s} \cup {v}
           a == Append(s, v)
<1>1. s \in Seq(S) /\ v \in S /\ Len(s) \in Nat /\ DOMAIN s = 1 .. Len(s)
  <2>1. s \in Seq({s[k] : k \in DOMAIN s})
    BY DEF IsSeq
  <2> QED BY <2>1
<1>2. /\ a \in Seq(S) /\ Len(a) = Len(s) + 1 /\ DOMAIN a = 1 .. Len(a)
      /\ a[Len(s) + 1] = v /\ \A k \in 1 .. Len(s) : a[k] = s[k]
  BY <1>1
<1> HIDE DEF S, a
<1>3. a \in Seq({a[k] : k \in DOMAIN a})
  BY <1>2
<1>4. (\E k \in DOMAIN a : a[k] = v) /\ \A k \in DOMAIN s : k \in DOMAIN a /\ a[k] = s[k]
  BY <1>1, <1>2
<1> QED BY <1>3, <1>4 DEF IsSeq, a

\* An option that sets a field, and one that adds to it.
LEMMA PutHas ==
  ASSUME NEW m, Built(m), NEW x \in Req!Fields, NEW v
  PROVE  /\ Built(Req!Put(m, x, v)) /\ Req!Put(m, x, v).kind = m.kind
         /\ Has(Req!Put(m, x, v), x, v)
         /\ \A y \in Req!Fields \ {x} : Req!Put(m, x, v).f[y] = m.f[y]
<1> DEFINE r == Req!Put(m, x, v)
<1>1. r = [kind |-> m.kind, f |-> r.f] /\ r.f = [m.f EXCEPT ![x] = <<v>>]
  BY DEF Req!Put, Built
<1>2. DOMAIN r.f = Req!Fields /\ r.f[x] = <<v>> /\ \A y \in Req!Fields \ {x} : r.f[y] = m.f[y]
  BY <1>1 DEF Built
<1>3. IsSeq(<<v>>) /\ 1 \in DOMAIN <<v>> /\ <<v>>[1] = v
  BY DEF IsSeq
<1> HIDE DEF r
<1>4. Built(r)
  BY <1>1, <1>2, <1>3 DEF Built
<1>5. Has(r, x, v)
  BY <1>2, <1>3 DEF Has
<1> QED BY <1>1, <1>2, <1>4, <1>5 DEF r

LEMMA AddHas ==
  ASSUME NEW m, Built(m), NEW x \in Req!Fields, NEW v
  PROVE  /\ Built(Req!Add(m, x, v)) /\ Req!Add(m, x, v).kind = m.kind
         /\ Has(Req!Add(m, x, v), x, v)
         /\ \A u : Has(m, x, u) => Has(Req!Add(m, x, v), x, u)
         /\ \A y \in Req!Fields \ {x} : Req!Add(m, x, v).f[y] = m.f[y]
<1> DEFINE r == Req!Add(m, x, v)
<1>0. PICK a : a = Append(m.f[x], v)
  OBVIOUS
<1>1. r = [kind |-> m.kind, f |-> r.f] /\ r.f = [m.f EXCEPT ![x] = a]
  <2>1. r = [m EXCEPT !.f[x] = a]
    BY <1>0 DEF Req!Add
  <2> QED BY <2>1 DEF Built
<1>2. DOMAIN r.f = Req!Fields /\ r.f[x] = a /\ \A y \in Req!Fields \ {x} : r.f[y] = m.f[y]
  BY <1>1 DEF Built
<1> HIDE DEF r
<1>3. /\ IsSeq(r.f[x]) /\ \E k \in DOMAIN r.f[x] : r.f[x][k] = v
      /\ \A k \in DOMAIN m.f[x] : k \in DOMAIN r.f[x] /\ r.f[x][k] = m.f[x][k]
  BY <1>0, <1>2, AppendHas DEF Built
<1>4. Built(r)
  BY <1>1, <1>2, <1>3 DEF Built
<1>5. Has(r, x, v) /\ \A u : Has(m, x, u) => Has(r, x, u)
  BY <1>3 DEF Has
<1> QED BY <1>1, <1>2, <1>4, <1>5 DEF r

\* What is not refused writes its field.  The option is one of the message's own.
LEMMA FillingWrites ==
  ASSUME NEW m, NEW o, IsOption(o), o.o \in Filling, m.kind # "PollReq", ~Req!Failed(Req!Option(m, o))
  PROVE  /\ \/ /\ o.o = "Prefix"
               /\ Req!Option(m, o) = [m EXCEPT !.f["prefix"] = <<o.v>>, !.f["target"] = <<>>]
            \/ o.o # "Prefix" /\ Req!Option(m, o) = Req!Put(m, Req!FieldOf[o.o], o.v)
            \/ o.o # "Prefix" /\ Req!Option(m, o) = Req!Add(m, Req!FieldOf[o.o], o.v)
         /\ o.o = "ListMode" => m.kind = "SubReq"
<1>1. Req!Failed(Req!Refused)
  BY DEF Req!Failed, Req!Refused, Req!New
<1>2. \A kinds, r : Req!On(m, kinds, r) = r \/ Req!On(m, kinds, r) = Req!Refused
  BY DEF Req!On
<1>3. \A v, values, r : Req!Known(v, values, r) = r \/ Req!Known(v, values, r) = Req!Refused
  BY DEF Req!Known
<1>4. Filling = {"Prefix", "Target", "Encoding", "DataType", "Path", "Delete", "UseModel", "ListMode", "Qos",
                 "AllowAggregation", "UpdatesOnly", "Timestamp", "Atomic", "Version", "SupportedModel"}
  BY DEF Filling, Req!FieldOf
<1>5. CASE o.o = "Prefix"
  <2>1. Req!Option(m, o) = Req!Prefix(m, o.v)
    BY <1>5 DEF Req!Option, Req!NestedOption, Req!LeafOption
  <2> QED BY <1>1, <1>5, <2>1 DEF IsOption, Req!Prefix, Req!On
<1>6. CASE o.o = "Target"
  <2>1. Req!Option(m, o) = Req!Target(m, o.v) /\ Req!FieldOf[o.o] = "target"
    BY <1>6 DEF Req!Option, Req!NestedOption, Req!LeafOption, Req!FieldOf
  <2> QED BY <1>1, <1>2, <1>6, <2>1 DEF IsOption, Req!Target
<1>7. CASE o.o = "Encoding"
  <2>1. Req!Option(m, o) = Req!Encoding(m, o.v) /\ Req!FieldOf[o.o] = "encoding"
    BY <1>7 DEF Req!Option, Req!NestedOption, Req!LeafOption, Req!FieldOf
  <2> QED BY <1>1, <1>2, <1>3, <1>7, <2>1 DEF Req!Encoding
<1>8. CASE o.o = "DataType"
  <2>1. Req!Option(m, o) = Req!DataType(m, o.v) /\ Req!FieldOf[o.o] = "type"
    BY <1>8 DEF Req!Option, Req!NestedOption, Req!LeafOption, Req!FieldOf
  <2>2. o.v # "" /\ Req!DataType(m, o.v) # Req!Refused
    BY <1>1, <1>8, <2>1 DEF IsOption
  <2>3. PICK r : Req!DataType(m, o.v) = Req!On(m, {"GetReq"}, r) /\ (r = Req!Put(m, "type", o.v) \/ r = Req!Refused)
    BY <1>3, <2>2 DEF Req!DataType
  <2> QED BY <1>2, <1>8, <2>1, <2>2, <2>3
<1>9. CASE o.o = "Path"
  <2>1. Req!Option(m, o) = Req!Path(m, o.v) /\ Req!FieldOf[o.o] = "path"
    BY <1>9 DEF Req!Option, Req!NestedOption, Req!LeafOption, Req!FieldOf
  <2> QED BY <1>1, <1>2, <1>9, <2>1 DEF Req!Path
<1>10. CASE o.o = "Delete"
  <2>1. Req!Option(m, o) = Req!Delete(m, o.v) /\ Req!FieldOf[o.o] = "delete"
    BY <1>10 DEF Req!Option, Req!NestedOption, Req!LeafOption, Req!FieldOf
  <2> QED BY <1>1, <1>2, <1>10, <2>1 DEF Req!Delete
<1>11. CASE o.o = "UseModel"
  <2>1. Req!Option(m, o) = Req!UseModel(m, o.v) /\ Req!FieldOf[o.o] = "models"
    BY <1>11 DEF Req!Option, Req!NestedOption, Req!LeafOption, Req!FieldOf
  <2> QED BY <1>1, <1>2, <1>11, <2>1 DEF Req!UseModel
<1>12. CASE o.o = "ListMode"
  <2>1. Req!Option(m, o) = Req!SubscriptionListMode(m, o.v) /\ Req!FieldOf[o.o] = "mode"
    BY <1>12 DEF Req!Option, Req!NestedOption, Req!LeafOption, Req!FieldOf
  <2>2. m.kind = "SubReq"
    BY <1>1, <2>1 DEF Req!SubscriptionListMode, Req!On
  <2> QED BY <1>1, <1>2, <1>3, <1>12, <2>1, <2>2 DEF Req!SubscriptionListMode
<1>13. CASE o.o \in {"Qos", "AllowAggregation", "UpdatesOnly"}
  <2>1. o.o = "Qos" => Req!Option(m, o) = Req!Qos(m, o.v) /\ Req!FieldOf[o.o] = "qos"
    BY DEF Req!Option, Req!NestedOption, Req!LeafOption, Req!FieldOf
  <2>2. o.o = "AllowAggregation" =>
          Req!Option(m, o) = Req!AllowAggregation(m, o.v) /\ Req!FieldOf[o.o] = "aggregate"
    BY DEF Req!Option, Req!NestedOption, Req!LeafOption, Req!FieldOf
  <2>3. o.o = "UpdatesOnly" => Req!Option(m, o) = Req!UpdatesOnly(m, o.v) /\ Req!FieldOf[o.o] = "only"
    BY DEF Req!Option, Req!NestedOption, Req!LeafOption, Req!FieldOf
  <2>4. Req!Option(m, o) = Req!On(m, {"SubReq"}, Req!Put(m, Req!FieldOf[o.o], o.v))
    BY <1>13, <2>1, <2>2, <2>3 DEF Req!Qos, Req!AllowAggregation, Req!UpdatesOnly
  <2> QED BY <1>1, <1>2, <1>13, <2>4
<1>14. CASE o.o = "Timestamp"
  <2>1. Req!Option(m, o) = Req!Timestamp(m, o.v) /\ Req!FieldOf[o.o] = "time"
    BY <1>14 DEF Req!Option, Req!NestedOption, Req!LeafOption, Req!FieldOf
  <2> QED BY <1>1, <1>2, <1>14, <2>1 DEF Req!Timestamp
<1>15. CASE o.o = "Atomic"
  <2>1. Req!Option(m, o) = Req!Atomic(m, o.v) /\ Req!FieldOf[o.o] = "atomic"
    BY <1>15 DEF Req!Option, Req!NestedOption, Req!LeafOption, Req!FieldOf
  <2> QED BY <1>1, <1>2, <1>15, <2>1 DEF Req!Atomic
<1>16. CASE o.o = "Version"
  <2>1. Req!Option(m, o) = Req!Version(m, o.v) /\ Req!FieldOf[o.o] = "version"
    BY <1>16 DEF Req!Option, Req!NestedOption, Req!LeafOption, Req!FieldOf
  <2> QED BY <1>1, <1>2, <1>16, <2>1 DEF Req!Version
<1>17. CASE o.o = "SupportedModel"
  <2>1. Req!Option(m, o) = Req!SupportedModel(m, o.v) /\ Req!FieldOf[o.o] = "models"
    BY <1>17 DEF Req!Option, Req!NestedOption, Req!LeafOption, Req!FieldOf
  <2> QED BY <1>1, <1>2, <1>17, <2>1 DEF Req!SupportedModel
<1> QED BY <1>4, <1>5, <1>6, <1>7, <1>8, <1>9, <1>10, <1>11, <1>12, <1>13, <1>14, <1>15, <1>16, <1>17

LEMMA OtherWrites ==
  ASSUME NEW m, NEW o, o.o \in OtherNames, ~Req!Failed(Req!Option(m, o))
  PROVE  \/ Req!Option(m, o) = m
         \/ \E x \in OtherFields : \E v : Req!Option(m, o) = Req!Put(m, x, v) \/ Req!Option(m, o) = Req!Add(m, x, v)
         \/ m.kind = "Subscription" /\ \E v : Req!Option(m, o) = Req!Put(m, "mode", v)
         \/ o.o = "EncodingCustom" /\ \E v : Req!Option(m, o) = Req!Put(m, "encoding", v)
<1> DEFINE r == Req!Option(m, o)
           Fine == \/ r = m
                   \/ \E x \in OtherFields : \E v : r = Req!Put(m, x, v) \/ r = Req!Add(m, x, v)
                   \/ m.kind = "Subscription" /\ \E v : r = Req!Put(m, "mode", v)
                   \/ o.o = "EncodingCustom" /\ \E v : r = Req!Put(m, "encoding", v)
<1>1. Req!Failed(Req!Refused) /\ r # Req!Refused
  BY DEF Req!Failed, Req!Refused, Req!New
<1>2. \A kinds, q : Req!On(m, kinds, q) = q \/ Req!On(m, kinds, q) = Req!Refused
  BY DEF Req!On
<1>3. \A v, values, q : Req!Known(v, values, q) = q \/ Req!Known(v, values, q) = Req!Refused
  BY DEF Req!Known
<1>4. \A e : Req!Extension(m, e) = m \/ Req!Extension(m, e) = Req!Add(m, "ext", e)
  BY DEF Req!Extension
<1>5. ASSUME NEW e, r = Req!Extension(m, e) \/ \E kinds : r = Req!On(m, kinds, Req!Extension(m, e))
      PROVE  Fine
  BY <1>1, <1>2, <1>4, <1>5 DEF OtherFields
<1>6. ASSUME NEW kinds, NEW x \in OtherFields, NEW sub, r = Req!Nested(m, kinds, x, sub)
      PROVE  Fine
  BY <1>1, <1>2, <1>6 DEF Req!Nested
\* The nested messages.
<1>7. CASE o.o \in {"Update", "Replace", "UnionReplace", "Subscription", "UpdateResult"}
  <2>1. o.o = "Update" => \E sub : r = Req!Update(m, sub)
    BY DEF Req!Option, Req!NestedOption
  <2>2. o.o = "Replace" => \E sub : r = Req!Replace(m, sub)
    BY DEF Req!Option, Req!NestedOption
  <2>3. o.o = "UnionReplace" => \E sub : r = Req!UnionReplace(m, sub)
    BY DEF Req!Option, Req!NestedOption
  <2>4. o.o = "Subscription" => \E sub : r = Req!Subscription(m, sub)
    BY DEF Req!Option, Req!NestedOption
  <2>5. o.o = "UpdateResult" => \E sub : r = Req!UpdateResult(m, sub)
    BY DEF Req!Option, Req!NestedOption
  <2>6. \E kinds, sub : \E x \in {"update", "replace", "union", "subs", "results"} : r = Req!Nested(m, kinds, x, sub)
    BY <1>7, <2>1, <2>2, <2>3, <2>4, <2>5
       DEF Req!Update, Req!Replace, Req!UnionReplace, Req!Subscription, Req!UpdateResult
  <2> QED BY <1>6, <2>6 DEF OtherFields
<1>8. CASE o.o = "Notification"
  <2>1. PICK sub : r = Req!Notification(m, sub)
    BY <1>8 DEF Req!Option
  <2>2. r = m \/ r = Req!Add(m, "notification", sub) \/ r = Req!Put(m, "notification", sub)
    BY <1>1, <1>2, <2>1 DEF Req!Notification
  <2> QED BY <2>2 DEF OtherFields
\* The extensions.
<1>9. CASE o.o = "Extension"
  <2>1. r = Req!Extension(m, o.v)
    BY <1>9 DEF Req!Option, Req!NestedOption, Req!LeafOption
  <2> QED BY <1>5, <2>1
<1>10. CASE o.o \in {"CommitRequest", "CommitConfirm", "CommitCancel", "CommitRollback"}
  <2>1. o.o = "CommitRequest" => r = Req!Extension_CommitRequest(m, o.v)
    BY DEF Req!Option, Req!NestedOption, Req!LeafOption
  <2>2. o.o = "CommitConfirm" => r = Req!Extension_CommitConfirm(m, o.v)
    BY DEF Req!Option, Req!NestedOption, Req!LeafOption
  <2>3. o.o = "CommitCancel" => r = Req!Extension_CommitCancel(m, o.v)
    BY DEF Req!Option, Req!NestedOption, Req!LeafOption
  <2>4. o.o = "CommitRollback" => r = Req!Extension_CommitSetRollbackDuration(m, o.v)
    BY DEF Req!Option, Req!NestedOption, Req!LeafOption
  <2>5. \E kinds, e : r = Req!On(m, kinds, Req!Extension(m, e))
    BY <1>10, <2>1, <2>2, <2>3, <2>4 DEF Req!Extension_CommitRequest, Req!Extension_CommitConfirm,
       Req!Extension_CommitCancel, Req!Extension_CommitSetRollbackDuration
  <2> QED BY <1>5, <2>5
<1>11. CASE o.o \in {"Depth", "Snapshot", "Range"}
  <2>1. o.o = "Depth" => r = Req!Extension_Depth(m, o.v)
    BY DEF Req!Option, Req!NestedOption, Req!LeafOption
  <2>2. o.o = "Snapshot" => r = Req!Extension_HistorySnapshotTime(m, o.v)
    BY DEF Req!Option, Req!NestedOption, Req!LeafOption
  <2>3. o.o = "Range" => r = Req!Extension_HistoryRange(m, o.v)
    BY DEF Req!Option, Req!NestedOption, Req!LeafOption
  <2>4. \E kinds, e : r = Req!On(m, kinds, Req!Extension(m, e))
    BY <1>11, <2>1, <2>2, <2>3 DEF Req!Extension_Depth, Req!Extension_HistorySnapshotTime, Req!Extension_HistoryRange
  <2> QED BY <1>5, <2>4
\* The others set or add to a field of their own.
<1>12. CASE o.o = "Value"
  <2>1. r = Req!Value(m, o.v, o.e)
    BY <1>12 DEF Req!Option, Req!NestedOption, Req!LeafOption
  <2>2. \E v : r = Req!Put(m, "val", v)
    BY <1>1, <1>2, <2>1 DEF Req!Value
  <2> QED BY <2>2 DEF OtherFields
<1>13. CASE o.o = "SubscriptionMode"
  <2>1. r = Req!SubscriptionMode(m, o.v)
    BY <1>13 DEF Req!Option, Req!NestedOption, Req!LeafOption
  <2>2. m.kind = "Subscription"
    BY <1>1, <2>1 DEF Req!SubscriptionMode, Req!On
  <2>3. r = Req!Put(m, "mode", o.v)
    BY <1>1, <1>2, <1>3, <2>1 DEF Req!SubscriptionMode
  <2> QED BY <2>2, <2>3
<1>14. CASE o.o \in {"SampleInterval", "HeartbeatInterval", "SuppressRedundant"}
  <2>1. o.o = "SampleInterval" => r = Req!SampleInterval(m, o.v)
    BY DEF Req!Option, Req!NestedOption, Req!LeafOption
  <2>2. o.o = "HeartbeatInterval" => r = Req!HeartbeatInterval(m, o.v)
    BY DEF Req!Option, Req!NestedOption, Req!LeafOption
  <2>3. o.o = "SuppressRedundant" => r = Req!SuppressRedundant(m, o.v)
    BY DEF Req!Option, Req!NestedOption, Req!LeafOption
  <2>4. \E x \in {"sample", "heartbeat", "suppress"} : r = Req!Put(m, x, o.v)
    BY <1>1, <1>2, <1>14, <2>1, <2>2, <2>3 DEF Req!SampleInterval, Req!HeartbeatInterval, Req!SuppressRedundant
  <2> QED BY <2>4 DEF OtherFields
<1>15. CASE o.o = "Operation"
  <2>1. r = Req!Operation(m, o.v)
    BY <1>15 DEF Req!Option, Req!NestedOption, Req!LeafOption
  <2>2. r = Req!Put(m, "op", o.v)
    BY <1>1, <1>2, <1>3, <2>1 DEF Req!Operation
  <2> QED BY <2>2 DEF OtherFields
<1>16. CASE o.o = "SupportedEncoding"
  <2>1. r = Req!SupportedEncoding(m, o.v)
    BY <1>16 DEF Req!Option, Req!NestedOption, Req!LeafOption
  <2>2. r = Req!Add(m, "encodings", o.v)
    BY <1>1, <1>2, <1>3, <2>1 DEF Req!SupportedEncoding
  <2> QED BY <2>2 DEF OtherFields
<1>17. CASE o.o = "EncodingCustom"
  <2>1. r = Req!EncodingCustom(m, o.v)
    BY <1>17 DEF Req!Option, Req!NestedOption, Req!LeafOption
  <2>2. r = m \/ r = Req!Put(m, "encoding", o.v)
    BY <1>1, <1>2, <2>1 DEF Req!EncodingCustom
  <2> QED BY <1>17, <2>2
<1> QED
  BY <1>7, <1>8, <1>9, <1>10, <1>11, <1>12, <1>13, <1>14, <1>15, <1>16, <1>17 DEF OtherNames

\* An option that is accepted shows in the message, and of what others filled it only takes
\* away what it overrides.
LEMMA OptionEffect ==
  ASSUME NEW m, Built(m), NEW o, IsOption(o), m.kind # "PollReq", ~Req!Failed(Req!Option(m, o))
  PROVE  LET r == Req!Option(m, o) IN
         /\ Built(r) /\ r.kind = m.kind
         /\ o.o \in Filling => Has(r, Req!FieldOf[o.o], o.v)
         /\ o.o = "ListMode" => m.kind = "SubReq"
         /\ \A p : /\ p.o \in Filling /\ ~Req!Overrides(o, p)
                   /\ p.o = "ListMode" => m.kind = "SubReq"
                   /\ Has(m, Req!FieldOf[p.o], p.v)
                   => Has(r, Req!FieldOf[p.o], p.v)
<1> DEFINE r == Req!Option(m, o)
<1>1. /\ \A x \in Filling : Req!FieldOf[x] \in Req!Fields \ OtherFields
      /\ \A x \in Filling : Req!FieldOf[x] = "encoding" => x = "Encoding"
      /\ \A x \in Filling : Req!FieldOf[x] = "mode" => x = "ListMode"
      /\ \A x \in Filling : Req!FieldOf[x] = "prefix" => x = "Prefix"
      /\ \A x \in Filling : Req!FieldOf[x] = "target" => x = "Target"
      /\ Req!FieldOf["Prefix"] = "prefix" /\ "Prefix" \in Filling
      /\ {"encoding", "mode"} \subseteq Req!Fields /\ OtherFields \subseteq Req!Fields
  BY DEF Filling, Req!FieldOf, Req!Fields, OtherFields
<1>2. \A x, y \in Filling : Req!FieldOf[x] = Req!FieldOf[y] => x = y \/ {x, y} = {"UseModel", "SupportedModel"}
  BY DEF Filling, Req!FieldOf
<1> DEFINE Effect(q) ==
             /\ Built(q) /\ q.kind = m.kind
             /\ o.o \in Filling => Has(q, Req!FieldOf[o.o], o.v)
             /\ o.o = "ListMode" => m.kind = "SubReq"
             /\ \A p : /\ p.o \in Filling /\ ~Req!Overrides(o, p)
                       /\ p.o = "ListMode" => m.kind = "SubReq"
                       /\ Has(m, Req!FieldOf[p.o], p.v)
                       => Has(q, Req!FieldOf[p.o], p.v)
\* A field that keeps what it has.
<1>3. \A q, x, v : q.f[x] = m.f[x] /\ Has(m, x, v) => Has(q, x, v)
  BY DEF Has
<1>4. CASE o.o \in Filling
  <2>1. CASE o.o = "Prefix"
    <3>1. r = [m EXCEPT !.f["prefix"] = <<o.v>>, !.f["target"] = <<>>]
      BY <1>4, <2>1, FillingWrites
    <3>2. /\ r = [kind |-> m.kind, f |-> r.f]
          /\ r.f = [m.f EXCEPT !["prefix"] = <<o.v>>, !["target"] = <<>>]
      BY <3>1 DEF Built
    <3>3. /\ DOMAIN r.f = Req!Fields /\ r.f["prefix"] = <<o.v>> /\ r.f["target"] = <<>>
          /\ \A y \in Req!Fields \ {"prefix", "target"} : r.f[y] = m.f[y]
      BY <3>2 DEF Built, Req!Fields
    <3> HIDE DEF r
    <3>4. IsSeq(<<o.v>>) /\ IsSeq(<<>>) /\ 1 \in DOMAIN <<o.v>> /\ <<o.v>>[1] = o.v
      BY DEF IsSeq
    <3>5. Built(r)
      BY <3>2, <3>3, <3>4 DEF Built
    <3>6. Has(r, "prefix", o.v)
      BY <3>3, <3>4 DEF Has
    <3>7. ASSUME NEW p, p.o \in Filling, ~Req!Overrides(o, p), Has(m, Req!FieldOf[p.o], p.v)
          PROVE  Has(r, Req!FieldOf[p.o], p.v)
      <4>1. p.o # "Prefix" /\ p.o # "Target"
        BY <2>1, <3>7 DEF Req!Overrides
      <4> QED BY <1>1, <1>3, <3>3, <3>7, <4>1
    <3>8. Effect(r)
      BY <1>1, <2>1, <3>2, <3>5, <3>6, <3>7
    <3> QED BY <3>8 DEF r
  <2>2. ASSUME o.o # "Prefix",
               r = Req!Put(m, Req!FieldOf[o.o], o.v) \/ r = Req!Add(m, Req!FieldOf[o.o], o.v)
        PROVE  Effect(r)
    <3> DEFINE x == Req!FieldOf[o.o]
    <3>1. x \in Req!Fields
      BY <1>1, <1>4
    <3>2. /\ Built(r) /\ r.kind = m.kind /\ Has(r, x, o.v)
          /\ \A y \in Req!Fields \ {x} : r.f[y] = m.f[y]
      BY <2>2, <3>1, PutHas, AddHas
    <3>3. r = Req!Add(m, x, o.v) => \A u : Has(m, x, u) => Has(r, x, u)
      BY <3>1, AddHas
    <3>4. o.o \in {"UseModel", "SupportedModel"} => r = Req!Add(m, x, o.v)
      <4>1. Req!Failed(Req!Refused)
        BY DEF Req!Failed, Req!Refused, Req!New
      <4>2. o.o = "UseModel" => r = Req!UseModel(m, o.v) /\ x = "models"
        BY DEF Req!Option, Req!NestedOption, Req!LeafOption, Req!FieldOf
      <4>3. o.o = "SupportedModel" => r = Req!SupportedModel(m, o.v) /\ x = "models"
        BY DEF Req!Option, Req!NestedOption, Req!LeafOption, Req!FieldOf
      <4> QED BY <4>1, <4>2, <4>3 DEF Req!UseModel, Req!SupportedModel, Req!On
    <3>5. o.o = "ListMode" => m.kind = "SubReq"
      BY <1>4, FillingWrites
    <3> HIDE DEF r
    <3>6. ASSUME NEW p, p.o \in Filling, ~Req!Overrides(o, p), Has(m, Req!FieldOf[p.o], p.v)
          PROVE  Has(r, Req!FieldOf[p.o], p.v)
      <4>1. p.o # o.o
        BY <3>6 DEF Req!Overrides
      <4>2. CASE Req!FieldOf[p.o] = x
        <5>1. o.o \in {"UseModel", "SupportedModel"}
          BY <1>2, <1>4, <3>6, <4>1, <4>2
        <5> QED BY <3>3, <3>4, <3>6, <4>2, <5>1
      <4>3. CASE Req!FieldOf[p.o] # x
        BY <1>1, <1>3, <3>2, <3>6, <4>3
      <4> QED BY <4>2, <4>3
    <3> QED BY <3>2, <3>5, <3>6
  <2>3. CASE o.o # "Prefix"
    <3>1. r = Req!Put(m, Req!FieldOf[o.o], o.v) \/ r = Req!Add(m, Req!FieldOf[o.o], o.v)
      BY <1>4, <2>3, FillingWrites
    <3> QED BY <2>2, <2>3, <3>1
  <2> QED BY <2>1, <2>3
<1>5. CASE o.o \in OtherNames
  <2>0. o.o \notin Filling /\ o.o # "ListMode"
    BY <1>5 DEF OtherNames, Filling, Req!FieldOf
  \* It writes a field x, and an option that fills x is one that it overrides, or of another message.
  <2>1. ASSUME NEW x \in Req!Fields, NEW v, r = Req!Put(m, x, v) \/ r = Req!Add(m, x, v),
               \/ x \in OtherFields
               \/ x = "mode" /\ m.kind = "Subscription"
               \/ x = "encoding" /\ o.o = "EncodingCustom"
        PROVE  Effect(r)
    <3>1. Built(r) /\ r.kind = m.kind /\ \A y \in Req!Fields \ {x} : r.f[y] = m.f[y]
      BY <2>1, PutHas, AddHas
    <3> HIDE DEF r
    <3>2. ASSUME NEW p, p.o \in Filling, ~Req!Overrides(o, p), p.o = "ListMode" => m.kind = "SubReq",
                 Has(m, Req!FieldOf[p.o], p.v)
          PROVE  Has(r, Req!FieldOf[p.o], p.v)
      <4>1. Req!FieldOf[p.o] # x
        BY <1>1, <2>1, <3>2 DEF Req!Overrides
      <4> QED BY <1>1, <1>3, <3>1, <3>2, <4>1
    <3> QED BY <2>0, <3>1, <3>2
  <2>2. r = m => Effect(r)
    BY <2>0
  <2>3. \/ r = m
        \/ \E x \in OtherFields : \E v : r = Req!Put(m, x, v) \/ r = Req!Add(m, x, v)
        \/ m.kind = "Subscription" /\ \E v : r = Req!Put(m, "mode", v)
        \/ o.o = "EncodingCustom" /\ \E v : r = Req!Put(m, "encoding", v)
    BY <1>5, OtherWrites
  <2> HIDE DEF r, Effect
  <2>4. Effect(r)
    BY <1>1, <2>1, <2>2, <2>3
  <2> QED BY <2>4 DEF r, Effect
<1> QED BY <1>4, <1>5 DEF IsOption

\* What is known of a user's message that was not refused.
UserMessage ==
  job.by = "user" /\ job.c # "PollReq" /\ ~Req!Failed(msg) =>
    /\ opts = <<>> /\ msg.kind = job.c /\ Built(msg)
    /\ used \in Seq({UserOptions[i] : i \in DOMAIN UserOptions})
    /\ \A i \in DOMAIN used : used[i].o = "ListMode" => msg.kind = "SubReq"
    /\ Req!OptionsKept

\* Whatever options a user of the package names, in whatever order and for whatever message:
\* an option that was accepted shows in the message until a later one overrides it.
THEOREM EveryOptionKept ==
  ASSUME \A i \in DOMAIN UserOptions : IsOption(UserOptions[i])
  PROVE  Req!Spec => []Req!OptionsKept
<1>1. Req!Init => UserMessage
  <2> SUFFICES ASSUME Req!Init, job.by = "user" PROVE UserMessage
    BY DEF UserMessage
  <2>1. PICK k \in UserKinds : opts = <<>> /\ msg = Req!New(k) /\ job.c = k /\ used = <<>>
    BY DEF Req!Init, Req!Job
  <2>2. msg = [kind |-> k, f |-> [x \in Req!Fields |-> <<>>]]
    BY <2>1 DEF Req!New
  <2>3. IsSeq(<<>>)
    BY DEF IsSeq
  <2>4. Built(msg) /\ msg.kind = job.c
    BY <2>1, <2>2, <2>3 DEF Built
  <2> QED BY <2>1, <2>4 DEF UserMessage, Req!OptionsKept
<1>2. UserMessage /\ [Req!Next]_Req!vars => UserMessage'
  <2> SUFFICES ASSUME UserMessage, [Req!Next]_Req!vars,
                      (job.by = "user" /\ job.c # "PollReq" /\ ~Req!Failed(msg))'
               PROVE  UserMessage'
    BY DEF UserMessage
  <2>1. CASE UNCHANGED Req!vars
    BY <2>1 DEF Req!vars, UserMessage, Req!OptionsKept, Req!Failed, Req!Overrides, Built, IsSeq
  <2>2. CASE Req!ApplyNext
    BY <2>2 DEF Req!ApplyNext, UserMessage
  <2>3. ASSUME NEW n \in DOMAIN UserOptions, Req!UserOption(n)
        PROVE  UserMessage'
    <3> DEFINE o == UserOptions[n]
               All == {UserOptions[i] : i \in DOMAIN UserOptions}
    <3>1. /\ job.by = "user" /\ ~Req!Failed(msg) /\ UNCHANGED <<job, opts>>
          /\ msg' = Req!Option(msg, o) /\ used' = Append(used, o)
      BY <2>3 DEF Req!UserOption
    <3>2. /\ opts = <<>> /\ msg.kind = job.c /\ Built(msg) /\ used \in Seq(All) /\ o \in All
          /\ \A i \in DOMAIN used : used[i].o = "ListMode" => msg.kind = "SubReq"
          /\ Req!OptionsKept /\ job.c # "PollReq"
      BY <3>1 DEF UserMessage
    <3>3. IsOption(o) /\ ~Req!Failed(Req!Option(msg, o)) /\ msg.kind # "PollReq"
      BY <3>1, <3>2 DEF Req!Failed
    <3>4. /\ Built(msg') /\ msg'.kind = msg.kind
          /\ o.o \in Filling => Has(msg', Req!FieldOf[o.o], o.v)
          /\ o.o = "ListMode" => msg.kind = "SubReq"
          /\ \A p : /\ p.o \in Filling /\ ~Req!Overrides(o, p)
                    /\ p.o = "ListMode" => msg.kind = "SubReq"
                    /\ Has(msg, Req!FieldOf[p.o], p.v)
                    => Has(msg', Req!FieldOf[p.o], p.v)
      BY <3>1, <3>2, <3>3, OptionEffect
    <3> HIDE DEF o, All
    <3>5. /\ used' \in Seq(All) /\ Len(used) \in Nat /\ DOMAIN used = 1 .. Len(used)
          /\ DOMAIN used' = 1 .. Len(used) + 1
          /\ used'[Len(used) + 1] = o /\ \A i \in 1 .. Len(used) : used'[i] = used[i]
      BY <3>1, <3>2
    <3>6. ASSUME NEW i \in DOMAIN used', used'[i].o = "ListMode" PROVE msg'.kind = "SubReq"
      BY <3>2, <3>4, <3>5, <3>6
    <3>7. ASSUME NEW i \in DOMAIN used', used'[i].o \in Filling
          PROVE  \/ Has(msg', Req!FieldOf[used'[i].o], used'[i].v)
                 \/ \E j \in DOMAIN used' : j > i /\ Req!Overrides(used'[j], used'[i])
      <4>1. CASE i = Len(used) + 1
        BY <3>4, <3>5, <3>7, <4>1
      <4>2. CASE i \in DOMAIN used
        <5> DEFINE p == used[i]
        <5>1. used'[i] = p
          BY <3>5, <4>2
        <5>2. CASE \E j \in DOMAIN used : j > i /\ Req!Overrides(used[j], p)
          <6>1. PICK j \in DOMAIN used : j > i /\ Req!Overrides(used[j], p)
            BY <5>2
          <6>2. j \in DOMAIN used' /\ used'[j] = used[j]
            BY <3>5
          <6> QED BY <5>1, <6>1, <6>2
        <5>3. CASE ~\E j \in DOMAIN used : j > i /\ Req!Overrides(used[j], p)
          <6>1. Has(msg, Req!FieldOf[p.o], p.v)
            BY <3>1, <3>2, <3>7, <4>2, <5>1, <5>3 DEF Req!OptionsKept, Has, Filling
          <6>2. CASE Req!Overrides(o, p)
            BY <3>5, <4>2, <5>1, <6>2
          <6>3. CASE ~Req!Overrides(o, p)
            BY <3>2, <3>4, <3>7, <4>2, <5>1, <6>1, <6>3
          <6> QED BY <6>2, <6>3
        <5> QED BY <5>2, <5>3
      <4> QED BY <3>5, <4>1, <4>2
    <3>8. Req!OptionsKept'
      BY <3>7 DEF Req!OptionsKept, Has, Filling, Req!Overrides, Req!FieldOf
    <3> QED BY <3>1, <3>2, <3>4, <3>5, <3>6, <3>8 DEF UserMessage, All
  <2> QED BY <2>1, <2>2, <2>3 DEF Req!Next
<1>3. UserMessage => Req!OptionsKept
  BY DEF UserMessage, Req!OptionsKept
<1> QED BY <1>1, <1>2, <1>3, PTL DEF Req!Spec
-----------------------------------------------------------------------------
(* Folds.  FoldLeft is a recursion over the sets of positions, by their     *)
(* largest element, and a recursive function is a CHOOSE: it exists, and     *)
(* what its steps keep it keeps, by induction.  That is had in first order,  *)
(* from a least element of what is not in S (WFMin).                        *)

\* A set with 0 and with every successor of its members has every number.
LEMMA SetInduction ==
  ASSUME NEW S, 0 \in S, \A n \in Nat : n \in S => n + 1 \in S
  PROVE  Nat \subseteq S
<1> DEFINE T == Nat \ S
           R == {p \in Nat \X Nat : p[1] < p[2]}
<1>1. IsWellFoundedOn(R, Nat)
  BY NatLessThanWellFounded DEF OpToRel
<1>2. SUFFICES ASSUME T # {} PROVE FALSE
  OBVIOUS
<1>3. T \subseteq Nat
  OBVIOUS
<1> HIDE DEF T, R
<1>4. PICK x \in T : \A y \in T : ~(<<y, x>> \in R)
  BY <1>1, <1>2, <1>3, WFMin
<1>5. x \in Nat /\ x # 0
  BY <1>3 DEF T
<1>6. x - 1 \in Nat /\ (x - 1) + 1 = x
  BY <1>5
<1>7. x - 1 \in T /\ <<x - 1, x>> \in R
  BY <1>5, <1>6 DEF T, R
<1> QED BY <1>4, <1>7

\* The largest element of a set of numbers, and the set without it.
Top(s) == CHOOSE x \in s : \A y \in s : x >= y

LEMMA TopOf ==
  ASSUME NEW n \in Nat, NEW s \in SUBSET (1 .. n + 1), n + 1 \in s
  PROVE  Top(s) = n + 1 /\ s \ {Top(s)} \in SUBSET (1 .. n)
<1>1. \A y \in s : n + 1 >= y
  OBVIOUS
<1>2. \A x \in s : (\A y \in s : x >= y) => x = n + 1
  OBVIOUS
<1>3. Top(s) = n + 1
  BY <1>1, <1>2 DEF Top
<1> QED BY <1>3

LEMMA TopIn ==
  ASSUME NEW n \in Nat, NEW s \in SUBSET (1 .. n), s # {}
  PROVE  Top(s) \in s /\ s \ {Top(s)} \in SUBSET (1 .. n)
<1> DEFINE W == {k \in Nat : \A q \in SUBSET (1 .. k) : q # {} => Top(q) \in q}
<1>1. 0 \in W
  <2>1. 1 .. 0 = {}
    OBVIOUS
  <2> QED BY <2>1
<1>2. ASSUME NEW k \in Nat, k \in W PROVE k + 1 \in W
  <2> SUFFICES ASSUME NEW q \in SUBSET (1 .. k + 1), q # {} PROVE Top(q) \in q
    OBVIOUS
  <2>1. CASE k + 1 \in q
    BY <2>1, TopOf
  <2>2. CASE k + 1 \notin q
    <3>1. q \in SUBSET (1 .. k)
      BY <2>2
    <3> QED BY <1>2, <3>1
  <2> QED BY <2>1, <2>2
<1> HIDE DEF W
<1>3. Nat \subseteq W
  BY <1>1, <1>2, SetInduction
<1> QED BY <1>3 DEF W

LEMMA TopOfInterval ==
  ASSUME NEW n \in Nat, NEW k \in 1 .. n
  PROVE  1 .. k \in SUBSET (1 .. n) /\ 1 .. k # {} /\ Top(1 .. k) = k /\ (1 .. k) \ {k} = 1 .. k - 1
<1>1. 1 .. k \in SUBSET (1 .. (k - 1) + 1) /\ (k - 1) + 1 = k /\ k - 1 \in Nat
  OBVIOUS
<1>2. Top(1 .. k) = k
  <2>1. (k - 1) + 1 \in 1 .. k
    OBVIOUS
  <2> QED BY <1>1, <2>1, TopOf
<1> QED BY <1>2

\* h solves the recursion over the subsets of 1 .. k, by their largest element.
Solves(h, k, A, base, F) ==
  /\ h \in [SUBSET (1 .. k) -> A] /\ h[{}] = base
  /\ \A s \in SUBSET (1 .. k) : s # {} => h[s] = F[<<Top(s), h[s \ {Top(s)}]>>]

\* A recursion over the subsets of 1 .. n, by their largest element, has a solution.
LEMMA FoldExists ==
  ASSUME NEW n \in Nat, NEW A, NEW base \in A, NEW F \in [(1 .. n) \X A -> A]
  PROVE  \E h : Solves(h, n, A, base, F)
<1> DEFINE S == {k \in Nat : k <= n => \E h : Solves(h, k, A, base, F)}
<1>0. 1 .. 0 = {}
  OBVIOUS
<1>1. 0 \in S
  <2> DEFINE h == [s \in SUBSET (1 .. 0) |-> base]
  <2>1. Solves(h, 0, A, base, F)
    BY <1>0 DEF Solves
  <2> QED BY <2>1
<1>2. ASSUME NEW k \in Nat, k \in S PROVE k + 1 \in S
  <2> SUFFICES ASSUME k + 1 <= n PROVE \E h : Solves(h, k + 1, A, base, F)
    OBVIOUS
  <2>1. PICK g : Solves(g, k, A, base, F)
    BY <1>2
  <2> DEFINE h == [s \in SUBSET (1 .. k + 1) |-> IF k + 1 \in s THEN F[<<k + 1, g[s \ {k + 1}]>>] ELSE g[s]]
  <2>2. \A s \in SUBSET (1 .. k + 1) : k + 1 \notin s => s \in SUBSET (1 .. k)
    OBVIOUS
  <2>3. \A s \in SUBSET (1 .. k + 1) : s \ {k + 1} \in SUBSET (1 .. k)
    OBVIOUS
  <2>4. k + 1 \in 1 .. n
    OBVIOUS
  <2>5. h \in [SUBSET (1 .. k + 1) -> A]
    BY <2>1, <2>2, <2>3, <2>4 DEF Solves
  <2>6. h[{}] = base
    BY <2>1, <2>2 DEF Solves
  <2>7. ASSUME NEW s \in SUBSET (1 .. k + 1), s # {} PROVE h[s] = F[<<Top(s), h[s \ {Top(s)}]>>]
    <3>1. CASE k + 1 \in s
      <4>1. Top(s) = k + 1 /\ s \ {k + 1} \in SUBSET (1 .. k + 1) /\ k + 1 \notin s \ {k + 1}
        BY <2>3, <3>1, TopOf
      <4> QED BY <3>1, <4>1
    <3>2. CASE k + 1 \notin s
      <4>1. s \in SUBSET (1 .. k) /\ s \ {Top(s)} \in SUBSET (1 .. k)
        BY <2>2, <2>7, <3>2, TopIn
      <4>2. k + 1 \notin s \ {Top(s)} /\ s \ {Top(s)} \in SUBSET (1 .. k + 1)
        BY <3>2, <4>1
      <4> QED BY <2>1, <2>7, <3>2, <4>1, <4>2 DEF Solves
    <3> QED BY <3>1, <3>2
  <2> HIDE DEF h
  <2> QED BY <2>5, <2>6, <2>7 DEF Solves
<1> HIDE DEF S
<1>3. Nat \subseteq S
  BY <1>1, <1>2, SetInduction
<1> QED BY <1>3 DEF S

\* What every step of a fold keeps, the fold keeps.
LEMMA FoldKeeps ==
  ASSUME NEW n \in Nat, NEW A, NEW h, h[{}] \in A,
         \A k \in 1 .. n : h[1 .. k - 1] \in A => h[1 .. k] \in A
  PROVE  h[1 .. n] \in A
<1> DEFINE S == {k \in Nat : k <= n => h[1 .. k] \in A}
<1>1. 0 \in S
  <2>1. 1 .. 0 = {}
    OBVIOUS
  <2> QED BY <2>1
<1>2. \A k \in Nat : k \in S => k + 1 \in S
  <2> TAKE k \in Nat
  <2>1. k + 1 <= n => k + 1 \in 1 .. n /\ (k + 1) - 1 = k
    OBVIOUS
  <2> QED BY <2>1
<1> HIDE DEF S
<1>3. Nat \subseteq S
  BY <1>1, <1>2, SetInduction
<1> QED BY <1>3 DEF S

-----------------------------------------------------------------------------
(* EventPipeline, behind a rate limiter.  What left the output and what is   *)
(* in its queue, in this order, are the events that passed the limiter: the  *)
(* index recalls the last of them for every set of tags, because it has room *)
(* for all, and an event that passes is compared with that one.             *)

CONSTANTS IntWidth, OneSecond, EvOuts, EvChains, EvBatches, EvResponses, EvPlaces, EvWorkers, MaxEvMsgs
VARIABLES chain, place, msgs, obj, todo, queue, wrote, mem, raw, work

Pipe == INSTANCE EventPipeline

CONSTANTS Tags,   \* the sets of tags of events that may arrive
          Events  \* those events

Arriving == OneSecond \in Int /\ IsFiniteSet(Tags) /\ \A e \in Events : e.tags \in Tags /\ e.ts \in Int

Limiter(c) ==
  /\ c.kind = "event-rate-limit" /\ c.perSecond \in Int
  /\ c.cache \in Nat /\ Cardinality(Tags) <= c.cache

Entry == [tags : Tags, ts : Int]
IndexOk(ix) == ix \in Seq(Entry) /\ \A i, j \in DOMAIN ix : ix[i].tags = ix[j].tags => i = j
Recalls(ix, g, t) == \E i \in DOMAIN ix : ix[i].tags = g /\ ix[i].ts = t

\* The index without the entry of x's tags.
LEMMA Forgotten ==
  ASSUME NEW ix, IndexOk(ix), NEW x \in Entry
  PROVE  LET twins == Pipe!Seen(ix, x)
             rest == IF twins = {} THEN ix ELSE Pipe!RemoveAt(ix, CHOOSE i \in twins : TRUE)
         IN /\ IndexOk(rest) /\ \A k \in DOMAIN rest : rest[k].tags # x.tags
            /\ \A i \in DOMAIN ix : ix[i].tags # x.tags => \E k \in DOMAIN rest : rest[k] = ix[i]
<1> DEFINE twins == Pipe!Seen(ix, x)
           n == CHOOSE i \in twins : TRUE
           rest == IF twins = {} THEN ix ELSE Pipe!RemoveAt(ix, n)
<1>1. ix \in Seq(Entry) /\ Len(ix) \in Nat /\ DOMAIN ix = 1 .. Len(ix)
      /\ \A i, j \in DOMAIN ix : ix[i].tags = ix[j].tags => i = j
  BY DEF IndexOk
<1>2. twins = {i \in DOMAIN ix : ix[i].tags = x.tags}
  BY DEF Pipe!Seen
<1>3. CASE twins = {}
  BY <1>1, <1>2, <1>3 DEF IndexOk
<1>4. CASE twins # {}
  <2>1. n \in DOMAIN ix /\ ix[n].tags = x.tags
    BY <1>2, <1>4
  <2> HIDE DEF n
  <2> DEFINE a == SubSeq(ix, 1, n - 1)
             b == SubSeq(ix, n + 1, Len(ix))
  <2>2. a \in Seq(Entry) /\ Len(a) = n - 1 /\ \A k \in 1 .. n - 1 : a[k] = ix[k]
    <3>1. \A i \in 1 .. n - 1 : ix[i] \in Entry
      BY <1>1, <2>1
    <3>2. a \in Seq(Entry) /\ Len(a) = (IF 1 <= n - 1 THEN (n - 1) - 1 + 1 ELSE 0)
          /\ \A k \in 1 .. (n - 1) - 1 + 1 : a[k] = ix[1 + k - 1]
      BY <1>1, <2>1, <3>1, SubSeqProperties
    <3> HIDE DEF a
    <3> QED BY <1>1, <2>1, <3>2
  <2>3. b \in Seq(Entry) /\ Len(b) = Len(ix) - n /\ \A k \in 1 .. Len(ix) - n : b[k] = ix[n + k]
    <3>1. \A i \in n + 1 .. Len(ix) : ix[i] \in Entry
      BY <1>1, <2>1
    <3>2. b \in Seq(Entry) /\ Len(b) = (IF n + 1 <= Len(ix) THEN Len(ix) - (n + 1) + 1 ELSE 0)
          /\ \A k \in 1 .. Len(ix) - (n + 1) + 1 : b[k] = ix[(n + 1) + k - 1]
      BY <1>1, <2>1, <3>1, SubSeqProperties
    <3>3. /\ (IF n + 1 <= Len(ix) THEN Len(ix) - (n + 1) + 1 ELSE 0) = Len(ix) - n
          /\ \A k \in 1 .. Len(ix) - n : k \in 1 .. Len(ix) - (n + 1) + 1 /\ (n + 1) + k - 1 = n + k
      <4>1. n \in Int /\ Len(ix) \in Int /\ n <= Len(ix)
        BY <1>1, <2>1
      <4> QED BY <4>1
    <3> HIDE DEF b
    <3> QED BY <3>2, <3>3
  <2>4. rest = a \o b
    BY <1>4 DEF Pipe!RemoveAt
  <2> HIDE DEF a, b
  <2>5. /\ rest \in Seq(Entry) /\ Len(rest) = Len(ix) - 1
        /\ \A k \in 1 .. Len(ix) - 1 : rest[k] = IF k <= n - 1 THEN ix[k] ELSE ix[k + 1]
    <3>1. a \o b \in Seq(Entry) /\ Len(a \o b) = Len(a) + Len(b)
          /\ \A i \in 1 .. Len(a) + Len(b) : (a \o b)[i] = IF i <= Len(a) THEN a[i] ELSE b[i - Len(a)]
      BY <2>2, <2>3, ConcatProperties
    <3>2. Len(a) + Len(b) = Len(ix) - 1
      BY <1>1, <2>1, <2>2, <2>3
    <3>3. ASSUME NEW k \in 1 .. Len(ix) - 1
          PROVE  rest[k] = IF k <= n - 1 THEN ix[k] ELSE ix[k + 1]
      <4>1. CASE k <= n - 1
        <5>1. k \in 1 .. n - 1
          BY <1>1, <2>1, <4>1
        <5> QED BY <2>2, <2>4, <3>1, <3>2, <4>1, <5>1
      <4>2. CASE ~(k <= n - 1)
        <5>1. k - (n - 1) \in 1 .. Len(ix) - n /\ n + (k - (n - 1)) = k + 1
          BY <1>1, <2>1, <4>2
        <5>2. rest[k] = b[k - (n - 1)]
          BY <2>2, <2>4, <3>1, <3>2, <4>2
        <5> QED BY <2>3, <4>2, <5>1, <5>2
      <4> QED BY <4>1, <4>2
    <3> QED BY <2>4, <3>1, <3>2, <3>3
  <2> HIDE DEF rest, twins
  <2>6. DOMAIN rest = 1 .. Len(ix) - 1
    BY <1>1, <2>5
  <2>7. \A k \in DOMAIN rest : \E i \in DOMAIN ix :
          rest[k] = ix[i] /\ ((k < n /\ i = k) \/ (k >= n /\ i = k + 1))
    <3> TAKE k \in DOMAIN rest
    <3>1. k < n => k \in DOMAIN ix /\ rest[k] = ix[k]
      BY <1>1, <2>1, <2>5, <2>6
    <3>2. k >= n => k + 1 \in DOMAIN ix /\ rest[k] = ix[k + 1]
      BY <1>1, <2>1, <2>5, <2>6
    <3>3. k < n \/ k >= n
      BY <1>1, <2>1, <2>6
    <3> QED BY <3>1, <3>2, <3>3
  <2>8. \A i, j \in DOMAIN rest : rest[i].tags = rest[j].tags => i = j
    <3> TAKE i \in DOMAIN rest, j \in DOMAIN rest
    <3>1. i \in Int /\ j \in Int /\ n \in Int
      BY <1>1, <2>1, <2>6
    <3>2. PICK p \in DOMAIN ix : rest[i] = ix[p] /\ ((i < n /\ p = i) \/ (i >= n /\ p = i + 1))
      BY <2>7
    <3>3. PICK q \in DOMAIN ix : rest[j] = ix[q] /\ ((j < n /\ q = j) \/ (j >= n /\ q = j + 1))
      BY <2>7
    <3>4. rest[i].tags = rest[j].tags => p = q
      BY <1>1, <3>2, <3>3
    <3> QED BY <3>1, <3>2, <3>3, <3>4
  <2>9. \A k \in DOMAIN rest : rest[k].tags # x.tags
    <3> TAKE k \in DOMAIN rest
    <3>1. PICK i \in DOMAIN ix : rest[k] = ix[i] /\ i # n
      BY <1>1, <2>1, <2>6, <2>7
    <3> QED BY <1>1, <2>1, <3>1
  <2>10. \A i \in DOMAIN ix : ix[i].tags # x.tags => \E k \in DOMAIN rest : rest[k] = ix[i]
    <3> SUFFICES ASSUME NEW i \in DOMAIN ix, ix[i].tags # x.tags PROVE \E k \in DOMAIN rest : rest[k] = ix[i]
      OBVIOUS
    <3>1. i # n
      BY <2>1
    <3>2. CASE i < n
      <4>1. i \in DOMAIN rest /\ rest[i] = ix[i]
        BY <1>1, <2>1, <2>5, <2>6, <3>2
      <4> QED BY <4>1
    <3>3. CASE i > n
      <4>1. i - 1 \in DOMAIN rest /\ rest[i - 1] = ix[i]
        BY <1>1, <2>1, <2>5, <2>6, <3>3
      <4> QED BY <4>1
    <3> QED BY <1>1, <2>1, <3>1, <3>2, <3>3
  <2>11. IndexOk(rest)
    BY <2>5, <2>8 DEF IndexOk
  <2> QED BY <2>9, <2>10, <2>11 DEF rest, twins, n
<1> QED BY <1>3, <1>4

\* What was recalled still is, and x is.
LEMMA MostRecentKeeps ==
  ASSUME Arriving, NEW c, Limiter(c), NEW ix, IndexOk(ix), NEW x \in Entry
  PROVE  LET r == Pipe!MostRecent(c, ix, x)
         IN /\ IndexOk(r) /\ Recalls(r, x.tags, x.ts)
            /\ \A g, t : g # x.tags /\ Recalls(ix, g, t) => Recalls(r, g, t)
<1> DEFINE twins == Pipe!Seen(ix, x)
           rest == IF twins = {} THEN ix ELSE Pipe!RemoveAt(ix, CHOOSE i \in twins : TRUE)
           r == Pipe!MostRecent(c, ix, x)
<1>1. /\ IndexOk(rest) /\ \A k \in DOMAIN rest : rest[k].tags # x.tags
      /\ \A i \in DOMAIN ix : ix[i].tags # x.tags => \E k \in DOMAIN rest : rest[k] = ix[i]
  BY Forgotten
<1>2. r = <<x>> \o IF Len(rest) < c.cache THEN rest ELSE SubSeq(rest, 1, c.cache - 1)
  BY DEF Pipe!MostRecent
<1> HIDE DEF rest, twins, r
<1>3. rest \in Seq(Entry) /\ Len(rest) \in Nat /\ DOMAIN rest = 1 .. Len(rest)
      /\ \A i, j \in DOMAIN rest : rest[i].tags = rest[j].tags => i = j
  BY <1>1 DEF IndexOk
\* No two entries have the same tags, so there is room for one more.
<1>4. Len(rest) < c.cache
  <2> DEFINE f == [k \in 1 .. Len(rest) |-> rest[k].tags]
             Others == Tags \ {x.tags}
  <2>1. IsFiniteSet(Others) /\ Cardinality(Others) = Cardinality(Tags) - 1
    <3>1. x.tags \in Tags
      BY DEF Entry
    <3> QED BY <3>1, FS_RemoveElement DEF Arriving
  <2>2. f \in [1 .. Len(rest) -> Others]
    <3>1. \A k \in 1 .. Len(rest) : rest[k] \in Entry /\ rest[k].tags # x.tags
      BY <1>1, <1>3
    <3> QED BY <3>1 DEF Entry
  <2>3. Cardinality(1 .. Len(rest)) <= Cardinality(Others)
    <3>1. \A a, b \in 1 .. Len(rest) : f[a] = f[b] => a = b
      BY <1>3
    <3>2. IsFiniteSet(1 .. Len(rest)) /\ Cardinality(1 .. Len(rest)) \in Nat /\ Cardinality(Others) \in Nat
      BY <1>3, <2>1, FS_Interval, FS_CardinalityType
    <3> HIDE DEF f, Others
    <3>3. Cardinality(Others) < Cardinality(1 .. Len(rest)) => FALSE
      BY <2>1, <2>2, <3>1, <3>2, FS_PigeonHole
    <3> QED BY <3>2, <3>3
  <2>4. Cardinality(1 .. Len(rest)) = Len(rest)
    BY <1>3, FS_Interval
  <2>5. Cardinality(Tags) \in Nat
    BY FS_CardinalityType DEF Arriving
  <2> HIDE DEF Others
  <2> QED BY <1>3, <2>1, <2>3, <2>4, <2>5 DEF Limiter
<1>5. r = <<x>> \o rest
  BY <1>2, <1>4
<1>6. /\ r \in Seq(Entry) /\ Len(r) = Len(rest) + 1 /\ DOMAIN r = 1 .. Len(rest) + 1 /\ r[1] = x
      /\ \A k \in 1 .. Len(rest) : r[k + 1] = rest[k]
  <2>1. <<x>> \in Seq(Entry) /\ Len(<<x>>) = 1 /\ <<x>>[1] = x
    OBVIOUS
  <2>2. <<x>> \o rest \in Seq(Entry) /\ Len(<<x>> \o rest) = Len(<<x>>) + Len(rest)
        /\ \A i \in 1 .. Len(<<x>>) + Len(rest) :
             (<<x>> \o rest)[i] = IF i <= Len(<<x>>) THEN <<x>>[i] ELSE rest[i - Len(<<x>>)]
    BY <1>3, <2>1, ConcatProperties
  <2> DEFINE y == <<x>>
  <2> HIDE DEF y
  <2>3. \A k \in 1 .. Len(rest) : (k + 1) - 1 = k /\ k + 1 \in 1 .. 1 + Len(rest) /\ ~(k + 1 <= 1)
    BY <1>3
  <2> QED BY <1>3, <1>5, <2>1, <2>2, <2>3 DEF y
<1>7. \A i \in DOMAIN r : i = 1 \/ (i - 1 \in DOMAIN rest /\ r[i] = rest[i - 1])
  <2> TAKE i \in DOMAIN r
  <2>1. i # 1 => i - 1 \in 1 .. Len(rest) /\ (i - 1) + 1 = i
    BY <1>3, <1>6
  <2> QED BY <1>3, <1>6, <2>1
<1>8. IndexOk(r)
  <2> SUFFICES ASSUME NEW i \in DOMAIN r, NEW j \in DOMAIN r, r[i].tags = r[j].tags PROVE i = j
    BY <1>6 DEF IndexOk
  <2>1. i \in Int /\ j \in Int
    BY <1>3, <1>6
  <2> QED BY <1>1, <1>3, <1>6, <1>7, <2>1
<1>9. Recalls(r, x.tags, x.ts)
  BY <1>3, <1>6 DEF Recalls
<1>10. ASSUME NEW g, NEW t, g # x.tags, Recalls(ix, g, t) PROVE Recalls(r, g, t)
  <2>1. PICK i \in DOMAIN ix : ix[i].tags = g /\ ix[i].ts = t
    BY <1>10 DEF Recalls
  <2>2. PICK k \in DOMAIN rest : rest[k] = ix[i]
    BY <1>1, <1>10, <2>1
  <2>3. k + 1 \in DOMAIN r /\ r[k + 1] = ix[i]
    BY <1>3, <1>6, <2>2
  <2> QED BY <2>1, <2>3 DEF Recalls
<1> QED BY <1>8, <1>9, <1>10 DEF r

\* H are the events that passed the limiter so far: the index recalls the last of each set of
\* tags, and those with the same tags that follow one another are at the same time or apart.
Apart(c, a, b) == a.ts = b.ts \/ (b.ts - a.ts) * c.perSecond >= OneSecond
Passed(c, H, ix) ==
  /\ H \in Seq(Events) /\ IndexOk(ix)
  /\ \A i \in 1 .. Len(H) :
       (\A k \in (i + 1) .. Len(H) : H[k].tags # H[i].tags) => Recalls(ix, H[i].tags, H[i].ts)
  /\ \A i, j \in 1 .. Len(H) :
       i < j /\ H[i].tags = H[j].tags /\ (\A k \in (i + 1) .. (j - 1) : H[k].tags # H[i].tags) =>
         Apart(c, H[i], H[j])

\* An event that passes is at the time of the one recalled, or apart from it.
LEMMA EventPasses ==
  ASSUME Arriving, NEW c, Limiter(c), NEW H, NEW ix, Passed(c, H, ix), NEW e \in Events,
         ~Pipe!RateRejects(c, ix, e)
  PROVE  Passed(c, Append(H, e), Pipe!MostRecent(c, ix, [tags |-> e.tags, ts |-> e.ts]))
<1> DEFINE n == Len(H)
           J == Append(H, e)
           x == [tags |-> e.tags, ts |-> e.ts]
           r == Pipe!MostRecent(c, ix, x)
<1>1. x \in Entry /\ x.tags = e.tags /\ x.ts = e.ts
  BY DEF Arriving, Entry
<1>2. IndexOk(r) /\ Recalls(r, e.tags, e.ts) /\ \A g, t : g # e.tags /\ Recalls(ix, g, t) => Recalls(r, g, t)
  <2>1. IndexOk(ix)
    BY DEF Passed
  <2> HIDE DEF x, r
  <2>2. IndexOk(r) /\ Recalls(r, x.tags, x.ts) /\ \A g, t : g # x.tags /\ Recalls(ix, g, t) => Recalls(r, g, t)
    BY <1>1, <2>1, MostRecentKeeps DEF r
  <2> QED BY <1>1, <2>2
<1>3. /\ J \in Seq(Events) /\ Len(J) = n + 1 /\ n \in Nat /\ J[n + 1] = e
      /\ \A k \in 1 .. n : J[k] = H[k]
  BY DEF Passed
<1>4. Passed(c, H, ix)
  OBVIOUS
<1> HIDE DEF x, r, J, n
<1>5. ASSUME NEW i \in 1 .. n + 1, \A k \in (i + 1) .. (n + 1) : J[k].tags # J[i].tags
      PROVE  Recalls(r, J[i].tags, J[i].ts)
  <2>1. CASE i = n + 1
    BY <1>2, <1>3, <2>1
  <2>2. CASE i # n + 1
    <3>1. i \in 1 .. n /\ n + 1 \in (i + 1) .. (n + 1) /\ J[i] = H[i]
      BY <1>3, <2>2
    <3>2. \A k \in (i + 1) .. n : k \in (i + 1) .. (n + 1) /\ J[k] = H[k]
      BY <1>3, <3>1
    <3>3. H[i].tags # e.tags /\ \A k \in (i + 1) .. n : H[k].tags # H[i].tags
      BY <1>3, <1>5, <3>1, <3>2
    <3>4. Recalls(ix, H[i].tags, H[i].ts)
      BY <1>4, <3>1, <3>3 DEF Passed, n
    <3> QED BY <1>2, <3>1, <3>3, <3>4
  <2> QED BY <2>1, <2>2
<1>6. ASSUME NEW i \in 1 .. n + 1, NEW j \in 1 .. n + 1, i < j, J[i].tags = J[j].tags,
             \A k \in (i + 1) .. (j - 1) : J[k].tags # J[i].tags
      PROVE  Apart(c, J[i], J[j])
  <2>1. i \in 1 .. n /\ J[i] = H[i]
    BY <1>3, <1>6
  <2>2. \A k \in (i + 1) .. (j - 1) : k \in 1 .. n /\ J[k] = H[k]
    BY <1>3, <1>6
  <2>3. \A k \in (i + 1) .. (j - 1) : H[k].tags # H[i].tags
    BY <1>6, <2>1, <2>2
  <2>4. CASE j = n + 1
    <3>1. J[j] = e /\ H[i].tags = e.tags /\ (n + 1) - 1 = n
      BY <1>3, <1>6, <2>1, <2>4
    <3>2. Recalls(ix, H[i].tags, H[i].ts)
      BY <1>4, <2>1, <2>3, <2>4, <3>1 DEF Passed, n
    <3>3. PICK k \in DOMAIN ix : ix[k].tags = e.tags /\ ix[k].ts = H[i].ts
      BY <3>1, <3>2 DEF Recalls
    <3>4. k \in Pipe!Seen(ix, e)
      BY <3>3 DEF Pipe!Seen
    <3>5. ix[k].ts = e.ts \/ ~((e.ts - ix[k].ts) * c.perSecond < OneSecond)
      <4>1. \A m \in Pipe!Seen(ix, e) : ix[m].ts = e.ts \/ ~((e.ts - ix[m].ts) * c.perSecond < OneSecond)
        BY DEF Pipe!RateRejects
      <4> QED BY <3>4, <4>1, Zenon
    <3>6. e.ts \in Int /\ ix[k].ts \in Int /\ c.perSecond \in Int /\ OneSecond \in Int
      <4>1. ix[k] \in Entry
        BY <1>4, <3>3 DEF Passed, IndexOk
      <4>2. ix[k].ts \in Int
        BY <4>1 DEF Entry
      <4> QED BY <4>2 DEF Arriving, Limiter
    <3> DEFINE d == (e.ts - ix[k].ts) * c.perSecond
    <3>7. d \in Int
      BY <3>6
    <3>8. (e.ts - H[i].ts) * c.perSecond = d
      BY <3>3
    <3> HIDE DEF d
    <3>9. H[i].ts = e.ts \/ d >= OneSecond
      BY <3>3, <3>5, <3>6, <3>7 DEF d
    <3> QED BY <2>1, <3>1, <3>8, <3>9 DEF Apart
  <2>5. CASE j # n + 1
    <3>1. j \in 1 .. n /\ J[j] = H[j]
      BY <1>3, <2>5
    <3> QED BY <1>4, <1>6, <2>1, <2>3, <3>1 DEF Passed, n
  <2> QED BY <2>4, <2>5
<1>7. Passed(c, J, r)
  BY <1>2, <1>3, <1>5, <1>6 DEF Passed
<1> QED BY <1>7 DEF r, J, x

\* One that is dropped only makes the one recalled the most recent.
LEMMA EventHeld ==
  ASSUME Arriving, NEW c, Limiter(c), NEW H, NEW ix, Passed(c, H, ix), NEW e \in Events,
         Pipe!RateRejects(c, ix, e)
  PROVE  Passed(c, H, Pipe!MostRecent(c, ix, ix[CHOOSE i \in Pipe!Seen(ix, e) : TRUE]))
<1> DEFINE n == CHOOSE i \in Pipe!Seen(ix, e) : TRUE
           r == Pipe!MostRecent(c, ix, ix[n])
<1>1. n \in DOMAIN ix
  BY DEF Pipe!RateRejects, Pipe!Seen
<1> HIDE DEF n
<1>2. IndexOk(ix) /\ ix[n] \in Entry
  BY <1>1 DEF Passed, IndexOk
<1>3. /\ IndexOk(r) /\ Recalls(r, ix[n].tags, ix[n].ts)
      /\ \A g, t : g # ix[n].tags /\ Recalls(ix, g, t) => Recalls(r, g, t)
  BY <1>2, MostRecentKeeps
<1> HIDE DEF r
<1>4. \A g, t : Recalls(ix, g, t) => Recalls(r, g, t)
  <2> TAKE g, t
  <2>1. g = ix[n].tags /\ Recalls(ix, g, t) => t = ix[n].ts
    BY <1>1, <1>2 DEF Recalls, IndexOk
  <2> QED BY <1>3, <2>1
<1>5. Passed(c, H, r)
  BY <1>3, <1>4 DEF Passed
<1> QED BY <1>5 DEF r, n

\* What the fold over the events of a call has gathered.
RateAccs(c, H) == {a \in [index : Seq(Entry), out : Seq(Events)] : Passed(c, H \o a.out, a.index)}

LEMMA AppendAfter ==
  ASSUME NEW S, NEW s \in Seq(S), NEW t \in Seq(S), NEW e \in S
  PROVE  Append(s \o t, e) = s \o Append(t, e) /\ Append(t, e) \in Seq(S)
<1> DEFINE u == Append(t, e)
<1>1. s \o t \in Seq(S) /\ Len(s \o t) = Len(s) + Len(t)
      /\ \A i \in 1 .. Len(s) + Len(t) : (s \o t)[i] = IF i <= Len(s) THEN s[i] ELSE t[i - Len(s)]
  BY ConcatProperties
<1>2. u \in Seq(S) /\ Len(u) = Len(t) + 1 /\ u[Len(t) + 1] = e /\ \A i \in 1 .. Len(t) : u[i] = t[i]
  BY AppendProperties
<1> HIDE DEF u
<1>3. s \o u \in Seq(S) /\ Len(s \o u) = Len(s) + Len(u)
      /\ \A i \in 1 .. Len(s) + Len(u) : (s \o u)[i] = IF i <= Len(s) THEN s[i] ELSE u[i - Len(s)]
  BY <1>2, ConcatProperties
<1> DEFINE v == Append(s \o t, e)
<1>4. v \in Seq(S) /\ Len(v) = Len(s) + Len(t) + 1 /\ v[Len(s) + Len(t) + 1] = e
      /\ \A i \in 1 .. Len(s) + Len(t) : v[i] = (s \o t)[i]
  BY <1>1, AppendProperties
<1> HIDE DEF v
<1>5. Len(s) \in Nat /\ Len(t) \in Nat
  OBVIOUS
<1>6. ASSUME NEW i \in 1 .. Len(s) + Len(t) + 1 PROVE v[i] = (s \o u)[i]
  <2>1. CASE i = Len(s) + Len(t) + 1
    <3>1. i - Len(s) = Len(t) + 1 /\ ~(i <= Len(s)) /\ i \in 1 .. Len(s) + Len(u)
      BY <1>2, <1>5, <2>1
    <3> QED BY <1>2, <1>3, <1>4, <2>1, <3>1
  <2>2. CASE i <= Len(s)
    <3>1. i \in 1 .. Len(s) + Len(t) /\ i \in 1 .. Len(s) + Len(u)
      BY <1>2, <1>5, <2>2
    <3> QED BY <1>1, <1>3, <1>4, <2>2, <3>1
  <2>3. CASE ~(i <= Len(s)) /\ i # Len(s) + Len(t) + 1
    <3>1. i \in 1 .. Len(s) + Len(t) /\ i \in 1 .. Len(s) + Len(u) /\ i - Len(s) \in 1 .. Len(t)
      BY <1>2, <1>5, <2>3
    <3> QED BY <1>1, <1>2, <1>3, <1>4, <2>3, <3>1
  <2> QED BY <2>1, <2>2, <2>3
<1>7. v = s \o u
  <2>1. Len(v) = Len(s \o u) /\ \A i \in 1 .. Len(v) : v[i] = (s \o u)[i]
    BY <1>2, <1>3, <1>4, <1>5, <1>6
  <2> QED BY <1>3, <1>4, <2>1, SeqEqual
<1> QED BY <1>2, <1>7 DEF u, v

LEMMA RateStepKeeps ==
  ASSUME Arriving, NEW c, Limiter(c), NEW H \in Seq(Events), NEW a \in RateAccs(c, H), NEW e \in Events
  PROVE  /\ Pipe!RateStep(c, a, e) \in RateAccs(c, H)
         /\ Pipe!RateStep(c, a, e).out = a.out \/ Pipe!RateStep(c, a, e).out = Append(a.out, e)
<1>1. /\ a = [index |-> a.index, out |-> a.out] /\ a.index \in Seq(Entry) /\ a.out \in Seq(Events)
      /\ Passed(c, H \o a.out, a.index)
  BY DEF RateAccs
<1>2. CASE Pipe!RateRejects(c, a.index, e)
  <2> DEFINE r == Pipe!MostRecent(c, a.index, a.index[CHOOSE i \in Pipe!Seen(a.index, e) : TRUE])
  <2>1. Pipe!RateStep(c, a, e) = [index |-> r, out |-> a.out]
    <3>1. Pipe!Seen(a.index, e) # {}
      BY <1>2 DEF Pipe!RateRejects
    <3>2. Pipe!Touch(c, a.index, e) = r
      BY <3>1 DEF Pipe!Touch
    <3> HIDE DEF r
    <3> QED BY <1>1, <1>2, <3>2 DEF Pipe!RateStep
  <2>2. Passed(c, H \o a.out, r)
    BY <1>1, <1>2, EventHeld
  <2> HIDE DEF r
  <2>3. r \in Seq(Entry)
    BY <2>2 DEF Passed, IndexOk
  <2> QED BY <1>1, <2>1, <2>2, <2>3 DEF RateAccs
<1>3. CASE ~Pipe!RateRejects(c, a.index, e)
  <2> DEFINE r == Pipe!MostRecent(c, a.index, [tags |-> e.tags, ts |-> e.ts])
  <2>1. Pipe!RateStep(c, a, e) = [index |-> r, out |-> Append(a.out, e)]
    BY <1>3 DEF Pipe!RateStep
  <2>2. Passed(c, Append(H \o a.out, e), r)
    BY <1>1, <1>3, EventPasses
  <2>3. Append(H \o a.out, e) = H \o Append(a.out, e) /\ Append(a.out, e) \in Seq(Events)
    BY <1>1, AppendAfter
  <2> HIDE DEF r
  <2>4. r \in Seq(Entry)
    BY <2>2 DEF Passed, IndexOk
  <2>5. Passed(c, H \o Append(a.out, e), r)
    BY <2>2, <2>3
  <2> DEFINE q == Append(a.out, e)
             z == [index |-> r, out |-> q]
  <2> HIDE DEF q
  <2>6. z \in RateAccs(c, H)
    <3>1. q \in Seq(Events) /\ Passed(c, H \o q, r)
      BY <2>3, <2>5 DEF q
    <3> QED BY <2>4, <3>1 DEF RateAccs
  <2>7. Pipe!RateStep(c, a, e) = z /\ z.out = q
    BY <2>1 DEF q
  <2> QED BY <2>6, <2>7 DEF q
<1> QED BY <1>2, <1>3

\* A call of the limiter with any events.
LEMMA RateLimitKeeps ==
  ASSUME Arriving, NEW c, Limiter(c), NEW H, NEW ix, Passed(c, H, ix), NEW es \in Seq(Events)
  PROVE  Pipe!RateLimit(c, ix, es) \in RateAccs(c, H)
<1> DEFINE n == Len(es)
           A == RateAccs(c, H)
           base == [index |-> ix, out |-> <<>>]
           F == [p \in (1 .. n) \X A |-> Pipe!RateStep(c, p[2], es[p[1]])]
           Sol(g) == g = [s \in SUBSET (1 .. n) |-> IF s = {} THEN base
                                                    ELSE Pipe!RateStep(c, g[s \ {Top(s)}], es[Top(s)])]
<1>1. n \in Nat /\ DOMAIN es = 1 .. n /\ \A k \in 1 .. n : es[k] \in Events
  OBVIOUS
<1>2. H \in Seq(Events) /\ base \in A
  <2>1. H \in Seq(Events) /\ ix \in Seq(Entry)
    BY DEF Passed, IndexOk
  <2>2. H \o <<>> = H /\ <<>> \in Seq(Events)
    BY <2>1, ConcatEmptySeq
  <2>3. Passed(c, H \o <<>>, ix)
    BY <2>2
  <2> QED BY <2>1, <2>2, <2>3 DEF RateAccs
<1>3. \A a \in A : \A k \in 1 .. n : Pipe!RateStep(c, a, es[k]) \in A
  BY <1>1, <1>2, RateStepKeeps
<1> HIDE DEF n, A, base
<1>4. F \in [(1 .. n) \X A -> A]
  BY <1>3
<1>5. PICK h : Solves(h, n, A, base, F)
  <2> HIDE DEF F
  <2> QED BY <1>1, <1>2, <1>4, FoldExists
<1>6. Sol(h)
  <2>1. h \in [SUBSET (1 .. n) -> A] /\ h[{}] = base
    BY <1>5 DEF Solves
  <2>2. \A s \in SUBSET (1 .. n) : s # {} => h[s] = F[<<Top(s), h[s \ {Top(s)}]>>]
    <3> HIDE DEF F
    <3> QED BY <1>5 DEF Solves
  <2>3. \A s \in SUBSET (1 .. n) : s # {} => Top(s) \in 1 .. n /\ h[s \ {Top(s)}] \in A
    BY <1>1, <2>1, TopIn
  <2>4. \A s \in SUBSET (1 .. n) : s # {} => h[s] = Pipe!RateStep(c, h[s \ {Top(s)}], es[Top(s)])
    BY <2>2, <2>3
  <2> HIDE DEF F
  <2> QED BY <2>1, <2>4
<1> DEFINE g == CHOOSE q : Sol(q)
<1>7. Pipe!RateLimit(c, ix, es) = g[1 .. n]
  BY <1>1 DEF Pipe!RateLimit, Pipe!FoldLeft, Pipe!MapThenFoldSet, Pipe!Max, Top, base
<1>8. Sol(g)
  BY <1>6
<1> HIDE DEF g
<1>9. g[1 .. n] \in A
  <2>1. g[{}] \in A
    BY <1>2, <1>8
  <2>2. ASSUME NEW k \in 1 .. n, g[1 .. k - 1] \in A PROVE g[1 .. k] \in A
    <3>1. 1 .. k \in SUBSET (1 .. n) /\ 1 .. k # {} /\ Top(1 .. k) = k /\ (1 .. k) \ {k} = 1 .. k - 1
      BY <1>1, TopOfInterval
    <3>2. g[1 .. k] = Pipe!RateStep(c, g[1 .. k - 1], es[k])
      BY <1>8, <3>1
    <3> QED BY <1>3, <2>2, <3>2
  <2> QED BY <1>1, <2>1, <2>2, FoldKeeps
<1> QED BY <1>7, <1>9 DEF A

-----------------------------------------------------------------------------
\* A chain of one processor, and a call with one event, is one step.
LEMMA OneTop ==
  /\ 1 .. 1 \in SUBSET (1 .. 1) /\ 1 .. 1 # {}
  /\ \A s \in SUBSET (1 .. 1) : s # {} => Top(s) = 1 /\ s \ {Top(s)} = {}
<1>1. \A s \in SUBSET (1 .. 1) : s # {} => s = 1 .. 1
  <2> SUFFICES ASSUME NEW s \in SUBSET (1 .. 1), s # {} PROVE s = 1 .. 1
    OBVIOUS
  <2>1. \A x \in 1 .. 1 : x = 1
    OBVIOUS
  <2> QED BY <2>1
<1>2. Top(1 .. 1) = 1 /\ (1 .. 1) \ {1} = {}
  <2>1. 1 \in Nat /\ 1 \in 1 .. 1
    OBVIOUS
  <2>2. Top(1 .. 1) = 1
    BY <2>1, TopOfInterval
  <2>3. (1 .. 1) \ {1} = {}
    OBVIOUS
  <2> QED BY <2>2, <2>3
<1>3. 1 .. 1 # {}
  OBVIOUS
<1> QED BY <1>1, <1>2, <1>3

LEMMA ChainOfOne ==
  ASSUME NEW ps, DOMAIN ps = 1 .. 1, NEW m, NEW es, NEW time
  PROVE  Pipe!RunChain(ps, m, es, time) = Pipe!RunStep([es |-> es, mem |-> m], ps[1], time)
<1> DEFINE base == [es |-> es, mem |-> m]
           v == Pipe!RunStep(base, ps[1], time)
           Sol(q) == q = [s \in SUBSET (1 .. 1) |-> IF s = {} THEN base
                            ELSE Pipe!RunStep(q[s \ {Top(s)}], ps[Top(s)], time)]
           h == [s \in SUBSET (1 .. 1) |-> IF s = {} THEN base ELSE v]
           g == CHOOSE q : Sol(q)
<1>1. Pipe!RunChain(ps, m, es, time) = g[1 .. 1]
  BY DEF Pipe!RunChain, Pipe!FoldLeft, Pipe!MapThenFoldSet, Pipe!Max, Top, base
<1> HIDE DEF base
<1>2. Sol(h)
  BY OneTop
<1>3. Sol(g)
  BY <1>2
<1> HIDE DEF g
<1>4. g[{}] = base /\ g[1 .. 1] = v
  BY <1>3, OneTop
<1> QED BY <1>1, <1>4 DEF base

LEMMA LimitOfOne ==
  ASSUME NEW c, NEW ix, NEW e
  PROVE  Pipe!RateLimit(c, ix, <<e>>) = Pipe!RateStep(c, [index |-> ix, out |-> <<>>], e)
<1> DEFINE base == [index |-> ix, out |-> <<>>]
           es == <<e>>
           v == Pipe!RateStep(c, base, e)
           Sol(q) == q = [s \in SUBSET (1 .. 1) |-> IF s = {} THEN base
                            ELSE Pipe!RateStep(c, q[s \ {Top(s)}], es[Top(s)])]
           h == [s \in SUBSET (1 .. 1) |-> IF s = {} THEN base ELSE v]
           g == CHOOSE q : Sol(q)
<1>0. DOMAIN es = 1 .. 1 /\ es[1] = e
  OBVIOUS
<1> HIDE DEF es
<1>1. Pipe!RateLimit(c, ix, es) = g[1 .. 1]
  BY <1>0 DEF Pipe!RateLimit, Pipe!FoldLeft, Pipe!MapThenFoldSet, Pipe!Max, Top, base
<1> HIDE DEF base
<1>2. Sol(h)
  BY <1>0, OneTop
<1>3. Sol(g)
  BY <1>2
<1> HIDE DEF g
<1>4. g[{}] = base /\ g[1 .. 1] = v
  BY <1>0, <1>3, OneTop
<1> QED BY <1>1, <1>4 DEF base, es

LEMMA PointerOfOne ==
  ASSUME NEW ps, DOMAIN ps = 1 .. 1, NEW m, NEW e
  PROVE  Pipe!OnPointer(ps, m, e) =
           Pipe!PointerStep([es |-> <<e>>, mem |-> m, obj |-> e, same |-> TRUE], ps[1])
<1> DEFINE base == [es |-> <<e>>, mem |-> m, obj |-> e, same |-> TRUE]
           v == Pipe!PointerStep(base, ps[1])
           Sol(q) == q = [s \in SUBSET (1 .. 1) |-> IF s = {} THEN base
                            ELSE Pipe!PointerStep(q[s \ {Top(s)}], ps[Top(s)])]
           h == [s \in SUBSET (1 .. 1) |-> IF s = {} THEN base ELSE v]
           g == CHOOSE q : Sol(q)
<1>1. Pipe!OnPointer(ps, m, e) = g[1 .. 1]
  BY DEF Pipe!OnPointer, Pipe!FoldLeft, Pipe!MapThenFoldSet, Pipe!Max, Top, base
<1> HIDE DEF base
<1>2. Sol(h)
  BY OneTop
<1>3. Sol(g)
  BY <1>2
<1> HIDE DEF g
<1>4. g[{}] = base /\ g[1 .. 1] = v
  BY <1>3, OneTop
<1> QED BY <1>1, <1>4 DEF base

Mems == [index : Seq(Entry), rules : {<<>>}, trig : {[times |-> <<>>, last |-> 0, fired |-> 0]}, log : {<<>>}]

\* What a rate limiter alone makes of events, and of one that others may hold too.
LEMMA LimiterRuns ==
  ASSUME Arriving, NEW ps, DOMAIN ps = 1 .. 1, Limiter(ps[1]), NEW m \in Mems, NEW H,
         Passed(ps[1], H, m.index), NEW es \in Seq(Events), NEW time
  PROVE  LET r == Pipe!RunChain(ps, m, es, time)
         IN r.mem \in Mems /\ r.es \in Seq(Events) /\ Passed(ps[1], H \o r.es, r.mem.index)
<1> DEFINE r == Pipe!RunChain(ps, m, es, time)
           a == Pipe!RateLimit(ps[1], m.index, es)
<1>1. r = Pipe!RunStep([es |-> es, mem |-> m], ps[1], time)
  BY ChainOfOne
<1>2. r = [es |-> a.out, mem |-> [m EXCEPT !.index = a.index]]
  BY <1>1 DEF Pipe!RunStep, Limiter
<1>3. a \in RateAccs(ps[1], H)
  BY RateLimitKeeps
<1> HIDE DEF a, r
<1>4. a.index \in Seq(Entry) /\ a.out \in Seq(Events) /\ Passed(ps[1], H \o a.out, a.index)
  BY <1>3 DEF RateAccs
<1>5. [m EXCEPT !.index = a.index] \in Mems /\ [m EXCEPT !.index = a.index].index = a.index
  BY <1>4 DEF Mems
<1>6. r.es = a.out /\ r.mem = [m EXCEPT !.index = a.index]
  BY <1>2
<1>7. r.mem \in Mems /\ r.mem.index = a.index
  BY <1>5, <1>6
<1> QED BY <1>4, <1>6, <1>7 DEF r

LEMMA LimiterPoints ==
  ASSUME Arriving, NEW ps, DOMAIN ps = 1 .. 1, Limiter(ps[1]), NEW m \in Mems, NEW H,
         Passed(ps[1], H, m.index), NEW e \in Events
  PROVE  LET r == Pipe!OnPointer(ps, m, e)
         IN /\ r.mem \in Mems /\ r.es \in {<<>>, <<e>>} /\ r.obj = e /\ r.same = TRUE
            /\ Passed(ps[1], H \o r.es, r.mem.index)
<1> DEFINE c == ps[1]
           r == Pipe!OnPointer(ps, m, e)
           base == [index |-> m.index, out |-> <<>>]
           a == Pipe!RateStep(c, base, e)
           s == [es |-> a.out, mem |-> [m EXCEPT !.index = a.index]]
<1>1. Pipe!RunStep([es |-> <<e>>, mem |-> m], c, Pipe!Now) = s
  <2>1. Pipe!RateLimit(c, m.index, <<e>>) = a
    BY LimitOfOne
  <2> HIDE DEF a
  <2> QED BY <2>1 DEF Pipe!RunStep, Limiter
<1>2. a \in RateAccs(c, H) /\ (a.out = <<>> \/ a.out = <<e>>)
  <2>1. H \in Seq(Events) /\ m.index \in Seq(Entry)
    BY DEF Passed, IndexOk
  <2>2. H \o <<>> = H /\ <<>> \in Seq(Events) /\ Append(<<>>, e) = <<e>>
    BY <2>1, ConcatEmptySeq
  <2>3. base \in RateAccs(c, H) /\ base.out = <<>>
    <3>1. Passed(c, H \o <<>>, m.index)
      BY <2>2
    <3> QED BY <2>1, <2>2, <3>1 DEF RateAccs
  <2> HIDE DEF base, c
  <2>4. Limiter(c)
    BY DEF c
  <2>5. a \in RateAccs(c, H) /\ (a.out = base.out \/ a.out = Append(base.out, e))
    BY <2>1, <2>3, <2>4, RateStepKeeps
  <2> QED BY <2>2, <2>3, <2>5
<1> HIDE DEF a
<1>3. a.index \in Seq(Entry) /\ a.out \in Seq(Events) /\ Passed(c, H \o a.out, a.index)
  BY <1>2 DEF RateAccs
<1>4. [m EXCEPT !.index = a.index] \in Mems /\ [m EXCEPT !.index = a.index].index = a.index
  BY <1>3 DEF Mems
<1>5. s.es = a.out /\ s.mem = [m EXCEPT !.index = a.index]
  OBVIOUS
<1>6. c.kind \notin Pipe!NewEvents /\ c.kind # "event-keep"
  BY DEF Limiter, Pipe!NewEvents
<1>7. Pipe!Touched(c, e, s.es) = e
  <2>1. a.out # <<>> => a.out[1] = e
    BY <1>2
  <2> QED BY <1>5, <1>6, <2>1 DEF Pipe!Touched
<1> HIDE DEF s
<1>8. r = [es |-> s.es, mem |-> s.mem, obj |-> e, same |-> TRUE]
  <2>1. r = Pipe!PointerStep([es |-> <<e>>, mem |-> m, obj |-> e, same |-> TRUE], c)
    BY PointerOfOne
  <2>2. <<e>> # <<>>
    OBVIOUS
  <2> HIDE DEF c, r
  <2> QED BY <1>1, <1>6, <1>7, <2>1, <2>2 DEF Pipe!PointerStep, Pipe!Pointed
<1>9. r.mem = s.mem /\ r.es = s.es /\ r.obj = e /\ r.same = TRUE
  BY <1>8
<1> HIDE DEF r
<1>10. r.mem \in Mems /\ r.mem.index = a.index /\ r.es = a.out
  BY <1>4, <1>5, <1>9
<1> QED BY <1>2, <1>3, <1>9, <1>10 DEF r

\* What left an output and what is in its queue.
Hist(w, q) == [i \in 1 .. Len(w) + Len(q) |-> IF i <= Len(w) THEN w[i].ev ELSE q[i - Len(w)].ev]
Writes == [msg : Nat, from : Nat, ev : Events]
Entries(ob) == {h \in [msg : DOMAIN ob, from : Nat, at : Nat, ev : Events] :
                  h.at = 0 \/ (h.at \in DOMAIN ob[h.msg] /\ ob[h.msg][h.at] = h.ev)}

Eventful(Q) == \A x \in Q : x.ev \in Events
Carries(q, es) == Len(q) = Len(es) /\ \A i \in 1 .. Len(q) : q[i].ev = es[i]

Extends(w, q, d, es) == Hist(w, q \o d) = Hist(w, q) \o es

\* New entries of the queue come after all of that.
LEMMA HistAppends ==
  ASSUME NEW W, Eventful(W), NEW Q, Eventful(Q),
         NEW w \in Seq(W), NEW q \in Seq(Q), NEW r \in Seq(Q), NEW es \in Seq(Events), Carries(r, es)
  PROVE  Extends(w, q, r, es)
<1> DEFINE a == Len(w)
           b == Len(q)
           n == Len(r)
           qr == q \o r
           H == Hist(w, q)
           J == Hist(w, qr)
<1>0. n = Len(es) /\ \A i \in 1 .. n : r[i].ev = es[i]
  BY DEF Carries
<1>1. a \in Nat /\ b \in Nat /\ n \in Nat /\ n = Len(es)
  BY <1>0
<1>2. /\ qr \in Seq(Q) /\ Len(qr) = b + n
      /\ \A i \in 1 .. b + n : qr[i] = IF i <= b THEN q[i] ELSE r[i - b]
  BY ConcatProperties
<1>3. (\A i \in 1 .. a : w[i] \in W) /\ (\A i \in 1 .. b : q[i] \in Q) /\ \A i \in 1 .. b + n : qr[i] \in Q
  <2> HIDE DEF qr
  <2> QED BY <1>1, <1>2
<1> HIDE DEF a, b, n, qr
<1>4. H = [i \in 1 .. a + b |-> IF i <= a THEN w[i].ev ELSE q[i - a].ev]
  BY DEF Hist, a, b
<1>5. J = [i \in 1 .. a + (b + n) |-> IF i <= a THEN w[i].ev ELSE qr[i - a].ev]
  BY <1>2 DEF Hist, a
<1> HIDE DEF H, J
<1>6. H \in Seq(Events) /\ Len(H) = a + b
  <2>1. \A i \in 1 .. a + b : H[i] \in Events
    <3> TAKE i \in 1 .. a + b
    <3>1. i <= a => i \in 1 .. a
      BY <1>1
    <3>2. ~(i <= a) => i - a \in 1 .. b
      BY <1>1
    <3> QED BY <1>3, <1>4, <3>1, <3>2 DEF Eventful
  <2>2. H = [i \in 1 .. a + b |-> H[i]]
    BY <1>4
  <2>3. H \in [1 .. a + b -> Events] /\ a + b \in Nat
    BY <1>1, <2>1, <2>2
  <2> DEFINE m == a + b
  <2> HIDE DEF m
  <2>4. H \in [1 .. m -> Events] /\ m \in Nat
    BY <2>3 DEF m
  <2>5. H \in Seq(Events) /\ Len(H) = m
    BY <2>4
  <2> QED BY <2>5 DEF m
<1>7. J \in Seq(Events) /\ Len(J) = a + (b + n)
  <2>1. \A i \in 1 .. a + (b + n) : J[i] \in Events
    <3> TAKE i \in 1 .. a + (b + n)
    <3>1. i <= a => i \in 1 .. a
      BY <1>1
    <3>2. ~(i <= a) => i - a \in 1 .. b + n
      BY <1>1
    <3> QED BY <1>3, <1>5, <3>1, <3>2 DEF Eventful
  <2>2. J = [i \in 1 .. a + (b + n) |-> J[i]]
    BY <1>5
  <2>3. J \in [1 .. a + (b + n) -> Events] /\ a + (b + n) \in Nat
    BY <1>1, <2>1, <2>2
  <2> DEFINE m == a + (b + n)
  <2> HIDE DEF m
  <2>4. J \in [1 .. m -> Events] /\ m \in Nat
    BY <2>3 DEF m
  <2>5. J \in Seq(Events) /\ Len(J) = m
    BY <2>4
  <2> QED BY <2>5 DEF m
<1>8. /\ H \o es \in Seq(Events) /\ Len(H \o es) = Len(H) + Len(es)
      /\ \A i \in 1 .. Len(H) + Len(es) : (H \o es)[i] = IF i <= Len(H) THEN H[i] ELSE es[i - Len(H)]
  BY <1>6, ConcatProperties
<1> DEFINE K == H \o es
<1> HIDE DEF K
<1>9. ASSUME NEW i \in 1 .. a + (b + n) PROVE J[i] = K[i]
  <2>1. i \in 1 .. Len(H) + Len(es) /\ i \in Int
    BY <1>1, <1>6
  <2>2. CASE i <= a
    <3>1. i \in 1 .. a + b /\ i <= Len(H)
      BY <1>1, <1>6, <2>2
    <3> QED BY <1>4, <1>5, <1>8, <2>1, <2>2, <3>1 DEF K
  <2>3. CASE a < i /\ i <= a + b
    <3>1. i \in 1 .. a + b /\ i <= Len(H) /\ ~(i <= a) /\ i - a \in 1 .. b + n /\ i - a <= b
      BY <1>1, <1>6, <2>3
    <3>2. qr[i - a] = q[i - a]
      BY <1>2, <3>1
    <3> QED BY <1>4, <1>5, <1>8, <2>1, <3>1, <3>2 DEF K
  <2>4. CASE a + b < i
    <3>1. ~(i <= Len(H)) /\ ~(i <= a) /\ i - a \in 1 .. b + n /\ ~(i - a <= b)
          /\ (i - a) - b \in 1 .. n /\ i - Len(H) = (i - a) - b
      BY <1>1, <1>6, <2>4
    <3>2. qr[i - a] = r[(i - a) - b] /\ r[(i - a) - b].ev = es[(i - a) - b]
      BY <1>0, <1>2, <3>1
    <3>3. J[i] = qr[i - a].ev
      BY <1>5, <3>1
    <3>4. K[i] = es[i - Len(H)]
      BY <1>8, <2>1, <3>1 DEF K
    <3> QED BY <3>1, <3>2, <3>3, <3>4
  <2> QED BY <1>1, <2>1, <2>2, <2>3, <2>4
<1>10. K \in Seq(Events) /\ Len(K) = Len(J)
  <2>1. (a + b) + n = a + (b + n)
    BY <1>1
  <2>2. K \in Seq(Events) /\ Len(K) = (a + b) + n
    BY <1>1, <1>6, <1>8 DEF K
  <2> QED BY <1>7, <2>1, <2>2
<1>11. \A i \in 1 .. Len(J) : J[i] = K[i]
  BY <1>7, <1>9
<1>12. J = K
  BY <1>7, <1>10, <1>11, SeqEqual
<1> QED BY <1>12 DEF Extends, J, K, H, qr

\* The worker moves one event from the queue to what left.
LEMMA HistDrains ==
  ASSUME NEW W, NEW Q, NEW w \in Seq(W), NEW q \in Seq(Q), q # <<>>, NEW x \in W, x.ev = Head(q).ev
  PROVE  Hist(Append(w, x), Tail(q)) = Hist(w, q)
<1> DEFINE a == Len(w)
           b == Len(q)
           u == Append(w, x)
           t == Tail(q)
<1>1. a \in Nat /\ b \in Nat /\ b > 0
  OBVIOUS
<1>2. Len(u) = a + 1 /\ u[a + 1] = x /\ \A i \in 1 .. a : u[i] = w[i]
  BY AppendProperties
<1>3. Len(t) = b - 1 /\ \A i \in 1 .. b - 1 : t[i] = q[i + 1]
  OBVIOUS
<1>4. Head(q) = q[1]
  OBVIOUS
<1> HIDE DEF a, b, u, t
<1>5. ASSUME NEW i \in 1 .. a + b
      PROVE  (IF i <= a + 1 THEN u[i].ev ELSE t[i - (a + 1)].ev) = (IF i <= a THEN w[i].ev ELSE q[i - a].ev)
  <2>1. CASE i <= a
    <3>1. i \in 1 .. a /\ i <= a + 1
      BY <1>1, <2>1
    <3> QED BY <1>2, <2>1, <3>1
  <2>2. CASE i = a + 1
    <3>1. ~(i <= a) /\ i - a = 1 /\ i <= a + 1
      BY <1>1, <2>2
    <3> QED BY <1>2, <1>4, <2>2, <3>1
  <2>3. CASE ~(i <= a + 1)
    <3>1. ~(i <= a) /\ i - (a + 1) \in 1 .. b - 1 /\ (i - (a + 1)) + 1 = i - a
      BY <1>1, <2>3
    <3> QED BY <1>3, <2>3, <3>1
  <2> QED BY <1>1, <2>1, <2>2, <2>3
<1>6. (a + 1) + (b - 1) = a + b
  BY <1>1
<1>7. Hist(w, q) = [i \in 1 .. a + b |-> IF i <= a THEN w[i].ev ELSE q[i - a].ev]
  BY DEF Hist, a, b
<1>8. Hist(u, t) = [i \in 1 .. a + b |-> IF i <= a + 1 THEN u[i].ev ELSE t[i - (a + 1)].ev]
  BY <1>2, <1>3, <1>6 DEF Hist
<1> QED BY <1>5, <1>7, <1>8 DEF u, t

\* The entries an output queues for the events it sends, and for those it points to.
LEMMA SentEntries ==
  ASSUME NEW o, NEW es \in Seq(Events), NEW from \in Nat, Pipe!N \in DOMAIN obj
  PROVE  LET q == Pipe!Sent(o, es, from)
         IN q \in Seq(Entries(obj)) /\ Carries(q, es)
<1> DEFINE q == Pipe!Sent(o, es, from)
           n == Len(es)
<1>1. n \in Nat /\ DOMAIN es = 1 .. n /\ \A i \in 1 .. n : es[i] \in Events
  OBVIOUS
<1>2. q = [i \in 1 .. n |-> [msg |-> Pipe!N, from |-> from, at |-> 0, ev |-> es[i]]]
  BY <1>1 DEF Pipe!Sent
<1> HIDE DEF q, n
<1>3. \A i \in 1 .. n : q[i] \in Entries(obj) /\ q[i].ev = es[i]
  BY <1>1, <1>2 DEF Entries
<1>4. q \in [1 .. n -> Entries(obj)]
  BY <1>2, <1>3
<1>5. q \in Seq(Entries(obj)) /\ Len(q) = n
  BY <1>1, <1>4
<1>6. Carries(q, es)
  BY <1>3, <1>5 DEF Carries, n
<1> QED BY <1>5, <1>6 DEF q

LEMMA QueuedEntries ==
  ASSUME NEW o, NEW r, NEW e \in Events, r.es \in {<<>>, <<e>>}, r.same = TRUE, NEW i \in Nat,
         Pipe!N \in DOMAIN obj, i \in DOMAIN obj[Pipe!N], obj[Pipe!N][i] = e
  PROVE  LET q == Pipe!Queued(r, o, i)
         IN q \in Seq(Entries(obj)) /\ Carries(q, r.es)
<1>1. CASE r.es = <<>>
  <2>1. Pipe!Queued(r, o, i) = Pipe!Sent(o, r.es, i)
    BY <1>1 DEF Pipe!Queued
  <2>2. r.es \in Seq(Events)
    BY <1>1
  <2> QED BY <2>1, <2>2, SentEntries
<1>2. CASE r.es = <<e>>
  <2> DEFINE h == [msg |-> Pipe!N, from |-> i, at |-> i, ev |-> e]
  <2>1. r.es # <<>> /\ r.es[1] = e /\ Len(r.es) = 1
    BY <1>2
  <2>2. Pipe!Queued(r, o, i) = <<h>>
    BY <2>1 DEF Pipe!Queued
  <2>3. h \in Entries(obj) /\ h.ev = e
    BY DEF Entries
  <2> HIDE DEF h
  <2>4. <<h>> \in Seq(Entries(obj)) /\ Len(<<h>>) = 1 /\ <<h>>[1] = h
    BY <2>3
  <2>5. Carries(<<h>>, r.es)
    BY <2>1, <2>3, <2>4 DEF Carries
  <2> QED BY <2>2, <2>4, <2>5
<1> QED BY <1>1, <1>2

\* The events of an input's message, one after the other.
Accs(o) ==
  {a \in [mem : Mems, obj : {obj[Pipe!N]}, q : Seq(Entries(obj))] :
     Passed(chain[o][1], Hist(wrote[o], queue[o] \o a.q), a.mem.index)}
OutInv(o) ==
  /\ DOMAIN chain[o] = 1 .. 1 /\ Limiter(chain[o][1])
  /\ mem[o] \in Mems /\ wrote[o] \in Seq(Writes) /\ queue[o] \in Seq(Entries(obj))
  /\ Passed(chain[o][1], Hist(wrote[o], queue[o]), mem[o].index)

Groups(s, t, u) == (s \o t) \o u = s \o (t \o u)

LEMMA Regroups ==
  ASSUME NEW S, NEW s \in Seq(S), NEW t \in Seq(S), NEW u \in Seq(S)
  PROVE  Groups(s, t, u)
  BY ConcatAssociative DEF Groups

Joins(w, q, p, d, es) == Hist(w, q \o (p \o d)) = Hist(w, q \o p) \o es

LEMMA HistJoins ==
  ASSUME NEW Q, Eventful(Q), NEW w \in Seq(Writes), NEW q \in Seq(Q), NEW p \in Seq(Q),
         NEW d \in Seq(Q), NEW es \in Seq(Events), Carries(d, es)
  PROVE  Joins(w, q, p, d, es)
<1>1. (q \o p) \o d = q \o (p \o d)
  <2>1. Groups(q, p, d)
    BY Regroups
  <2> QED BY <2>1 DEF Groups
<1> DEFINE qp == q \o p
<1>2. qp \in Seq(Q)
  OBVIOUS
<1> HIDE DEF qp
<1>3. Eventful(Writes)
  BY DEF Writes, Eventful
<1>4. Extends(w, qp, d, es)
  BY <1>2, <1>3, HistAppends
<1>5. Hist(w, (q \o p) \o d) = Hist(w, q \o p) \o es
  BY <1>4 DEF Extends, qp
<1> QED BY <1>1, <1>5, Zenon DEF Joins

\* WriteEvent of one event, and of all of the message.
LEMMA EventStepKeeps ==
  ASSUME Arriving, obj \in Seq(Seq(Events)), Pipe!N \in DOMAIN obj, NEW o, OutInv(o),
         NEW a \in Accs(o), NEW i \in 1 .. Len(obj[Pipe!N])
  PROVE  Pipe!EventStep(a, i, Pipe!OnPointer(chain[o], a.mem, a.obj[i]), o) \in Accs(o)
<1> DEFINE c == chain[o][1]
           ob == obj[Pipe!N]
           e == ob[i]
           r == Pipe!OnPointer(chain[o], a.mem, e)
           H == Hist(wrote[o], queue[o] \o a.q)
           d == Pipe!Queued(r, o, i)
<1>1. /\ a = [mem |-> a.mem, obj |-> ob, q |-> a.q]
      /\ a.mem \in Mems /\ a.obj = ob /\ a.q \in Seq(Entries(obj)) /\ Passed(c, H, a.mem.index)
  BY DEF Accs
<1>2. ob \in Seq(Events) /\ i \in DOMAIN ob /\ e \in Events /\ i \in Nat
  OBVIOUS
<1>3. DOMAIN chain[o] = 1 .. 1 /\ Limiter(c) /\ wrote[o] \in Seq(Writes) /\ queue[o] \in Seq(Entries(obj))
  BY DEF OutInv
<1> HIDE DEF e, H
<1>4. /\ r.mem \in Mems /\ r.es \in {<<>>, <<e>>} /\ r.obj = e /\ r.same = TRUE
      /\ Passed(c, H \o r.es, r.mem.index)
  BY <1>1, <1>2, <1>3, LimiterPoints
<1> HIDE DEF r
<1>5. d \in Seq(Entries(obj)) /\ Carries(d, r.es)
  <2>1. Pipe!N \in DOMAIN obj /\ i \in DOMAIN obj[Pipe!N] /\ obj[Pipe!N][i] = e
    BY <1>2 DEF e
  <2>2. r.es \in {<<>>, <<e>>} /\ r.same = TRUE /\ e \in Events /\ i \in Nat
    BY <1>2, <1>4
  <2> QED BY <2>1, <2>2, QueuedEntries
<1> HIDE DEF d
<1>6. Hist(wrote[o], queue[o] \o (a.q \o d)) = H \o r.es /\ a.q \o d \in Seq(Entries(obj))
  <2>1. r.es \in Seq(Events)
    <3>1. <<>> \in Seq(Events) /\ <<e>> \in Seq(Events)
      BY <1>2
    <3> QED BY <1>4, <3>1
  <2>2. Eventful(Entries(obj))
    BY DEF Entries, Eventful
  <2>3. a.q \in Seq(Entries(obj)) /\ wrote[o] \in Seq(Writes) /\ queue[o] \in Seq(Entries(obj))
    BY <1>1, <1>3
  <2>4. Joins(wrote[o], queue[o], a.q, d, r.es)
    BY <1>5, <2>1, <2>2, <2>3, HistJoins
  <2>5. a.q \o d \in Seq(Entries(obj))
    BY <1>5, <2>3, ConcatProperties
  <2> QED BY <2>4, <2>5 DEF H, Joins
<1>7. Passed(c, Hist(wrote[o], queue[o] \o (a.q \o d)), r.mem.index) /\ a.q \o d \in Seq(Entries(obj))
  BY <1>4, <1>6
<1>8. [a.obj EXCEPT ![i] = r.obj] = ob
  BY <1>1, <1>2, <1>4 DEF e
<1> DEFINE z == [mem |-> r.mem, obj |-> ob, q |-> a.q \o d]
<1>9. Pipe!EventStep(a, i, r, o) = z
  BY <1>8 DEF Pipe!EventStep, d
<1>10. z \in Accs(o)
  <2>1. Passed(c, Hist(wrote[o], queue[o] \o (a.q \o d)), r.mem.index)
    BY <1>7
  <2> QED BY <1>4, <1>7, <2>1 DEF Accs
<1> QED BY <1>1, <1>9, <1>10 DEF r, e

LEMMA EachEventKeeps ==
  ASSUME Arriving, obj \in Seq(Seq(Events)), Pipe!N \in DOMAIN obj, NEW o, OutInv(o)
  PROVE  Pipe!EachEvent(o) \in Accs(o)
<1> DEFINE ob == obj[Pipe!N]
           n == Len(ob)
           is == [i \in DOMAIN ob |-> i]
           A == Accs(o)
           base == [mem |-> mem[o], obj |-> ob, q |-> <<>>]
           Step(a, i) == Pipe!EventStep(a, i, Pipe!OnPointer(chain[o], a.mem, a.obj[i]), o)
           F == [p \in (1 .. n) \X A |-> Step(p[2], p[1])]
           Sol(q) == q = [s \in SUBSET (1 .. n) |-> IF s = {} THEN base ELSE Step(q[s \ {Top(s)}], is[Top(s)])]
           g == CHOOSE q : Sol(q)
<1>1. n \in Nat /\ DOMAIN ob = 1 .. n /\ DOMAIN is = 1 .. n /\ \A i \in 1 .. n : is[i] = i
  OBVIOUS
<1>2. base \in A
  <2>1. queue[o] \o <<>> = queue[o] /\ <<>> \in Seq(Entries(obj))
    BY ConcatEmptySeq DEF OutInv
  <2>2. Passed(chain[o][1], Hist(wrote[o], queue[o] \o <<>>), mem[o].index)
    BY <2>1 DEF OutInv
  <2> QED BY <2>1, <2>2 DEF Accs, OutInv
<1>3. \A a \in A : \A k \in 1 .. n : Step(a, k) \in A
  BY EventStepKeeps
<1>4. Pipe!EachEvent(o) = g[1 .. n]
  BY <1>1 DEF Pipe!EachEvent, Pipe!FoldLeft, Pipe!MapThenFoldSet, Pipe!Max, Top
<1> HIDE DEF n, A, base, Step, is, ob
<1>5. F \in [(1 .. n) \X A -> A]
  BY <1>3
<1>6. PICK h : Solves(h, n, A, base, F)
  <2> HIDE DEF F
  <2> QED BY <1>1, <1>2, <1>5, FoldExists
<1>7. Sol(h)
  <2>1. h \in [SUBSET (1 .. n) -> A] /\ h[{}] = base
    BY <1>6 DEF Solves
  <2>2. \A s \in SUBSET (1 .. n) : s # {} => h[s] = F[<<Top(s), h[s \ {Top(s)}]>>]
    <3> HIDE DEF F
    <3> QED BY <1>6 DEF Solves
  <2>3. \A s \in SUBSET (1 .. n) : s # {} => Top(s) \in 1 .. n /\ h[s \ {Top(s)}] \in A
    BY <1>1, <2>1, TopIn
  <2>4. \A s \in SUBSET (1 .. n) : s # {} => h[s] = Step(h[s \ {Top(s)}], is[Top(s)])
    BY <1>1, <2>2, <2>3
  <2> HIDE DEF F
  <2> QED BY <2>1, <2>4
<1>8. Sol(g)
  BY <1>7
<1> HIDE DEF g
<1>9. g[1 .. n] \in A
  <2>1. g[{}] \in A
    BY <1>2, <1>8
  <2>2. ASSUME NEW k \in 1 .. n, g[1 .. k - 1] \in A PROVE g[1 .. k] \in A
    <3>1. 1 .. k \in SUBSET (1 .. n) /\ 1 .. k # {} /\ Top(1 .. k) = k /\ (1 .. k) \ {k} = 1 .. k - 1
      BY <1>1, TopOfInterval
    <3>2. g[1 .. k] = Step(g[1 .. k - 1], is[k])
      BY <1>8, <3>1
    <3> QED BY <1>1, <1>3, <2>2, <3>2
  <2> QED BY <1>1, <2>1, <2>2, FoldKeeps
<1> QED BY <1>4, <1>9 DEF A

-----------------------------------------------------------------------------
\* What arrives: a message of an input is a sequence of those events, and a response becomes one.
Arrivals ==
  /\ EvBatches \subseteq Seq(Events)
  /\ \A r \in EvResponses : Pipe!ResponseToEventMsgs("s", r, r.meta) \in Seq(Events)
\* A rate limiter's cache has room for every set of tags.
RateLimited == \A ps \in EvChains : Pipe!Limited(ps) => DOMAIN ps = 1 .. Len(ps) /\ Limiter(ps[1])
\* Another output's processors may change an event of an input while it waits: every output is a
\* rate limiter in the writer, or there is no other output, or what arrives comes from targets.
Undisturbed ==
  \/ EvPlaces = {"writer"} /\ \A ps \in EvChains : Pipe!Limited(ps)
  \/ \A o, p \in EvOuts : o = p
  \/ EvBatches = {}

Msgs == {[path |-> "input", evs |-> es] : es \in EvBatches}
        \cup {[path |-> "target", rsp |-> r] : r \in EvResponses}
EvInv ==
  /\ chain \in [EvOuts -> EvChains] /\ place \in [EvOuts -> EvPlaces]
  /\ DOMAIN mem = EvOuts /\ DOMAIN queue = EvOuts /\ DOMAIN wrote = EvOuts
  /\ msgs \in Seq(Msgs) /\ obj \in Seq(Seq(Events)) /\ Len(obj) = Len(msgs)
  /\ todo \subseteq EvOuts /\ (todo # {} => Pipe!N > 0)
  /\ \A o \in EvOuts : Pipe!Spaced(o) => OutInv(o)

LEMMA EvInit == ASSUME RateLimited, Pipe!Init PROVE EvInv
<1>1. chain \in [EvOuts -> EvChains] /\ msgs = <<>> /\ obj = <<>> /\ todo = {}
      /\ queue = [o \in EvOuts |-> <<>>] /\ wrote = [o \in EvOuts |-> <<>>]
      /\ mem = [o \in EvOuts |-> Pipe!NoMemory] /\ place \in [EvOuts -> EvPlaces]
  BY DEF Pipe!Init
<1>2. Pipe!NoMemory \in Mems /\ Pipe!NoMemory.index = <<>>
  BY DEF Pipe!NoMemory, Mems
<1>3. Hist(<<>>, <<>>) = <<>>
  BY DEF Hist
<1>4. \A c : Passed(c, <<>>, <<>>)
  BY DEF Passed, IndexOk
<1>5. \A o \in EvOuts : queue[o] = <<>> /\ wrote[o] = <<>> /\ mem[o] \in Mems /\ mem[o].index = <<>>
  BY <1>1, <1>2
<1>6. ASSUME NEW o \in EvOuts, Pipe!Spaced(o) PROVE OutInv(o)
  <2>1. Passed(chain[o][1], Hist(wrote[o], queue[o]), mem[o].index)
    BY <1>3, <1>4, <1>5
  <2>2. DOMAIN chain[o] = 1 .. 1 /\ Limiter(chain[o][1])
    BY <1>1, <1>6 DEF RateLimited, Pipe!Limited, Pipe!Spaced
  <2>3. wrote[o] \in Seq(Writes) /\ queue[o] \in Seq(Entries(obj))
    <3>1. wrote[o] = <<>> /\ queue[o] = <<>>
      BY <1>5
    <3>2. <<>> \in Seq(Writes) /\ <<>> \in Seq(Entries(obj))
      OBVIOUS
    <3> QED BY <3>1, <3>2
  <2> QED BY <1>5, <2>1, <2>2, <2>3 DEF OutInv
<1>7. msgs \in Seq(Msgs) /\ obj \in Seq(Seq(Events)) /\ Len(obj) = Len(msgs)
  BY <1>1
<1>8. DOMAIN mem = EvOuts /\ DOMAIN queue = EvOuts /\ DOMAIN wrote = EvOuts
  BY <1>1
<1> QED BY <1>1, <1>6, <1>7, <1>8 DEF EvInv

LEMMA EvReceive == ASSUME Arrivals, EvInv, Pipe!Receive PROVE EvInv'
<1>1. PICK m \in Msgs, es \in Seq(Events) : msgs' = Append(msgs, m) /\ obj' = Append(obj, es)
  <2>1. CASE \E es \in EvBatches :
               msgs' = Append(msgs, [path |-> "input", evs |-> es]) /\ obj' = Append(obj, es)
    BY <2>1 DEF Arrivals, Msgs
  <2>2. CASE \E r \in EvResponses :
               msgs' = Append(msgs, [path |-> "target", rsp |-> r]) /\ obj' = Append(obj, <<>>)
    <3>1. <<>> \in Seq(Events)
      OBVIOUS
    <3> QED BY <2>2, <3>1 DEF Msgs
  <2> QED BY <2>1, <2>2 DEF Pipe!Receive
<1>2. todo' = EvOuts /\ UNCHANGED <<chain, place, queue, wrote, mem>>
  BY DEF Pipe!Receive
<1>3. msgs \in Seq(Msgs) /\ obj \in Seq(Seq(Events)) /\ Len(obj) = Len(msgs) /\ Len(msgs) \in Nat
  BY DEF EvInv
<1>4. /\ msgs' \in Seq(Msgs) /\ Len(msgs') = Len(msgs) + 1
      /\ obj' \in Seq(Seq(Events)) /\ Len(obj') = Len(obj) + 1 /\ \A i \in 1 .. Len(obj) : obj'[i] = obj[i]
  <2>1. msgs' \in Seq(Msgs) /\ Len(msgs') = Len(msgs) + 1
    BY <1>1, <1>3
  <2>2. obj' \in Seq(Seq(Events)) /\ Len(obj') = Len(obj) + 1 /\ \A i \in 1 .. Len(obj) : obj'[i] = obj[i]
    BY <1>1, <1>3
  <2> QED BY <2>1, <2>2
<1>5. Pipe!N' > 0
  BY <1>3, <1>4 DEF Pipe!N
<1>6. Entries(obj) \subseteq Entries(obj')
  <2>1. DOMAIN obj = 1 .. Len(obj) /\ DOMAIN obj \subseteq DOMAIN obj'
    BY <1>3, <1>4
  <2> SUFFICES ASSUME NEW h \in Entries(obj) PROVE h \in Entries(obj')
    OBVIOUS
  <2>2. h \in [msg : DOMAIN obj, from : Nat, at : Nat, ev : Events]
        /\ (h.at = 0 \/ (h.at \in DOMAIN obj[h.msg] /\ obj[h.msg][h.at] = h.ev))
    BY DEF Entries
  <2>3. h \in [msg : DOMAIN obj', from : Nat, at : Nat, ev : Events] /\ obj'[h.msg] = obj[h.msg]
    BY <1>4, <2>1, <2>2
  <2> QED BY <2>2, <2>3 DEF Entries
<1>7. ASSUME NEW o \in EvOuts, Pipe!Spaced(o)' PROVE OutInv(o)'
  <2>1. OutInv(o)
    BY <1>2, <1>7 DEF EvInv, Pipe!Spaced
  <2>2. \A q \in Seq(Entries(obj)) : q \in Seq(Entries(obj'))
    BY <1>6
  <2> QED BY <1>2, <2>1, <2>2 DEF OutInv
<1> QED BY <1>2, <1>4, <1>5, <1>7 DEF EvInv

\* An output keeps its processors, and where it runs them.
LEMMA PlacesStay == ASSUME [Pipe!Next]_(Pipe!evars) PROVE UNCHANGED <<chain, place>>
<1>1. ASSUME NEW o, NEW w, Pipe!Working(o, w) PROVE UNCHANGED <<chain, place>>
  BY <1>1 DEF Pipe!Working, Pipe!Take, Pipe!Process, Pipe!Get, Pipe!Add, Pipe!Through, Pipe!Deliver, Pipe!OthersKeep
<1> QED BY <1>1 DEF Pipe!Next, Pipe!Receive, Pipe!Write, Pipe!Hand, Pipe!WriteEvent, Pipe!Drain, Pipe!evars

\* What the writer or the worker of o did, which touched no other output.
LEMMA EvOthers ==
  ASSUME EvInv, NEW o \in EvOuts, UNCHANGED <<chain, place, msgs, obj>>, todo' \subseteq todo,
         DOMAIN mem' = EvOuts, DOMAIN queue' = EvOuts, DOMAIN wrote' = EvOuts,
         \A p \in EvOuts \ {o} : mem'[p] = mem[p] /\ queue'[p] = queue[p] /\ wrote'[p] = wrote[p],
         Pipe!Spaced(o) => OutInv(o)'
  PROVE  EvInv'
<1>1. ASSUME NEW p \in EvOuts, Pipe!Spaced(p)' PROVE OutInv(p)'
  <2>1. CASE p = o
    BY <1>1, <2>1 DEF Pipe!Spaced
  <2>2. CASE p # o
    <3>1. OutInv(p) /\ mem'[p] = mem[p] /\ queue'[p] = queue[p] /\ wrote'[p] = wrote[p]
      BY <1>1, <2>2 DEF EvInv, Pipe!Spaced
    <3> QED BY <3>1 DEF OutInv
  <2> QED BY <2>1, <2>2
<1>2. todo' \subseteq EvOuts /\ (todo' # {} => Pipe!N' > 0)
  BY DEF EvInv, Pipe!N
<1> QED BY <1>1, <1>2 DEF EvInv

\* What the writer did to one rate limiter.
LEMMA EvHanded ==
  ASSUME EvInv, NEW o \in EvOuts, OutInv(o), NEW q \in Seq(Entries(obj)), NEW m \in Mems,
         Passed(chain[o][1], Hist(wrote[o], queue[o] \o q), m.index),
         mem' = [mem EXCEPT ![o] = m], queue' = [queue EXCEPT ![o] = @ \o q], obj' = obj,
         todo' = todo \ {o}, UNCHANGED <<chain, place, msgs, wrote>>
  PROVE  EvInv'
<1>1. DOMAIN mem = EvOuts /\ DOMAIN queue = EvOuts /\ DOMAIN wrote = EvOuts
  BY DEF EvInv
<1>2. mem'[o] = m /\ queue'[o] = queue[o] \o q /\ DOMAIN mem' = EvOuts /\ DOMAIN queue' = EvOuts
  BY <1>1
<1>3. queue[o] \o q \in Seq(Entries(obj))
  BY ConcatProperties DEF OutInv
<1>4. OutInv(o)'
  BY <1>2, <1>3 DEF OutInv
<1>5. \A p \in EvOuts \ {o} : mem'[p] = mem[p] /\ queue'[p] = queue[p] /\ wrote'[p] = wrote[p]
  BY <1>1
<1> QED BY <1>1, <1>2, <1>4, <1>5, EvOthers

LEMMA EvHeld ==
  ASSUME EvInv, NEW o \in todo
  PROVE  obj \in Seq(Seq(Events)) /\ Pipe!N \in DOMAIN obj /\ msgs[Pipe!N] \in Msgs
<1>1. obj \in Seq(Seq(Events)) /\ msgs \in Seq(Msgs) /\ Len(obj) = Pipe!N /\ Len(msgs) = Pipe!N /\ Pipe!N > 0
  BY DEF EvInv, Pipe!N
<1>2. Pipe!N \in 1 .. Len(msgs) /\ Pipe!N \in 1 .. Len(obj)
  BY <1>1
<1> QED BY <1>1, <1>2

LEMMA EvWrite ==
  ASSUME Arriving, Arrivals, EvInv, NEW o \in EvOuts, Pipe!Spaced(o), Pipe!Write(o)
  PROVE  EvInv'
<1> DEFINE es == Pipe!EventsOf(msgs[Pipe!N])
           r == Pipe!RunChain(chain[o], mem[o], es, Pipe!Now)
           q == Pipe!Sent(o, r.es, 0)
           H == Hist(wrote[o], queue[o])
<1>1. /\ o \in todo /\ msgs[Pipe!N].path = "target"
      /\ mem' = [mem EXCEPT ![o] = r.mem] /\ queue' = [queue EXCEPT ![o] = @ \o q]
      /\ todo' = todo \ {o} /\ UNCHANGED <<chain, place, msgs, obj, wrote>>
  BY DEF Pipe!Write
<1>2. OutInv(o) /\ Pipe!N \in DOMAIN obj /\ msgs[Pipe!N] \in Msgs
  BY <1>1, EvHeld DEF EvInv
<1>3. es \in Seq(Events)
  <2> DEFINE x == msgs[Pipe!N]
  <2> HIDE DEF x
  <2>2. x \in Msgs /\ x.path = "target"
    BY <1>1, <1>2 DEF x
  <2>3. PICK y \in EvResponses : x = [path |-> "target", rsp |-> y]
    BY <2>2 DEF Msgs
  <2>4. Pipe!EventsOf(x) = Pipe!ResponseToEventMsgs("s", y, y.meta)
    BY <2>3 DEF Pipe!EventsOf
  <2> QED BY <2>4 DEF Arrivals, x
<1>4. r.mem \in Mems /\ r.es \in Seq(Events) /\ Passed(chain[o][1], H \o r.es, r.mem.index)
  <2>1. DOMAIN chain[o] = 1 .. 1 /\ Limiter(chain[o][1]) /\ mem[o] \in Mems /\ Passed(chain[o][1], H, mem[o].index)
    BY <1>2 DEF OutInv
  <2> HIDE DEF es, H
  <2> QED BY <1>3, <2>1, LimiterRuns
<1> HIDE DEF r, es
<1>5. q \in Seq(Entries(obj)) /\ Carries(q, r.es)
  BY <1>2, <1>4, SentEntries
<1> HIDE DEF q
<1>6. Extends(wrote[o], queue[o], q, r.es)
  <2>1. Eventful(Writes) /\ Eventful(Entries(obj))
    BY DEF Eventful, Writes, Entries
  <2>2. wrote[o] \in Seq(Writes) /\ queue[o] \in Seq(Entries(obj))
    BY <1>2 DEF OutInv
  <2> QED BY <1>4, <1>5, <2>1, <2>2, HistAppends
<1>7. Passed(chain[o][1], Hist(wrote[o], queue[o] \o q), r.mem.index)
  BY <1>4, <1>6 DEF Extends, H
<1> QED BY <1>1, <1>2, <1>4, <1>5, <1>7, EvHanded

LEMMA EvWriteOther ==
  ASSUME EvInv, NEW o \in EvOuts, ~Pipe!Spaced(o), Pipe!Write(o)
  PROVE  EvInv'
<1> DEFINE r == Pipe!RunChain(chain[o], mem[o], Pipe!EventsOf(msgs[Pipe!N]), Pipe!Now)
           q == Pipe!Sent(o, r.es, 0)
<1>1. /\ mem' = [mem EXCEPT ![o] = r.mem] /\ queue' = [queue EXCEPT ![o] = @ \o q]
      /\ todo' = todo \ {o} /\ UNCHANGED <<chain, place, msgs, obj, wrote>>
  BY DEF Pipe!Write
<1> HIDE DEF r, q
<1>2. DOMAIN mem = EvOuts /\ DOMAIN queue = EvOuts /\ DOMAIN wrote = EvOuts
  BY DEF EvInv
<1>3. DOMAIN mem' = EvOuts /\ DOMAIN queue' = EvOuts /\ DOMAIN wrote' = EvOuts
  BY <1>1, <1>2
<1>4. \A p \in EvOuts \ {o} : mem'[p] = mem[p] /\ queue'[p] = queue[p] /\ wrote'[p] = wrote[p]
  BY <1>1, <1>2
<1> QED BY <1>1, <1>3, <1>4, EvOthers

LEMMA EvWriteEvent ==
  ASSUME Arriving, EvInv, NEW o \in EvOuts, Pipe!Spaced(o), Pipe!WriteEvent(o)
  PROVE  EvInv'
<1> DEFINE r == Pipe!EachEvent(o)
<1>1. /\ o \in todo /\ msgs[Pipe!N].path = "input"
      /\ mem' = [mem EXCEPT ![o] = r.mem] /\ obj' = [obj EXCEPT ![Pipe!N] = r.obj]
      /\ queue' = [queue EXCEPT ![o] = @ \o r.q]
      /\ todo' = todo \ {o} /\ UNCHANGED <<chain, place, msgs, wrote>>
  BY DEF Pipe!WriteEvent
<1>2. OutInv(o) /\ Pipe!N \in DOMAIN obj /\ obj \in Seq(Seq(Events))
  <2>1. obj \in Seq(Seq(Events)) /\ Pipe!N \in DOMAIN obj /\ msgs[Pipe!N] \in Msgs
    BY <1>1, EvHeld
  <2> QED BY <2>1 DEF EvInv
<1>3. r \in Accs(o)
  BY <1>2, EachEventKeeps
<1> HIDE DEF r
<1>4. r.mem \in Mems /\ r.obj = obj[Pipe!N] /\ r.q \in Seq(Entries(obj))
      /\ Passed(chain[o][1], Hist(wrote[o], queue[o] \o r.q), r.mem.index)
  BY <1>3 DEF Accs
<1>5. obj' = obj
  BY <1>1, <1>2, <1>4
<1> QED BY <1>1, <1>2, <1>4, <1>5, EvHanded

LEMMA EvDrain ==
  ASSUME EvInv, NEW o \in EvOuts, Pipe!Drain(o)
  PROVE  EvInv'
<1> DEFINE h == Head(queue[o])
           x == [msg |-> h.msg, from |-> h.from, ev |-> IF h.at = 0 THEN h.ev ELSE obj[h.msg][h.at]]
<1>1. /\ queue[o] # <<>>
      /\ wrote' = [wrote EXCEPT ![o] = Append(@, x)] /\ queue' = [queue EXCEPT ![o] = Tail(@)]
      /\ UNCHANGED <<chain, place, msgs, obj, todo, mem>>
  BY DEF Pipe!Drain
<1> HIDE DEF x
<1>2. obj \in Seq(Seq(Events)) /\ DOMAIN mem = EvOuts /\ DOMAIN queue = EvOuts /\ DOMAIN wrote = EvOuts
  BY DEF EvInv
<1>3. /\ wrote'[o] = Append(wrote[o], x) /\ queue'[o] = Tail(queue[o])
      /\ DOMAIN wrote' = EvOuts /\ DOMAIN queue' = EvOuts /\ DOMAIN mem' = EvOuts
      /\ \A p \in EvOuts \ {o} : mem'[p] = mem[p] /\ queue'[p] = queue[p] /\ wrote'[p] = wrote[p]
  BY <1>1, <1>2
<1>4. ASSUME Pipe!Spaced(o) PROVE OutInv(o)'
  <2>1. OutInv(o)
    BY <1>4 DEF EvInv
  <2>2. wrote[o] \in Seq(Writes) /\ queue[o] \in Seq(Entries(obj)) /\ h \in Entries(obj)
    BY <1>1, <2>1 DEF OutInv
  <2> HIDE DEF h
  <2>3. x.ev = h.ev /\ x \in Writes
    <3>1. h.msg \in DOMAIN obj /\ h.from \in Nat /\ h.ev \in Events
          /\ (h.at = 0 \/ obj[h.msg][h.at] = h.ev)
      BY <2>2 DEF Entries
    <3>2. h.msg \in Nat
      BY <1>2, <3>1
    <3> QED BY <3>1, <3>2 DEF Writes, x
  <2>4. wrote'[o] \in Seq(Writes) /\ queue'[o] \in Seq(Entries(obj'))
    BY <1>1, <1>3, <2>2, <2>3
  <2>5. Hist(Append(wrote[o], x), Tail(queue[o])) = Hist(wrote[o], queue[o])
    <3>1. x.ev = Head(queue[o]).ev
      BY <2>3 DEF h
    <3> QED BY <1>1, <2>2, <2>3, <3>1, HistDrains
  <2> QED BY <1>1, <1>3, <2>1, <2>4, <2>5 DEF OutInv
<1> QED BY <1>1, <1>3, <1>4, EvOthers

\* An output whose workers run the chain: it may have several, and they are not followed.
LEMMA EvByWorkers ==
  ASSUME EvInv, NEW o \in EvOuts, Pipe!Hand(o) \/ \E w : Pipe!Working(o, w)
  PROVE  EvInv'
<1>1. CASE Pipe!Hand(o)
  <2>1. place[o] = "workers" /\ todo' \subseteq todo /\ UNCHANGED <<chain, place, msgs, obj, queue, wrote, mem>>
    BY <1>1 DEF Pipe!Hand
  <2>2. ~Pipe!Spaced(o)
    BY <2>1 DEF Pipe!Spaced
  <2> QED BY <2>1, <2>2, EvOthers DEF EvInv
<1>2. ASSUME NEW w, Pipe!Working(o, w) PROVE EvInv'
  <2>1. ~Pipe!Spaced(o)
    BY <1>2 DEF Pipe!Working, Pipe!Spaced
  <2>2. /\ UNCHANGED <<chain, place, msgs, obj, todo, queue>>
        /\ mem' = mem \/ \E m : mem' = [mem EXCEPT ![o] = m]
        /\ wrote' = wrote \/ \E x : wrote' = [wrote EXCEPT ![o] = x]
    BY <1>2, Zenon DEF Pipe!Working, Pipe!Take, Pipe!Process, Pipe!Get, Pipe!Add, Pipe!Through, Pipe!Deliver,
       Pipe!OthersKeep
  <2>3. DOMAIN mem' = EvOuts /\ DOMAIN queue' = EvOuts /\ DOMAIN wrote' = EvOuts
        /\ \A p \in EvOuts \ {o} : mem'[p] = mem[p] /\ queue'[p] = queue[p] /\ wrote'[p] = wrote[p]
    BY <2>2 DEF EvInv
  <2> QED BY <2>1, <2>2, <2>3, EvOthers
<1> QED BY <1>1, <1>2

\* Of what left an output, two events with the same tags that follow one another are apart.
LEMMA EvSpaced == ASSUME EvInv PROVE Pipe!RateLimitSpacing
<1> SUFFICES ASSUME NEW o \in EvOuts, NEW i \in DOMAIN wrote[o], NEW j \in DOMAIN wrote[o],
                    Pipe!Spaced(o), i < j, wrote[o][i].ev.tags = wrote[o][j].ev.tags,
                    ~\E k \in (i + 1) .. (j - 1) : wrote[o][k].ev.tags = wrote[o][i].ev.tags
             PROVE  Apart(chain[o][1], wrote[o][i].ev, wrote[o][j].ev)
  BY DEF Pipe!RateLimitSpacing, Apart
<1> DEFINE w == wrote[o]
           q == queue[o]
           H == Hist(w, q)
<1>1. w \in Seq(Writes) /\ q \in Seq(Entries(obj)) /\ Passed(chain[o][1], H, mem[o].index)
  BY DEF EvInv, OutInv
<1>2. Len(w) \in Nat /\ Len(q) \in Nat /\ i \in 1 .. Len(w) /\ j \in 1 .. Len(w)
  BY <1>1
<1> DEFINE a == Len(w)
           b == Len(q)
<1>3. a \in Nat /\ b \in Nat
  BY <1>2
<1>4. H = [k \in 1 .. a + b |-> IF k <= a THEN w[k].ev ELSE q[k - a].ev]
  BY DEF Hist
<1> HIDE DEF H, a, b
<1>5. \A k \in 1 .. a : H[k] = w[k].ev
  <2> TAKE k \in 1 .. a
  <2>1. k \in 1 .. a + b /\ k <= a
    BY <1>3
  <2> QED BY <1>4, <2>1
<1>6. Len(H) = a + b
  <2> DEFINE m == a + b
  <2>1. H \in Seq(Events) /\ m \in Nat
    BY <1>1, <1>3 DEF Passed
  <2>2. DOMAIN H = 1 .. m
    BY <1>4
  <2> HIDE DEF m
  <2>3. Len(H) = m
    BY <2>1, <2>2
  <2> QED BY <2>3 DEF m
<1>7. i \in 1 .. a /\ j \in 1 .. a
  BY <1>2 DEF a
<1>8. i \in 1 .. Len(H) /\ j \in 1 .. Len(H)
  BY <1>6, <1>3, <1>7
<1>9. \A k \in (i + 1) .. (j - 1) : k \in 1 .. a
  BY <1>3, <1>7
<1>10. H[i].tags = H[j].tags /\ \A k \in (i + 1) .. (j - 1) : H[k].tags # H[i].tags
  BY <1>5, <1>9, <1>7
<1>11. Apart(chain[o][1], H[i], H[j])
  BY <1>1, <1>8, <1>10 DEF Passed
<1> QED BY <1>5, <1>11, <1>7

\* There is no rate limiter, and never will be: an output keeps its processors.
Unlimited == \A o \in EvOuts : ~Pipe!Spaced(o)

\* Events of an input are given to a rate limiter, or there is none.
LEMMA EvEither ==
  ASSUME Undisturbed, EvInv, NEW o \in EvOuts, Pipe!WriteEvent(o)
  PROVE  Pipe!Spaced(o) \/ Unlimited
<1>1. CASE \A p, q \in EvOuts : p = q
  BY <1>1 DEF Unlimited
<1>2. CASE EvPlaces = {"writer"} /\ \A ps \in EvChains : Pipe!Limited(ps)
  BY <1>2 DEF EvInv, Pipe!Spaced
<1>3. CASE EvBatches = {}
  <2>1. Pipe!N \in DOMAIN obj /\ msgs[Pipe!N] \in Msgs /\ msgs[Pipe!N].path = "input"
    BY EvHeld DEF Pipe!WriteEvent
  <2> QED BY <1>3, <2>1 DEF Msgs
<1> QED BY <1>1, <1>2, <1>3 DEF Undisturbed

\* rateLimit.Apply with a cache for every set of tags: of what an output behind it writes, two
\* events with the same tags that follow one another have the same timestamp or are 1/limit
\* seconds apart, if the output runs it in the writer: for any events, batches, limits and outputs.
THEOREM SpacingKept ==
  ASSUME Arriving, Arrivals, RateLimited, Undisturbed
  PROVE  Pipe!Spec => []Pipe!RateLimitSpacing
<1>1. Pipe!Init => EvInv
  BY EvInit
<1>2. Unlimited /\ [Pipe!Next]_(Pipe!evars) => Unlimited'
  BY PlacesStay DEF Unlimited, Pipe!Spaced
<1>3. EvInv /\ [Pipe!Next]_(Pipe!evars) => EvInv' \/ Unlimited'
  <2> SUFFICES ASSUME EvInv, [Pipe!Next]_(Pipe!evars), ~Unlimited PROVE EvInv'
    BY <1>2
  <2>1. CASE Pipe!Receive
    BY <2>1, EvReceive
  <2>2. ASSUME NEW o \in EvOuts, Pipe!Write(o) PROVE EvInv'
    BY <2>2, EvWrite, EvWriteOther
  <2>3. ASSUME NEW o \in EvOuts, Pipe!WriteEvent(o) PROVE EvInv'
    BY <2>3, EvWriteEvent, EvEither
  <2>4. ASSUME NEW o \in EvOuts, Pipe!Drain(o) PROVE EvInv'
    BY <2>4, EvDrain
  <2>5. ASSUME NEW o \in EvOuts, Pipe!Hand(o) \/ \E w \in EvWorkers : Pipe!Working(o, w) PROVE EvInv'
    BY <2>5, EvByWorkers
  <2>6. CASE UNCHANGED Pipe!evars
    BY <2>6 DEF EvInv, OutInv, Pipe!Spaced, Pipe!evars, Pipe!N
  <2> QED BY <2>1, <2>2, <2>3, <2>4, <2>5, <2>6 DEF Pipe!Next
<1>4. EvInv \/ Unlimited => Pipe!RateLimitSpacing
  BY EvSpaced DEF Unlimited, Pipe!RateLimitSpacing
<1> QED BY <1>1, <1>2, <1>3, <1>4, PTL DEF Pipe!Spec

-----------------------------------------------------------------------------
(* EventPipeline, behind processors that rearrange events.                  *)

\* Names, paths and texts in events, and their values.
Texts == STRING
Values == [t : STRING, n : Int] \cup [t : STRING, s : STRING]
Maps(V) == UNION {[D -> V] : D \in SUBSET Texts}
EventSet == [name : Texts, ts : Int, tags : Maps(Texts), bare : BOOLEAN, vals : Maps(Values), dels : SUBSET Texts]
NamesOf(e) == Pipe!NamesOf(e)

\* r is made of es: it names all that es names, and has no more events if es has at most one.
Conserved(es, r) ==
  /\ r \in Seq(EventSet) /\ Pipe!Names(es) \subseteq Pipe!Names(r)
  /\ Len(es) <= 1 => Len(r) <= Len(es)

\* A function from texts to V.
MapTo(f, V) == f = [k \in DOMAIN f |-> f[k]] /\ DOMAIN f \subseteq Texts /\ \A k \in DOMAIN f : f[k] \in V

LEMMA MapsTo == ASSUME NEW V, NEW f, MapTo(f, V) PROVE f \in Maps(V)
<1>1. f \in [DOMAIN f -> V] /\ DOMAIN f \in SUBSET Texts
  BY DEF MapTo
<1> QED BY <1>1 DEF Maps

LEMMA SameCardinality == \A S : Pipe!Cardinality(S) = Cardinality(S)
BY DEF Pipe!Cardinality, Cardinality

LEMMA NamesAre ==
  ASSUME NEW es \in Seq(EventSet)
  PROVE  /\ \A i \in 1 .. Len(es) : NamesOf(es[i]) \subseteq Pipe!Names(es)
         /\ \A S : (\A i \in 1 .. Len(es) : NamesOf(es[i]) \subseteq S) => Pipe!Names(es) \subseteq S
<1>1. DOMAIN es = 1 .. Len(es)
  OBVIOUS
<1> QED BY <1>1 DEF Pipe!Names, NamesOf

LEMMA MapsOver ==
  ASSUME NEW V, NEW f \in Maps(V), NEW g \in Maps(V)
  PROVE  Pipe!Over(f, g) \in Maps(V) /\ DOMAIN Pipe!Over(f, g) = DOMAIN f \cup DOMAIN g
<1>1. PICK D \in SUBSET Texts : f \in [D -> V]
  BY DEF Maps
<1>2. PICK E \in SUBSET Texts : g \in [E -> V]
  BY DEF Maps
<1>3. Pipe!Over(f, g) \in [D \cup E -> V] /\ D \cup E \in SUBSET Texts
  BY <1>1, <1>2 DEF Pipe!Over
<1>4. DOMAIN Pipe!Over(f, g) = DOMAIN f \cup DOMAIN g
  BY DEF Pipe!Over
<1> QED BY <1>3, <1>4 DEF Maps

LEMMA MergeEventsKeeps ==
  ASSUME NEW a \in EventSet, NEW b \in EventSet
  PROVE  /\ Pipe!MergeEvents(a, b) \in EventSet
         /\ NamesOf(a) \cup NamesOf(b) \subseteq NamesOf(Pipe!MergeEvents(a, b))
<1> DEFINE r == Pipe!MergeEvents(a, b)
           tags == Pipe!Over(b.tags, a.tags)
           vals == Pipe!Over(b.vals, a.vals)
           ts == Pipe!Later(a, b)
<1>1. tags \in Maps(Texts)
  BY MapsOver DEF EventSet
<1>2. vals \in Maps(Values) /\ DOMAIN vals = DOMAIN a.vals \cup DOMAIN b.vals
  <2>1. a.vals \in Maps(Values) /\ b.vals \in Maps(Values)
    BY DEF EventSet
  <2>2. vals \in Maps(Values) /\ DOMAIN vals = DOMAIN b.vals \cup DOMAIN a.vals
    BY <2>1, MapsOver
  <2> QED BY <2>2
<1>3. ts \in Int
  BY DEF Pipe!Later, EventSet
<1>4. r = [a EXCEPT !.tags = tags, !.bare = FALSE, !.vals = vals, !.dels = a.dels \cup b.dels, !.ts = ts]
  BY DEF Pipe!MergeEvents
<1> HIDE DEF r, tags, vals, ts
<1>5. a.dels \cup b.dels \in SUBSET Texts
  BY DEF EventSet
<1>6. r \in EventSet /\ r.vals = vals /\ r.dels = a.dels \cup b.dels /\ r.bare = FALSE
  BY <1>1, <1>2, <1>3, <1>4, <1>5 DEF EventSet
<1> QED BY <1>2, <1>6 DEF NamesOf, Pipe!NamesOf, r

-----------------------------------------------------------------------------
\* Ranks: B[i] are the members of I up to i.
Ranks(I, B) ==
  /\ IsFiniteSet(I) /\ B \in [I -> SUBSET I] /\ \A i \in I : i \in B[i]
  /\ \A i, j \in I :
       i # j => (B[i] \subseteq B[j] /\ j \notin B[i]) \/ (B[j] \subseteq B[i] /\ i \notin B[j])

LEMMA RanksAreNumbers ==
  ASSUME NEW I, NEW B, Ranks(I, B)
  PROVE  /\ Cardinality(I) \in Nat
         /\ \A i \in I : Cardinality(B[i]) \in 1 .. Cardinality(I)
         /\ \A i, j \in I : Cardinality(B[i]) = Cardinality(B[j]) => i = j
         /\ \A k \in 1 .. Cardinality(I) : \E i \in I : Cardinality(B[i]) = k
<1> DEFINE n == Cardinality(I)
           f == [i \in I |-> Cardinality(B[i])]
<1>1. IsFiniteSet(I) /\ n \in Nat
  BY FS_CardinalityType DEF Ranks
<1>2. \A i \in I : B[i] \in SUBSET I /\ IsFiniteSet(B[i]) /\ Cardinality(B[i]) \in Nat /\ Cardinality(B[i]) <= n
  <2> TAKE i \in I
  <2>1. B[i] \in SUBSET I
    BY DEF Ranks
  <2>2. IsFiniteSet(B[i]) /\ Cardinality(B[i]) <= n
    BY <1>1, <2>1, FS_Subset
  <2> QED BY <2>1, <2>2, FS_CardinalityType
<1>3. \A i \in I : Cardinality(B[i]) \in 1 .. n
  <2> TAKE i \in I
  <2>1. B[i] # {}
    BY DEF Ranks
  <2>2. Cardinality(B[i]) # 0
    BY <1>2, <2>1, FS_EmptySet
  <2> HIDE DEF n
  <2> QED BY <1>1, <1>2, <2>2
<1>4. ASSUME NEW i \in I, NEW j \in I, B[i] \subseteq B[j], j \notin B[i]
      PROVE  Cardinality(B[i]) # Cardinality(B[j])
  <2>1. j \in B[j] /\ B[i] \in SUBSET B[j]
    BY <1>4 DEF Ranks
  <2>2. Cardinality(B[j]) = Cardinality(B[i]) => B[j] = B[i]
    BY <1>2, <2>1, FS_Subset
  <2> QED BY <1>4, <2>1, <2>2
<1>5. \A i, j \in I : Cardinality(B[i]) = Cardinality(B[j]) => i = j
  <2> TAKE i \in I, j \in I
  <2>1. i = j \/ (B[i] \subseteq B[j] /\ j \notin B[i]) \/ (B[j] \subseteq B[i] /\ i \notin B[j])
    BY DEF Ranks
  <2> QED BY <1>4, <2>1
<1>6. f \in Injection(I, 1 .. n)
  <2>1. f \in [I -> 1 .. n]
    BY <1>3
  <2>2. \A i, j \in I : f[i] = f[j] => i = j
    BY <1>5
  <2> HIDE DEF f, n
  <2> QED BY <2>1, <2>2 DEF Injection, IsInjective
<1>7. IsFiniteSet(1 .. n) /\ Cardinality(1 .. n) = n
  <2> HIDE DEF n
  <2>1. 1 \in Int /\ n \in Int /\ (1 > n => n = 0)
    BY <1>1
  <2>2. IsFiniteSet(1 .. n) /\ Cardinality(1 .. n) = IF 1 > n THEN 0 ELSE n - 1 + 1
    BY <2>1, FS_Interval
  <2> QED BY <2>1, <2>2
<1>8. f \in Surjection(I, 1 .. n)
  <2> HIDE DEF f
  <2>1. Cardinality(I) = Cardinality(1 .. n) <=> f \in Surjection(I, 1 .. n)
    BY <1>6, <1>7, FS_Injection
  <2> QED BY <1>7, <2>1
<1>9. \A k \in 1 .. n : \E i \in I : f[i] = k
  <2> HIDE DEF f, n
  <2> QED BY <1>8 DEF Surjection
<1> QED BY <1>1, <1>3, <1>5, <1>9

\* The sequence by rank has exactly the events at the positions I.
Ranked(es, I, B) == [k \in 1 .. Cardinality(I) |-> es[CHOOSE i \in I : Cardinality(B[i]) = k]]

Lists(r, es, I) ==
  /\ \A i \in I : \E k \in 1 .. Len(r) : r[k] = es[i]
  /\ \A k \in 1 .. Len(r) : \E i \in I : r[k] = es[i]

LEMMA RankedHas ==
  ASSUME NEW S, NEW es \in Seq(S), NEW I \in SUBSET DOMAIN es, NEW B, Ranks(I, B)
  PROVE  /\ Ranked(es, I, B) \in Seq(S) /\ Len(Ranked(es, I, B)) = Cardinality(I)
         /\ Lists(Ranked(es, I, B), es, I)
<1> DEFINE n == Cardinality(I)
           at(k) == CHOOSE i \in I : Cardinality(B[i]) = k
           r == Ranked(es, I, B)
<1>1. n \in Nat /\ \A i \in I : Cardinality(B[i]) \in 1 .. n
  BY RanksAreNumbers
<1>2. \A k \in 1 .. n : at(k) \in I /\ Cardinality(B[at(k)]) = k
  <2> TAKE k \in 1 .. n
  <2>1. \E i \in I : Cardinality(B[i]) = k
    BY RanksAreNumbers
  <2> QED BY <2>1
<1>3. \A i \in I : at(Cardinality(B[i])) = i
  <2> TAKE i \in I
  <2>1. Cardinality(B[i]) \in 1 .. n
    BY <1>1
  <2>2. at(Cardinality(B[i])) \in I /\ Cardinality(B[at(Cardinality(B[i]))]) = Cardinality(B[i])
    BY <1>2, <2>1
  <2> HIDE DEF at
  <2> QED BY <2>2, RanksAreNumbers
<1>4. r = [k \in 1 .. n |-> es[at(k)]]
  BY DEF Ranked
<1> HIDE DEF n, at, r
<1>5. \A k \in 1 .. n : r[k] = es[at(k)] /\ es[at(k)] \in S
  BY <1>2, <1>4
<1>6. r \in Seq(S) /\ Len(r) = n
  BY <1>1, <1>4, <1>5
<1>7. \A i \in I : \E k \in 1 .. n : r[k] = es[i]
  BY <1>1, <1>3, <1>5
<1>8. \A k \in 1 .. n : \E i \in I : r[k] = es[i]
  BY <1>2, <1>5
<1> QED BY <1>1, <1>6, <1>7, <1>8 DEF n, r, Lists

LEMMA AtHas ==
  ASSUME NEW S, NEW es \in Seq(S), NEW I \in SUBSET DOMAIN es
  PROVE  /\ IsFiniteSet(I) /\ Cardinality(I) \in Nat
         /\ Pipe!At(es, I) \in Seq(S) /\ Len(Pipe!At(es, I)) = Cardinality(I)
         /\ Lists(Pipe!At(es, I), es, I)
<1> DEFINE B == [i \in I |-> {j \in I : j <= i}]
<1>1. I \in SUBSET (1 .. Len(es)) /\ Len(es) \in Nat
  OBVIOUS
<1>2. IsFiniteSet(I)
  <2>1. IsFiniteSet(1 .. Len(es))
    BY <1>1, FS_Interval
  <2> QED BY <1>1, <2>1, FS_Subset
<1>3. Ranks(I, B)
  <2>1. \A i, j \in I :
          i # j => (B[i] \subseteq B[j] /\ j \notin B[i]) \/ (B[j] \subseteq B[i] /\ i \notin B[j])
    BY <1>1
  <2>2. \A i \in I : i \in B[i]
    BY <1>1
  <2>3. B \in [I -> SUBSET I]
    OBVIOUS
  <2> HIDE DEF B
  <2> QED BY <1>2, <2>1, <2>2, <2>3 DEF Ranks
<1>4. Pipe!At(es, I) = Ranked(es, I, B)
  <2> DEFINE at(k) == CHOOSE i \in I : Pipe!Cardinality({j \in I : j <= i}) = k
             is(k) == CHOOSE i \in I : Cardinality(B[i]) = k
  <2>1. Pipe!At(es, I) = [k \in 1 .. Pipe!Cardinality(I) |-> es[at(k)]]
    BY DEF Pipe!At
  <2>2. \A k : at(k) = is(k)
    <3>1. \A i \in I : Pipe!Cardinality({j \in I : j <= i}) = Cardinality(B[i])
      BY SameCardinality
    <3> HIDE DEF B
    <3> QED BY <3>1
  <2>3. Ranked(es, I, B) = [k \in 1 .. Cardinality(I) |-> es[is(k)]]
    BY DEF Ranked
  <2>4. Pipe!Cardinality(I) = Cardinality(I)
    BY SameCardinality
  <2> HIDE DEF B, at, is
  <2> QED BY <2>1, <2>2, <2>3, <2>4
<1> HIDE DEF B
<1> QED BY <1>2, <1>3, <1>4, RankedHas, FS_CardinalityType

\* The positions up to i, by time.
UpTo(es) == [i \in DOMAIN es |-> {j \in DOMAIN es : es[j].ts < es[i].ts \/ (es[j].ts = es[i].ts /\ j <= i)}]

LEMMA SortRanks ==
  ASSUME NEW es \in Seq(EventSet)
  PROVE  /\ Ranks(DOMAIN es, UpTo(es)) /\ Cardinality(DOMAIN es) = Len(es)
         /\ Pipe!SortByTime(es) = Ranked(es, DOMAIN es, UpTo(es))
<1> DEFINE I == DOMAIN es
           before(j, i) == es[j].ts < es[i].ts \/ (es[j].ts = es[i].ts /\ j <= i)
           B == UpTo(es)
           n == Len(es)
<1>1. I = 1 .. n /\ n \in Nat /\ \A i \in I : es[i].ts \in Int
  <2>1. I = 1 .. n /\ n \in Nat /\ \A i \in 1 .. n : es[i] \in EventSet
    OBVIOUS
  <2>2. \A e \in EventSet : e.ts \in Int
    BY DEF EventSet
  <2> QED BY <2>1, <2>2
<1>2. IsFiniteSet(I) /\ Cardinality(I) = n
  <2>1. 1 \in Int /\ n \in Int /\ (1 > n => n = 0)
    BY <1>1
  <2>2. IsFiniteSet(1 .. n) /\ Cardinality(1 .. n) = IF 1 > n THEN 0 ELSE n - 1 + 1
    BY <2>1, FS_Interval
  <2> HIDE DEF n
  <2> QED BY <1>1, <2>1, <2>2
<1>3. B \in [I -> SUBSET I] /\ \A i \in I : B[i] = {j \in I : before(j, i)}
  BY DEF UpTo
<1> HIDE DEF B
<1>4. Ranks(I, B)
  <2>1. ASSUME NEW i \in I, NEW j \in I, i # j
        PROVE  (B[i] \subseteq B[j] /\ j \notin B[i]) \/ (B[j] \subseteq B[i] /\ i \notin B[j])
    <3>1. CASE before(i, j)
      <4>1. ~before(j, i)
        BY <1>1, <2>1, <3>1
      <4>2. \A k \in I : before(k, i) => before(k, j)
        BY <1>1, <2>1, <3>1
      <4> QED BY <1>3, <4>1, <4>2
    <3>2. CASE ~before(i, j)
      <4>1. before(j, i)
        BY <1>1, <2>1, <3>2
      <4>2. \A k \in I : before(k, j) => before(k, i)
        BY <1>1, <2>1, <4>1
      <4> QED BY <1>3, <3>2, <4>2
    <3> QED BY <3>1, <3>2
  <2>2. \A i \in I : i \in B[i]
    BY <1>1, <1>3
  <2> HIDE DEF I
  <2> QED BY <1>2, <1>3, <2>1, <2>2 DEF Ranks
<1>5. Pipe!SortByTime(es) = Ranked(es, I, B)
  <2> DEFINE at(k) == CHOOSE i \in I : Pipe!Cardinality({j \in I : before(j, i)}) = k
             is(k) == CHOOSE i \in I : Cardinality(B[i]) = k
  <2>1. Pipe!SortByTime(es) = [k \in I |-> es[at(k)]]
    BY DEF Pipe!SortByTime
  <2>2. \A k : at(k) = is(k)
    <3>1. \A i \in I : Pipe!Cardinality({j \in I : before(j, i)}) = Cardinality(B[i])
      BY <1>3, SameCardinality
    <3> HIDE DEF before, I
    <3> QED BY <3>1
  <2>3. Ranked(es, I, B) = [k \in 1 .. Cardinality(I) |-> es[is(k)]]
    BY DEF Ranked
  <2>4. 1 .. Cardinality(I) = I
    BY <1>1, <1>2
  <2> HIDE DEF I, at, is
  <2> QED BY <2>1, <2>2, <2>3, <2>4
<1> QED BY <1>2, <1>4, <1>5 DEF B

LEMMA SortHas ==
  ASSUME NEW es \in Seq(EventSet)
  PROVE  /\ Pipe!SortByTime(es) \in Seq(EventSet) /\ Len(Pipe!SortByTime(es)) = Len(es)
         /\ Lists(Pipe!SortByTime(es), es, DOMAIN es)
<1>1. Ranks(DOMAIN es, UpTo(es)) /\ DOMAIN es \in SUBSET DOMAIN es
  BY SortRanks
<1>2. /\ Ranked(es, DOMAIN es, UpTo(es)) \in Seq(EventSet)
      /\ Len(Ranked(es, DOMAIN es, UpTo(es))) = Cardinality(DOMAIN es)
      /\ Lists(Ranked(es, DOMAIN es, UpTo(es)), es, DOMAIN es)
  BY <1>1, RankedHas
<1> QED BY <1>2, SortRanks

\* What is listed is named.
LEMMA ListsName ==
  ASSUME NEW es, NEW r \in Seq(EventSet), NEW I, Lists(r, es, I)
  PROVE  \A i \in I : NamesOf(es[i]) \subseteq Pipe!Names(r)
<1> TAKE i \in I
<1>1. PICK k \in 1 .. Len(r) : r[k] = es[i]
  BY DEF Lists
<1> QED BY <1>1, NamesAre

-----------------------------------------------------------------------------
(* Folds again: a solution, and an induction over the steps.                *)

LEMMA FoldReaches ==
  ASSUME NEW n \in Nat, NEW W, 0 \in W, \A k \in 1 .. n : k - 1 \in W => k \in W
  PROVE  n \in W
<1> DEFINE S == {k \in Nat : k <= n => k \in W}
<1>1. 0 \in S
  OBVIOUS
<1>2. \A k \in Nat : k \in S => k + 1 \in S
  <2> TAKE k \in Nat
  <2>1. k + 1 <= n => k + 1 \in 1 .. n /\ (k + 1) - 1 = k
    OBVIOUS
  <2> QED BY <2>1
<1> HIDE DEF S
<1>3. Nat \subseteq S
  BY <1>1, <1>2, SetInduction
<1> QED BY <1>3 DEF S

\* The events of a sequence that is not empty, merged into one.
LEMMA MergedKeeps ==
  ASSUME NEW es \in Seq(EventSet), es # <<>>
  PROVE  /\ Pipe!FoldLeft(Pipe!MergeEvents, Head(es), Tail(es)) \in EventSet
         /\ \A i \in 1 .. Len(es) :
              NamesOf(es[i]) \subseteq NamesOf(Pipe!FoldLeft(Pipe!MergeEvents, Head(es), Tail(es)))
<1> DEFINE base == Head(es)
           t == Tail(es)
           n == Len(t)
           r == Pipe!FoldLeft(Pipe!MergeEvents, base, t)
           F == [p \in (1 .. n) \X EventSet |-> Pipe!MergeEvents(p[2], t[p[1]])]
           Sol(q) == q = [s \in SUBSET (1 .. n) |-> IF s = {} THEN base
                            ELSE Pipe!MergeEvents(q[s \ {Top(s)}], t[Top(s)])]
           g == CHOOSE q : Sol(q)
<1>1. /\ base \in EventSet /\ base = es[1] /\ t \in Seq(EventSet)
      /\ n \in Nat /\ Len(es) = n + 1 /\ DOMAIN t = 1 .. n /\ \A k \in 1 .. n : t[k] = es[k + 1] /\ t[k] \in EventSet
  OBVIOUS
<1>2. r = g[1 .. n]
  BY <1>1 DEF Pipe!FoldLeft, Pipe!MapThenFoldSet, Pipe!Max, Top
<1> HIDE DEF base, t, n, r
<1>3. F \in [(1 .. n) \X EventSet -> EventSet]
  BY <1>1, MergeEventsKeeps
<1>4. \E h : Sol(h)
  <2>1. PICK h : Solves(h, n, EventSet, base, F)
    <3> HIDE DEF F
    <3> QED BY <1>1, <1>3, FoldExists
  <2>2. h \in [SUBSET (1 .. n) -> EventSet] /\ h[{}] = base
    BY <2>1 DEF Solves
  <2>3. \A s \in SUBSET (1 .. n) : s # {} => h[s] = F[<<Top(s), h[s \ {Top(s)}]>>]
    <3> HIDE DEF F
    <3> QED BY <2>1 DEF Solves
  <2>4. \A s \in SUBSET (1 .. n) : s # {} => Top(s) \in 1 .. n /\ h[s \ {Top(s)}] \in EventSet
    BY <1>1, <2>2, TopIn
  <2>5. \A s \in SUBSET (1 .. n) : s # {} => h[s] = Pipe!MergeEvents(h[s \ {Top(s)}], t[Top(s)])
    BY <2>3, <2>4
  <2> HIDE DEF F
  <2>6. Sol(h)
    BY <2>2, <2>5
  <2> QED BY <2>6
<1>5. Sol(g)
  BY <1>4
<1> HIDE DEF g
<1>6. g[1 .. 0] = base /\ \A k \in 1 .. n : g[1 .. k] = Pipe!MergeEvents(g[1 .. k - 1], t[k])
  <2>1. g[1 .. 0] = base
    <3>1. 1 .. 0 = {}
      OBVIOUS
    <3> QED BY <1>5, <3>1
  <2>2. ASSUME NEW k \in 1 .. n PROVE g[1 .. k] = Pipe!MergeEvents(g[1 .. k - 1], t[k])
    <3>1. 1 .. k \in SUBSET (1 .. n) /\ 1 .. k # {} /\ Top(1 .. k) = k /\ (1 .. k) \ {k} = 1 .. k - 1
      BY <1>1, TopOfInterval
    <3> QED BY <1>5, <3>1
  <2> QED BY <2>1, <2>2
<1> DEFINE W == {k \in 0 .. n : /\ g[1 .. k] \in EventSet
                                /\ \A i \in 1 .. k + 1 : NamesOf(es[i]) \subseteq NamesOf(g[1 .. k])}
<1>7. 0 \in W
  <2>1. \A i \in 1 .. 0 + 1 : i = 1
    OBVIOUS
  <2> QED BY <1>1, <1>6, <2>1
<1>8. ASSUME NEW k \in 1 .. n, k - 1 \in W PROVE k \in W
  <2>1. g[1 .. k - 1] \in EventSet /\ \A i \in 1 .. k : NamesOf(es[i]) \subseteq NamesOf(g[1 .. k - 1])
    <3>1. (k - 1) + 1 = k
      BY <1>1
    <3> QED BY <1>8, <3>1
  <2>2. g[1 .. k] \in EventSet /\ NamesOf(g[1 .. k - 1]) \cup NamesOf(t[k]) \subseteq NamesOf(g[1 .. k])
    BY <1>1, <1>6, <2>1, MergeEventsKeeps
  <2>3. \A i \in 1 .. k + 1 : i \in 1 .. k \/ i = k + 1
    BY <1>1
  <2> QED BY <1>1, <2>1, <2>2, <2>3
<1> HIDE DEF W
<1>9. n \in W
  BY <1>1, <1>7, <1>8, FoldReaches
<1> QED BY <1>1, <1>2, <1>9 DEF W, r, base, t

LEMMA MergeStepKeeps ==
  ASSUME NEW acc \in Seq(EventSet), NEW e \in EventSet
  PROVE  /\ Pipe!MergeStep(acc, e) \in Seq(EventSet) /\ Len(Pipe!MergeStep(acc, e)) <= Len(acc) + 1
         /\ Pipe!Names(acc) \subseteq Pipe!Names(Pipe!MergeStep(acc, e))
         /\ NamesOf(e) \subseteq Pipe!Names(Pipe!MergeStep(acc, e))
<1> DEFINE at == {i \in DOMAIN acc : acc[i].ts = e.ts}
           n == CHOOSE j \in at : TRUE
           m == Pipe!MergeEvents(acc[n], e)
           r == Pipe!MergeStep(acc, e)
<1>1. DOMAIN acc = 1 .. Len(acc) /\ Len(acc) \in Nat /\ \A i \in 1 .. Len(acc) : acc[i] \in EventSet
  OBVIOUS
<1>2. r = IF at = {} THEN Append(acc, e) ELSE [acc EXCEPT ![n] = m]
  BY DEF Pipe!MergeStep
<1>3. r \in Seq(EventSet) /\ Len(r) <= Len(acc) + 1 /\ Len(acc) <= Len(r)
      /\ (\A i \in 1 .. Len(acc) : NamesOf(acc[i]) \subseteq NamesOf(r[i]))
      /\ \E i \in 1 .. Len(r) : NamesOf(e) \subseteq NamesOf(r[i])
  <2>1. CASE at = {}
    <3>1. r = Append(acc, e)
      BY <1>2, <2>1
    <3> HIDE DEF r
    <3>2. r \in Seq(EventSet) /\ Len(r) = Len(acc) + 1 /\ r[Len(acc) + 1] = e
          /\ \A i \in 1 .. Len(acc) : r[i] = acc[i]
      BY <3>1, AppendProperties
    <3>3. Len(acc) + 1 \in 1 .. Len(r)
      BY <1>1, <3>2
    <3> QED BY <1>1, <3>2, <3>3
  <2>2. CASE at # {}
    <3>1. n \in DOMAIN acc
      BY <2>2
    <3>2. r = [acc EXCEPT ![n] = m]
      BY <1>2, <2>2
    <3>3. m \in EventSet /\ NamesOf(acc[n]) \cup NamesOf(e) \subseteq NamesOf(m)
      BY <1>1, <3>1, MergeEventsKeeps
    <3> HIDE DEF r, n, m
    <3>4. r \in Seq(EventSet) /\ Len(r) = Len(acc) /\ r[n] = m /\ \A i \in 1 .. Len(acc) : i # n => r[i] = acc[i]
      BY <1>1, <3>1, <3>2, <3>3
    <3> QED BY <1>1, <3>1, <3>3, <3>4
  <2> QED BY <2>1, <2>2
<1> HIDE DEF r
<1>4. \A i \in 1 .. Len(acc) : NamesOf(acc[i]) \subseteq Pipe!Names(r)
  <2> TAKE i \in 1 .. Len(acc)
  <2>1. i \in 1 .. Len(r)
    BY <1>1, <1>3
  <2> QED BY <1>3, <2>1, NamesAre
<1>5. Pipe!Names(acc) \subseteq Pipe!Names(r)
  BY <1>4, NamesAre
<1>6. NamesOf(e) \subseteq Pipe!Names(r)
  BY <1>3, NamesAre
<1> QED BY <1>3, <1>5, <1>6 DEF r

LEMMA MergeKeeps ==
  ASSUME NEW c, NEW es \in Seq(EventSet)
  PROVE  Conserved(es, Pipe!Merge(c, es))
<1> DEFINE n == Len(es)
           A == Seq(EventSet)
           base == <<>>
           Step(a, k) == Pipe!MergeStep(a, es[k])
           F == [p \in (1 .. n) \X A |-> Step(p[2], p[1])]
           Sol(q) == q = [s \in SUBSET (1 .. n) |-> IF s = {} THEN base ELSE Step(q[s \ {Top(s)}], Top(s))]
           g == CHOOSE q : Sol(q)
<1>1. n \in Nat /\ DOMAIN es = 1 .. n /\ base \in A /\ \A k \in 1 .. n : es[k] \in EventSet
  OBVIOUS
<1>2. \A a \in A : \A k \in 1 .. n : Step(a, k) \in A
  BY <1>1, MergeStepKeeps
<1>3. Pipe!FoldLeft(Pipe!MergeStep, <<>>, es) = g[1 .. n]
  BY <1>1 DEF base, Pipe!FoldLeft, Pipe!MapThenFoldSet, Pipe!Max, Top
<1> HIDE DEF n, A, base, Step
<1>4. F \in [(1 .. n) \X A -> A]
  BY <1>2
<1>5. \E h : Sol(h)
  <2>1. PICK h : Solves(h, n, A, base, F)
    <3> HIDE DEF F
    <3> QED BY <1>1, <1>1, <1>4, FoldExists
  <2>2. h \in [SUBSET (1 .. n) -> A] /\ h[{}] = base
    BY <2>1 DEF Solves
  <2>3. \A s \in SUBSET (1 .. n) : s # {} => h[s] = F[<<Top(s), h[s \ {Top(s)}]>>]
    <3> HIDE DEF F
    <3> QED BY <2>1 DEF Solves
  <2>4. \A s \in SUBSET (1 .. n) : s # {} => Top(s) \in 1 .. n /\ h[s \ {Top(s)}] \in A
    BY <1>1, <2>2, TopIn
  <2>5. \A s \in SUBSET (1 .. n) : s # {} => h[s] = Step(h[s \ {Top(s)}], Top(s))
    BY <2>3, <2>4
  <2> HIDE DEF F
  <2>6. Sol(h)
    BY <2>2, <2>5
  <2> QED BY <2>6
<1>6. Sol(g)
  BY <1>5
<1> HIDE DEF g
<1>7. g[1 .. 0] = base
  <2>1. 1 .. 0 = {}
    OBVIOUS
  <2> QED BY <1>6, <2>1
<1>8. \A k \in 1 .. n : g[1 .. k] = Step(g[1 .. k - 1], k)
  <2> TAKE k \in 1 .. n
  <2>1. 1 .. k \in SUBSET (1 .. n) /\ 1 .. k # {} /\ Top(1 .. k) = k /\ (1 .. k) \ {k} = 1 .. k - 1
    BY <1>1, TopOfInterval
  <2> QED BY <1>6, <2>1
<1> DEFINE W == {k \in 0 .. n : /\ g[1 .. k] \in Seq(EventSet) /\ Len(g[1 .. k]) <= k
                                /\ \A i \in 1 .. k : NamesOf(es[i]) \subseteq Pipe!Names(g[1 .. k])}
<1>9. 0 \in W
  <2>1. g[1 .. 0] = <<>>
    BY <1>7 DEF base
  <2>2. <<>> \in Seq(EventSet) /\ Len(<<>>) <= 0 /\ 0 \in 0 .. n /\ \A i \in 1 .. 0 : FALSE
    BY <1>1
  <2> QED BY <2>1, <2>2
<1>10. ASSUME NEW k \in 1 .. n, k - 1 \in W PROVE k \in W
  <2> DEFINE a == g[1 .. k - 1]
             b == g[1 .. k]
  <2>1. a \in Seq(EventSet) /\ Len(a) <= k - 1 /\ \A i \in 1 .. k - 1 : NamesOf(es[i]) \subseteq Pipe!Names(a)
    BY <1>10
  <2>2. b = Pipe!MergeStep(a, es[k])
    BY <1>8 DEF Step
  <2> HIDE DEF a, b
  <2>3. b \in Seq(EventSet) /\ Len(b) <= Len(a) + 1 /\ Pipe!Names(a) \subseteq Pipe!Names(b)
        /\ NamesOf(es[k]) \subseteq Pipe!Names(b)
    BY <1>1, <2>1, <2>2, MergeStepKeeps
  <2>4. \A i \in 1 .. k : NamesOf(es[i]) \subseteq Pipe!Names(b)
    <3>1. \A i \in 1 .. k : i \in 1 .. k - 1 \/ i = k
      BY <1>1
    <3> QED BY <2>1, <2>3, <3>1
  <2>5. Len(b) <= k /\ k \in 0 .. n
    BY <1>1, <2>1, <2>3
  <2> QED BY <2>3, <2>4, <2>5 DEF b
<1> HIDE DEF W
<1>11. n \in W
  BY <1>1, <1>9, <1>10, FoldReaches
<1>12. Conserved(es, g[1 .. n])
  <2> DEFINE r == g[1 .. n]
  <2>1. r \in Seq(EventSet) /\ Len(r) <= n /\ \A i \in 1 .. n : NamesOf(es[i]) \subseteq Pipe!Names(r)
    BY <1>11 DEF W
  <2> HIDE DEF r
  <2>2. Pipe!Names(es) \subseteq Pipe!Names(r)
    BY <2>1, NamesAre DEF n
  <2> QED BY <2>1, <2>2 DEF Conserved, n, r
<1>13. Conserved(es, es)
  BY DEF Conserved
<1>14. ASSUME es # <<>> PROVE Conserved(es, <<Pipe!FoldLeft(Pipe!MergeEvents, Head(es), Tail(es))>>)
  <2> DEFINE m == Pipe!FoldLeft(Pipe!MergeEvents, Head(es), Tail(es))
             r == <<m>>
  <2>1. m \in EventSet /\ \A i \in 1 .. Len(es) : NamesOf(es[i]) \subseteq NamesOf(m)
    BY <1>14, MergedKeeps
  <2> HIDE DEF m
  <2>2. r \in Seq(EventSet) /\ Len(r) = 1 /\ 1 \in 1 .. Len(r) /\ r[1] = m
    BY <2>1
  <2> HIDE DEF r
  <2>3. NamesOf(m) \subseteq Pipe!Names(r)
    BY <2>2, NamesAre
  <2>4. Pipe!Names(es) \subseteq Pipe!Names(r)
    BY <2>1, <2>3, NamesAre
  <2>5. Len(es) \in Nat /\ Len(es) # 0
    BY <1>14
  <2> QED BY <2>2, <2>4, <2>5 DEF Conserved, r, m
<1>15. Pipe!Merge(c, es) \in {es, g[1 .. n]} \/ (es # <<>> /\ Pipe!Merge(c, es) = <<Pipe!FoldLeft(Pipe!MergeEvents, Head(es), Tail(es))>>)
  BY <1>3 DEF Pipe!Merge
<1> QED BY <1>12, <1>13, <1>14, <1>15

\* The members of a finite set, one after the other.
LEMMA SeqOfSet ==
  ASSUME NEW S, IsFiniteSet(S)
  PROVE  /\ Cardinality(S) \in Nat /\ Pipe!SetToSeq(S) \in [1 .. Cardinality(S) -> S]
         /\ \A x \in S : \E k \in 1 .. Cardinality(S) : Pipe!SetToSeq(S)[k] = x
<1> DEFINE n == Cardinality(S)
           f == Pipe!SetToSeq(S)
<1>1. n \in Nat /\ ExistsBijection(1 .. n, S)
  BY FS_CardinalityType
<1>2. f = CHOOSE q \in [1 .. n -> S] : Pipe!IsInjective(q)
  BY SameCardinality DEF Pipe!SetToSeq
<1> HIDE DEF n, f
<1>3. \E q \in [1 .. n -> S] : Pipe!IsInjective(q)
  BY <1>1 DEF ExistsBijection, Bijection, Injection, IsInjective, Pipe!IsInjective
<1>4. f \in [1 .. n -> S] /\ Pipe!IsInjective(f)
  BY <1>2, <1>3
<1>5. f \in Injection(1 .. n, S)
  BY <1>4 DEF Injection, IsInjective, Pipe!IsInjective
<1>6. Cardinality(1 .. n) = Cardinality(S)
  <2>1. 1 \in Int /\ n \in Int /\ (1 > n => n = 0)
    BY <1>1
  <2>2. Cardinality(1 .. n) = IF 1 > n THEN 0 ELSE n - 1 + 1
    BY <2>1, FS_Interval
  <2>3. Cardinality(1 .. n) = n
    BY <2>1, <2>2
  <2> QED BY <2>3 DEF n
<1>7. f \in Surjection(1 .. n, S)
  BY <1>5, <1>6, FS_Injection
<1>8. \A x \in S : \E k \in 1 .. n : f[k] = x
  BY <1>7 DEF Surjection
<1> QED BY <1>1, <1>4, <1>8 DEF n, f

LEMMA DomainFinite ==
  ASSUME NEW S, NEW es \in Seq(S)
  PROVE  /\ IsFiniteSet(DOMAIN es) /\ Cardinality(DOMAIN es) = Len(es) /\ DOMAIN es = 1 .. Len(es) /\ Len(es) \in Nat
         /\ \A I \in SUBSET DOMAIN es : /\ IsFiniteSet(I) /\ Cardinality(I) \in Nat
                                        /\ Cardinality(I) + Cardinality(DOMAIN es \ I) = Len(es)
<1> DEFINE n == Len(es)
           D == DOMAIN es
<1>1. D = 1 .. n /\ n \in Nat
  OBVIOUS
<1> HIDE DEF n, D
<1>2. IsFiniteSet(D) /\ Cardinality(D) = n
  <2>1. 1 \in Int /\ n \in Int /\ (1 > n => n = 0)
    BY <1>1
  <2>2. IsFiniteSet(1 .. n) /\ Cardinality(1 .. n) = IF 1 > n THEN 0 ELSE n - 1 + 1
    BY <2>1, FS_Interval
  <2> QED BY <1>1, <2>1, <2>2
<1>3. ASSUME NEW I \in SUBSET D
      PROVE  IsFiniteSet(I) /\ Cardinality(I) \in Nat /\ Cardinality(I) + Cardinality(D \ I) = n
  <2>1. IsFiniteSet(I) /\ Cardinality(I) \in Nat
    BY <1>2, FS_Subset, FS_CardinalityType
  <2>2. Cardinality(D \ I) = Cardinality(D) - Cardinality(D \cap I)
    BY <1>2, FS_Difference
  <2>3. D \cap I = I
    OBVIOUS
  <2>4. Cardinality(D \ I) = n - Cardinality(I)
    BY <1>2, <2>2, <2>3
  <2> QED BY <1>1, <2>1, <2>4
<1> QED BY <1>1, <1>2, <1>3 DEF n, D

\* The values of a function on a finite set are no more than its members.
LEMMA ValuesFinite ==
  ASSUME NEW S, IsFiniteSet(S), NEW f, DOMAIN f = S
  PROVE  IsFiniteSet({f[i] : i \in S}) /\ Cardinality({f[i] : i \in S}) <= Cardinality(S)
<1> DEFINE T == {f[i] : i \in S}
           g == [i \in S |-> f[i]]
<1>1. g \in Surjection(S, T)
  BY DEF Surjection
<1> HIDE DEF T, g
<1>2. IsFiniteSet(T) /\ Cardinality(T) <= Cardinality(S)
  BY <1>1, FS_Surjection
<1> QED BY <1>2 DEF T

LEMMA ConcatNames ==
  ASSUME NEW p \in Seq(EventSet), NEW q \in Seq(EventSet)
  PROVE  /\ p \o q \in Seq(EventSet) /\ Len(p \o q) = Len(p) + Len(q)
         /\ Pipe!Names(p) \subseteq Pipe!Names(p \o q) /\ Pipe!Names(q) \subseteq Pipe!Names(p \o q)
<1> DEFINE r == p \o q
<1>1. r \in Seq(EventSet) /\ Len(r) = Len(p) + Len(q)
      /\ \A i \in 1 .. Len(p) + Len(q) : r[i] = IF i <= Len(p) THEN p[i] ELSE q[i - Len(p)]
  BY ConcatProperties
<1> HIDE DEF r
<1>2. Len(p) \in Nat /\ Len(q) \in Nat
  OBVIOUS
<1>3. \A i \in 1 .. Len(p) : NamesOf(p[i]) \subseteq Pipe!Names(r)
  <2> TAKE i \in 1 .. Len(p)
  <2>1. i \in 1 .. Len(r) /\ r[i] = p[i]
    BY <1>1, <1>2
  <2> QED BY <1>1, <2>1, NamesAre
<1>4. \A i \in 1 .. Len(q) : NamesOf(q[i]) \subseteq Pipe!Names(r)
  <2> TAKE i \in 1 .. Len(q)
  <2>1. i + Len(p) \in 1 .. Len(r) /\ i + Len(p) \in 1 .. Len(p) + Len(q)
        /\ ~(i + Len(p) <= Len(p)) /\ (i + Len(p)) - Len(p) = i
    BY <1>1, <1>2
  <2>2. r[i + Len(p)] = q[i]
    BY <1>1, <2>1
  <2> QED BY <1>1, <2>1, <2>2, NamesAre
<1>5. Pipe!Names(p) \subseteq Pipe!Names(r) /\ Pipe!Names(q) \subseteq Pipe!Names(r)
  BY <1>3, <1>4, NamesAre
<1> QED BY <1>1, <1>5 DEF r

-----------------------------------------------------------------------------
LEMMA GroupKeeps ==
  ASSUME NEW g \in Seq(EventSet), g # <<>>
  PROVE  Pipe!Group(g) \in EventSet /\ \A i \in 1 .. Len(g) : NamesOf(g[i]) \subseteq NamesOf(Pipe!Group(g))
<1> DEFINE m == Pipe!FoldLeft(Pipe!MergeEvents, Head(g), Tail(g))
           t == Head(g).ts
<1>1. m \in EventSet /\ \A i \in 1 .. Len(g) : NamesOf(g[i]) \subseteq NamesOf(m)
  BY MergedKeeps
<1>2. t \in Int
  <2>1. Head(g) \in EventSet
    OBVIOUS
  <2> QED BY <2>1 DEF EventSet
<1>3. Pipe!Group(g) = [m EXCEPT !.ts = t]
  BY DEF Pipe!Group
<1> HIDE DEF m, t
<1>4. [m EXCEPT !.ts = t] \in EventSet /\ NamesOf([m EXCEPT !.ts = t]) = NamesOf(m)
  BY <1>1, <1>2 DEF EventSet, NamesOf, Pipe!NamesOf
<1> QED BY <1>1, <1>3, <1>4

\* The group of the events at the positions I.
LEMMA GroupAt ==
  ASSUME NEW es \in Seq(EventSet), NEW I \in SUBSET DOMAIN es, I # {}
  PROVE  /\ Pipe!Group(Pipe!At(es, I)) \in EventSet
         /\ \A i \in I : NamesOf(es[i]) \subseteq NamesOf(Pipe!Group(Pipe!At(es, I)))
<1> DEFINE g == Pipe!At(es, I)
<1>1. g \in Seq(EventSet) /\ Lists(g, es, I)
  BY AtHas
<1> HIDE DEF g
<1>2. \A i \in I : \E k \in 1 .. Len(g) : g[k] = es[i]
  BY <1>1 DEF Lists
<1>3. g # <<>>
  <2>1. PICK i \in I : TRUE
    OBVIOUS
  <2>2. PICK k \in 1 .. Len(g) : g[k] = es[i]
    BY <1>2
  <2> QED BY <2>2
<1>4. Pipe!Group(g) \in EventSet /\ \A k \in 1 .. Len(g) : NamesOf(g[k]) \subseteq NamesOf(Pipe!Group(g))
  BY <1>1, <1>3, GroupKeeps
<1>5. \A i \in I : NamesOf(es[i]) \subseteq NamesOf(Pipe!Group(g))
  <2> TAKE i \in I
  <2>1. PICK k \in 1 .. Len(g) : g[k] = es[i]
    BY <1>2
  <2> QED BY <1>4, <2>1
<1> QED BY <1>4, <1>5 DEF g

LEMMA ByTagsKeeps ==
  ASSUME NEW c, NEW es \in Seq(EventSet)
  PROVE  Conserved(es, Pipe!ByTags(c, es))
<1> DEFINE D == DOMAIN es
           whole == {i \in D : c.by \subseteq DOMAIN es[i].tags}
           f == [i \in whole |-> Pipe!GroupKey(c, es[i])]
           keys == {f[i] : i \in whole}
           ks == Pipe!SetToSeq(keys)
           n == Cardinality(keys)
           of(x) == {i \in whole : f[i] = x}
           rest == {i \in D \ whole : ~es[i].bare}
           p == Pipe!At(es, rest)
           q == [k \in 1 .. n |-> Pipe!Group(Pipe!At(es, of(ks[k])))]
<1>1. Conserved(es, es)
  BY DEF Conserved
<1>2. Pipe!ByTags(c, es) = IF c.by = {} THEN es ELSE p \o q
  <2>1. {Pipe!GroupKey(c, es[i]) : i \in whole} = keys
    OBVIOUS
  <2>2. \A x : {i \in whole : Pipe!GroupKey(c, es[i]) = x} = of(x)
    OBVIOUS
  <2> HIDE DEF f, of, keys
  <2>3. Pipe!ByTags(c, es) =
          IF c.by = {} THEN es
          ELSE p \o [k \in 1 .. n |-> Pipe!Group(Pipe!At(es, {i \in whole : Pipe!GroupKey(c, es[i]) = ks[k]}))]
    BY <2>1, SameCardinality DEF Pipe!ByTags
  <2> HIDE DEF whole, p, ks, n
  <2> QED BY <2>2, <2>3
<1>3. whole \in SUBSET D /\ D = DOMAIN es /\ DOMAIN f = whole
  OBVIOUS
<1>4. /\ D = 1 .. Len(es) /\ Len(es) \in Nat /\ IsFiniteSet(whole) /\ Cardinality(whole) \in Nat
      /\ Cardinality(whole) + Cardinality(rest) <= Len(es) /\ Cardinality(rest) \in Nat
  <2> HIDE DEF whole
  <2>1. D \ whole \in SUBSET DOMAIN es
    OBVIOUS
  <2>2. /\ D = 1 .. Len(es) /\ Len(es) \in Nat /\ IsFiniteSet(whole) /\ Cardinality(whole) \in Nat
        /\ Cardinality(whole) + Cardinality(D \ whole) = Len(es) /\ IsFiniteSet(D \ whole) /\ Cardinality(D \ whole) \in Nat
    BY <1>3, <2>1, DomainFinite
  <2>3. Cardinality(rest) <= Cardinality(D \ whole) /\ Cardinality(rest) \in Nat
    BY <2>2, FS_Subset, FS_CardinalityType
  <2> QED BY <2>2, <2>3
<1>15. rest \in SUBSET DOMAIN es /\ \A i \in D \ whole : i \notin rest => NamesOf(es[i]) = {}
  BY DEF NamesOf, Pipe!NamesOf
<1> HIDE DEF whole, D, rest
<1>5. IsFiniteSet(keys) /\ n <= Cardinality(whole)
  <2> HIDE DEF f
  <2> QED BY <1>3, <1>4, ValuesFinite
<1>6. n \in Nat /\ ks \in [1 .. n -> keys] /\ \A x \in keys : \E k \in 1 .. n : ks[k] = x
  <2> HIDE DEF keys
  <2> QED BY <1>5, SeqOfSet
<1>7. p \in Seq(EventSet) /\ Len(p) = Cardinality(rest)
      /\ \A i \in D \ whole : NamesOf(es[i]) \subseteq Pipe!Names(p)
  <2>1. p \in Seq(EventSet) /\ Len(p) = Cardinality(rest) /\ Lists(p, es, rest)
    BY <1>15, AtHas
  <2> HIDE DEF p
  <2>2. \A i \in rest : NamesOf(es[i]) \subseteq Pipe!Names(p)
    BY <1>15, <2>1, ListsName
  <2> QED BY <1>15, <2>1, <2>2
<1>8. \A x \in keys : of(x) \in SUBSET DOMAIN es /\ of(x) # {}
  BY <1>3
<1>9. \A i \in whole : f[i] \in keys /\ i \in of(f[i])
  OBVIOUS
<1> HIDE DEF f, keys, ks, n, of, p
<1>10. \A k \in 1 .. n : /\ q[k] \in EventSet
                         /\ \A i \in of(ks[k]) : NamesOf(es[i]) \subseteq NamesOf(q[k])
  <2> TAKE k \in 1 .. n
  <2>1. of(ks[k]) \in SUBSET DOMAIN es /\ of(ks[k]) # {}
    BY <1>6, <1>8
  <2>2. q[k] = Pipe!Group(Pipe!At(es, of(ks[k])))
    OBVIOUS
  <2> HIDE DEF q
  <2> QED BY <2>1, <2>2, GroupAt
<1>11. q \in Seq(EventSet) /\ Len(q) = n
  BY <1>6, <1>10
<1> HIDE DEF q
<1>12. \A i \in whole : NamesOf(es[i]) \subseteq Pipe!Names(q)
  <2> TAKE i \in whole
  <2>1. PICK k \in 1 .. n : ks[k] = f[i]
    BY <1>6, <1>9
  <2>2. NamesOf(es[i]) \subseteq NamesOf(q[k])
    BY <1>9, <1>10, <2>1
  <2>3. NamesOf(q[k]) \subseteq Pipe!Names(q)
    BY <1>11, <2>1, NamesAre
  <2> QED BY <2>2, <2>3
<1> DEFINE r == p \o q
<1>13. r \in Seq(EventSet) /\ Len(r) = Len(p) + Len(q)
       /\ Pipe!Names(p) \subseteq Pipe!Names(r) /\ Pipe!Names(q) \subseteq Pipe!Names(r)
  BY <1>7, <1>11, ConcatNames
<1>14. Conserved(es, r)
  <2> HIDE DEF r
  <2>1. \A i \in 1 .. Len(es) : NamesOf(es[i]) \subseteq Pipe!Names(r)
    <3> TAKE i \in 1 .. Len(es)
    <3>1. i \in whole \/ i \in D \ whole
      BY <1>4
    <3> QED BY <1>7, <1>12, <1>13, <3>1
  <2>2. Pipe!Names(es) \subseteq Pipe!Names(r)
    BY <2>1, NamesAre
  <2>3. Len(r) <= Len(es)
    BY <1>4, <1>5, <1>6, <1>7, <1>11, <1>13
  <2> QED BY <1>13, <2>2, <2>3 DEF Conserved
<1> QED BY <1>1, <1>2, <1>14

LEMMA GroupByKeeps ==
  ASSUME NEW c, NEW es \in Seq(EventSet)
  PROVE  Conserved(es, Pipe!GroupBy(c, es))
<1> DEFINE D == DOMAIN es
           f == [i \in D |-> es[i].name]
           names == {es[i].name : i \in DOMAIN es}
           nm == Pipe!SetToSeq(names)
           n == Cardinality(names)
           of(x) == {i \in DOMAIN es : es[i].name = x}
           A == Seq(EventSet)
           base == <<>>
           part(k) == Pipe!ByTags(c, Pipe!At(es, of(nm[k])))
           Step(a, k) == Pipe!NameStep(c, es, a, nm[k])
           F == [p \in (1 .. n) \X A |-> Step(p[2], p[1])]
           Sol(q) == q = [s \in SUBSET (1 .. n) |-> IF s = {} THEN base ELSE Step(q[s \ {Top(s)}], Top(s))]
           g == CHOOSE q : Sol(q)
<1>a. D = 1 .. Len(es) /\ Len(es) \in Nat /\ IsFiniteSet(D) /\ Cardinality(D) = Len(es) /\ DOMAIN f = D
  BY DomainFinite
<1>b. IsFiniteSet(names) /\ n <= Len(es)
  <2>1. names = {f[i] : i \in D}
    OBVIOUS
  <2> HIDE DEF f, D, names
  <2> QED BY <1>a, <2>1, ValuesFinite
<1>c. n \in Nat /\ nm \in [1 .. n -> names] /\ \A x \in names : \E k \in 1 .. n : nm[k] = x
  <2> HIDE DEF names
  <2> QED BY <1>b, SeqOfSet
<1>d. \A i \in D : f[i] = es[i].name /\ f[i] \in names
  OBVIOUS
<1>e. \A x : of(x) \in SUBSET DOMAIN es
  OBVIOUS
<1>1. n \in Nat /\ DOMAIN nm = 1 .. n /\ base \in A
  BY <1>c
<1>2. ASSUME NEW k \in 1 .. n
      PROVE  /\ part(k) \in A /\ (Len(es) <= 1 => Len(part(k)) <= 1)
             /\ \A i \in of(nm[k]) : NamesOf(es[i]) \subseteq Pipe!Names(part(k))
  <2> DEFINE I == of(nm[k])
             q == Pipe!At(es, I)
  <2>1. I \in SUBSET DOMAIN es
    BY <1>e
  <2> HIDE DEF I
  <2>2. q \in Seq(EventSet) /\ Len(q) = Cardinality(I) /\ Lists(q, es, I)
    BY <2>1, AtHas
  <2>3. Cardinality(I) \in Nat /\ Cardinality(I) <= Len(es)
    <3>1. /\ Cardinality(I) \in Nat /\ Cardinality(DOMAIN es \ I) \in Nat
          /\ Cardinality(I) + Cardinality(DOMAIN es \ I) = Len(es)
      <4>1. DOMAIN es \ I \in SUBSET DOMAIN es
        OBVIOUS
      <4> QED BY <2>1, <4>1, DomainFinite
    <3> QED BY <1>a, <3>1
  <2> HIDE DEF q
  <2>4. Conserved(q, Pipe!ByTags(c, q))
    BY <2>2, ByTagsKeeps
  <2>5. Pipe!ByTags(c, q) = part(k)
    BY DEF q, I
  <2> HIDE DEF part
  <2>6. part(k) \in Seq(EventSet) /\ Pipe!Names(q) \subseteq Pipe!Names(part(k)) /\ (Len(q) <= 1 => Len(part(k)) <= Len(q))
    BY <2>4, <2>5 DEF Conserved
  <2>7. Len(es) <= 1 => Len(part(k)) <= 1
    <3>1. Len(part(k)) \in Nat
      BY <2>6
    <3> QED BY <1>a, <2>2, <2>3, <2>6, <3>1
  <2>8. \A i \in I : NamesOf(es[i]) \subseteq Pipe!Names(q)
    BY <2>2, ListsName
  <2> QED BY <2>6, <2>7, <2>8 DEF I
<1>3. \A a \in A : \A k \in 1 .. n : Step(a, k) \in A
  <2>1. \A a : \A k \in 1 .. n : Step(a, k) = a \o part(k)
    BY DEF Pipe!NameStep
  <2> HIDE DEF part, Step, n, nm, D, f, names, of
  <2> SUFFICES ASSUME NEW a \in A, NEW k \in 1 .. n PROVE Step(a, k) \in A
    OBVIOUS
  <2> DEFINE q == part(k)
  <2>2. q \in Seq(EventSet) /\ a \in Seq(EventSet)
    BY <1>2
  <2> HIDE DEF q
  <2>3. a \o q \in Seq(EventSet)
    BY <2>2, ConcatProperties
  <2> QED BY <2>1, <2>3 DEF q
<1>4. Pipe!GroupBy(c, es) = IF ~c.byName THEN Pipe!ByTags(c, es) ELSE g[1 .. n]
  <2> HIDE DEF names, n
  <2>1. Pipe!GroupBy(c, es) = IF ~c.byName THEN Pipe!ByTags(c, es)
        ELSE Pipe!FoldLeft(LAMBDA acc, x : Pipe!NameStep(c, es, acc, x), <<>>, nm)
    BY DEF Pipe!GroupBy, names, Pipe!FoldLeft, Pipe!MapThenFoldSet
  <2> HIDE DEF nm
  <2>2. Pipe!FoldLeft(LAMBDA acc, x : Pipe!NameStep(c, es, acc, x), <<>>, nm) = g[1 .. n]
    BY <1>1 DEF base, Pipe!FoldLeft, Pipe!MapThenFoldSet, Pipe!Max, Top
  <2> QED BY <2>1, <2>2 DEF Pipe!FoldLeft, Pipe!MapThenFoldSet
<1>D. D = DOMAIN es
  OBVIOUS
<1> HIDE DEF n, A, base, Step, nm, of, names, f, D
<1>5. F \in [(1 .. n) \X A -> A]
  BY <1>3
<1>6. \E h : Sol(h)
  <2>1. PICK h : Solves(h, n, A, base, F)
    <3> HIDE DEF F
    <3> QED BY <1>1, <1>1, <1>5, FoldExists
  <2>2. h \in [SUBSET (1 .. n) -> A] /\ h[{}] = base
    BY <2>1 DEF Solves
  <2>3. \A s \in SUBSET (1 .. n) : s # {} => h[s] = F[<<Top(s), h[s \ {Top(s)}]>>]
    <3> HIDE DEF F
    <3> QED BY <2>1 DEF Solves
  <2>4. \A s \in SUBSET (1 .. n) : s # {} => Top(s) \in 1 .. n /\ h[s \ {Top(s)}] \in A
    BY <1>1, <2>2, TopIn
  <2>5. \A s \in SUBSET (1 .. n) : s # {} => h[s] = Step(h[s \ {Top(s)}], Top(s))
    BY <2>3, <2>4
  <2> HIDE DEF F
  <2>6. Sol(h)
    BY <2>2, <2>5
  <2> QED BY <2>6
<1>7. Sol(g)
  BY <1>6
<1> HIDE DEF g
<1>8. g[1 .. 0] = base
  <2>1. 1 .. 0 = {}
    OBVIOUS
  <2> QED BY <1>7, <2>1
<1>9. \A k \in 1 .. n : g[1 .. k] = Step(g[1 .. k - 1], k)
  <2> TAKE k \in 1 .. n
  <2>1. 1 .. k \in SUBSET (1 .. n) /\ 1 .. k # {} /\ Top(1 .. k) = k /\ (1 .. k) \ {k} = 1 .. k - 1
    BY <1>1, TopOfInterval
  <2> QED BY <1>7, <2>1
<1> DEFINE W == {k \in 0 .. n : /\ g[1 .. k] \in Seq(EventSet) /\ (Len(es) <= 1 => Len(g[1 .. k]) <= k)
                                /\ \A j \in 1 .. k : \A i \in of(nm[j]) : NamesOf(es[i]) \subseteq Pipe!Names(g[1 .. k])}
<1>10. 0 \in W
  <2>1. g[1 .. 0] = <<>>
    BY <1>8 DEF base
  <2>2. <<>> \in Seq(EventSet) /\ Len(<<>>) <= 0 /\ 0 \in 0 .. n /\ \A i \in 1 .. 0 : FALSE
    BY <1>1
  <2> QED BY <2>1, <2>2
<1>11. ASSUME NEW k \in 1 .. n, k - 1 \in W PROVE k \in W
  <2> DEFINE a == g[1 .. k - 1]
             b == g[1 .. k]
             q == part(k)
  <2>1. a \in Seq(EventSet) /\ (Len(es) <= 1 => Len(a) <= k - 1)
        /\ \A j \in 1 .. k - 1 : \A i \in of(nm[j]) : NamesOf(es[i]) \subseteq Pipe!Names(a)
    BY <1>11
  <2>2. b = a \o q
    BY <1>9 DEF Step, part, of, Pipe!NameStep
  <2>3. q \in Seq(EventSet) /\ (Len(es) <= 1 => Len(q) <= 1)
        /\ \A i \in of(nm[k]) : NamesOf(es[i]) \subseteq Pipe!Names(q)
    BY <1>2 DEF A
  <2> HIDE DEF a, b, q
  <2>4. b \in Seq(EventSet) /\ Len(b) = Len(a) + Len(q) /\ Pipe!Names(a) \subseteq Pipe!Names(b)
        /\ Pipe!Names(q) \subseteq Pipe!Names(b)
    BY <2>1, <2>2, <2>3, ConcatNames
  <2>5. \A j \in 1 .. k : \A i \in of(nm[j]) : NamesOf(es[i]) \subseteq Pipe!Names(b)
    <3>1. \A j \in 1 .. k : j \in 1 .. k - 1 \/ j = k
      BY <1>1
    <3> QED BY <2>1, <2>3, <2>4, <3>1
  <2>6. (Len(es) <= 1 => Len(b) <= k) /\ k \in 0 .. n
    <3>1. Len(a) \in Nat /\ Len(q) \in Nat
      BY <2>1, <2>3
    <3> QED BY <1>1, <2>1, <2>3, <2>4, <3>1
  <2> QED BY <2>4, <2>5, <2>6 DEF b
<1> HIDE DEF W
<1>12. n \in W
  BY <1>1, <1>10, <1>11, FoldReaches
<1>13. Conserved(es, g[1 .. n])
  <2> DEFINE r == g[1 .. n]
  <2>1. r \in Seq(EventSet) /\ (Len(es) <= 1 => Len(r) <= n)
        /\ \A j \in 1 .. n : \A i \in of(nm[j]) : NamesOf(es[i]) \subseteq Pipe!Names(r)
    BY <1>12 DEF W
  <2> HIDE DEF r
  <2>2. \A i \in 1 .. Len(es) : NamesOf(es[i]) \subseteq Pipe!Names(r)
    <3> TAKE i \in 1 .. Len(es)
    <3>1. f[i] \in names /\ i \in D /\ D = DOMAIN es /\ f[i] = es[i].name
      BY <1>a, <1>d, <1>D
    <3>2. PICK j \in 1 .. n : nm[j] = f[i]
      BY <1>c, <3>1
    <3>3. i \in of(nm[j])
      BY <3>1, <3>2 DEF of
    <3> QED BY <2>1, <3>3
  <2>3. Pipe!Names(es) \subseteq Pipe!Names(r)
    BY <2>2, NamesAre
  <2>4. Len(es) <= 1 => Len(r) <= Len(es)
    <3>1. Len(r) \in Nat
      BY <2>1
    <3> QED BY <1>a, <1>b, <1>1, <2>1, <3>1
  <2> QED BY <2>1, <2>3, <2>4 DEF Conserved, r
<1>14. Conserved(es, Pipe!ByTags(c, es))
  BY ByTagsKeeps
<1> QED BY <1>4, <1>13, <1>14

\* A tag added, or not, names what was there.
LEMMA AddTagKeeps ==
  ASSUME NEW c, c.add \in Maps(Texts), NEW es \in Seq(EventSet)
  PROVE  Conserved(es, Pipe!AddTag(c, es))
<1> DEFINE r == Pipe!AddTag(c, es)
           n == Len(es)
<1>1. n \in Nat /\ DOMAIN es = 1 .. n /\ \A i \in 1 .. n : es[i] \in EventSet
  OBVIOUS
<1>2. ASSUME NEW e \in EventSet
      PROVE  Pipe!AddTags(c, e) \in EventSet /\ NamesOf(e) \subseteq NamesOf(Pipe!AddTags(c, e))
  <2> DEFINE t == IF c.overwrite THEN Pipe!Over(c.add, e.tags) ELSE Pipe!Over(e.tags, c.add)
             a == [e EXCEPT !.tags = t, !.bare = FALSE]
  <2>1. e.tags \in Maps(Texts)
    BY DEF EventSet
  <2>2. t \in Maps(Texts)
    BY <2>1, MapsOver
  <2>3. Pipe!AddTags(c, e) = a
    BY DEF Pipe!AddTags
  <2> HIDE DEF t
  <2>4. a \in EventSet /\ a.vals = e.vals /\ a.dels = e.dels /\ a.bare = FALSE
    BY <2>2 DEF EventSet
  <2> HIDE DEF a
  <2> QED BY <2>3, <2>4 DEF NamesOf, Pipe!NamesOf
<1>3. DOMAIN r = 1 .. n /\ r = [i \in 1 .. n |-> r[i]] /\ \A i \in 1 .. n : r[i] \in {es[i], Pipe!AddTags(c, es[i])}
  BY <1>1 DEF Pipe!AddTag, Pipe!Map
<1> HIDE DEF r, n
<1>4. \A i \in 1 .. n : r[i] \in EventSet /\ NamesOf(es[i]) \subseteq NamesOf(r[i])
  BY <1>1, <1>2, <1>3
<1>5. r \in Seq(EventSet) /\ Len(r) = n
  <2>1. r \in [1 .. n -> EventSet]
    BY <1>3, <1>4
  <2> QED BY <1>1, <2>1
<1>6. \A i \in 1 .. n : NamesOf(es[i]) \subseteq Pipe!Names(r)
  BY <1>4, <1>5, NamesAre
<1>7. Pipe!Names(es) \subseteq Pipe!Names(r)
  BY <1>6, NamesAre DEF n
<1> QED BY <1>5, <1>7 DEF Conserved, r, n

\* A configured processor that rearranges events, and a chain of them.
ProcOk(p) == p.kind \in Pipe!Rearranging /\ (p.kind = "event-add-tag" => MapTo(p.add, Texts))

LEMMA ApplyKeeps ==
  ASSUME NEW p, ProcOk(p), NEW es \in Seq(EventSet)
  PROVE  Conserved(es, Pipe!Apply(p, es))
<1>1. Conserved(es, es)
  BY DEF Conserved
<1>2. Conserved(es, Pipe!Merge(p, es)) /\ Conserved(es, Pipe!GroupBy(p, es))
  BY MergeKeeps, GroupByKeeps
<1>3. CASE p.kind = "event-merge"
  <2>1. Pipe!Apply(p, es) = Pipe!Merge(p, es)
    BY <1>3 DEF Pipe!Apply
  <2> QED BY <1>2, <2>1
<1>4. CASE p.kind = "event-group-by"
  <2>1. Pipe!Apply(p, es) = Pipe!GroupBy(p, es)
    BY <1>4 DEF Pipe!Apply
  <2> QED BY <1>2, <2>1
<1>5. CASE p.kind = "event-add-tag"
  <2>1. Pipe!Apply(p, es) = Pipe!AddTag(p, es)
    BY <1>5 DEF Pipe!Apply
  <2>2. p.add \in Maps(Texts)
    BY <1>5, MapsTo DEF ProcOk
  <2> QED BY <2>1, <2>2, AddTagKeeps
<1>6. CASE p.kind = "event-combine"
  <2>1. Pipe!Apply(p, es) = es
    BY <1>6 DEF Pipe!Apply
  <2> QED BY <1>1, <2>1
<1> QED BY <1>3, <1>4, <1>5, <1>6 DEF ProcOk, Pipe!Rearranging

LEMMA ConservedTwice ==
  ASSUME NEW a, NEW b, NEW c, Len(a) \in Nat, Conserved(a, b), Conserved(b, c)
  PROVE  Conserved(a, c)
<1>1. Len(b) \in Nat /\ Len(c) \in Nat
  BY DEF Conserved
<1> QED BY <1>1 DEF Conserved

LEMMA CombineStepKeeps ==
  ASSUME NEW p, ProcOk(p.proc), NEW es \in Seq(EventSet)
  PROVE  Conserved(es, Pipe!CombineStep(Pipe!Apply, es, p))
<1> DEFINE D == DOMAIN es
           in == {i \in D : Pipe!Cond(p.cond, es[i]) = "true"}
           a == Pipe!At(es, in)
           b == Pipe!At(es, D \ in)
           d == Pipe!Apply(p.proc, a)
           r == d \o b
           z == Pipe!SortByTime(r)
<1>1. Pipe!CombineStep(Pipe!Apply, es, p) = z
  BY DEF Pipe!CombineStep
<1>2. in \in SUBSET D /\ D \ in \in SUBSET D /\ D = DOMAIN es
  OBVIOUS
<1> HIDE DEF in, D
<1>3. /\ D = 1 .. Len(es) /\ Len(es) \in Nat /\ Cardinality(in) \in Nat /\ Cardinality(D \ in) \in Nat
      /\ Cardinality(in) + Cardinality(D \ in) = Len(es)
  BY <1>2, DomainFinite
<1>4. /\ a \in Seq(EventSet) /\ Len(a) = Cardinality(in) /\ Lists(a, es, in)
      /\ b \in Seq(EventSet) /\ Len(b) = Cardinality(D \ in) /\ Lists(b, es, D \ in)
  BY <1>2, AtHas
<1> HIDE DEF a, b
<1>5. Conserved(a, d)
  BY <1>4, ApplyKeeps
<1>6. d \in Seq(EventSet) /\ Pipe!Names(a) \subseteq Pipe!Names(d) /\ (Len(a) <= 1 => Len(d) <= Len(a))
  BY <1>5 DEF Conserved
<1> HIDE DEF d
<1>7. r \in Seq(EventSet) /\ Len(r) = Len(d) + Len(b)
      /\ Pipe!Names(d) \subseteq Pipe!Names(r) /\ Pipe!Names(b) \subseteq Pipe!Names(r)
  BY <1>4, <1>6, ConcatNames
<1> HIDE DEF r
<1>8. z \in Seq(EventSet) /\ Len(z) = Len(r) /\ Lists(z, r, DOMAIN r)
  BY <1>7, SortHas
<1> HIDE DEF z
<1>9. Pipe!Names(r) \subseteq Pipe!Names(z)
  <2>1. DOMAIN r = 1 .. Len(r)
    BY <1>7
  <2>2. \A i \in 1 .. Len(r) : NamesOf(r[i]) \subseteq Pipe!Names(z)
    BY <1>8, <2>1, ListsName
  <2> QED BY <1>7, <2>2, NamesAre
<1>10. (\A i \in in : NamesOf(es[i]) \subseteq Pipe!Names(a)) /\ \A i \in D \ in : NamesOf(es[i]) \subseteq Pipe!Names(b)
  BY <1>4, ListsName
<1>11. \A i \in 1 .. Len(es) : NamesOf(es[i]) \subseteq Pipe!Names(z)
  <2> TAKE i \in 1 .. Len(es)
  <2>1. i \in in \/ i \in D \ in
    BY <1>3
  <2> QED BY <1>6, <1>7, <1>9, <1>10, <2>1
<1>12. Pipe!Names(es) \subseteq Pipe!Names(z)
  BY <1>11, NamesAre
<1>13. Len(es) <= 1 => Len(z) <= Len(es)
  <2>1. Len(d) \in Nat
    BY <1>6
  <2> QED BY <1>3, <1>4, <1>6, <1>7, <1>8, <2>1
<1> QED BY <1>1, <1>8, <1>12, <1>13 DEF Conserved

LEMMA CombineKeeps ==
  ASSUME NEW c, IsSeq(c.procs), \A j \in DOMAIN c.procs : ProcOk(c.procs[j].proc),
         NEW es \in Seq(EventSet)
  PROVE  Conserved(es, Pipe!Combine(c, es))
<1> DEFINE ps == c.procs
           n == Len(ps)
           A == {r \in Seq(EventSet) : Conserved(es, r)}
           base == es
           Step(a, k) == Pipe!CombineStep(Pipe!Apply, a, ps[k])
           F == [p \in (1 .. n) \X A |-> Step(p[2], p[1])]
           Sol(q) == q = [s \in SUBSET (1 .. n) |-> IF s = {} THEN base ELSE Step(q[s \ {Top(s)}], Top(s))]
           g == CHOOSE q : Sol(q)
<1>1. n \in Nat /\ DOMAIN ps = 1 .. n /\ base \in A
  BY DEF Conserved, IsSeq
<1>2. \A a \in A : \A k \in 1 .. n : Step(a, k) \in A
  <2> SUFFICES ASSUME NEW a \in A, NEW k \in 1 .. n PROVE Step(a, k) \in A
    OBVIOUS
  <2>1. Conserved(a, Step(a, k))
    BY <1>1, CombineStepKeeps
  <2> HIDE DEF Step
  <2>2. Conserved(es, Step(a, k))
    <3>1. Len(es) \in Nat
      OBVIOUS
    <3> QED BY <2>1, <3>1, ConservedTwice
  <2> QED BY <2>2 DEF Conserved
<1>3. Pipe!Combine(c, es) = g[1 .. n]
  BY <1>1 DEF base, Pipe!Combine, Pipe!FoldLeft, Pipe!MapThenFoldSet, Pipe!Max, Top
<1> HIDE DEF n, A, base, Step, ps
<1>4. F \in [(1 .. n) \X A -> A]
  BY <1>2
<1>5. \E h : Sol(h)
  <2>1. PICK h : Solves(h, n, A, base, F)
    <3> HIDE DEF F
    <3> QED BY <1>1, <1>1, <1>4, FoldExists
  <2>2. h \in [SUBSET (1 .. n) -> A] /\ h[{}] = base
    BY <2>1 DEF Solves
  <2>3. \A s \in SUBSET (1 .. n) : s # {} => h[s] = F[<<Top(s), h[s \ {Top(s)}]>>]
    <3> HIDE DEF F
    <3> QED BY <2>1 DEF Solves
  <2>4. \A s \in SUBSET (1 .. n) : s # {} => Top(s) \in 1 .. n /\ h[s \ {Top(s)}] \in A
    BY <1>1, <2>2, TopIn
  <2>5. \A s \in SUBSET (1 .. n) : s # {} => h[s] = Step(h[s \ {Top(s)}], Top(s))
    BY <2>3, <2>4
  <2> HIDE DEF F
  <2>6. Sol(h)
    BY <2>2, <2>5
  <2> QED BY <2>6
<1>6. Sol(g)
  BY <1>5
<1> HIDE DEF g
<1>7. g[1 .. 0] = base
  <2>1. 1 .. 0 = {}
    OBVIOUS
  <2> QED BY <1>6, <2>1
<1>8. \A k \in 1 .. n : g[1 .. k] = Step(g[1 .. k - 1], k)
  <2> TAKE k \in 1 .. n
  <2>1. 1 .. k \in SUBSET (1 .. n) /\ 1 .. k # {} /\ Top(1 .. k) = k /\ (1 .. k) \ {k} = 1 .. k - 1
    BY <1>1, TopOfInterval
  <2> QED BY <1>6, <2>1
<1>9. g[1 .. n] \in A
  <2>1. g[{}] \in A
    BY <1>1, <1>6
  <2>2. \A k \in 1 .. n : g[1 .. k - 1] \in A => g[1 .. k] \in A
    BY <1>2, <1>8
  <2> QED BY <1>1, <2>1, <2>2, FoldKeeps
<1> QED BY <1>3, <1>9 DEF A

StepOk(p) ==
  ProcOk(p) /\ (p.kind = "event-combine" => IsSeq(p.procs) /\ \A j \in DOMAIN p.procs : ProcOk(p.procs[j].proc))
ChainOk(ps) == IsSeq(ps) /\ \A i \in DOMAIN ps : StepOk(ps[i])

LEMMA StepKeeps ==
  ASSUME NEW p, StepOk(p), NEW es \in Seq(EventSet), NEW m, NEW time
  PROVE  LET r == Pipe!RunStep([es |-> es, mem |-> m], p, time)
         IN r = [es |-> r.es, mem |-> m] /\ Conserved(es, r.es)
<1> DEFINE acc == [es |-> es, mem |-> m]
           r == Pipe!RunStep(acc, p, time)
           z == IF p.kind = "event-combine" THEN Pipe!Combine(p, es) ELSE Pipe!Apply(p, es)
<1>1. p.kind \in Pipe!Rearranging /\ ProcOk(p)
  BY DEF StepOk, ProcOk
<1>2. r = [acc EXCEPT !.es = z]
  BY <1>1 DEF Pipe!RunStep, Pipe!Rearranging
<1>3. Conserved(es, z)
  <2>1. CASE p.kind = "event-combine"
    <3>1. IsSeq(p.procs) /\ \A j \in DOMAIN p.procs : ProcOk(p.procs[j].proc)
      BY <2>1 DEF StepOk
    <3>2. Conserved(es, Pipe!Combine(p, es))
      BY <3>1, CombineKeeps
    <3> QED BY <2>1, <3>2
  <2>2. CASE p.kind # "event-combine"
    <3>1. Conserved(es, Pipe!Apply(p, es))
      BY <1>1, ApplyKeeps
    <3> QED BY <2>2, <3>1
  <2> QED BY <2>1, <2>2
<1> HIDE DEF z
<1>4. [acc EXCEPT !.es = z] = [es |-> z, mem |-> m]
  OBVIOUS
<1> HIDE DEF acc, r
<1>5. r = [es |-> r.es, mem |-> m] /\ r.es = z
  BY <1>2, <1>4
<1> QED BY <1>3, <1>5 DEF r, acc

\* A chain on a response's events.
LEMMA ChainKeeps ==
  ASSUME NEW ps, ChainOk(ps), NEW es \in Seq(EventSet), NEW m, NEW time
  PROVE  Conserved(es, Pipe!RunChain(ps, m, es, time).es)
<1> DEFINE n == Len(ps)
           A == {a \in [es : Seq(EventSet), mem : {m}] : Conserved(es, a.es)}
           base == [es |-> es, mem |-> m]
           Step(a, k) == Pipe!RunStep(a, ps[k], time)
           F == [p \in (1 .. n) \X A |-> Step(p[2], p[1])]
           Sol(q) == q = [s \in SUBSET (1 .. n) |-> IF s = {} THEN base ELSE Step(q[s \ {Top(s)}], Top(s))]
           g == CHOOSE q : Sol(q)
<1>1. n \in Nat /\ DOMAIN ps = 1 .. n /\ base \in A /\ \A k \in 1 .. n : StepOk(ps[k])
  <2>1. n \in Nat /\ DOMAIN ps = 1 .. n
    BY DEF ChainOk, IsSeq
  <2>2. base \in A
    BY DEF Conserved
  <2> HIDE DEF n, base, A
  <2> QED BY <2>1, <2>2 DEF ChainOk
<1>2. \A a \in A : \A k \in 1 .. n : Step(a, k) \in A
  <2> SUFFICES ASSUME NEW a \in A, NEW k \in 1 .. n PROVE Step(a, k) \in A
    OBVIOUS
  <2> DEFINE r == Step(a, k)
  <2>1. a = [es |-> a.es, mem |-> m] /\ a.es \in Seq(EventSet) /\ Conserved(es, a.es)
    OBVIOUS
  <2>2. StepOk(ps[k])
    BY <1>1
  <2>3. r = [es |-> r.es, mem |-> m] /\ Conserved(a.es, r.es)
    <3> DEFINE q == Pipe!RunStep([es |-> a.es, mem |-> m], ps[k], time)
    <3>1. q = [es |-> q.es, mem |-> m] /\ Conserved(a.es, q.es)
      BY <2>1, <2>2, StepKeeps
    <3>2. r = q
      BY <2>1
    <3> HIDE DEF q, r
    <3> QED BY <3>1, <3>2
  <2> HIDE DEF r
  <2>4. Conserved(es, r.es)
    <3>1. Len(es) \in Nat
      OBVIOUS
    <3> QED BY <2>1, <2>3, <3>1, ConservedTwice
  <2>5. r.es \in Seq(EventSet)
    BY <2>4 DEF Conserved
  <2>6. r \in A
    BY <2>3, <2>4, <2>5
  <2> QED BY <2>6 DEF r
<1>3. Pipe!RunChain(ps, m, es, time) = g[1 .. n]
  BY <1>1 DEF base, Pipe!RunChain, Pipe!FoldLeft, Pipe!MapThenFoldSet, Pipe!Max, Top
<1> HIDE DEF n, A, base, Step
<1>4. F \in [(1 .. n) \X A -> A]
  BY <1>2
<1>5. \E h : Sol(h)
  <2>1. PICK h : Solves(h, n, A, base, F)
    <3> HIDE DEF F
    <3> QED BY <1>1, <1>1, <1>4, FoldExists
  <2>2. h \in [SUBSET (1 .. n) -> A] /\ h[{}] = base
    BY <2>1 DEF Solves
  <2>3. \A s \in SUBSET (1 .. n) : s # {} => h[s] = F[<<Top(s), h[s \ {Top(s)}]>>]
    <3> HIDE DEF F
    <3> QED BY <2>1 DEF Solves
  <2>4. \A s \in SUBSET (1 .. n) : s # {} => Top(s) \in 1 .. n /\ h[s \ {Top(s)}] \in A
    BY <1>1, <2>2, TopIn
  <2>5. \A s \in SUBSET (1 .. n) : s # {} => h[s] = Step(h[s \ {Top(s)}], Top(s))
    BY <2>3, <2>4
  <2> HIDE DEF F
  <2>6. Sol(h)
    BY <2>2, <2>5
  <2> QED BY <2>6
<1>6. Sol(g)
  BY <1>5
<1> HIDE DEF g
<1>7. g[1 .. 0] = base
  <2>1. 1 .. 0 = {}
    OBVIOUS
  <2> QED BY <1>6, <2>1
<1>8. \A k \in 1 .. n : g[1 .. k] = Step(g[1 .. k - 1], k)
  <2> TAKE k \in 1 .. n
  <2>1. 1 .. k \in SUBSET (1 .. n) /\ 1 .. k # {} /\ Top(1 .. k) = k /\ (1 .. k) \ {k} = 1 .. k - 1
    BY <1>1, TopOfInterval
  <2> QED BY <1>6, <2>1
<1>9. g[1 .. n] \in A
  <2>1. g[{}] \in A
    BY <1>1, <1>6
  <2>2. \A k \in 1 .. n : g[1 .. k - 1] \in A => g[1 .. k] \in A
    BY <1>2, <1>8
  <2> QED BY <1>1, <2>1, <2>2, FoldKeeps
<1> QED BY <1>3, <1>9 DEF A

-----------------------------------------------------------------------------
\* A chain on an event that others may hold: what it returns names all the event does, and so
\* does what is left at the pointer.
LEMMA OnlyName ==
  ASSUME NEW es \in Seq(EventSet), es # <<>>, Len(es) <= 1
  PROVE  es[1] \in EventSet /\ Pipe!Names(es) = NamesOf(es[1])
<1> DEFINE n == Len(es)
<1>1. n \in Nat /\ n # 0 /\ n <= 1
  BY EmptySeq
<1> HIDE DEF n
<1>2. n = 1
  BY <1>1
<1> USE DEF n
<1>3. 1 \in 1 .. Len(es) /\ es[1] \in EventSet /\ \A i \in 1 .. Len(es) : i = 1
  BY <1>2
<1>4. Pipe!Names(es) \subseteq NamesOf(es[1]) /\ NamesOf(es[1]) \subseteq Pipe!Names(es)
  BY <1>3, NamesAre
<1> QED BY <1>3, <1>4

LEMMA OneName == ASSUME NEW e \in EventSet PROVE <<e>> \in Seq(EventSet) /\ Pipe!Names(<<e>>) = NamesOf(e)
<1> DEFINE es == <<e>>
<1>1. es \in Seq(EventSet) /\ es # <<>> /\ Len(es) <= 1 /\ es[1] = e
  OBVIOUS
<1> HIDE DEF es
<1>2. Pipe!Names(es) = NamesOf(es[1])
  BY <1>1, OnlyName
<1> QED BY <1>1, <1>2 DEF es

PointerAccs(m, e) ==
  {a \in [es : Seq(EventSet), mem : {m}, obj : EventSet, same : BOOLEAN] :
     Conserved(<<e>>, a.es) /\ NamesOf(e) \subseteq NamesOf(a.obj)}

LEMMA PointerStepKeeps ==
  ASSUME NEW p, StepOk(p), NEW m, NEW e \in EventSet, NEW a \in PointerAccs(m, e)
  PROVE  Pipe!PointerStep(a, p) \in PointerAccs(m, e)
<1> DEFINE r == Pipe!RunStep([es |-> a.es, mem |-> a.mem], p, Pipe!Now)
           ob == IF a.same /\ a.es # <<>> THEN Pipe!Touched(p, a.obj, r.es) ELSE a.obj
           sm == a.same /\ p.kind \notin Pipe!NewEvents
           z == [es |-> r.es, mem |-> r.mem, obj |-> ob, same |-> sm]
<1>1. /\ a.es \in Seq(EventSet) /\ a.mem = m /\ a.obj \in EventSet /\ a.same \in BOOLEAN
      /\ Conserved(<<e>>, a.es) /\ NamesOf(e) \subseteq NamesOf(a.obj)
  BY DEF PointerAccs
<1>2. Pipe!PointerStep(a, p) = z
  BY DEF Pipe!PointerStep, Pipe!Pointed
<1>3. r = [es |-> r.es, mem |-> m] /\ Conserved(a.es, r.es)
  BY <1>1, StepKeeps
<1>4. p.kind # "event-keep"
  BY DEF StepOk, ProcOk, Pipe!Rearranging
<1> HIDE DEF r
<1>5. <<e>> \in Seq(EventSet) /\ Pipe!Names(<<e>>) = NamesOf(e) /\ Len(<<e>>) = 1
  BY OneName
<1>6. Conserved(<<e>>, r.es)
  BY <1>1, <1>3, <1>5, ConservedTwice
<1>7. r.es \in Seq(EventSet) /\ NamesOf(e) \subseteq Pipe!Names(r.es) /\ Len(r.es) <= 1 /\ r.mem = m
  BY <1>3, <1>5, <1>6 DEF Conserved
<1>8. r.es # <<>> => r.es[1] \in EventSet /\ NamesOf(e) \subseteq NamesOf(r.es[1])
  <2> SUFFICES ASSUME r.es # <<>> PROVE r.es[1] \in EventSet /\ NamesOf(e) \subseteq NamesOf(r.es[1])
    OBVIOUS
  <2>1. r.es[1] \in EventSet /\ Pipe!Names(r.es) = NamesOf(r.es[1])
    BY <1>7, OnlyName
  <2> QED BY <1>7, <2>1
<1>9. ob = a.obj \/ (r.es # <<>> /\ ob = r.es[1])
  BY <1>4 DEF Pipe!Touched
<1>10. ob \in EventSet /\ NamesOf(e) \subseteq NamesOf(ob)
  BY <1>1, <1>8, <1>9
<1>11. sm \in BOOLEAN
  BY <1>1
<1> HIDE DEF ob, sm
<1>12. z \in PointerAccs(m, e)
  BY <1>6, <1>7, <1>10, <1>11 DEF PointerAccs
<1> QED BY <1>2, <1>12

LEMMA PointerKeeps ==
  ASSUME NEW ps, ChainOk(ps), NEW m, NEW e \in EventSet
  PROVE  Pipe!OnPointer(ps, m, e) \in PointerAccs(m, e)
<1> DEFINE n == Len(ps)
           A == PointerAccs(m, e)
           base == [es |-> <<e>>, mem |-> m, obj |-> e, same |-> TRUE]
           Step(a, k) == Pipe!PointerStep(a, ps[k])
           F == [p \in (1 .. n) \X A |-> Step(p[2], p[1])]
           Sol(q) == q = [s \in SUBSET (1 .. n) |-> IF s = {} THEN base ELSE Step(q[s \ {Top(s)}], Top(s))]
           g == CHOOSE q : Sol(q)
<1>1. n \in Nat /\ DOMAIN ps = 1 .. n /\ base \in A /\ \A k \in 1 .. n : StepOk(ps[k])
  <2>1. n \in Nat /\ DOMAIN ps = 1 .. n
    BY DEF ChainOk, IsSeq
  <2>2. base \in A
    <3>1. <<e>> \in Seq(EventSet) /\ Conserved(<<e>>, <<e>>)
      BY OneName DEF Conserved
    <3> QED BY <3>1 DEF PointerAccs
  <2> HIDE DEF n, base, A
  <2> QED BY <2>1, <2>2 DEF ChainOk
<1>2. \A a \in A : \A k \in 1 .. n : Step(a, k) \in A
  BY <1>1, PointerStepKeeps
<1>3. Pipe!OnPointer(ps, m, e) = g[1 .. n]
  BY <1>1 DEF base, Pipe!OnPointer, Pipe!FoldLeft, Pipe!MapThenFoldSet, Pipe!Max, Top
<1> HIDE DEF n, A, base, Step
<1>4. F \in [(1 .. n) \X A -> A]
  BY <1>2
<1>5. \E h : Sol(h)
  <2>1. PICK h : Solves(h, n, A, base, F)
    <3> HIDE DEF F
    <3> QED BY <1>1, <1>1, <1>4, FoldExists
  <2>2. h \in [SUBSET (1 .. n) -> A] /\ h[{}] = base
    BY <2>1 DEF Solves
  <2>3. \A s \in SUBSET (1 .. n) : s # {} => h[s] = F[<<Top(s), h[s \ {Top(s)}]>>]
    <3> HIDE DEF F
    <3> QED BY <2>1 DEF Solves
  <2>4. \A s \in SUBSET (1 .. n) : s # {} => Top(s) \in 1 .. n /\ h[s \ {Top(s)}] \in A
    BY <1>1, <2>2, TopIn
  <2>5. \A s \in SUBSET (1 .. n) : s # {} => h[s] = Step(h[s \ {Top(s)}], Top(s))
    BY <2>3, <2>4
  <2> HIDE DEF F
  <2>6. Sol(h)
    BY <2>2, <2>5
  <2> QED BY <2>6
<1>6. Sol(g)
  BY <1>5
<1> HIDE DEF g
<1>7. g[1 .. 0] = base
  <2>1. 1 .. 0 = {}
    OBVIOUS
  <2> QED BY <1>6, <2>1
<1>8. \A k \in 1 .. n : g[1 .. k] = Step(g[1 .. k - 1], k)
  <2> TAKE k \in 1 .. n
  <2>1. 1 .. k \in SUBSET (1 .. n) /\ 1 .. k # {} /\ Top(1 .. k) = k /\ (1 .. k) \ {k} = 1 .. k - 1
    BY <1>1, TopOfInterval
  <2> QED BY <1>6, <2>1
<1>9. g[1 .. n] \in A
  <2>1. g[{}] \in A
    BY <1>1, <1>6
  <2>2. \A k \in 1 .. n : g[1 .. k - 1] \in A => g[1 .. k] \in A
    BY <1>2, <1>8
  <2> QED BY <1>1, <2>1, <2>2, FoldKeeps
<1> QED BY <1>3, <1>9 DEF A

-----------------------------------------------------------------------------
\* An entry of a queue holds an event, or what an event of its message has become, which names
\* what that event did when it arrived.
Held(ms, h) == IF h.at = 0 THEN NamesOf(h.ev) ELSE NamesOf(ms[h.msg].evs[h.at])
Holding(ms) ==
  {h \in [msg : DOMAIN ms, from : Nat, at : Nat, ev : EventSet] :
     h.at # 0 => ms[h.msg].path = "input" /\ h.at \in DOMAIN ms[h.msg].evs}
Waits(ms, q, m, x) == \E j \in 1 .. Len(q) : q[j].msg = m /\ x \in Held(ms, q[j])
Tracks(ob, evs) == Len(ob) = Len(evs) /\ \A i \in 1 .. Len(ob) : NamesOf(evs[i]) \subseteq NamesOf(ob[i])

LEMMA WaitsJoined ==
  ASSUME NEW S, NEW q \in Seq(S), NEW d \in Seq(S), NEW ms, NEW m, NEW x, Waits(ms, q, m, x) \/ Waits(ms, d, m, x)
  PROVE  Waits(ms, q \o d, m, x)
<1> DEFINE r == q \o d
<1>1. /\ r \in Seq(S) /\ Len(r) = Len(q) + Len(d)
      /\ \A i \in 1 .. Len(q) + Len(d) : r[i] = IF i <= Len(q) THEN q[i] ELSE d[i - Len(q)]
  BY ConcatProperties
<1> HIDE DEF r
<1>2. Len(q) \in Nat /\ Len(d) \in Nat
  OBVIOUS
<1>3. CASE Waits(ms, q, m, x)
  <2>1. PICK j \in 1 .. Len(q) : q[j].msg = m /\ x \in Held(ms, q[j])
    BY <1>3 DEF Waits
  <2>2. j \in 1 .. Len(r) /\ r[j] = q[j]
    BY <1>1, <1>2
  <2> QED BY <2>1, <2>2 DEF Waits, r
<1>4. CASE Waits(ms, d, m, x)
  <2>1. PICK j \in 1 .. Len(d) : d[j].msg = m /\ x \in Held(ms, d[j])
    BY <1>4 DEF Waits
  <2>2. j + Len(q) \in 1 .. Len(r) /\ j + Len(q) \in 1 .. Len(q) + Len(d)
        /\ ~(j + Len(q) <= Len(q)) /\ (j + Len(q)) - Len(q) = j
    BY <1>1, <1>2
  <2>3. r[j + Len(q)] = d[j]
    BY <1>1, <2>2
  <2> QED BY <2>1, <2>2, <2>3 DEF Waits, r
<1> QED BY <1>3, <1>4

\* What is sent waits in the queue, and so does what is pointed to.
LEMMA SentWaits ==
  ASSUME NEW o, NEW es \in Seq(EventSet), NEW from \in Nat, Pipe!N \in DOMAIN msgs
  PROVE  LET q == Pipe!Sent(o, es, from)
         IN q \in Seq(Holding(msgs)) /\ \A x \in Pipe!Names(es) : Waits(msgs, q, Pipe!N, x)
<1> DEFINE q == Pipe!Sent(o, es, from)
           n == Len(es)
<1>1. n \in Nat /\ DOMAIN es = 1 .. n /\ \A i \in 1 .. n : es[i] \in EventSet
  OBVIOUS
<1>2. q = [i \in 1 .. n |-> [msg |-> Pipe!N, from |-> from, at |-> 0, ev |-> es[i]]]
  BY <1>1 DEF Pipe!Sent
<1> HIDE DEF q, n
<1>3. \A i \in 1 .. n : q[i] \in Holding(msgs) /\ q[i].msg = Pipe!N /\ Held(msgs, q[i]) = NamesOf(es[i])
  BY <1>1, <1>2 DEF Holding, Held
<1>4. q \in [1 .. n -> Holding(msgs)]
  BY <1>2, <1>3
<1>5. q \in Seq(Holding(msgs)) /\ Len(q) = n
  BY <1>1, <1>4
<1>6. ASSUME NEW x \in Pipe!Names(es) PROVE Waits(msgs, q, Pipe!N, x)
  <2>1. PICK i \in 1 .. n : x \in NamesOf(es[i])
    BY <1>1 DEF Pipe!Names, NamesOf
  <2> QED BY <1>3, <1>5, <2>1 DEF Waits
<1> QED BY <1>5, <1>6 DEF q

LEMMA QueuedWaits ==
  ASSUME NEW o, NEW m, NEW e \in EventSet, NEW r \in PointerAccs(m, e), NEW i \in Nat \ {0},
         Pipe!N \in DOMAIN msgs, msgs[Pipe!N].path = "input", i \in DOMAIN msgs[Pipe!N].evs,
         NamesOf(msgs[Pipe!N].evs[i]) \subseteq NamesOf(e)
  PROVE  LET q == Pipe!Queued(r, o, i)
         IN q \in Seq(Holding(msgs)) /\ \A x \in NamesOf(msgs[Pipe!N].evs[i]) : Waits(msgs, q, Pipe!N, x)
<1> DEFINE q == Pipe!Queued(r, o, i)
           n == Pipe!N
<1>1. r.es \in Seq(EventSet) /\ NamesOf(e) \subseteq Pipe!Names(r.es)
  BY OneName DEF PointerAccs, Conserved
<1>2. CASE r.same /\ r.es # <<>>
  <2> DEFINE h == [msg |-> Pipe!N, from |-> i, at |-> i, ev |-> r.es[1]]
  <2>1. q = <<h>>
    BY <1>2 DEF Pipe!Queued
  <2>2. r.es[1] \in EventSet
    BY <1>1, <1>2
  <2>3. h \in Holding(msgs) /\ h.msg = Pipe!N /\ Held(msgs, h) = NamesOf(msgs[Pipe!N].evs[i])
    BY <2>2 DEF Holding, Held
  <2> HIDE DEF h
  <2>4. <<h>> \in Seq(Holding(msgs)) /\ Len(<<h>>) = 1 /\ <<h>>[1] = h /\ 1 \in 1 .. 1
    BY <2>3
  <2>5. \A x \in NamesOf(msgs[Pipe!N].evs[i]) : Waits(msgs, <<h>>, Pipe!N, x)
    BY <2>3, <2>4 DEF Waits
  <2> QED BY <2>1, <2>4, <2>5
<1>3. CASE ~(r.same /\ r.es # <<>>)
  <2>1. q = Pipe!Sent(o, r.es, i)
    BY <1>3 DEF Pipe!Queued
  <2> HIDE DEF q
  <2>2. q \in Seq(Holding(msgs)) /\ \A x \in Pipe!Names(r.es) : Waits(msgs, q, Pipe!N, x)
    BY <1>1, <2>1, SentWaits
  <2> QED BY <1>1, <2>2 DEF q
<1> QED BY <1>2, <1>3

EachAccs(o) ==
  {a \in [mem : {mem[o]}, obj : Seq(EventSet), q : Seq(Holding(msgs))] : Tracks(a.obj, msgs[Pipe!N].evs)}

LEMMA EachStepKeeps ==
  ASSUME Pipe!N \in DOMAIN msgs, msgs[Pipe!N].path = "input", msgs[Pipe!N].evs \in Seq(EventSet),
         NEW o, ChainOk(chain[o]), NEW a \in EachAccs(o), NEW i \in 1 .. Len(msgs[Pipe!N].evs)
  PROVE  LET b == Pipe!EventStep(a, i, Pipe!OnPointer(chain[o], a.mem, a.obj[i]), o)
         IN /\ b \in EachAccs(o)
            /\ \A x : Waits(msgs, a.q, Pipe!N, x) => Waits(msgs, b.q, Pipe!N, x)
            /\ \A x \in NamesOf(msgs[Pipe!N].evs[i]) : Waits(msgs, b.q, Pipe!N, x)
<1> DEFINE evs == msgs[Pipe!N].evs
           e == a.obj[i]
           r == Pipe!OnPointer(chain[o], a.mem, e)
           d == Pipe!Queued(r, o, i)
           ob == [a.obj EXCEPT ![i] = r.obj]
           q == a.q \o d
           b == [mem |-> r.mem, obj |-> ob, q |-> q]
<1>1. a.mem = mem[o] /\ a.obj \in Seq(EventSet) /\ a.q \in Seq(Holding(msgs)) /\ Tracks(a.obj, evs)
  BY DEF EachAccs
<1>2. Len(a.obj) = Len(evs) /\ \A k \in 1 .. Len(a.obj) : NamesOf(evs[k]) \subseteq NamesOf(a.obj[k])
  BY <1>1 DEF Tracks
<1>3. i \in 1 .. Len(a.obj) /\ e \in EventSet /\ NamesOf(evs[i]) \subseteq NamesOf(e)
  <2>1. i \in 1 .. Len(a.obj)
    BY <1>2, Zenon
  <2>2. a.obj[i] \in EventSet
    BY <1>1, <2>1, ElementOfSeq
  <2> QED BY <1>2, <2>1, <2>2
<1>4. i \in Nat \ {0} /\ i \in DOMAIN evs
  OBVIOUS
<1> HIDE DEF e
<1>5. r \in PointerAccs(a.mem, e)
  BY <1>3, PointerKeeps
<1> HIDE DEF r
<1>6. d \in Seq(Holding(msgs)) /\ \A x \in NamesOf(evs[i]) : Waits(msgs, d, Pipe!N, x)
  BY <1>3, <1>4, <1>5, QueuedWaits
<1> HIDE DEF d
<1>7. q \in Seq(Holding(msgs))
  BY <1>1, <1>6, ConcatProperties
<1>8. \A x : Waits(msgs, a.q, Pipe!N, x) \/ Waits(msgs, d, Pipe!N, x) => Waits(msgs, q, Pipe!N, x)
  BY <1>1, <1>6, WaitsJoined
<1>9. r.obj \in EventSet /\ NamesOf(e) \subseteq NamesOf(r.obj) /\ r.mem = mem[o]
  BY <1>1, <1>5 DEF PointerAccs
<1>10. ob \in Seq(EventSet) /\ Tracks(ob, evs)
  <2>1. ob \in Seq(EventSet) /\ Len(ob) = Len(a.obj) /\ ob[i] = r.obj
        /\ \A k \in 1 .. Len(a.obj) : k # i => ob[k] = a.obj[k]
    BY <1>1, <1>3, <1>9
  <2> HIDE DEF ob
  <2>2. \A k \in 1 .. Len(ob) : NamesOf(evs[k]) \subseteq NamesOf(ob[k])
    BY <1>2, <1>3, <1>9, <2>1
  <2> QED BY <1>2, <2>1, <2>2 DEF Tracks
<1>11. Pipe!EventStep(a, i, r, o) = b
  BY DEF Pipe!EventStep, d
<1> HIDE DEF ob, q
<1>12. b \in EachAccs(o)
  BY <1>7, <1>9, <1>10 DEF EachAccs
<1>13. b.q = q
  OBVIOUS
<1> HIDE DEF b
<1> QED BY <1>6, <1>8, <1>11, <1>12, <1>13 DEF r, e

LEMMA EachEventWaits ==
  ASSUME Pipe!N \in DOMAIN msgs, msgs[Pipe!N].path = "input", msgs[Pipe!N].evs \in Seq(EventSet),
         obj[Pipe!N] \in Seq(EventSet), Tracks(obj[Pipe!N], msgs[Pipe!N].evs), NEW o, ChainOk(chain[o])
  PROVE  LET r == Pipe!EachEvent(o)
         IN r \in EachAccs(o) /\ \A x \in Pipe!Names(msgs[Pipe!N].evs) : Waits(msgs, r.q, Pipe!N, x)
<1> DEFINE ob == obj[Pipe!N]
           evs == msgs[Pipe!N].evs
           n == Len(ob)
           is == [i \in DOMAIN ob |-> i]
           A == EachAccs(o)
           base == [mem |-> mem[o], obj |-> ob, q |-> <<>>]
           Step(a, i) == Pipe!EventStep(a, i, Pipe!OnPointer(chain[o], a.mem, a.obj[i]), o)
           F == [p \in (1 .. n) \X A |-> Step(p[2], p[1])]
           Sol(q) == q = [s \in SUBSET (1 .. n) |-> IF s = {} THEN base ELSE Step(q[s \ {Top(s)}], is[Top(s)])]
           g == CHOOSE q : Sol(q)
<1>1. n \in Nat /\ DOMAIN ob = 1 .. n /\ DOMAIN is = 1 .. n /\ \A i \in 1 .. n : is[i] = i
  OBVIOUS
<1>n. n = Len(evs)
  BY DEF Tracks
<1>2. base \in A
  <2>1. <<>> \in Seq(Holding(msgs))
    OBVIOUS
  <2> QED BY <2>1 DEF EachAccs
<1>3. \A a \in A : \A k \in 1 .. n :
        /\ Step(a, k) \in A
        /\ \A x : Waits(msgs, a.q, Pipe!N, x) => Waits(msgs, Step(a, k).q, Pipe!N, x)
        /\ \A x \in NamesOf(evs[k]) : Waits(msgs, Step(a, k).q, Pipe!N, x)
  <2> SUFFICES ASSUME NEW a \in A, NEW k \in 1 .. n
      PROVE  /\ Step(a, k) \in A
             /\ \A x : Waits(msgs, a.q, Pipe!N, x) => Waits(msgs, Step(a, k).q, Pipe!N, x)
             /\ \A x \in NamesOf(evs[k]) : Waits(msgs, Step(a, k).q, Pipe!N, x)
    OBVIOUS
  <2> HIDE DEF n
  <2>1. k \in 1 .. Len(evs)
    BY <1>n
  <2> QED BY <2>1, EachStepKeeps
<1>4. Pipe!EachEvent(o) = g[1 .. n]
  BY <1>1 DEF Pipe!EachEvent, Pipe!FoldLeft, Pipe!MapThenFoldSet, Pipe!Max, Top
<1> HIDE DEF n, A, base, Step, is, ob, evs
<1>5. F \in [(1 .. n) \X A -> A]
  BY <1>3
<1>6. PICK h : Solves(h, n, A, base, F)
  <2> HIDE DEF F
  <2> QED BY <1>1, <1>2, <1>5, FoldExists
<1>7. Sol(h)
  <2>1. h \in [SUBSET (1 .. n) -> A] /\ h[{}] = base
    BY <1>6 DEF Solves
  <2>2. \A s \in SUBSET (1 .. n) : s # {} => h[s] = F[<<Top(s), h[s \ {Top(s)}]>>]
    <3> HIDE DEF F
    <3> QED BY <1>6 DEF Solves
  <2>3. \A s \in SUBSET (1 .. n) : s # {} => Top(s) \in 1 .. n /\ h[s \ {Top(s)}] \in A
    BY <1>1, <2>1, TopIn
  <2>4. \A s \in SUBSET (1 .. n) : s # {} => h[s] = Step(h[s \ {Top(s)}], is[Top(s)])
    BY <1>1, <2>2, <2>3
  <2> HIDE DEF F
  <2> QED BY <2>1, <2>4
<1>8. Sol(g)
  BY <1>7
<1> HIDE DEF g
<1>9. g[1 .. 0] = base
  <2>1. 1 .. 0 = {}
    OBVIOUS
  <2> QED BY <1>8, <2>1
<1>10. \A k \in 1 .. n : g[1 .. k] = Step(g[1 .. k - 1], k)
  <2> TAKE k \in 1 .. n
  <2>1. 1 .. k \in SUBSET (1 .. n) /\ 1 .. k # {} /\ Top(1 .. k) = k /\ (1 .. k) \ {k} = 1 .. k - 1
    BY <1>1, TopOfInterval
  <2>2. g[1 .. k] = Step(g[1 .. k - 1], is[k])
    BY <1>8, <2>1
  <2> QED BY <1>1, <2>2
<1> DEFINE W == {k \in 0 .. n : /\ g[1 .. k] \in A
                                /\ \A i \in 1 .. k : \A x \in NamesOf(evs[i]) : Waits(msgs, g[1 .. k].q, Pipe!N, x)}
<1>11. 0 \in W
  <2>1. g[1 .. 0] \in A
    BY <1>2, <1>9
  <2>2. 0 \in 0 .. n /\ \A i \in 1 .. 0 : FALSE
    BY <1>1
  <2> QED BY <2>1, <2>2
<1>12. ASSUME NEW k \in 1 .. n, k - 1 \in W PROVE k \in W
  <2> DEFINE a == g[1 .. k - 1]
             b == g[1 .. k]
  <2>1. a \in A /\ \A i \in 1 .. k - 1 : \A x \in NamesOf(evs[i]) : Waits(msgs, a.q, Pipe!N, x)
    BY <1>12
  <2>2. b = Step(a, k)
    BY <1>10
  <2> HIDE DEF a, b
  <2>3. /\ b \in A
        /\ \A x : Waits(msgs, a.q, Pipe!N, x) => Waits(msgs, b.q, Pipe!N, x)
        /\ \A x \in NamesOf(evs[k]) : Waits(msgs, b.q, Pipe!N, x)
    BY <1>3, <2>1, <2>2
  <2>4. \A i \in 1 .. k : i \in 1 .. k - 1 \/ i = k
    BY <1>1
  <2>5. k \in 0 .. n
    BY <1>1
  <2> QED BY <2>1, <2>3, <2>4, <2>5 DEF b
<1> HIDE DEF W
<1>13. n \in W
  BY <1>1, <1>11, <1>12, FoldReaches
<1>14. g[1 .. n] \in A /\ \A i \in 1 .. n : \A x \in NamesOf(evs[i]) : Waits(msgs, g[1 .. n].q, Pipe!N, x)
  BY <1>13 DEF W
<1>15. \A x \in Pipe!Names(evs) : \E i \in 1 .. n : x \in NamesOf(evs[i])
  <2>1. DOMAIN evs = 1 .. n
    BY <1>n DEF evs
  <2> QED BY <2>1 DEF Pipe!Names, NamesOf
<1> QED BY <1>4, <1>14, <1>15 DEF A, evs

-----------------------------------------------------------------------------
\* The events that arrive have the parts of an event, and a chain that conserves is configured.
IsEvent(e) ==
  /\ e = [name |-> e.name, ts |-> e.ts, tags |-> e.tags, bare |-> e.bare, vals |-> e.vals, dels |-> e.dels]
  /\ e.name \in Texts /\ e.ts \in Int /\ e.bare \in BOOLEAN /\ MapTo(e.tags, Texts) /\ MapTo(e.vals, Values) /\ e.dels \subseteq Texts
WellFormed == \A e \in Events : IsEvent(e)
Configured == \A ps \in EvChains : Pipe!Conserving(ps) => ChainOk(ps)
\* Another output's processors may take from an event of an input while it waits: every output
\* conserves, or there is no other output, or what arrives comes from targets.
Unrobbed ==
  \/ \A ps \in EvChains : Pipe!Conserving(ps)
  \/ \A o, p \in EvOuts : o = p
  \/ EvBatches = {}

LEMMA EventsAre == ASSUME WellFormed PROVE Events \subseteq EventSet
<1> SUFFICES ASSUME NEW e \in Events PROVE e \in EventSet
  OBVIOUS
<1>1. IsEvent(e)
  BY DEF WellFormed
<1>2. e.tags \in Maps(Texts) /\ e.vals \in Maps(Values)
  BY <1>1, MapsTo DEF IsEvent
<1>3. [name |-> e.name, ts |-> e.ts, tags |-> e.tags, bare |-> e.bare, vals |-> e.vals, dels |-> e.dels] \in EventSet
  BY <1>1, <1>2 DEF IsEvent, EventSet
<1> QED BY <1>1, <1>3 DEF IsEvent

LEMMA MessageEvents ==
  ASSUME WellFormed, Arrivals, NEW m \in Msgs
  PROVE  /\ Pipe!EventsOf(m) \in Seq(EventSet)
         /\ m.path = "input" => m.evs \in Seq(EventSet) /\ Pipe!EventsOf(m) = m.evs
<1>1. \A es \in Seq(Events) : es \in Seq(EventSet)
  BY EventsAre
<1>2. CASE \E es \in EvBatches : m = [path |-> "input", evs |-> es]
  BY <1>1, <1>2 DEF Arrivals, Pipe!EventsOf
<1>3. CASE \E r \in EvResponses : m = [path |-> "target", rsp |-> r]
  BY <1>1, <1>3 DEF Arrivals, Pipe!EventsOf
<1> QED BY <1>2, <1>3 DEF Msgs

\* Of every message an output has been given, what it named has left or waits in the queue.
Gone == [msg : Nat, from : Nat, ev : EventSet]
Left(w, m, x) == \E j \in 1 .. Len(w) : w[j].msg = m /\ x \in NamesOf(w[j].ev)
Given(o) == 1 .. (IF o \in todo THEN Pipe!N - 1 ELSE Pipe!N)
\* or a worker of the output has the message, or will take it
Untaken(r, m) == \E j \in 1 .. Len(r) : r[j] = m
Worked(wk, m, x) == \E w \in EvWorkers : wk[w].msg = m /\ x \in Pipe!Names(wk[w].es)
InHand(o, m, x) == Untaken(raw[o], m) \/ Worked(work[o], m, x)
Accounted(o) == \A m \in Given(o) : \A x \in Pipe!Names(Pipe!EventsOf(msgs[m])) :
                  Left(wrote[o], m, x) \/ Waits(msgs, queue[o], m, x) \/ InHand(o, m, x)
Work(S, Q, O, B) == [msg : S, step : Nat, es : Q, out : O, adding : B]
Works(ms) == Work({0} \cup DOMAIN ms, Seq(EventSet), {<<>>}, {FALSE})
WholeOut(o) ==
  /\ ChainOk(chain[o]) /\ wrote[o] \in Seq(Gone) /\ queue[o] \in Seq(Holding(msgs)) /\ Accounted(o)
  /\ raw[o] \in Seq(DOMAIN msgs) /\ work[o] \in [EvWorkers -> Works(msgs)]
Kept == \A m \in 1 .. Len(msgs) : msgs[m].path = "input" => Tracks(obj[m], msgs[m].evs)
WholeInv ==
  /\ chain \in [EvOuts -> EvChains]
  /\ DOMAIN mem = EvOuts /\ DOMAIN queue = EvOuts /\ DOMAIN wrote = EvOuts
  /\ DOMAIN raw = EvOuts /\ DOMAIN work = EvOuts
  /\ msgs \in Seq(Msgs) /\ obj \in Seq(Seq(EventSet)) /\ Len(obj) = Len(msgs) /\ Kept
  /\ todo \subseteq EvOuts /\ (todo # {} => Pipe!N > 0)
  /\ \A o \in EvOuts : Pipe!Conserving(chain[o]) => WholeOut(o)

LEMMA WholeInit == ASSUME Configured, Pipe!Init PROVE WholeInv
<1>1. chain \in [EvOuts -> EvChains] /\ msgs = <<>> /\ obj = <<>> /\ todo = {}
      /\ queue = [o \in EvOuts |-> <<>>] /\ wrote = [o \in EvOuts |-> <<>>]
      /\ mem = [o \in EvOuts |-> Pipe!NoMemory] /\ raw = [o \in EvOuts |-> <<>>]
      /\ work = [o \in EvOuts |-> [w \in EvWorkers |-> Pipe!Idle]]
  BY DEF Pipe!Init
<1>2. msgs \in Seq(Msgs) /\ obj \in Seq(Seq(EventSet)) /\ Len(obj) = Len(msgs) /\ Len(msgs) = 0
  BY <1>1
<1>3. Kept
  <2>1. \A m \in 1 .. 0 : FALSE
    OBVIOUS
  <2> QED BY <1>2, <2>1 DEF Kept
<1>4. ASSUME NEW o \in EvOuts, Pipe!Conserving(chain[o]) PROVE WholeOut(o)
  <2>1. ChainOk(chain[o])
    BY <1>1, <1>4 DEF Configured
  <2>2. wrote[o] = <<>> /\ queue[o] = <<>> /\ <<>> \in Seq(Gone) /\ <<>> \in Seq(Holding(msgs))
    BY <1>1
  <2>3. Accounted(o)
    <3>1. Given(o) = 1 .. 0 /\ \A m \in 1 .. 0 : FALSE
      BY <1>1, <1>2 DEF Given, Pipe!N
    <3> QED BY <3>1 DEF Accounted
  <2>4. raw[o] \in Seq(DOMAIN msgs) /\ work[o] \in [EvWorkers -> Works(msgs)]
    <3>1. raw[o] = <<>> /\ work[o] = [w \in EvWorkers |-> Pipe!Idle] /\ <<>> \in Seq(DOMAIN msgs)
      BY <1>1
    <3>2. Pipe!Idle \in Works(msgs)
      BY DEF Works, Work, Pipe!Idle
    <3> QED BY <3>1, <3>2
  <2> QED BY <2>1, <2>2, <2>3, <2>4 DEF WholeOut
<1>5. DOMAIN mem = EvOuts /\ DOMAIN queue = EvOuts /\ DOMAIN wrote = EvOuts
      /\ DOMAIN raw = EvOuts /\ DOMAIN work = EvOuts
  BY <1>1
<1> QED BY <1>1, <1>2, <1>3, <1>4, <1>5 DEF WholeInv

LEMMA WholeReceive == ASSUME WellFormed, Arrivals, WholeInv, Pipe!Receive PROVE WholeInv'
<1>1. PICK m \in Msgs, es \in Seq(EventSet) :
        msgs' = Append(msgs, m) /\ obj' = Append(obj, es) /\ (m.path = "input" => m.evs = es)
  <2>1. CASE \E es \in EvBatches :
               msgs' = Append(msgs, [path |-> "input", evs |-> es]) /\ obj' = Append(obj, es)
    <3>1. PICK es \in EvBatches : msgs' = Append(msgs, [path |-> "input", evs |-> es]) /\ obj' = Append(obj, es)
      BY <2>1
    <3> DEFINE m == [path |-> "input", evs |-> es]
    <3>2. m \in Msgs /\ m.path = "input" /\ m.evs = es
      BY DEF Msgs
    <3>3. es \in Seq(EventSet)
      BY <3>2, MessageEvents
    <3> QED BY <3>1, <3>2, <3>3
  <2>2. CASE \E r \in EvResponses :
               msgs' = Append(msgs, [path |-> "target", rsp |-> r]) /\ obj' = Append(obj, <<>>)
    <3>1. <<>> \in Seq(EventSet)
      OBVIOUS
    <3> QED BY <2>2, <3>1 DEF Msgs
  <2> QED BY <2>1, <2>2 DEF Pipe!Receive
<1>2. todo = {} /\ todo' = EvOuts /\ UNCHANGED <<chain, queue, wrote, mem, raw, work>>
  BY DEF Pipe!Receive
<1>3. msgs \in Seq(Msgs) /\ obj \in Seq(Seq(EventSet)) /\ Len(obj) = Len(msgs) /\ Len(msgs) \in Nat
  BY DEF WholeInv
<1> DEFINE n == Len(msgs)
<1>4. /\ msgs' \in Seq(Msgs) /\ Len(msgs') = n + 1 /\ msgs'[n + 1] = m /\ \A i \in 1 .. n : msgs'[i] = msgs[i]
      /\ obj' \in Seq(Seq(EventSet)) /\ Len(obj') = n + 1 /\ obj'[n + 1] = es /\ \A i \in 1 .. n : obj'[i] = obj[i]
  <2>1. /\ msgs' \in Seq(Msgs) /\ Len(msgs') = n + 1 /\ msgs'[n + 1] = m /\ \A i \in 1 .. n : msgs'[i] = msgs[i]
    BY <1>1, <1>3, AppendProperties
  <2>2. /\ obj' \in Seq(Seq(EventSet)) /\ Len(obj') = n + 1 /\ obj'[n + 1] = es /\ \A i \in 1 .. n : obj'[i] = obj[i]
    BY <1>1, <1>3, AppendProperties
  <2> QED BY <2>1, <2>2
<1>5. DOMAIN msgs = 1 .. n /\ DOMAIN msgs' = 1 .. n + 1 /\ n \in Nat
  BY <1>3, <1>4
<1> HIDE DEF n
<1>6. Pipe!N = n /\ Pipe!N' = n + 1
  BY <1>4 DEF Pipe!N, n
<1>7. Kept'
  <2> SUFFICES ASSUME NEW i \in 1 .. n + 1, msgs'[i].path = "input" PROVE Tracks(obj'[i], msgs'[i].evs)
    BY <1>4 DEF Kept
  <2>1. CASE i \in 1 .. n
    BY <1>4, <2>1 DEF WholeInv, Kept, n
  <2>2. CASE i \notin 1 .. n
    <3>1. i = n + 1
      BY <1>5, <2>2
    <3>2. obj'[i] = es /\ msgs'[i].evs = es
      BY <1>1, <1>4, <3>1
    <3> QED BY <3>2 DEF Tracks
  <2> QED BY <2>1, <2>2
<1>8. ASSUME NEW h \in Holding(msgs) PROVE h \in Holding(msgs') /\ Held(msgs', h) = Held(msgs, h)
  <2>1. h \in [msg : DOMAIN msgs, from : Nat, at : Nat, ev : EventSet] /\ h.msg \in 1 .. n /\ h.msg \in 1 .. n + 1
        /\ (h.at # 0 => msgs[h.msg].path = "input" /\ h.at \in DOMAIN msgs[h.msg].evs)
    BY <1>5 DEF Holding
  <2>2. msgs'[h.msg] = msgs[h.msg]
    BY <1>4, <2>1
  <2>3. h \in [msg : DOMAIN msgs', from : Nat, at : Nat, ev : EventSet]
    BY <1>5, <2>1
  <2> QED BY <2>1, <2>2, <2>3 DEF Holding, Held
<1>9. ASSUME NEW o \in EvOuts, Pipe!Conserving(chain'[o]) PROVE WholeOut(o)'
  <2>1. WholeOut(o)
    BY <1>2, <1>9 DEF WholeInv
  <2>2. queue[o] \in Seq(Holding(msgs)) /\ queue[o] \in Seq(Holding(msgs'))
    <3>1. queue[o] \in Seq(Holding(msgs))
      BY <2>1 DEF WholeOut
    <3>2. Holding(msgs) \subseteq Holding(msgs')
      BY <1>8
    <3> QED BY <3>1, <3>2
  <2>3. \A k, x : Waits(msgs, queue[o], k, x) => Waits(msgs', queue[o], k, x)
    <3> SUFFICES ASSUME NEW k, NEW x, Waits(msgs, queue[o], k, x) PROVE Waits(msgs', queue[o], k, x)
      OBVIOUS
    <3>1. PICK j \in 1 .. Len(queue[o]) : queue[o][j].msg = k /\ x \in Held(msgs, queue[o][j])
      BY DEF Waits
    <3>2. queue[o][j] \in Holding(msgs)
      BY <2>2
    <3> QED BY <1>8, <3>1, <3>2 DEF Waits
  <2>4. Given(o) = 1 .. n /\ Given(o)' = 1 .. n
    <3>1. Given(o) = 1 .. n
      BY <1>2, <1>6 DEF Given
    <3>2. Given(o)' = 1 .. (n + 1) - 1 /\ (n + 1) - 1 = n
      BY <1>2, <1>5, <1>6 DEF Given
    <3> QED BY <3>1, <3>2
  <2>5. Accounted(o)'
    <3> SUFFICES ASSUME NEW k \in 1 .. n, NEW x \in Pipe!Names(Pipe!EventsOf(msgs'[k]))
                 PROVE  Left(wrote[o], k, x) \/ Waits(msgs', queue[o], k, x) \/ InHand(o, k, x)
      BY <1>2, <2>4 DEF Accounted, InHand
    <3>1. msgs'[k] = msgs[k]
      BY <1>4
    <3> QED BY <2>1, <2>3, <2>4, <3>1 DEF WholeOut, Accounted
  <2>6. raw[o] \in Seq(DOMAIN msgs') /\ work[o] \in [EvWorkers -> Works(msgs')]
    <3>1. DOMAIN msgs \subseteq DOMAIN msgs'
      BY <1>5
    <3>2. Works(msgs) \subseteq Works(msgs')
      BY <3>1 DEF Works, Work
    <3>3. \A r \in Seq(DOMAIN msgs) : r \in Seq(DOMAIN msgs')
      BY <3>1
    <3> QED BY <2>1, <3>2, <3>3 DEF WholeOut
  <2> QED BY <1>2, <2>1, <2>2, <2>5, <2>6 DEF WholeOut
<1>10. todo' \subseteq EvOuts /\ (todo' # {} => Pipe!N' > 0)
  BY <1>2, <1>5, <1>6
<1>11. Len(obj') = Len(msgs')
  BY <1>4
<1> QED BY <1>2, <1>4, <1>7, <1>9, <1>10, <1>11 DEF WholeInv

\* What the writer or the worker of o did, which touched no other output's queue.
LEMMA WholeOthers ==
  ASSUME WholeInv, NEW o \in EvOuts, UNCHANGED <<chain, msgs>>, todo' = todo \/ todo' = todo \ {o},
         obj' \in Seq(Seq(EventSet)), Len(obj') = Len(obj), Kept',
         DOMAIN mem' = EvOuts, DOMAIN queue' = EvOuts, DOMAIN wrote' = EvOuts,
         DOMAIN raw' = EvOuts, DOMAIN work' = EvOuts,
         \A p \in EvOuts \ {o} : /\ queue'[p] = queue[p] /\ wrote'[p] = wrote[p]
                                 /\ raw'[p] = raw[p] /\ work'[p] = work[p],
         Pipe!Conserving(chain[o]) => WholeOut(o)'
  PROVE  WholeInv'
<1>1. ASSUME NEW p \in EvOuts, Pipe!Conserving(chain'[p]) PROVE WholeOut(p)'
  <2>1. CASE p = o
    BY <1>1, <2>1
  <2>2. CASE p # o
    <3>1. /\ WholeOut(p) /\ queue'[p] = queue[p] /\ wrote'[p] = wrote[p]
          /\ raw'[p] = raw[p] /\ work'[p] = work[p]
      BY <1>1, <2>2 DEF WholeInv
    <3>2. Given(p)' = Given(p)
      BY <2>2 DEF Given, Pipe!N
    <3>3. Accounted(p)'
      BY <3>1, <3>2 DEF WholeOut, Accounted, InHand
    <3> QED BY <3>1, <3>3 DEF WholeOut
  <2> QED BY <2>1, <2>2
<1>2. todo' \subseteq EvOuts /\ (todo' # {} => Pipe!N' > 0)
  BY DEF WholeInv, Pipe!N
<1> QED BY <1>1, <1>2 DEF WholeInv

LEMMA WholeHeld ==
  ASSUME WellFormed, Arrivals, WholeInv, NEW o \in todo
  PROVE  /\ Pipe!N \in Nat /\ Pipe!N \in DOMAIN obj /\ Pipe!N \in DOMAIN msgs /\ msgs[Pipe!N] \in Msgs
         /\ obj[Pipe!N] \in Seq(EventSet) /\ Pipe!EventsOf(msgs[Pipe!N]) \in Seq(EventSet)
<1>1. obj \in Seq(Seq(EventSet)) /\ msgs \in Seq(Msgs) /\ Len(obj) = Pipe!N /\ Len(msgs) = Pipe!N /\ Pipe!N > 0
  BY DEF WholeInv, Pipe!N
<1>2. Pipe!N \in 1 .. Len(msgs) /\ Pipe!N \in 1 .. Len(obj) /\ Pipe!N \in Nat
  BY <1>1
<1>3. msgs[Pipe!N] \in Msgs
  BY <1>1, <1>2
<1> QED BY <1>1, <1>2, <1>3, MessageEvents

\* What the writer gave to one output.
LEMMA WholeHanded ==
  ASSUME WellFormed, Arrivals, WholeInv, NEW o \in EvOuts, o \in todo, WholeOut(o),
         NEW q \in Seq(Holding(msgs)),
         \A x \in Pipe!Names(Pipe!EventsOf(msgs[Pipe!N])) : Waits(msgs, q, Pipe!N, x),
         NEW m, mem' = [mem EXCEPT ![o] = m], queue' = [queue EXCEPT ![o] = @ \o q],
         obj' \in Seq(Seq(EventSet)), Len(obj') = Len(obj), Kept',
         todo' = todo \ {o}, UNCHANGED <<chain, msgs, wrote, raw, work>>
  PROVE  WholeInv'
<1>1. DOMAIN mem = EvOuts /\ DOMAIN queue = EvOuts /\ DOMAIN wrote = EvOuts
      /\ DOMAIN raw = EvOuts /\ DOMAIN work = EvOuts
  BY DEF WholeInv
<1>2. queue'[o] = queue[o] \o q /\ DOMAIN mem' = EvOuts /\ DOMAIN queue' = EvOuts
  BY <1>1
<1>3. queue[o] \in Seq(Holding(msgs)) /\ queue[o] \o q \in Seq(Holding(msgs))
  BY ConcatProperties DEF WholeOut
<1>4. \A k, x : Waits(msgs, queue[o], k, x) \/ Waits(msgs, q, k, x) => Waits(msgs, queue[o] \o q, k, x)
  BY <1>3, WaitsJoined
<1>5. Pipe!N \in Nat
  BY WholeHeld
<1>6. Given(o)' = 1 .. Pipe!N /\ Given(o) = 1 .. Pipe!N - 1
  BY DEF Given, Pipe!N
<1>7. \A k \in 1 .. Pipe!N : k \in 1 .. Pipe!N - 1 \/ k = Pipe!N
  BY <1>5
<1>8. Accounted(o)'
  <2> DEFINE qq == queue[o] \o q
  <2> SUFFICES ASSUME NEW k \in 1 .. Pipe!N, NEW x \in Pipe!Names(Pipe!EventsOf(msgs[k]))
               PROVE  Left(wrote[o], k, x) \/ Waits(msgs, qq, k, x) \/ InHand(o, k, x)
    BY <1>2, <1>6 DEF Accounted, InHand
  <2> HIDE DEF qq
  <2>1. CASE k = Pipe!N
    BY <1>4, <2>1 DEF qq
  <2>2. CASE k \in 1 .. Pipe!N - 1
    BY <1>4, <1>6, <2>2 DEF WholeOut, Accounted, qq
  <2> QED BY <1>7, <2>1, <2>2
<1>9. WholeOut(o)'
  BY <1>2, <1>3, <1>8 DEF WholeOut
<1>10. \A p \in EvOuts \ {o} : queue'[p] = queue[p] /\ wrote'[p] = wrote[p]
  BY <1>1
<1> QED BY <1>1, <1>2, <1>9, <1>10, WholeOthers

LEMMA WholeWrite ==
  ASSUME WellFormed, Arrivals, WholeInv, NEW o \in EvOuts, Pipe!Conserving(chain[o]), Pipe!Write(o)
  PROVE  WholeInv'
<1> DEFINE es == Pipe!EventsOf(msgs[Pipe!N])
           r == Pipe!RunChain(chain[o], mem[o], es, Pipe!Now)
           q == Pipe!Sent(o, r.es, 0)
<1>1. /\ o \in todo
      /\ mem' = [mem EXCEPT ![o] = r.mem] /\ queue' = [queue EXCEPT ![o] = @ \o q]
      /\ todo' = todo \ {o} /\ UNCHANGED <<chain, msgs, obj, wrote, raw, work>>
  BY DEF Pipe!Write
<1>2. WholeOut(o) /\ Pipe!N \in DOMAIN msgs /\ es \in Seq(EventSet)
  BY <1>1, WholeHeld DEF WholeInv
<1> HIDE DEF es
<1>3. Conserved(es, r.es)
  BY <1>2, ChainKeeps DEF WholeOut
<1>4. r.es \in Seq(EventSet) /\ Pipe!Names(es) \subseteq Pipe!Names(r.es)
  BY <1>3 DEF Conserved
<1> HIDE DEF r
<1>5. q \in Seq(Holding(msgs)) /\ \A x \in Pipe!Names(r.es) : Waits(msgs, q, Pipe!N, x)
  BY <1>2, <1>4, SentWaits
<1> HIDE DEF q
<1>6. \A x \in Pipe!Names(Pipe!EventsOf(msgs[Pipe!N])) : Waits(msgs, q, Pipe!N, x)
  BY <1>4, <1>5 DEF es
<1>7. obj' \in Seq(Seq(EventSet)) /\ Len(obj') = Len(obj) /\ Kept'
  BY <1>1 DEF WholeInv, Kept
<1> QED BY <1>1, <1>2, <1>5, <1>6, <1>7, WholeHanded

LEMMA WholeWriteOther ==
  ASSUME WholeInv, NEW o \in EvOuts, ~Pipe!Conserving(chain[o]), Pipe!Write(o)
  PROVE  WholeInv'
<1> DEFINE r == Pipe!RunChain(chain[o], mem[o], Pipe!EventsOf(msgs[Pipe!N]), Pipe!Now)
           q == Pipe!Sent(o, r.es, 0)
<1>1. /\ mem' = [mem EXCEPT ![o] = r.mem] /\ queue' = [queue EXCEPT ![o] = @ \o q]
      /\ todo' = todo \ {o} /\ UNCHANGED <<chain, msgs, obj, wrote, raw, work>>
  BY DEF Pipe!Write
<1> HIDE DEF r, q
<1>2. DOMAIN mem = EvOuts /\ DOMAIN queue = EvOuts /\ DOMAIN wrote = EvOuts
      /\ DOMAIN raw = EvOuts /\ DOMAIN work = EvOuts
  BY DEF WholeInv
<1>3. DOMAIN mem' = EvOuts /\ DOMAIN queue' = EvOuts /\ DOMAIN wrote' = EvOuts
  BY <1>1, <1>2
<1>4. \A p \in EvOuts \ {o} : queue'[p] = queue[p] /\ wrote'[p] = wrote[p]
  BY <1>1, <1>2
<1>5. obj' \in Seq(Seq(EventSet)) /\ Len(obj') = Len(obj) /\ Kept'
  BY <1>1 DEF WholeInv, Kept
<1>6. DOMAIN raw' = EvOuts /\ DOMAIN work' = EvOuts /\ raw' = raw /\ work' = work
  BY <1>1, <1>2
<1> QED BY <1>1, <1>3, <1>4, <1>5, <1>6, WholeOthers

LEMMA WholeWriteEvent ==
  ASSUME WellFormed, Arrivals, WholeInv, NEW o \in EvOuts, Pipe!Conserving(chain[o]), Pipe!WriteEvent(o)
  PROVE  WholeInv'
<1> DEFINE r == Pipe!EachEvent(o)
           n == Pipe!N
           evs == msgs[n].evs
<1>1. /\ o \in todo /\ msgs[n].path = "input"
      /\ mem' = [mem EXCEPT ![o] = r.mem] /\ obj' = [obj EXCEPT ![n] = r.obj]
      /\ queue' = [queue EXCEPT ![o] = @ \o r.q]
      /\ todo' = todo \ {o} /\ UNCHANGED <<chain, msgs, wrote, raw, work>>
  BY DEF Pipe!WriteEvent
<1>2. WholeOut(o) /\ n \in DOMAIN msgs /\ n \in DOMAIN obj /\ obj[n] \in Seq(EventSet) /\ msgs[n] \in Msgs
  BY <1>1, WholeHeld DEF WholeInv
<1>3. evs \in Seq(EventSet) /\ Pipe!EventsOf(msgs[n]) = evs
  BY <1>1, <1>2, MessageEvents
<1>4. Tracks(obj[n], evs)
  <2>1. n \in 1 .. Len(msgs)
    BY <1>2 DEF WholeInv
  <2> HIDE DEF n
  <2> QED BY <1>1, <2>1 DEF WholeInv, Kept
<1>5. r \in EachAccs(o) /\ \A x \in Pipe!Names(evs) : Waits(msgs, r.q, n, x)
  BY <1>1, <1>2, <1>3, <1>4, EachEventWaits DEF WholeOut
<1> HIDE DEF r
<1>6. r.obj \in Seq(EventSet) /\ r.q \in Seq(Holding(msgs)) /\ Tracks(r.obj, evs)
  BY <1>5 DEF EachAccs
<1>7. obj' \in Seq(Seq(EventSet)) /\ Len(obj') = Len(obj)
      /\ \A m \in 1 .. Len(msgs) : obj'[m] = IF m = n THEN r.obj ELSE obj[m]
  <2>1. obj \in Seq(Seq(EventSet)) /\ Len(obj) = Len(msgs)
    BY DEF WholeInv
  <2> HIDE DEF n
  <2> QED BY <1>1, <1>2, <1>6, <2>1
<1>8. Kept'
  <2> SUFFICES ASSUME NEW m \in 1 .. Len(msgs), msgs[m].path = "input" PROVE Tracks(obj'[m], msgs[m].evs)
    BY <1>1 DEF Kept
  <2> QED BY <1>6, <1>7 DEF WholeInv, Kept
<1>9. \A x \in Pipe!Names(Pipe!EventsOf(msgs[n])) : Waits(msgs, r.q, n, x)
  BY <1>3, <1>5
<1> QED BY <1>1, <1>2, <1>6, <1>7, <1>8, <1>9, WholeHanded

LEMMA WholeDrain ==
  ASSUME WellFormed, Arrivals, WholeInv, NEW o \in EvOuts, Pipe!Drain(o)
  PROVE  WholeInv'
<1> DEFINE q == queue[o]
           h == Head(q)
           z == [msg |-> h.msg, from |-> h.from, ev |-> IF h.at = 0 THEN h.ev ELSE obj[h.msg][h.at]]
           w == wrote[o]
           u == Append(w, z)
           t == Tail(q)
<1>1. /\ q # <<>>
      /\ wrote' = [wrote EXCEPT ![o] = Append(@, z)] /\ queue' = [queue EXCEPT ![o] = Tail(@)]
      /\ UNCHANGED <<chain, msgs, obj, todo, mem, raw, work>>
  BY DEF Pipe!Drain
<1> HIDE DEF z
<1>2. obj \in Seq(Seq(EventSet)) /\ msgs \in Seq(Msgs) /\ Len(obj) = Len(msgs) /\ Kept
      /\ DOMAIN mem = EvOuts /\ DOMAIN queue = EvOuts /\ DOMAIN wrote = EvOuts
      /\ DOMAIN raw = EvOuts /\ DOMAIN work = EvOuts
  BY DEF WholeInv
<1>3. /\ wrote'[o] = u /\ queue'[o] = t
      /\ DOMAIN wrote' = EvOuts /\ DOMAIN queue' = EvOuts /\ DOMAIN mem' = EvOuts
      /\ \A p \in EvOuts \ {o} : queue'[p] = queue[p] /\ wrote'[p] = wrote[p]
  BY <1>1, <1>2
<1>4. ASSUME Pipe!Conserving(chain[o]) PROVE WholeOut(o)'
  <2>1. WholeOut(o)
    BY <1>4 DEF WholeInv
  <2>2. w \in Seq(Gone) /\ q \in Seq(Holding(msgs)) /\ Accounted(o) /\ ChainOk(chain[o])
    BY <2>1 DEF WholeOut
  <2>3. h \in Holding(msgs) /\ h = q[1] /\ t \in Seq(Holding(msgs)) /\ Len(t) = Len(q) - 1
        /\ \A j \in 1 .. Len(q) - 1 : t[j] = q[j + 1]
    BY <1>1, <2>2
  <2> HIDE DEF h, t
  <2>4. h.msg \in 1 .. Len(msgs) /\ h.from \in Nat /\ h.ev \in EventSet /\ h.at \in Nat
        /\ (h.at # 0 => msgs[h.msg].path = "input" /\ h.at \in DOMAIN msgs[h.msg].evs)
    <3>1. DOMAIN msgs = 1 .. Len(msgs)
      BY <1>2
    <3> QED BY <2>3, <3>1 DEF Holding
  <2>5. z \in Gone /\ z.msg = h.msg /\ Held(msgs, h) \subseteq NamesOf(z.ev)
    <3>1. h.msg \in Nat
      BY <1>2, <2>4
    <3>2. CASE h.at = 0
      BY <2>4, <3>1, <3>2 DEF z, Gone, Held
    <3>3. CASE h.at # 0
      <4> DEFINE ob == obj[h.msg]
                 evs == msgs[h.msg].evs
      <4>1. Tracks(ob, evs)
        BY <1>2, <2>4, <3>3 DEF Kept
      <4>2. ob \in Seq(EventSet)
        BY <1>2, <2>4
      <4>3. Len(ob) = Len(evs) /\ \A i \in 1 .. Len(ob) : NamesOf(evs[i]) \subseteq NamesOf(ob[i])
        BY <4>1 DEF Tracks
      <4>4. evs \in Seq(EventSet)
        <5>1. msgs[h.msg] \in Msgs
          BY <1>2, <2>4
        <5> QED BY <2>4, <3>3, <5>1, MessageEvents
      <4>5. h.at \in 1 .. Len(ob)
        <5>1. DOMAIN evs = 1 .. Len(evs)
          BY <4>4
        <5> QED BY <2>4, <3>3, <4>3, <5>1
      <4>6. ob[h.at] \in EventSet /\ NamesOf(evs[h.at]) \subseteq NamesOf(ob[h.at])
        BY <4>2, <4>3, <4>5, ElementOfSeq
      <4>7. z = [msg |-> h.msg, from |-> h.from, ev |-> ob[h.at]]
        BY <3>3 DEF z
      <4>8. Held(msgs, h) = NamesOf(evs[h.at])
        BY <3>3 DEF Held
      <4> HIDE DEF ob, evs
      <4> QED BY <2>4, <3>1, <4>6, <4>7, <4>8 DEF Gone
    <3> QED BY <3>2, <3>3
  <2>6. u \in Seq(Gone) /\ Len(u) = Len(w) + 1 /\ u[Len(w) + 1] = z /\ \A j \in 1 .. Len(w) : u[j] = w[j]
    BY <2>2, <2>5, AppendProperties
  <2> HIDE DEF u, q, w
  <2>7. Len(w) \in Nat /\ Len(q) \in Nat
    BY <2>2
  <2>8. Len(w) + 1 \in 1 .. Len(u) /\ \A j \in 1 .. Len(w) : j \in 1 .. Len(u)
    BY <2>6, <2>7
  <2>9. ASSUME NEW k, NEW x, Left(w, k, x) \/ Waits(msgs, q, k, x)
        PROVE  Left(u, k, x) \/ Waits(msgs, t, k, x)
    <3>1. CASE Left(w, k, x)
      BY <2>6, <2>8, <3>1 DEF Left
    <3>2. CASE Waits(msgs, q, k, x)
      <4>1. PICK j \in 1 .. Len(q) : q[j].msg = k /\ x \in Held(msgs, q[j])
        BY <3>2 DEF Waits
      <4>2. CASE j = 1
        BY <2>3, <2>5, <2>6, <2>8, <4>1, <4>2 DEF Left
      <4>3. CASE j # 1
        <5>1. j - 1 \in 1 .. Len(t) /\ j - 1 \in 1 .. Len(q) - 1 /\ (j - 1) + 1 = j
          BY <2>3, <2>7, <4>3
        <5>2. t[j - 1] = q[j]
          BY <2>3, <5>1
        <5> QED BY <4>1, <5>1, <5>2 DEF Waits
      <4> QED BY <4>2, <4>3
    <3> QED BY <2>9, <3>1, <3>2
  <2>10. Given(o)' = Given(o)
    BY <1>1 DEF Given, Pipe!N
  <2>11. Accounted(o)'
    <3> SUFFICES ASSUME NEW k \in Given(o), NEW x \in Pipe!Names(Pipe!EventsOf(msgs[k]))
                 PROVE  Left(u, k, x) \/ Waits(msgs, t, k, x) \/ InHand(o, k, x)
      BY <1>1, <1>3, <2>10 DEF Accounted, InHand
    <3>1. Left(w, k, x) \/ Waits(msgs, q, k, x) \/ InHand(o, k, x)
      BY <2>2 DEF Accounted, w, q
    <3> QED BY <2>9, <3>1
  <2>12. raw[o] \in Seq(DOMAIN msgs) /\ work[o] \in [EvWorkers -> Works(msgs)]
    BY <2>1 DEF WholeOut
  <2> QED BY <1>1, <1>3, <2>2, <2>3, <2>6, <2>11, <2>12 DEF WholeOut
<1>5. obj' \in Seq(Seq(EventSet)) /\ Len(obj') = Len(obj) /\ Kept'
  BY <1>1, <1>2 DEF Kept
<1>6. DOMAIN raw' = EvOuts /\ DOMAIN work' = EvOuts /\ raw' = raw /\ work' = work
  BY <1>1, <1>2
<1> QED BY <1>1, <1>3, <1>4, <1>5, <1>6, WholeOthers

\* What a worker of o did, of which the messages it has been given are none the less.
LEMMA WholeWorked ==
  ASSUME WholeInv, NEW o \in EvOuts, WholeOut(o), UNCHANGED <<chain, msgs, obj, todo, queue>>,
         DOMAIN mem' = EvOuts, DOMAIN wrote' = EvOuts, DOMAIN raw' = EvOuts, DOMAIN work' = EvOuts,
         \A p \in EvOuts \ {o} : wrote'[p] = wrote[p] /\ raw'[p] = raw[p] /\ work'[p] = work[p],
         wrote'[o] \in Seq(Gone), raw'[o] \in Seq(DOMAIN msgs), work'[o] \in [EvWorkers -> Works(msgs)],
         \A k \in Given(o) : \A x : x \in Pipe!Names(Pipe!EventsOf(msgs[k])) =>
           (Left(wrote[o], k, x) \/ InHand(o, k, x) =>
             Left(wrote'[o], k, x) \/ Untaken(raw'[o], k) \/ Worked(work'[o], k, x))
  PROVE  WholeInv'
<1>1. Given(o)' = Given(o)
  BY DEF Given, Pipe!N
<1>2. Accounted(o)'
  <2> SUFFICES ASSUME NEW k \in Given(o), NEW x \in Pipe!Names(Pipe!EventsOf(msgs[k]))
               PROVE  Left(wrote'[o], k, x) \/ Waits(msgs, queue[o], k, x)
                        \/ Untaken(raw'[o], k) \/ Worked(work'[o], k, x)
    BY <1>1 DEF Accounted, InHand
  <2>1. Left(wrote[o], k, x) \/ Waits(msgs, queue[o], k, x) \/ InHand(o, k, x)
    BY DEF WholeOut, Accounted
  <2> QED BY <2>1
<1>3. WholeOut(o)'
  BY <1>2 DEF WholeOut
<1>4. obj' \in Seq(Seq(EventSet)) /\ Len(obj') = Len(obj) /\ Kept'
  BY DEF WholeInv, Kept
<1>5. DOMAIN queue' = EvOuts
  BY DEF WholeInv
<1> QED BY <1>3, <1>4, <1>5, WholeOthers

\* A response handed to the workers.
LEMMA WholeHand ==
  ASSUME WellFormed, Arrivals, WholeInv, NEW o \in EvOuts, Pipe!Hand(o)
  PROVE  WholeInv'
<1> DEFINE n == Pipe!N
           r == Append(raw[o], n)
<1>1. /\ o \in todo /\ raw' = [raw EXCEPT ![o] = r] /\ todo' = todo \ {o}
      /\ UNCHANGED <<chain, msgs, obj, queue, wrote, mem, work>>
  BY DEF Pipe!Hand
<1>2. n \in Nat /\ n \in DOMAIN msgs
  BY <1>1, WholeHeld
<1>3. DOMAIN mem = EvOuts /\ DOMAIN queue = EvOuts /\ DOMAIN wrote = EvOuts
      /\ DOMAIN raw = EvOuts /\ DOMAIN work = EvOuts
  BY DEF WholeInv
<1> HIDE DEF n
<1>4. ASSUME Pipe!Conserving(chain[o]) PROVE WholeOut(o)'
  <2>1. WholeOut(o)
    BY <1>4 DEF WholeInv
  <2>2. r \in Seq(DOMAIN msgs) /\ Len(r) = Len(raw[o]) + 1 /\ r[Len(raw[o]) + 1] = n
        /\ \A j \in 1 .. Len(raw[o]) : r[j] = raw[o][j]
    BY <1>2, <2>1, AppendProperties DEF WholeOut
  <2>3. raw'[o] = r
    BY <1>1, <1>3
  <2>4. Len(raw[o]) \in Nat
    BY <2>1 DEF WholeOut
  <2> HIDE DEF r
  <2>5. Untaken(r, n) /\ \A k : Untaken(raw[o], k) => Untaken(r, k)
    <3>1. Len(raw[o]) + 1 \in 1 .. Len(r) /\ \A j \in 1 .. Len(raw[o]) : j \in 1 .. Len(r)
      BY <2>2, <2>4
    <3> QED BY <2>2, <3>1 DEF Untaken
  <2>6. Given(o)' = 1 .. n /\ Given(o) = 1 .. n - 1
    BY <1>1 DEF Given, Pipe!N, n
  <2>7. \A k \in 1 .. n : k \in 1 .. n - 1 \/ k = n
    BY <1>2
  <2>8. Accounted(o)'
    <3> SUFFICES ASSUME NEW k \in 1 .. n, NEW x \in Pipe!Names(Pipe!EventsOf(msgs[k]))
                 PROVE  Left(wrote[o], k, x) \/ Waits(msgs, queue[o], k, x) \/ Untaken(r, k) \/ Worked(work[o], k, x)
      BY <1>1, <2>3, <2>6 DEF Accounted, InHand
    <3>1. CASE k = n
      BY <2>5, <3>1
    <3>2. CASE k \in 1 .. n - 1
      BY <2>1, <2>5, <2>6, <3>2 DEF WholeOut, Accounted, InHand
    <3> QED BY <2>7, <3>1, <3>2
  <2> QED BY <1>1, <2>1, <2>2, <2>3, <2>8 DEF WholeOut
<1>5. obj' \in Seq(Seq(EventSet)) /\ Len(obj') = Len(obj) /\ Kept'
  BY <1>1 DEF WholeInv, Kept
<1>6. /\ DOMAIN raw' = EvOuts
      /\ \A p \in EvOuts \ {o} : queue'[p] = queue[p] /\ wrote'[p] = wrote[p] /\ raw'[p] = raw[p] /\ work'[p] = work[p]
  BY <1>1, <1>3
<1> QED BY <1>1, <1>3, <1>4, <1>5, <1>6, WholeOthers

Took(o, w, k) ==
  /\ DOMAIN work' = EvOuts /\ \A p \in EvOuts \ {o} : work'[p] = work[p]
  /\ DOMAIN work'[o] = EvWorkers /\ work'[o] = [v \in EvWorkers |-> work'[o][v]]
  /\ work'[o][w] = k /\ \A v \in EvWorkers \ {w} : work'[o][v] = work[o][v]

\* A worker that goes on from what it had to k: its message is none the less.
LEMMA WholeTurn ==
  ASSUME WholeInv, NEW o \in EvOuts, NEW w \in EvWorkers, WholeOut(o),
         UNCHANGED <<chain, msgs, obj, todo, queue>>, DOMAIN mem' = EvOuts,
         NEW k \in Works(msgs), Took(o, w, k),
         NEW r \in Seq(DOMAIN msgs), raw'[o] = r, NEW u \in Seq(Gone), wrote'[o] = u,
         DOMAIN raw' = EvOuts, DOMAIN wrote' = EvOuts,
         \A p \in EvOuts \ {o} : raw'[p] = raw[p] /\ wrote'[p] = wrote[p],
         \A m \in Given(o) : \A x \in Pipe!Names(Pipe!EventsOf(msgs[m])) :
           /\ Left(wrote[o], m, x) => Left(u, m, x)
           /\ Untaken(raw[o], m) => Untaken(r, m) \/ (k.msg = m /\ x \in Pipe!Names(k.es))
           /\ work[o][w].msg = m /\ x \in Pipe!Names(work[o][w].es) =>
                Left(u, m, x) \/ (k.msg = m /\ x \in Pipe!Names(k.es))
  PROVE  WholeInv'
<1> DEFINE wk == work'[o]
<1>2. DOMAIN work' = EvOuts /\ \A p \in EvOuts \ {o} : work'[p] = work[p]
  BY DEF Took
<1>3. /\ wk \in [EvWorkers -> Works(msgs)] /\ wk[w] = k
      /\ \A v \in EvWorkers : v # w => wk[v] = work[o][v]
  <2>1. \A v \in EvWorkers : work[o][v] \in Works(msgs)
    BY DEF WholeOut
  <2>2. \A v \in EvWorkers : wk[v] \in Works(msgs)
    BY <2>1 DEF Took
  <2> QED BY <2>2 DEF Took
<1> HIDE DEF wk
<1>4. ASSUME NEW m \in Given(o), NEW x \in Pipe!Names(Pipe!EventsOf(msgs[m])),
             Left(wrote[o], m, x) \/ InHand(o, m, x)
      PROVE  Left(u, m, x) \/ Untaken(r, m) \/ Worked(wk, m, x)
  <2>1. k.msg = m /\ x \in Pipe!Names(k.es) => Worked(wk, m, x)
    BY <1>3 DEF Worked
  <2>2. CASE Left(wrote[o], m, x) \/ Untaken(raw[o], m)
    BY <2>1, <2>2
  <2>3. ASSUME NEW v \in EvWorkers, work[o][v].msg = m /\ x \in Pipe!Names(work[o][v].es)
        PROVE  Left(u, m, x) \/ Worked(wk, m, x)
    <3>1. CASE v = w
      BY <2>1, <2>3, <3>1
    <3>2. CASE v # w
      BY <1>3, <2>3, <3>2 DEF Worked
    <3> QED BY <3>1, <3>2
  <2> QED BY <1>4, <2>2, <2>3 DEF InHand, Worked
<1>5. \A m \in Given(o) : \A x : x \in Pipe!Names(Pipe!EventsOf(msgs[m])) =>
        (Left(wrote[o], m, x) \/ InHand(o, m, x) =>
           Left(wrote'[o], m, x) \/ Untaken(raw'[o], m) \/ Worked(work'[o], m, x))
  BY <1>4 DEF wk
<1> QED BY <1>2, <1>3, <1>5, WholeWorked DEF wk

LEMMA WholeTake ==
  ASSUME WellFormed, Arrivals, WholeInv, NEW o \in EvOuts, NEW w \in EvWorkers, WholeOut(o), Pipe!Take(o, w)
  PROVE  WholeInv'
<1> DEFINE m == Head(raw[o])
           es == Pipe!EventsOf(msgs[m])
           k == [msg |-> m, step |-> 1, es |-> es, out |-> <<>>, adding |-> FALSE]
           t == Tail(raw[o])
<1>1. /\ raw[o] # <<>> /\ work[o][w] = Pipe!Idle
      /\ work' = [work EXCEPT ![o][w] = k] /\ raw' = [raw EXCEPT ![o] = t]
      /\ UNCHANGED <<chain, msgs, obj, todo, queue, wrote, mem>>
  BY DEF Pipe!Take
<1>2. raw[o] \in Seq(DOMAIN msgs) /\ wrote[o] \in Seq(Gone)
  BY DEF WholeOut
<1>3. m \in DOMAIN msgs /\ m = raw[o][1] /\ t \in Seq(DOMAIN msgs) /\ Len(t) = Len(raw[o]) - 1
      /\ \A j \in 1 .. Len(raw[o]) - 1 : t[j] = raw[o][j + 1]
  <2>1. \A D : \A q \in Seq(D) : q # <<>> =>
          /\ Head(q) \in D /\ Head(q) = q[1] /\ Tail(q) \in Seq(D) /\ Len(Tail(q)) = Len(q) - 1
          /\ \A j \in 1 .. Len(q) - 1 : Tail(q)[j] = q[j + 1]
    OBVIOUS
  <2> QED BY <1>1, <1>2, <2>1
<1> HIDE DEF m, t
<1>4. es \in Seq(EventSet)
  <2>1. msgs[m] \in Msgs
    BY <1>3 DEF WholeInv
  <2> QED BY <2>1, MessageEvents
<1> HIDE DEF es
<1>6. k \in Works(msgs) /\ k.msg = m /\ k.es = es
  BY <1>3, <1>4 DEF Works, Work
<1> HIDE DEF k
<1>7. ASSUME NEW n, NEW x \in Pipe!Names(Pipe!EventsOf(msgs[n])), Untaken(raw[o], n)
      PROVE  Untaken(t, n) \/ (k.msg = n /\ x \in Pipe!Names(k.es))
  <2>1. PICK j \in 1 .. Len(raw[o]) : raw[o][j] = n
    BY <1>7 DEF Untaken
  <2>2. CASE j = 1
    BY <1>3, <1>6, <2>1, <2>2 DEF es
  <2>3. CASE j # 1
    <3>1. Len(raw[o]) \in Nat
      BY <1>2
    <3>2. j - 1 \in 1 .. Len(t) /\ j - 1 \in 1 .. Len(raw[o]) - 1 /\ (j - 1) + 1 = j
      BY <1>3, <2>3, <3>1
    <3> QED BY <1>3, <2>1, <3>2 DEF Untaken
  <2> QED BY <2>2, <2>3
<1>8. ~\E x : x \in Pipe!Names(work[o][w].es)
  BY <1>1 DEF Pipe!Idle, Pipe!Names
<1>9. /\ DOMAIN mem' = EvOuts /\ DOMAIN wrote' = EvOuts /\ DOMAIN raw' = EvOuts /\ raw'[o] = t
      /\ wrote' = wrote /\ \A p \in EvOuts \ {o} : raw'[p] = raw[p]
  BY <1>1 DEF WholeInv, t
<1>10. Took(o, w, k)
  <2>1. DOMAIN work = EvOuts /\ DOMAIN work[o] = EvWorkers /\ work' = [work EXCEPT ![o][w] = k]
    BY <1>1 DEF WholeInv, WholeOut, k
  <2> QED BY <2>1 DEF Took
<1> QED BY <1>1, <1>2, <1>3, <1>6, <1>7, <1>8, <1>9, <1>10, WholeTurn

LEMMA WholeProcess ==
  ASSUME WholeInv, NEW o \in EvOuts, NEW w \in EvWorkers, WholeOut(o), Pipe!Process(o, w)
  PROVE  WholeInv'
<1> DEFINE j == work[o][w]
           r == Pipe!RunStep([es |-> j.es, mem |-> mem[o]], Pipe!Turn(o, w), Pipe!Now)
           k == [j EXCEPT !.es = r.es, !.step = @ + 1]
<1>1. /\ j.step \in DOMAIN chain[o]
      /\ work' = [work EXCEPT ![o][w].es = r.es, ![o][w].step = @ + 1] /\ mem' = [mem EXCEPT ![o] = r.mem]
      /\ UNCHANGED <<chain, msgs, obj, todo, queue, wrote, raw>>
  BY DEF Pipe!Process, Pipe!OthersKeep, Pipe!Runs
<1>2. /\ j \in Works(msgs) /\ work[o] \in [EvWorkers -> Works(msgs)]
      /\ raw[o] \in Seq(DOMAIN msgs) /\ wrote[o] \in Seq(Gone) /\ ChainOk(chain[o])
  BY DEF WholeOut
<1>3. DOMAIN work = EvOuts /\ DOMAIN raw = EvOuts /\ DOMAIN wrote = EvOuts /\ DOMAIN mem = EvOuts
  BY DEF WholeInv
<1>4. StepOk(Pipe!Turn(o, w))
  BY <1>1, <1>2 DEF ChainOk, Pipe!Turn
<1>5. j.es \in Seq(EventSet) /\ j.step \in Nat
  BY <1>2 DEF Works, Work
<1>6. Conserved(j.es, r.es)
  BY <1>4, <1>5, StepKeeps
<1>7. r.es \in Seq(EventSet) /\ Pipe!Names(j.es) \subseteq Pipe!Names(r.es)
  BY <1>6 DEF Conserved
<1> HIDE DEF r
<1>8. k \in Works(msgs) /\ k.msg = j.msg /\ k.es = r.es
  <2> DEFINE S == {0} \cup DOMAIN msgs
             Q == Seq(EventSet)
             O == {<<>>}
             B == {FALSE}
             q == r.es
  <2>2. Works(msgs) = Work(S, Q, O, B) /\ q \in Q
    BY <1>7 DEF Works
  <2>3. j \in Work(S, Q, O, B)
    BY <1>2, <2>2
  <2> DEFINE n == j.step + 1
             b == [j EXCEPT !.es = q]
             c == [b EXCEPT !.step = n]
  <2>4. k = c
    OBVIOUS
  <2> HIDE DEF j, k, q, S, Q, O, B
  <2>5. n \in Nat
    BY <2>3 DEF Work
  <2> HIDE DEF n
  <2>6. b \in Work(S, Q, O, B) /\ b.msg = j.msg /\ b.es = q
    BY <2>2, <2>3 DEF Work
  <2> HIDE DEF b
  <2>7. c \in Work(S, Q, O, B) /\ c.msg = b.msg /\ c.es = b.es
    BY <2>5, <2>6 DEF Work
  <2> HIDE DEF c
  <2> QED BY <2>2, <2>4, <2>6, <2>7 DEF q
<1>9. Took(o, w, k)
  <2>1. DOMAIN work[o] = EvWorkers
    BY <1>2
  <2>2. work' = [work EXCEPT ![o] = [@ EXCEPT ![w] = k]]
    <3>1. DOMAIN j = {"msg", "step", "es", "out", "adding"}
      BY <1>2 DEF Works, Work
    <3> HIDE DEF j
    <3> QED BY <1>1, <1>3, <2>1, <3>1 DEF j
  <2> HIDE DEF k
  <2> QED BY <1>3, <2>1, <2>2 DEF Took
<1> HIDE DEF k
<1>10. /\ DOMAIN mem' = EvOuts /\ DOMAIN raw' = EvOuts /\ DOMAIN wrote' = EvOuts
       /\ raw'[o] = raw[o] /\ wrote'[o] = wrote[o]
       /\ \A p \in EvOuts \ {o} : raw'[p] = raw[p] /\ wrote'[p] = wrote[p]
  BY <1>1, <1>3
<1>11. \A m, x : work[o][w].msg = m /\ x \in Pipe!Names(work[o][w].es) => k.msg = m /\ x \in Pipe!Names(k.es)
  BY <1>7, <1>8
<1> HIDE DEF j
<1>12. UNCHANGED <<chain, msgs, obj, todo, queue>>
  BY <1>1
<1> DEFINE u == wrote[o]
           t == raw[o]
<1>13. \A m \in Given(o) : \A x \in Pipe!Names(Pipe!EventsOf(msgs[m])) :
         /\ Left(wrote[o], m, x) => Left(u, m, x)
         /\ Untaken(raw[o], m) => Untaken(t, m) \/ (k.msg = m /\ x \in Pipe!Names(k.es))
         /\ work[o][w].msg = m /\ x \in Pipe!Names(work[o][w].es) =>
              Left(u, m, x) \/ (k.msg = m /\ x \in Pipe!Names(k.es))
  BY <1>11
<1>14. k \in Works(msgs) /\ t \in Seq(DOMAIN msgs) /\ u \in Seq(Gone) /\ raw'[o] = t /\ wrote'[o] = u
  BY <1>2, <1>8, <1>10
<1>15. /\ DOMAIN mem' = EvOuts /\ DOMAIN raw' = EvOuts /\ DOMAIN wrote' = EvOuts
       /\ \A p \in EvOuts \ {o} : raw'[p] = raw[p] /\ wrote'[p] = wrote[p]
  BY <1>10
<1> HIDE DEF u, t
<1> QED BY <1>9, <1>12, <1>13, <1>14, <1>15, WholeTurn

LEMMA WholeDeliver ==
  ASSUME WholeInv, NEW o \in EvOuts, NEW w \in EvWorkers, WholeOut(o), Pipe!Deliver(o, w)
  PROVE  WholeInv'
<1> DEFINE j == work[o][w]
           d == [i \in DOMAIN j.es |-> [msg |-> j.msg, from |-> 0, ev |-> j.es[i]]]
           u == wrote[o] \o d
<1>1. /\ wrote' = [wrote EXCEPT ![o] = u] /\ work' = [work EXCEPT ![o][w] = Pipe!Idle] /\ j.msg # 0
      /\ UNCHANGED <<chain, msgs, obj, todo, queue, mem, raw>>
  BY DEF Pipe!Deliver
<1>2. /\ j \in Works(msgs)
      /\ raw[o] \in Seq(DOMAIN msgs) /\ wrote[o] \in Seq(Gone)
  BY DEF WholeOut
<1>3. j.es \in Seq(EventSet) /\ j.msg \in Nat
  <2>1. j.es \in Seq(EventSet) /\ j.msg \in {0} \cup DOMAIN msgs
    BY <1>2 DEF Works, Work
  <2>2. DOMAIN msgs \subseteq Nat
    BY DEF WholeInv
  <2> QED BY <2>1, <2>2
<1>4. d \in Seq(Gone) /\ Len(d) = Len(j.es) /\ \A i \in 1 .. Len(d) : d[i].msg = j.msg /\ d[i].ev = j.es[i]
  <2> HIDE DEF j
  <2>1. DOMAIN j.es = 1 .. Len(j.es) /\ Len(j.es) \in Nat /\ \A i \in 1 .. Len(j.es) : j.es[i] \in EventSet
    BY <1>3
  <2>2. \A i \in 1 .. Len(j.es) : d[i] \in Gone /\ d[i].msg = j.msg /\ d[i].ev = j.es[i]
    BY <1>3, <2>1 DEF Gone
  <2>3. DOMAIN d = 1 .. Len(j.es) /\ d = [i \in 1 .. Len(j.es) |-> d[i]]
    BY <2>1
  <2> HIDE DEF d
  <2>4. d \in Seq(Gone) /\ Len(d) = Len(j.es)
    <3>1. d \in [1 .. Len(j.es) -> Gone]
      BY <2>2, <2>3
    <3>2. \A T : \A n \in Nat : \A f \in [1 .. n -> T] : f \in Seq(T) /\ Len(f) = n
      OBVIOUS
    <3> QED BY <2>1, <3>1, <3>2
  <2> QED BY <2>2, <2>4
<1> HIDE DEF d
<1>5. /\ u \in Seq(Gone) /\ Len(u) = Len(wrote[o]) + Len(d)
      /\ \A i \in 1 .. Len(wrote[o]) : u[i] = wrote[o][i]
      /\ \A i \in 1 .. Len(d) : u[Len(wrote[o]) + i] = d[i]
  <2>1. u \in Seq(Gone) /\ Len(u) = Len(wrote[o]) + Len(d)
        /\ \A i \in 1 .. Len(wrote[o]) + Len(d) :
             u[i] = IF i <= Len(wrote[o]) THEN wrote[o][i] ELSE d[i - Len(wrote[o])]
    <3>1. d \in Seq(Gone) /\ wrote[o] \in Seq(Gone)
      BY <1>2, <1>4
    <3> HIDE DEF d
    <3> QED BY <3>1, ConcatProperties
  <2>2. Len(wrote[o]) \in Nat /\ Len(d) \in Nat
    BY <1>2, <1>4
  <2> HIDE DEF u
  <2>3. \A i \in 1 .. Len(wrote[o]) : i \in 1 .. Len(wrote[o]) + Len(d) /\ i <= Len(wrote[o])
    BY <2>2
  <2>4. \A i \in 1 .. Len(d) : Len(wrote[o]) + i \in 1 .. Len(wrote[o]) + Len(d)
          /\ ~(Len(wrote[o]) + i <= Len(wrote[o])) /\ (Len(wrote[o]) + i) - Len(wrote[o]) = i
    BY <2>2
  <2> QED BY <2>1, <2>3, <2>4
<1> HIDE DEF u
<1>6. Len(wrote[o]) \in Nat /\ Len(d) \in Nat
  BY <1>2, <1>4
<1>7. \A m, x : Left(wrote[o], m, x) => Left(u, m, x)
  <2>1. \A i \in 1 .. Len(wrote[o]) : i \in 1 .. Len(u)
    BY <1>5, <1>6
  <2> QED BY <1>5, <2>1 DEF Left
<1>8. ASSUME NEW m, NEW x \in Pipe!Names(j.es), j.msg = m PROVE Left(u, m, x)
  <2>1. PICK i \in DOMAIN j.es : x \in NamesOf(j.es[i])
    BY <1>8 DEF Pipe!Names, NamesOf
  <2>2. i \in 1 .. Len(d) /\ Len(wrote[o]) + i \in 1 .. Len(u)
    <3>1. i \in 1 .. Len(d)
      BY <1>3, <1>4, <2>1
    <3>2. Len(u) = Len(wrote[o]) + Len(d)
      BY <1>5
    <3> QED BY <1>6, <3>1, <3>2
  <2>3. u[Len(wrote[o]) + i].msg = m /\ u[Len(wrote[o]) + i].ev = j.es[i]
    BY <1>4, <1>5, <1>8, <2>2
  <2> QED BY <2>1, <2>2, <2>3 DEF Left
<1>9. Pipe!Idle \in Works(msgs)
  BY DEF Works, Work, Pipe!Idle
<1>10. Took(o, w, Pipe!Idle)
  <2>1. DOMAIN work = EvOuts /\ DOMAIN work[o] = EvWorkers
    BY DEF WholeInv, WholeOut
  <2> QED BY <1>1, <2>1 DEF Took
<1>11. /\ DOMAIN mem' = EvOuts /\ DOMAIN wrote' = EvOuts /\ DOMAIN raw' = EvOuts /\ raw' = raw /\ wrote'[o] = u
       /\ \A p \in EvOuts \ {o} : wrote'[p] = wrote[p]
  BY <1>1 DEF WholeInv, u
<1> QED BY <1>1, <1>2, <1>5, <1>7, <1>8, <1>9, <1>10, <1>11, WholeTurn

LEMMA WholeWorking ==
  ASSUME WellFormed, Arrivals, WholeInv, NEW o \in EvOuts, NEW w \in EvWorkers,
         Pipe!Conserving(chain[o]), Pipe!Working(o, w)
  PROVE  WholeInv'
<1>1. WholeOut(o)
  BY DEF WholeInv
<1>2. ~work[o][w].adding
  <2>1. work[o][w] \in Works(msgs)
    BY <1>1 DEF WholeOut
  <2> QED BY <2>1 DEF Works, Work
<1>3. Pipe!Runs(o, w) => ~Pipe!Limits(Pipe!Turn(o, w))
  BY DEF Pipe!Runs, Pipe!Limits, Pipe!Turn, Pipe!Conserving, Pipe!Rearranging
<1>4. ~Pipe!Add(o, w) /\ ~Pipe!Get(o, w) /\ ~Pipe!Through(o, w)
  BY <1>2, <1>3 DEF Pipe!Add, Pipe!Get, Pipe!Through
<1>5. Pipe!Take(o, w) \/ Pipe!Process(o, w) \/ Pipe!Deliver(o, w)
  BY <1>4 DEF Pipe!Working
<1> QED BY <1>1, <1>5, WholeTake, WholeProcess, WholeDeliver

LEMMA WholeWorkingOther ==
  ASSUME WholeInv, NEW o \in EvOuts, NEW w \in EvWorkers, ~Pipe!Conserving(chain[o]), Pipe!Working(o, w)
  PROVE  WholeInv'
<1>1. DOMAIN mem = EvOuts /\ DOMAIN queue = EvOuts /\ DOMAIN wrote = EvOuts
      /\ DOMAIN raw = EvOuts /\ DOMAIN work = EvOuts
  BY DEF WholeInv
<1>2. /\ UNCHANGED <<chain, msgs, obj, todo, queue>>
      /\ mem' = mem \/ \E m : mem' = [mem EXCEPT ![o] = m]
      /\ wrote' = wrote \/ \E x : wrote' = [wrote EXCEPT ![o] = x]
      /\ raw' = raw \/ \E r : raw' = [raw EXCEPT ![o] = r]
  BY Zenon DEF Pipe!Working, Pipe!Take, Pipe!Process, Pipe!Get, Pipe!Add, Pipe!Through, Pipe!Deliver,
     Pipe!OthersKeep
<1>3. DOMAIN work' = EvOuts /\ \A p \in EvOuts \ {o} : work'[p] = work[p]
  <2> DEFINE Same(f) == DOMAIN f = EvOuts /\ \A p \in EvOuts \ {o} : f[p] = work[p]
  <2>1. Same(work) /\ \A f, k : Same(f) => Same([f EXCEPT ![o] = k])
    BY <1>1
  <2> HIDE DEF Same
  <2>2. Same(work')
    <3>1. CASE Pipe!Take(o, w)
      BY <2>1, <3>1 DEF Pipe!Take
    <3>2. CASE Pipe!Process(o, w)
      BY <2>1, <3>2 DEF Pipe!Process
    <3>3. CASE Pipe!Get(o, w)
      BY <2>1, <3>3 DEF Pipe!Get
    <3>4. CASE Pipe!Add(o, w)
      BY <2>1, <3>4 DEF Pipe!Add
    <3>5. CASE Pipe!Through(o, w)
      BY <2>1, <3>5 DEF Pipe!Through
    <3>6. CASE Pipe!Deliver(o, w)
      BY <2>1, <3>6 DEF Pipe!Deliver
    <3> QED BY <3>1, <3>2, <3>3, <3>4, <3>5, <3>6 DEF Pipe!Working
  <2> QED BY <2>2 DEF Same
<1>4. /\ DOMAIN mem' = EvOuts /\ DOMAIN queue' = EvOuts /\ DOMAIN wrote' = EvOuts /\ DOMAIN raw' = EvOuts
      /\ \A p \in EvOuts \ {o} : queue'[p] = queue[p] /\ wrote'[p] = wrote[p] /\ raw'[p] = raw[p]
  BY <1>1, <1>2
<1>5. obj' \in Seq(Seq(EventSet)) /\ Len(obj') = Len(obj) /\ Kept'
  BY <1>2 DEF WholeInv, Kept
<1> QED BY <1>2, <1>3, <1>4, <1>5, WholeOthers

LEMMA WholeWritten == ASSUME WholeInv PROVE Pipe!MergeConserves
<1> SUFFICES ASSUME NEW o \in EvOuts, Pipe!Conserving(chain[o]), Pipe!WorkedOff(o), NEW m \in Given(o),
                    NEW x \in Pipe!Names(Pipe!EventsOf(msgs[m]))
             PROVE  x \in UNION {Pipe!Names(<<wrote[o][i].ev>>) : i \in {j \in DOMAIN wrote[o] : wrote[o][j].msg = m}}
  BY DEF Pipe!MergeConserves, Given
<1>0. queue[o] = <<>> /\ raw[o] = <<>> /\ work[o] = [w \in EvWorkers |-> Pipe!Idle]
  BY DEF Pipe!WorkedOff
<1>1. wrote[o] \in Seq(Gone) /\ Accounted(o)
  BY DEF WholeInv, WholeOut
<1>2. Left(wrote[o], m, x)
  <2>1. ~Waits(msgs, <<>>, m, x) /\ ~Untaken(<<>>, m)
    BY DEF Waits, Untaken
  <2>2. ~Worked(work[o], m, x)
    BY <1>0 DEF Worked, Pipe!Idle, Pipe!Names
  <2> QED BY <1>0, <1>1, <2>1, <2>2 DEF Accounted, InHand
<1>3. PICK i \in 1 .. Len(wrote[o]) : wrote[o][i].msg = m /\ x \in NamesOf(wrote[o][i].ev)
  BY <1>2 DEF Left
<1>4. i \in DOMAIN wrote[o] /\ wrote[o][i].ev \in EventSet
  <2>1. wrote[o][i] \in Gone
    BY <1>1, <1>3
  <2> QED BY <1>1, <1>3, <2>1 DEF Gone
<1>5. x \in Pipe!Names(<<wrote[o][i].ev>>)
  BY <1>3, <1>4, OneName
<1> QED BY <1>3, <1>4, <1>5

\* No output conserves, nor ever will: an output keeps its processors.
Unconserving == \A o \in EvOuts : ~Pipe!Conserving(chain[o])

LEMMA WholeEither ==
  ASSUME WellFormed, Arrivals, Unrobbed, WholeInv, NEW o \in EvOuts, Pipe!WriteEvent(o)
  PROVE  Pipe!Conserving(chain[o]) \/ Unconserving
<1>1. CASE \A p, q \in EvOuts : p = q
  BY <1>1 DEF Unconserving
<1>2. CASE \A ps \in EvChains : Pipe!Conserving(ps)
  BY <1>2 DEF WholeInv
<1>3. CASE EvBatches = {}
  <2>1. msgs[Pipe!N] \in Msgs /\ msgs[Pipe!N].path = "input"
    BY WholeHeld DEF Pipe!WriteEvent
  <2> QED BY <1>3, <2>1 DEF Msgs
<1> QED BY <1>1, <1>2, <1>3 DEF Unrobbed

\* The processors that rearrange events (merge.Apply, groupBy.Apply, addTag.Apply and a
\* combine.Apply of those) lose nothing: once an output behind a chain of them has worked its
\* queues off, what it wrote of every message names each value and each delete of the message's
\* events that have tags, for any events, chains, outputs and orders in which workers run.
THEOREM NothingLost ==
  ASSUME WellFormed, Arrivals, Configured, Unrobbed
  PROVE  Pipe!Spec => []Pipe!MergeConserves
<1>1. Pipe!Init => WholeInv
  BY WholeInit
<1>2. Unconserving /\ [Pipe!Next]_(Pipe!evars) => Unconserving'
  BY PlacesStay DEF Unconserving
<1>3. WholeInv /\ [Pipe!Next]_(Pipe!evars) => WholeInv' \/ Unconserving'
  <2> SUFFICES ASSUME WholeInv, [Pipe!Next]_(Pipe!evars), ~Unconserving PROVE WholeInv'
    BY <1>2
  <2>1. CASE Pipe!Receive
    BY <2>1, WholeReceive
  <2>2. ASSUME NEW o \in EvOuts, Pipe!Write(o) PROVE WholeInv'
    BY <2>2, WholeWrite, WholeWriteOther
  <2>3. ASSUME NEW o \in EvOuts, Pipe!WriteEvent(o) PROVE WholeInv'
    BY <2>3, WholeWriteEvent, WholeEither
  <2>4. ASSUME NEW o \in EvOuts, Pipe!Drain(o) PROVE WholeInv'
    BY <2>4, WholeDrain
  <2>5. ASSUME NEW o \in EvOuts, Pipe!Hand(o) PROVE WholeInv'
    BY <2>5, WholeHand
  <2>6. ASSUME NEW o \in EvOuts, NEW w \in EvWorkers, Pipe!Working(o, w) PROVE WholeInv'
    BY <2>6, WholeWorking, WholeWorkingOther
  <2>7. CASE UNCHANGED Pipe!evars
    BY <2>7 DEF WholeInv, WholeOut, Accounted, InHand, Given, Kept, Pipe!evars, Pipe!N
  <2> QED BY <2>1, <2>2, <2>3, <2>4, <2>5, <2>6, <2>7 DEF Pipe!Next
<1>4. WholeInv \/ Unconserving => Pipe!MergeConserves
  BY WholeWritten DEF Unconserving, Pipe!MergeConserves
<1> QED BY <1>1, <1>2, <1>3, <1>4, PTL DEF Pipe!Spec
=============================================================================
