------------------------------ MODULE InputPool ------------------------------
(***************************************************************************)
(* The inputs: NATS, JetStream and Kafka consumers that hand what they     *)
(* read to the outputs manager's pipeline channel.  `kind` says which one  *)
(* runs.  Start, Update and Close are called by the inputs manager; every  *)
(* worker is a goroutine that connects, consumes until its context ends or *)
(* the connection fails, and tries again after a pause.                    *)
(*                                                                         *)
(* A worker evaluates n.wg in its first statement, `defer n.wg.Done()`:    *)
(* a goroutine that is scheduled only after an Update swapped n.wg signs   *)
(* off from the wrong group (variable `raced`).                            *)
(***************************************************************************)
EXTENDS Integers, Sequences, FiniteSets

CONSTANTS Kinds,      \* of {"nats", "jetstream", "kafka"}
          MaxGen,     \* worker generations: restarting Updates + 1
          MaxMsgs,    \* messages published
          MaxFails,   \* failures of a connection
          PipeCap,    \* capacity of the pipeline channel
          InConfs,    \* configurations: [workers, addr, outs]
          InConf0     \* the configuration of Start

Gens == 1 .. MaxGen
Slots == 1 .. 2
Msgs == 1 .. MaxMsgs

VARIABLES
  kind,
  cfg,        \* n.cfg and n.dynCfg
  gen,        \* the generation n.cfn and n.wg belong to
  cancelled,  \* generations whose cancel function was called
  wg,         \* wg[g]: the counter of the g-th wait group
  w,          \* w[g][i]: worker i of generation g
  extra,      \* extra[g]: doWork calls the Kafka error path started on their own
  upd,        \* the Update in progress: "idle" or "wait", for generation `old`
  life,       \* "open", "closing" or "closed"
  published,  \* messages published so far
  offset,     \* offset[c]: what the durable consumer (or group) c has acknowledged
  pipe,       \* the pipeline channel: [msg, outs] entries
  fate,       \* fate[m]: how often m was handed over, dropped, lost
  fails,      \* connection failures so far
  raced       \* history: some worker captured the wait group of a later generation

vars == <<kind, cfg, gen, cancelled, wg, w, extra, upd, life, published, offset,
          pipe, fate, fails, raced>>

NoWorker == [st |-> "none", wg |-> 0, addr |-> "", hold |-> 0]
Spawned == [NoWorker EXCEPT !.st = "spawned"]
Quiet == [pc |-> "idle", old |-> 0]
NoFate == [sent |-> 0, dropped |-> 0, lost |-> 0]

(* What a worker consumes from: a Kafka group is shared, a JetStream worker *)
(* has a durable consumer of its own, named by setName after Start and, as  *)
(* Update does not call it, by the configuration after an Update.           *)
Consumer(g, i) ==
  CASE kind = "kafka" -> <<"group", 0>>
    [] kind = "jetstream" -> <<IF g = 1 THEN "start" ELSE "update", i>>
    [] OTHER -> <<"none", 0>>
Consumers == ({"start", "update"} \X Slots) \cup {<<"group", 0>>, <<"none", 0>>}

StartWorkers(g, c) == [i \in Slots |-> IF i <= c.workers THEN Spawned ELSE NoWorker]

StartPool ==
  /\ cfg = InConf0
  /\ gen = 1
  /\ cancelled = {}
  /\ wg = [g \in Gens |-> IF g = 1 THEN InConf0.workers ELSE 0]
  /\ w = [g \in Gens |-> IF g = 1 THEN StartWorkers(1, InConf0)
                         ELSE [i \in Slots |-> NoWorker]]

NatsStart == kind = "nats" /\ StartPool
JetstreamStart == kind = "jetstream" /\ StartPool
KafkaStart == kind = "kafka" /\ StartPool

Init ==
  /\ kind \in Kinds
  /\ NatsStart \/ JetstreamStart \/ KafkaStart
  /\ extra = [g \in Gens |-> 0]
  /\ upd = Quiet
  /\ life = "open"
  /\ published = 0
  /\ offset = [c \in Consumers |-> 0]
  /\ pipe = <<>>
  /\ fate = [m \in Msgs |-> NoFate]
  /\ fails = 0
  /\ raced = FALSE

NatsNeedsRestart(o, n) == o.workers # n.workers \/ o.addr # n.addr
JetstreamNeedsRestart(o, n) == o.workers # n.workers \/ o.addr # n.addr
KafkaNeedsRestart(o, n) == o.workers # n.workers \/ o.addr # n.addr
NeedsRestart(o, n) ==
  CASE kind = "nats" -> NatsNeedsRestart(o, n)
    [] kind = "jetstream" -> JetstreamNeedsRestart(o, n)
    [] OTHER -> KafkaNeedsRestart(o, n)

\* Mutant: the old workers are not cancelled.
SwapForgetsCancel(c) ==
  /\ gen < MaxGen
  /\ gen' = gen + 1
  /\ wg' = [wg EXCEPT ![gen + 1] = @ + c.workers]
  /\ w' = [w EXCEPT ![gen + 1] = StartWorkers(gen + 1, c)]
  /\ cancelled' = cancelled
  /\ upd' = [pc |-> "wait", old |-> gen]

(* Update stores the configuration and, when the connection or the number  *)
(* of workers changes, swaps the context and the wait group, starts the    *)
(* new workers, cancels the old ones and waits for them, all under confLock. *)
Swap(c) ==
  /\ gen < MaxGen
  /\ gen' = gen + 1
  /\ wg' = [wg EXCEPT ![gen + 1] = @ + c.workers]
  /\ w' = [w EXCEPT ![gen + 1] = StartWorkers(gen + 1, c)]
  /\ cancelled' = cancelled \cup {gen}
  /\ upd' = [pc |-> "wait", old |-> gen]

UpdateBegin(c) ==
  /\ life = "open" /\ upd.pc = "idle"
  /\ c # cfg
  /\ cfg' = c
  /\ IF NeedsRestart(cfg, c)
     THEN Swap(c)
     ELSE UNCHANGED <<gen, wg, w, cancelled, upd>>
  /\ UNCHANGED <<kind, extra, life, published, offset, pipe, fate, fails, raced>>
NatsUpdate(c) == kind = "nats" /\ UpdateBegin(c)
JetstreamUpdate(c) == kind = "jetstream" /\ UpdateBegin(c)
KafkaUpdate(c) == kind = "kafka" /\ UpdateBegin(c)

UpdateEnd ==
  /\ upd.pc = "wait" /\ wg[upd.old] = 0
  /\ upd' = Quiet
  /\ UNCHANGED <<kind, cfg, gen, cancelled, wg, w, extra, life, published, offset,
                 pipe, fate, fails, raced>>

\* Close cancels the current context and waits for the current group; the
\* inputs manager calls it once Update has returned.
CloseBegin ==
  /\ life = "open" /\ upd.pc = "idle"
  /\ life' = "closing"
  /\ cancelled' = cancelled \cup {gen}
  /\ UNCHANGED <<kind, cfg, gen, wg, w, extra, upd, published, offset, pipe, fate,
                 fails, raced>>
CloseEnd ==
  /\ life = "closing" /\ wg[gen] = 0
  /\ life' = "closed"
  /\ UNCHANGED <<kind, cfg, gen, cancelled, wg, w, extra, upd, published, offset,
                 pipe, fate, fails, raced>>

NatsClose == kind = "nats" /\ (CloseBegin \/ CloseEnd)
JetstreamClose == kind = "jetstream" /\ (CloseBegin \/ CloseEnd)
KafkaClose == kind = "kafka" /\ (CloseBegin \/ CloseEnd)

-----------------------------------------------------------------------------
(* The worker goroutine.                                                   *)

Move(g, i, st) == w' = [w EXCEPT ![g][i].st = st]
Exit(g, i) ==
  /\ w' = [w EXCEPT ![g][i] = [NoWorker EXCEPT !.st = "exit"]]
  /\ wg' = [wg EXCEPT ![w[g][i].wg] = @ - 1]
Frame == UNCHANGED <<kind, cfg, gen, cancelled, upd, life>>

\* the first statement: the wait group is whatever n.wg is now
Begin(g, i) ==
  /\ w[g][i].st = "spawned"
  /\ w' = [w EXCEPT ![g][i].st = "top", ![g][i].wg = gen]
  /\ raced' = (raced \/ gen # g)
  /\ Frame
  /\ UNCHANGED <<wg, extra, published, offset, pipe, fate, fails>>

\* the head of the loop: leave when cancelled, load the configuration otherwise
Top(g, i) ==
  /\ w[g][i].st = "top"
  /\ \/ g \in cancelled /\ Exit(g, i)
     \/ /\ g \notin cancelled
        /\ w' = [w EXCEPT ![g][i].st = "dial", ![g][i].addr = cfg.addr]
        /\ UNCHANGED wg
  /\ Frame
  /\ UNCHANGED <<extra, published, offset, pipe, fate, fails, raced>>

\* doWork connects and subscribes; a failure returns to the loop
Dial(g, i) ==
  /\ w[g][i].st = "dial"
  /\ \/ Move(g, i, "work") /\ UNCHANGED fails
     \/ /\ g \in cancelled                     \* the context ends the attempt
        /\ Move(g, i, "backoff") /\ UNCHANGED fails
     \/ /\ fails < MaxFails
        /\ fails' = fails + 1
        /\ Move(g, i, "backoff")
  /\ Frame
  /\ UNCHANGED <<wg, extra, published, offset, pipe, fate, raced>>

\* the pause before the next attempt
Backoff(g, i) ==
  /\ w[g][i].st = "backoff"
  /\ \/ g \in cancelled /\ Exit(g, i)
     \/ /\ g \notin cancelled
        /\ Move(g, i, "top") /\ UNCHANGED wg
  /\ Frame
  /\ UNCHANGED <<extra, published, offset, pipe, fate, fails, raced>>

\* the consuming loop sees its context done, or (NATS, JetStream) its connection fail
WorkEnds(g, i) ==
  /\ w[g][i].st = "work"
  /\ \/ g \in cancelled /\ UNCHANGED fails
     \/ kind # "kafka" /\ fails < MaxFails /\ fails' = fails + 1
  /\ IF kind = "kafka" /\ w[g][i].hold # 0
     THEN Move(g, i, "leaving") /\ UNCHANGED fate
     ELSE /\ w' = [w EXCEPT ![g][i].st = "backoff", ![g][i].hold = 0]
          /\ fate' = IF w[g][i].hold = 0 THEN fate
                     ELSE [fate EXCEPT ![w[g][i].hold].lost = @ + 1]
  /\ Frame
  /\ UNCHANGED <<wg, extra, published, offset, pipe, raced>>

\* an error of the Kafka consumer group: after the recovery time another doWork
\* is started, outside the wait group, and this one returns to the worker's loop
KafkaError(g, i) ==
  /\ kind = "kafka" /\ w[g][i].st = "work" /\ w[g][i].hold = 0
  /\ fails < MaxFails
  /\ fails' = fails + 1
  /\ extra' = [extra EXCEPT ![g] = IF g \in cancelled THEN @ ELSE @ + 1]
  /\ Move(g, i, "backoff")
  /\ Frame
  /\ UNCHANGED <<wg, published, offset, pipe, fate, raced>>
ExtraEnds(g) ==
  /\ g \in cancelled /\ extra[g] > 0
  /\ extra' = [extra EXCEPT ![g] = @ - 1]
  /\ Frame
  /\ UNCHANGED <<wg, w, published, offset, pipe, fate, fails, raced>>

-----------------------------------------------------------------------------
(* Messages.                                                               *)

\* the select over the pipeline: sent, or dropped with a warning when it is full;
\* a cancelled context may drop it too
Offer(g, m) ==
  \/ /\ Len(pipe) < PipeCap
     /\ pipe' = Append(pipe, [msg |-> m, outs |-> cfg.outs])
     /\ fate' = [fate EXCEPT ![m].sent = @ + 1]
  \/ /\ Len(pipe) = PipeCap \/ g \in cancelled
     /\ fate' = [fate EXCEPT ![m].dropped = @ + 1]
     /\ UNCHANGED pipe

\* a message arrives at the broker; core NATS gives it to a connected member of
\* the queue group, if there is one
Publish ==
  /\ published < MaxMsgs
  /\ published' = published + 1
  /\ LET m == published + 1
         up == {p \in Gens \X Slots : /\ w[p[1]][p[2]].st = "work"
                                      /\ w[p[1]][p[2]].hold = 0}
     IN \/ /\ kind = "nats" /\ up # {}
           /\ \E p \in up : w' = [w EXCEPT ![p[1]][p[2]].hold = m]
           /\ UNCHANGED fate
        \/ /\ kind = "nats" /\ up = {}
           /\ fate' = [fate EXCEPT ![m].lost = 1]
           /\ UNCHANGED w
        \/ kind # "nats" /\ UNCHANGED <<w, fate>>
  /\ UNCHANGED <<kind, cfg, gen, cancelled, wg, extra, upd, life, offset, pipe, fails, raced>>

\* natsInput.doWork: the loop takes the message from its channel
NatsMessage(g, i) ==
  /\ kind = "nats" /\ w[g][i].st = "work" /\ w[g][i].hold # 0
  /\ Offer(g, w[g][i].hold)
  /\ w' = [w EXCEPT ![g][i].hold = 0]
  /\ Frame
  /\ UNCHANGED <<wg, extra, published, offset, fails, raced>>

\* jetstreamInput: a fetched message is acknowledged first, then handled
JetstreamMessage(g, i) ==
  /\ kind = "jetstream" /\ w[g][i].st = "work"
  /\ offset[Consumer(g, i)] < published
  /\ offset' = [offset EXCEPT ![Consumer(g, i)] = @ + 1]
  /\ Offer(g, offset[Consumer(g, i)] + 1)
  /\ Frame
  /\ UNCHANGED <<wg, w, extra, published, fails, raced>>

\* ConsumeClaim has a message for msgChan ...
KafkaClaim(g, i) ==
  /\ kind = "kafka" /\ w[g][i].st = "work" /\ w[g][i].hold = 0
  /\ offset[<<"group", 0>>] < published
  /\ \A p \in Gens \X Slots : w[p[1]][p[2]].hold = 0       \* one partition
  /\ w' = [w EXCEPT ![g][i].hold = offset[<<"group", 0>>] + 1]
  /\ Frame
  /\ UNCHANGED <<wg, extra, published, offset, pipe, fate, fails, raced>>
\* ... and marks it once doWork took it, before doWork handled it
KafkaMessage(g, i) ==
  /\ kind = "kafka" /\ w[g][i].st = "work" /\ w[g][i].hold # 0
  /\ offset' = [offset EXCEPT ![<<"group", 0>>] = w[g][i].hold]
  /\ Offer(g, w[g][i].hold)
  /\ w' = [w EXCEPT ![g][i].hold = 0]
  /\ Frame
  /\ UNCHANGED <<wg, extra, published, fails, raced>>

\* the doWork calls outside the wait group belong to the same consumer group
KafkaExtraMessage(g) ==
  /\ extra[g] > 0 /\ offset[<<"group", 0>>] < published
  /\ \A p \in Gens \X Slots : w[p[1]][p[2]].hold = 0
  /\ offset' = [offset EXCEPT ![<<"group", 0>>] = @ + 1]
  /\ Offer(g, offset[<<"group", 0>>] + 1)
  /\ Frame
  /\ UNCHANGED <<wg, w, extra, published, fails, raced>>

\* the outputs manager's write loop takes a message
PipeTake ==
  /\ pipe # <<>>
  /\ pipe' = Tail(pipe)
  /\ UNCHANGED <<kind, cfg, gen, cancelled, wg, w, extra, upd, life, published,
                 offset, fate, fails, raced>>

WorkerLoop(g, i) == Begin(g, i) \/ Top(g, i) \/ Backoff(g, i)
NatsWorker(g, i) == kind = "nats" /\ WorkerLoop(g, i)
JetstreamWorker(g, i) == kind = "jetstream" /\ WorkerLoop(g, i)
KafkaWorker(g, i) == kind = "kafka" /\ WorkerLoop(g, i)

\* the part of doWork that must end: connecting, and leaving on ctx.Done
DoWork(g, i) == Dial(g, i) \/ WorkEnds(g, i)
NatsDoWork(g, i) == kind = "nats" /\ DoWork(g, i)
JetstreamDoWork(g, i) == kind = "jetstream" /\ DoWork(g, i)
KafkaDoWork(g, i) == kind = "kafka" /\ DoWork(g, i)

WorkerStep(g, i) ==
  \/ NatsWorker(g, i) \/ NatsDoWork(g, i)
  \/ JetstreamWorker(g, i) \/ JetstreamDoWork(g, i)
  \/ KafkaWorker(g, i) \/ KafkaDoWork(g, i)

Message(g, i) ==
  \/ NatsMessage(g, i) \/ JetstreamMessage(g, i)
  \/ KafkaClaim(g, i) \/ KafkaMessage(g, i) \/ KafkaError(g, i)

Next ==
  \/ \E c \in InConfs : NatsUpdate(c) \/ JetstreamUpdate(c) \/ KafkaUpdate(c)
  \/ UpdateEnd \/ NatsClose \/ JetstreamClose \/ KafkaClose
  \/ Publish \/ PipeTake
  \/ \E g \in Gens : ExtraEnds(g) \/ KafkaExtraMessage(g)
  \/ \E g \in Gens, i \in Slots : WorkerStep(g, i) \/ Message(g, i)

(* Every goroutine is scheduled, a select with a ready case takes one, and *)
(* a connection does not fail for ever (MaxFails).                         *)
Fairness ==
  /\ WF_vars(UpdateEnd) /\ WF_vars(CloseEnd)
  /\ \A g \in Gens, i \in Slots : WF_vars(WorkerStep(g, i))

Spec == Init /\ [][Next]_vars
FairSpec == Spec /\ Fairness

-----------------------------------------------------------------------------
(* A message ConsumeClaim holds when its doWork left is never taken: the    *)
(* send on msgChan has no other case, and Close of the group waits for it. *)
Stuck == \E g \in Gens, i \in Slots : w[g][i].st = "leaving"

TypeOK ==
  /\ gen \in Gens /\ cancelled \subseteq Gens
  /\ \A g \in Gens, i \in Slots :
       w[g][i].st \in {"none", "spawned", "top", "dial", "work", "backoff", "leaving", "exit"}
  /\ wg \in [Gens -> -2 .. 4]

\* An Update that restarts the workers, and Close, return: unless a worker was
\* not yet scheduled when the wait group was swapped, or (Kafka) a claimed
\* message has no one left to take it.
InputReturned == (upd.pc # "wait" /\ life # "closing") \/ raced \/ Stuck
InputReturns == []<>InputReturned
=============================================================================
