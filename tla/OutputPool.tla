----------------------------- MODULE OutputPool -----------------------------
(***************************************************************************)
(* The outputs that queue what Write is given in a Go channel and drain it *)
(* with a pool of workers: Kafka (async and sync producer), NATS,          *)
(* JetStream, TCP, UDP, OTLP, SNMP, InfluxDB, ClickHouse and Prometheus.   *)
(* `kind` says which one runs.  Three parties interleave: the outputs      *)
(* manager's write loop (one Write at a time), Update or Close, and the    *)
(* workers of each generation, each with the context it started under.     *)
(*                                                                         *)
(* Marshalling, templates, TLS and metrics are left out; a message whose   *)
(* loss is counted in a metric and one that just vanishes differ.          *)
(***************************************************************************)
EXTENDS Integers, Sequences, FiniteSets

CONSTANTS Kinds,      \* the output types to look at
          MaxMsgs,    \* messages the write loop hands over
          MaxGen,     \* worker generations: restarting Updates + 1
          MaxWorkers, \* the largest num-workers of a configuration
          Confs,      \* configurations an Update may bring: [cap, workers, addr]
          Conf0       \* the configuration of Init

Msgs == 1 .. MaxMsgs
Gens == 1 .. MaxGen
Slots == 1 .. MaxWorkers
Nothing == 0

VARIABLES
  kind,
  conf,       \* the stored configuration
  chans,      \* the channels made so far, each [cap, buf]
  cur,        \* the channel the pointer holds
  gen,        \* the generation cancelFn and wg belong to
  cancelled,  \* generations whose cancelFn was called
  w,          \* w[g][i]: the i-th worker of generation g
  wr,         \* the Write in progress: [msg, ch], msg = Nothing when there is none
  upd,        \* the Update in progress: [pc, old, from]
  life,       \* "open", "closing", "closed"
  fate,       \* of every message: "new", "queued", "sent", "counted" or "lost"
  broken      \* history: an Update stored its configuration and then returned an error

vars == <<kind, conf, chans, cur, gen, cancelled, w, wr, upd, life, fate, broken>>

NoWorker == [st |-> "none", ch |-> 0, addr |-> "", hold |-> <<>>]
Fresh(c) == [st |-> "start", ch |-> c, addr |-> "", hold |-> <<>>]
Quiet == [pc |-> "idle", old |-> 0, from |-> 0]
NoWrite == [msg |-> Nothing, ch |-> 0]

(***************************************************************************)
(* Contexts.  NATS and UDP keep the context of their first workers as the  *)
(* root of every later one; the others keep the one Init was given.        *)
(***************************************************************************)
Done(g) == g \in cancelled \/ (kind \in {"nats", "udp"} /\ 1 \in cancelled)

Live(g) == {i \in Slots : w[g][i].st \notin {"none", "exit"}}
Batching == kind \in {"otlp", "clickhouse"}
Room(c) == Len(chans[c].buf) < chans[c].cap
Put(q, c, m) == [q EXCEPT ![c].buf = Append(@, m)]
Mark(ms, f) == [m \in Msgs |-> IF m \in ms THEN f ELSE fate[m]]
Held(g, i) == {w[g][i].hold[j] : j \in 1 .. Len(w[g][i].hold)}

\* n workers for generation g; Kafka and Prometheus hand them the channel, the others load it
Pool(g, n, c) == [w EXCEPT ![g] = [i \in Slots |-> IF i <= n THEN Fresh(c) ELSE NoWorker]]

\* What the Init of every type ends in: n workers on the first channel.
StartPool(n) ==
  /\ conf = Conf0
  /\ chans = <<[cap |-> Conf0.cap, buf |-> <<>>]>>
  /\ cur = 1 /\ gen = 1 /\ cancelled = {}
  /\ w = [g \in Gens |-> [i \in Slots |-> IF g = 1 /\ i <= n THEN Fresh(1) ELSE NoWorker]]
  /\ wr = NoWrite /\ upd = Quiet /\ life = "open" /\ broken = FALSE
  /\ fate = [m \in Msgs |-> "new"]

KafkaInit == StartPool(Conf0.workers)
NatsInit == StartPool(Conf0.workers)
JetstreamInit == StartPool(Conf0.workers)
TcpInit == StartPool(Conf0.workers)
UdpInit == StartPool(1)
OtlpInit == StartPool(Conf0.workers)
SnmpInit == StartPool(1)
InfluxInit == StartPool(1)         \* a failed health probe does not hold Init up
ClickhouseInit == StartPool(Conf0.workers)   \* the bootstrap dial has a goroutine of its own
PrometheusInit == StartPool(Conf0.workers)

Init ==
  /\ kind \in Kinds
  /\ \/ kind \in {"kafka", "kafkaSync"} /\ KafkaInit
     \/ kind = "nats" /\ NatsInit
     \/ kind = "jetstream" /\ JetstreamInit
     \/ kind = "tcp" /\ TcpInit
     \/ kind = "udp" /\ UdpInit
     \/ kind = "otlp" /\ OtlpInit
     \/ kind = "snmp" /\ SnmpInit
     \/ kind = "influx" /\ InfluxInit
     \/ kind = "clickhouse" /\ ClickhouseInit
     \/ kind = "prometheus" /\ PrometheusInit

-----------------------------------------------------------------------------
(***************************************************************************)
(* Write.  The pointer to the channel is loaded first, the send comes      *)
(* later: an Update may swap the channel in between.                       *)
(***************************************************************************)
WriteUnch == UNCHANGED <<kind, conf, cur, gen, cancelled, upd, life, broken>>

LoadChan ==
  /\ wr.msg = Nothing /\ life # "closed"
  /\ \E m \in Msgs : /\ fate[m] = "new" /\ \A k \in 1 .. m - 1 : fate[k] # "new"
                     /\ wr' = [msg |-> m, ch |-> cur]
  /\ WriteUnch /\ UNCHANGED <<chans, w, fate>>

Return(f) ==
  /\ wr' = NoWrite
  /\ fate' = Mark({wr.msg}, f)
  /\ WriteUnch

SendMsg == wr.msg # Nothing /\ Room(wr.ch) /\ chans' = Put(chans, wr.ch, wr.msg)
           /\ Return("queued") /\ UNCHANGED w
\* wctx expires: the loss is counted
Expire == wr.msg # Nothing /\ ~Room(wr.ch) /\ Return("counted") /\ UNCHANGED <<chans, w>>
CloseSig == wr.msg # Nothing /\ life = "closed" /\ Return("lost") /\ UNCHANGED <<chans, w>>

KafkaWrite == LoadChan \/ SendMsg \/ Expire \/ CloseSig
NatsWrite == LoadChan \/ SendMsg \/ Expire
JetstreamWrite == LoadChan \/ SendMsg \/ Expire \/ CloseSig
\* enqueue drops at once when the buffer is full
TcpWrite == LoadChan \/ SendMsg \/ Expire
OtlpWrite == LoadChan \/ SendMsg \/ Expire
\* a Write that expires is not counted
PrometheusWrite ==
  \/ LoadChan \/ SendMsg
  \/ wr.msg # Nothing /\ ~Room(wr.ch) /\ Return("lost") /\ UNCHANGED <<chans, w>>
\* no timeout: the write loop blocks until there is room
UdpWrite == LoadChan \/ SendMsg
SnmpWrite == LoadChan \/ SendMsg

\* eventChan is not buffered: a worker must be there to take the event
InfluxWrite ==
  \/ LoadChan
  \/ /\ wr.msg # Nothing
     /\ \E g \in Gens : \E i \in Slots :
          /\ w[g][i].st = "idle" /\ w[g][i].hold = <<>>
          /\ w' = [w EXCEPT ![g][i].hold = <<wr.msg>>, ![g][i].st = "busy"]
     /\ Return("queued") /\ UNCHANGED chans
  \/ wr.msg # Nothing /\ life # "open" /\ Return("lost") /\ UNCHANGED <<chans, w>>

\* enqueueRows holds rowSendMu from the load of the pointer to the end of the send: while
\* a row is on its way, wr.msg is set and the swap of Update waits.
ClickhouseWrite == LoadChan \/ SendMsg \/ Expire \/ CloseSig

Write ==
  \/ kind \in {"kafka", "kafkaSync"} /\ KafkaWrite
  \/ kind = "nats" /\ NatsWrite
  \/ kind = "jetstream" /\ JetstreamWrite
  \/ kind = "tcp" /\ TcpWrite
  \/ kind = "otlp" /\ OtlpWrite
  \/ kind = "udp" /\ UdpWrite
  \/ kind = "snmp" /\ SnmpWrite
  \/ kind = "influx" /\ InfluxWrite
  \/ kind = "clickhouse" /\ ClickhouseWrite
  \/ kind = "prometheus" /\ PrometheusWrite

-----------------------------------------------------------------------------
(***************************************************************************)
(* Workers.                                                                *)
(***************************************************************************)
WorkerUnch == UNCHANGED <<kind, conf, cur, gen, cancelled, wr, upd, life, broken>>
Become(g, i, st) == w' = [w EXCEPT ![g][i].st = st]

\* The goroutine starts: all but Kafka's and Prometheus' load the channel pointer now; the ones that
\* dial do it next.
Begin(g, i) ==
  /\ w[g][i].st = "start"
  /\ w' = [w EXCEPT ![g][i] =
       [@ EXCEPT !.st = IF kind = "snmp" THEN "connect"
                       ELSE IF kind \in {"otlp", "clickhouse", "influx", "prometheus"} THEN "idle"
                       ELSE "dial",
                 !.ch = IF kind \in {"kafka", "kafkaSync", "prometheus"} THEN w[g][i].ch ELSE cur,
                 !.addr = conf.addr]]
  /\ WorkerUnch /\ UNCHANGED <<chans, fate>>

\* A dial that succeeds; one that fails is tried again after a sleep and changes nothing.
\* UDP loads the channel pointer once it is connected.
Connect(g, i) ==
  /\ w[g][i].st = "dial"
  /\ kind # "kafkaSync" => ~Done(g)
  /\ w' = [w EXCEPT ![g][i] =
       [@ EXCEPT !.st = IF w[g][i].hold # <<>> THEN "busy" ELSE "idle",
                 !.ch = IF kind = "udp" THEN cur ELSE w[g][i].ch,
                 !.addr = conf.addr]]
  /\ WorkerUnch /\ UNCHANGED <<chans, fate>>

\* createSNMPHandler, under the configuration of its first line: a connect that fails is tried
\* again after a second, and the loop looks at no context.
SnmpConnect(g, i) ==
  /\ w[g][i].st = "connect"
  /\ Become(g, i, "idle") /\ WorkerUnch /\ UNCHANGED <<chans, fate>>

\* Mutant: the context of the newest workers is checked, not the worker's own.
GiveUpCurrent(g, i) ==
  /\ w[g][i].st = "dial" /\ Done(gen)
  /\ w' = [w EXCEPT ![g][i].st = "exit", ![g][i].hold = <<>>]
  /\ fate' = Mark(Held(g, i), "lost")
  /\ WorkerUnch /\ UNCHANGED chans

\* The context is checked before every dial (Kafka's sync producer does not).
GiveUp(g, i) ==
  /\ w[g][i].st = "dial" /\ Done(g)
  /\ w' = [w EXCEPT ![g][i].st = "exit", ![g][i].hold = <<>>]
  /\ fate' = Mark(Held(g, i), "lost")
  /\ WorkerUnch /\ UNCHANGED chans

Take(g, i) ==
  LET c == w[g][i].ch IN
  /\ w[g][i].st = "idle" /\ chans[c].buf # <<>>
  /\ kind # "influx"
  /\ w' = [w EXCEPT ![g][i] = [@ EXCEPT !.hold = Append(@, Head(chans[c].buf)),
                                       !.st = IF Batching /\ w[g][i].hold = <<>> THEN "idle" ELSE "busy"]]
  /\ chans' = [chans EXCEPT ![c].buf = Tail(@)]
  /\ WorkerUnch /\ UNCHANGED fate

\* the flush timer of the outputs that batch
FlushTimer(g, i) ==
  /\ Batching /\ w[g][i].st = "idle" /\ w[g][i].hold # <<>>
  /\ Become(g, i, "busy") /\ WorkerUnch /\ UNCHANGED <<chans, fate>>

Sent(g, i) ==
  /\ w[g][i].st = "busy"
  /\ w' = [w EXCEPT ![g][i].st = "idle", ![g][i].hold = <<>>]
  /\ fate' = Mark(Held(g, i), "sent")
  /\ WorkerUnch /\ UNCHANGED chans

\* a send that fails: what becomes of the message, and where the worker goes
SendFails(g, i, f, st) ==
  /\ w[g][i].st = "busy"
  /\ w' = [w EXCEPT ![g][i].st = st, ![g][i].hold = <<>>]
  /\ fate' = Mark(Held(g, i), f)
  /\ WorkerUnch /\ UNCHANGED chans

\* ctx.Done() is seen in the receive loop
Quit(g, i, f) ==
  /\ w[g][i].st = "idle" /\ Done(g)
  /\ w' = [w EXCEPT ![g][i].st = "exit", ![g][i].hold = <<>>]
  /\ fate' = Mark(Held(g, i), f)
  /\ WorkerUnch /\ UNCHANGED chans

KafkaAsyncWorker(g, i) ==
  \/ Begin(g, i) \/ Connect(g, i) \/ GiveUp(g, i) \/ Take(g, i) \/ Sent(g, i)
  \/ SendFails(g, i, "counted", "idle") \/ Quit(g, i, "lost")
\* CRPROD is not left when the context is done
KafkaSyncWorker(g, i) ==
  \/ Begin(g, i) \/ Connect(g, i) \/ Take(g, i) \/ Sent(g, i)
  \/ SendFails(g, i, "counted", "dial") \/ Quit(g, i, "lost")
NatsWorker(g, i) ==
  \/ Begin(g, i) \/ Connect(g, i) \/ GiveUp(g, i) \/ Take(g, i) \/ Sent(g, i)
  \/ SendFails(g, i, "counted", "dial") \/ Quit(g, i, "lost")
\* worker 0 also creates the stream before it is ready: part of Connect
JetstreamWorker(g, i) ==
  \/ Begin(g, i) \/ Connect(g, i) \/ GiveUp(g, i) \/ Take(g, i) \/ Sent(g, i)
  \/ SendFails(g, i, "counted", "dial") \/ Quit(g, i, "lost")
\* a failed write keeps the message for the next connection, until max-retries
TcpWorker(g, i) ==
  \/ Begin(g, i) \/ Connect(g, i) \/ GiveUp(g, i) \/ Take(g, i) \/ Sent(g, i)
  \/ w[g][i].st = "busy" /\ Become(g, i, "dial") /\ WorkerUnch /\ UNCHANGED <<chans, fate>>
  \/ SendFails(g, i, "counted", "dial") \/ Quit(g, i, "lost")
UdpWorker(g, i) ==
  \/ Begin(g, i) \/ Connect(g, i) \/ GiveUp(g, i) \/ Take(g, i) \/ Sent(g, i)
  \/ SendFails(g, i, "lost", "dial") \/ Quit(g, i, "lost")
\* the last batch is sent under a context of its own when the worker stops
OtlpWorker(g, i) ==
  \/ Begin(g, i) \/ Take(g, i) \/ FlushTimer(g, i) \/ Sent(g, i)
  \/ SendFails(g, i, "counted", "idle")
  \/ Quit(g, i, "sent") \/ Quit(g, i, "counted")
SnmpWorker(g, i) ==
  \/ Begin(g, i) \/ SnmpConnect(g, i) \/ Take(g, i) \/ Sent(g, i)
  \/ SendFails(g, i, "lost", "idle") \/ Quit(g, i, "lost")
\* the client's write API takes the point; its errors are logged by drainWriteErrors
InfluxWorker(g, i) ==
  Begin(g, i) \/ Sent(g, i) \/ SendFails(g, i, "lost", "idle") \/ Quit(g, i, "lost")
\* a message becomes metrics in the output's own table
PrometheusWorker(g, i) == Begin(g, i) \/ Take(g, i) \/ Sent(g, i) \/ Quit(g, i, "lost")

\* A failed insert is tried again for as long as the context lives.  Once it is done,
\* the worker empties the channel into its batch, and flushBatch drops the batch.
ClickhouseWorker(g, i) ==
  \/ Begin(g, i) \/ FlushTimer(g, i) \/ Sent(g, i)
  \/ ~Done(g) /\ Take(g, i)
  \/ Done(g) /\ SendFails(g, i, "counted", "idle")
  \/ /\ w[g][i].st = "idle" /\ Done(g)
     /\ LET q == chans[w[g][i].ch].buf IN
        /\ chans' = [chans EXCEPT ![w[g][i].ch].buf = <<>>]
        /\ fate' = Mark(Held(g, i) \cup {q[j] : j \in 1 .. Len(q)}, "lost")
     /\ w' = [w EXCEPT ![g][i].st = "exit", ![g][i].hold = <<>>]
     /\ WorkerUnch

Worker(g, i) ==
  \/ kind = "kafka" /\ KafkaAsyncWorker(g, i)
  \/ kind = "kafkaSync" /\ KafkaSyncWorker(g, i)
  \/ kind = "nats" /\ NatsWorker(g, i)
  \/ kind = "jetstream" /\ JetstreamWorker(g, i)
  \/ kind = "tcp" /\ TcpWorker(g, i)
  \/ kind = "udp" /\ UdpWorker(g, i)
  \/ kind = "otlp" /\ OtlpWorker(g, i)
  \/ kind = "snmp" /\ SnmpWorker(g, i)
  \/ kind = "influx" /\ InfluxWorker(g, i)
  \/ kind = "clickhouse" /\ ClickhouseWorker(g, i)
  \/ kind = "prometheus" /\ PrometheusWorker(g, i)

-----------------------------------------------------------------------------
(***************************************************************************)
(* Update.  The configuration is stored first.  Most outputs then start    *)
(* the new generation, cancel and await the old one, and move what is left *)
(* in the old channel.                                                     *)
(***************************************************************************)
MayUpdate == upd.pc = "idle" /\ life = "open" /\ gen < MaxGen
UpdUnch == UNCHANGED <<kind, wr, life, fate, broken>>
Restarted(c, n, swap) ==
  /\ chans' = IF swap THEN Append(chans, [cap |-> c.cap, buf |-> <<>>]) ELSE chans
  /\ cur' = Len(chans')
  /\ gen' = gen + 1
  /\ w' = Pool(gen + 1, n, cur')

PoolUpdate(c, restart, n) ==
  LET swap == c.cap # conf.cap IN
  /\ MayUpdate /\ conf' = c
  /\ IF swap \/ restart
     THEN /\ Restarted(c, n, swap)
          /\ cancelled' = cancelled \cup {gen}
          /\ upd' = [pc |-> IF swap THEN "waitDrain" ELSE "wait", old |-> gen, from |-> cur]
     ELSE UNCHANGED <<chans, cur, gen, w, cancelled, upd>>
  /\ UpdUnch

NatsNeedsRestart(c) == c.workers # conf.workers \/ c.addr # conf.addr
JetstreamNeedsRestart(c) == c.workers # conf.workers \/ c.addr # conf.addr
TcpNeedsRestart(c) == c.workers # conf.workers
UdpNeedsRestart(c) == c.addr # conf.addr
OtlpNeedsRestart(c) == c.workers # conf.workers
KafkaNeedsRestart(c) == c.workers # conf.workers \/ c.addr # conf.addr
ClientNeedsRebuild(c) == c.addr # conf.addr

\* the new generation has as many workers as the old configuration asked for
NatsUpdate(c) == PoolUpdate(c, NatsNeedsRestart(c), conf.workers)
JetstreamUpdate(c) == PoolUpdate(c, JetstreamNeedsRestart(c), conf.workers)
TcpUpdate(c) == PoolUpdate(c, TcpNeedsRestart(c), c.workers)
UdpUpdate(c) == PoolUpdate(c, UdpNeedsRestart(c), 1)
\* a new endpoint swaps the transport, which the workers load for every batch
OtlpUpdate(c) == PoolUpdate(c, OtlpNeedsRestart(c), c.workers)

AwaitOld ==
  /\ upd.pc \in {"wait", "waitDrain"} /\ Live(upd.old) = {}
  /\ upd' = IF upd.pc = "wait" THEN Quiet ELSE [upd EXCEPT !.pc = "drain"]
  /\ UpdUnch /\ UNCHANGED <<conf, chans, cur, gen, cancelled, w>>

\* one message from the old channel to the new, dropped when there is no room
MoveOne(then) ==
  LET from == upd.from
      m == Head(chans[from].buf)
      rest == [chans EXCEPT ![from].buf = Tail(@)]
      fits == Len(rest[cur].buf) < rest[cur].cap
  IN IF chans[from].buf = <<>> THEN then /\ UNCHANGED <<chans, fate>>
     ELSE /\ chans' = IF fits THEN Put(rest, cur, m) ELSE rest
          /\ fate' = IF fits THEN fate ELSE Mark({m}, "lost")
          /\ UNCHANGED <<upd, cancelled>>

Drain ==
  /\ upd.pc = "drain"
  /\ MoveOne(upd' = Quiet /\ UNCHANGED cancelled)
  /\ UNCHANGED <<kind, conf, cur, gen, w, wr, life, broken>>

\* An error after the configuration was stored: Kafka's producer configuration and
\* InfluxDB's client options are built from files only then.  (Bound: one such Update.)
UpdateFails(c) ==
  /\ MayUpdate /\ ~broken /\ conf' = c /\ broken' = TRUE
  /\ UNCHANGED <<kind, chans, cur, gen, cancelled, w, wr, upd, life, fate>>

\* Kafka moves the messages before the old workers are cancelled, and does so even when
\* old and new channel are the same.
KafkaUpdate(c) ==
  LET swap == c.cap # conf.cap IN
  /\ MayUpdate /\ conf' = c
  /\ IF swap \/ KafkaNeedsRestart(c)
     THEN /\ Restarted(c, conf.workers, swap)
          /\ upd' = [pc |-> "kafkaDrain", old |-> gen, from |-> cur]
     ELSE UNCHANGED <<chans, cur, gen, w, upd>>
  /\ UpdUnch /\ UNCHANGED cancelled

KafkaDrain ==
  /\ upd.pc = "kafkaDrain"
  /\ MoveOne(upd' = [upd EXCEPT !.pc = "wait"] /\ cancelled' = cancelled \cup {upd.old})
  /\ UNCHANGED <<kind, conf, cur, gen, w, wr, life, broken>>

\* Every Update starts new workers; the old ones are cancelled after the drain and not
\* waited for.
PrometheusUpdate(c) ==
  LET swap == c.cap # conf.cap IN
  /\ MayUpdate /\ conf' = c
  /\ Restarted(c, c.workers, swap)
  /\ upd' = IF swap THEN [pc |-> "promDrain", old |-> gen, from |-> cur] ELSE Quiet
  /\ cancelled' = IF swap THEN cancelled ELSE cancelled \cup {gen}
  /\ UpdUnch

\* The new address cannot be bound, after the channels and the cancel function were
\* replaced: the old workers go on, and nothing can cancel them any more.
PrometheusBindFails(c) ==
  LET swap == c.cap # conf.cap IN
  /\ MayUpdate /\ c.addr # conf.addr /\ conf' = c
  /\ Restarted(c, 0, swap)
  /\ broken' = TRUE
  /\ UNCHANGED <<kind, cancelled, wr, upd, life, fate>>

PrometheusDrain ==
  /\ upd.pc = "promDrain"
  /\ MoveOne(upd' = Quiet /\ cancelled' = cancelled \cup {upd.old})
  /\ UNCHANGED <<kind, conf, cur, gen, w, wr, life, broken>>

\* any change cancels the one worker and starts another once it is gone
SnmpUpdate(c) ==
  /\ MayUpdate /\ conf' = c
  /\ cancelled' = cancelled \cup {gen}
  /\ upd' = [pc |-> "waitStart", old |-> gen, from |-> cur]
  /\ UpdUnch /\ UNCHANGED <<chans, cur, gen, w>>

\* a new client and new workers first; the old client is closed when its workers are gone
InfluxUpdate(c) ==
  /\ MayUpdate /\ conf' = c
  /\ IF ClientNeedsRebuild(c)
     THEN /\ Restarted(c, 1, FALSE)
          /\ cancelled' = cancelled \cup {gen}
          /\ upd' = [pc |-> "wait", old |-> gen, from |-> cur]
     ELSE UNCHANGED <<chans, cur, gen, w, cancelled, upd>>
  /\ UpdUnch

ClickhouseUpdate(c) ==
  /\ MayUpdate /\ conf' = c
  /\ IF c # conf
     THEN /\ cancelled' = cancelled \cup {gen}
          /\ upd' = [pc |-> "waitStart", old |-> gen,
                     from |-> IF c.cap # conf.cap THEN cur ELSE 0]
     ELSE UNCHANGED <<cancelled, upd>>
  /\ UpdUnch /\ UNCHANGED <<chans, cur, gen, w>>

SnmpRestart ==
  /\ gen' = gen + 1 /\ w' = Pool(gen + 1, 1, cur)
  /\ UNCHANGED <<chans, cur, fate>>

\* Mutant: the channel is swapped while a row is on its way to it.
ClickhouseSwap ==
  /\ gen' = gen + 1
  /\ chans' = IF upd.from # 0 THEN Append(chans, [cap |-> conf.cap, buf |-> <<>>]) ELSE chans
  /\ cur' = Len(chans')
  /\ w' = Pool(gen + 1, conf.workers, cur')
  /\ UNCHANGED fate

\* Under rowSendMu: the old channel is closed, drained into the new one, the pointer
\* swapped.
ClickhouseRestart ==
  LET old == chans[cur].buf
      kept == SubSeq(old, 1, IF Len(old) <= conf.cap THEN Len(old) ELSE conf.cap)
      swap == upd.from # 0
  IN /\ wr.msg = Nothing
     /\ gen' = gen + 1
     /\ chans' = IF swap THEN Append([chans EXCEPT ![cur].buf = <<>>], [cap |-> conf.cap, buf |-> kept])
                 ELSE chans
     /\ cur' = Len(chans')
     /\ fate' = IF swap THEN Mark({old[j] : j \in Len(kept) + 1 .. Len(old)}, "counted") ELSE fate
     /\ w' = Pool(gen + 1, conf.workers, cur')

StartNew ==
  /\ upd.pc = "waitStart" /\ Live(upd.old) = {}
  /\ \/ kind = "snmp" /\ SnmpRestart
     \/ kind = "clickhouse" /\ ClickhouseRestart
  /\ upd' = Quiet
  /\ UNCHANGED <<kind, conf, cancelled, wr, life, broken>>

Update ==
  \/ \E c \in Confs :
       \/ kind \in {"kafka", "kafkaSync"} /\ (KafkaUpdate(c) \/ (KafkaNeedsRestart(c) /\ UpdateFails(c)))
       \/ kind = "nats" /\ NatsUpdate(c)
       \/ kind = "jetstream" /\ JetstreamUpdate(c)
       \/ kind = "tcp" /\ TcpUpdate(c)
       \/ kind = "udp" /\ UdpUpdate(c)
       \/ kind = "otlp" /\ OtlpUpdate(c)
       \/ kind = "snmp" /\ SnmpUpdate(c)
       \/ kind = "influx" /\ (InfluxUpdate(c) \/ (ClientNeedsRebuild(c) /\ UpdateFails(c)))
       \/ kind = "clickhouse" /\ ClickhouseUpdate(c)
       \/ kind = "prometheus" /\ (PrometheusUpdate(c) \/ PrometheusBindFails(c))
  \/ AwaitOld \/ Drain \/ KafkaDrain \/ PrometheusDrain \/ StartNew

-----------------------------------------------------------------------------
(***************************************************************************)
(* Close: the manager holds the output's lock, so no Update is under way.  *)
(***************************************************************************)
Cancel ==
  /\ life = "open" /\ upd.pc = "idle"
  /\ life' = "closing" /\ cancelled' = cancelled \cup {gen}
  /\ UNCHANGED <<kind, conf, chans, cur, gen, w, wr, upd, fate, broken>>

Gone(gens) ==
  /\ life = "closing" /\ \A g \in gens : Live(g) = {}
  /\ life' = "closed"
  /\ UNCHANGED <<kind, conf, chans, cur, gen, cancelled, w, wr, upd, fate, broken>>

KafkaClose == Cancel \/ Gone({gen})
NatsClose == Cancel \/ Gone({gen})
JetstreamClose == Cancel \/ Gone({gen})
TcpClose == Cancel \/ Gone({gen})
UdpClose == Cancel \/ Gone({gen})
OtlpClose == Cancel \/ Gone({gen})
SnmpClose == Cancel \/ Gone({gen})
InfluxClose == Cancel \/ Gone({gen})
ClickhouseClose == Cancel \/ Gone({gen})
PrometheusClose == Cancel \/ Gone(Gens)    \* one wait group for all generations

Close ==
  \/ kind \in {"kafka", "kafkaSync"} /\ KafkaClose
  \/ kind = "nats" /\ NatsClose
  \/ kind = "jetstream" /\ JetstreamClose
  \/ kind = "tcp" /\ TcpClose
  \/ kind = "udp" /\ UdpClose
  \/ kind = "otlp" /\ OtlpClose
  \/ kind = "snmp" /\ SnmpClose
  \/ kind = "influx" /\ InfluxClose
  \/ kind = "clickhouse" /\ ClickhouseClose
  \/ kind = "prometheus" /\ PrometheusClose

Next ==
  \/ Write \/ Update \/ Close
  \/ \E g \in Gens, i \in Slots : Worker(g, i)

\* The steps that are sure to come: a dial need not succeed, but it is given up (SNMP's is not).
Closing == life = "closing" /\ Close
Works(g, i) == w[g][i].st \notin {"dial", "connect"} /\ Worker(g, i)
GivesUp(g, i) == kind # "kafkaSync" /\ GiveUp(g, i)

\* Goroutines and the manager's steps run; nothing says a peer ever accepts a connection.
Fairness ==
  /\ WF_vars(AwaitOld) /\ WF_vars(Drain) /\ WF_vars(KafkaDrain) /\ WF_vars(PrometheusDrain)
  /\ WF_vars(StartNew)
  /\ WF_vars(Closing) /\ WF_vars(Write)
  /\ \A g \in Gens, i \in Slots : WF_vars(Works(g, i)) /\ WF_vars(GivesUp(g, i))

Spec == Init /\ [][Next]_vars /\ Fairness

-----------------------------------------------------------------------------
\* Types.
TypeOK ==
  /\ kind \in Kinds /\ life \in {"open", "closing", "closed"}
  /\ cur \in 1 .. Len(chans) /\ gen \in Gens /\ cancelled \subseteq Gens
  /\ \A c \in 1 .. Len(chans) : Len(chans[c].buf) <= chans[c].cap
  /\ fate \in [Msgs -> {"new", "queued", "sent", "counted", "lost"}]

\* An output that is open and not being updated has a worker on the channel Write uses,
\* under a context that is not done.
Served ==
  upd.pc = "idle" /\ life = "open" =>
    \E g \in Gens : \E i \in Live(g) :
      ~Done(g) /\ (w[g][i].st \in {"start", "dial"} \/ w[g][i].ch = cur)

\* ... and so for every type that keeps the context Init was given as the root, unless an
\* Update failed half way.
ServedAfterUpdate == kind \notin {"nats", "udp"} /\ ~broken => Served

\* What was accepted is in the current channel or in a worker's hands: no message is left
\* in a channel nobody reads.  It holds where the send is serialised with the swap or the
\* channel is never swapped.
NotStranded ==
  kind \in {"clickhouse", "snmp", "influx"} /\ upd.pc = "idle" =>
    \A c \in 1 .. Len(chans) : c # cur => chans[c].buf = <<>>

\* No worker keeps sending to an address that was replaced (TCP does not restart for a
\* new address; OTLP looks its transport up for every batch; Prometheus has no peer).
NewAddressUsed ==
  kind \notin {"tcp", "otlp", "prometheus"} /\ ~broken /\ upd.pc = "idle" /\ life = "open" =>
    \A g \in Gens : \A i \in Live(g) :
      w[g][i].st \in {"idle", "busy", "connect"} => w[g][i].addr = conf.addr

\* The pool has the number of workers the configuration asks for (Kafka, NATS and
\* JetStream start as many as the configuration before it did).
WorkersAsConfigured ==
  kind \in {"tcp", "otlp", "clickhouse", "prometheus"} /\ ~broken /\ upd.pc = "idle" /\ life = "open" =>
    Cardinality(Live(gen)) = conf.workers

\* What an Update is for.
UpdateTakesEffect == ServedAfterUpdate /\ NotStranded /\ NewAddressUsed /\ WorkersAsConfigured

\* A worker of SNMP's generation g is still trying to connect.
Connecting(g) == kind = "snmp" /\ \E i \in Slots : w[g][i].st = "connect"

\* Close returns even when the peer is down (Kafka's sync producer dials on; SNMP's waits for
\* as long as its worker cannot connect; a Prometheus output whose Update failed waits for
\* workers that nothing cancels).
CloseReturned ==
  life = "closing" => kind = "kafkaSync" \/ Connecting(gen) \/ (kind = "prometheus" /\ broken)

\* Update returns even when the peer is down (Kafka's waits for a dial, SNMP's for a connect).
UpdateReturned == upd.pc = "idle" \/ kind \in {"kafka", "kafkaSync"} \/ Connecting(upd.old)
OutputReturns == []<>CloseReturned /\ []<>UpdateReturned
=============================================================================
