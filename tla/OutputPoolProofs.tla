-------------------------- MODULE OutputPoolProofs --------------------------
(***************************************************************************)
(* Theorems about the outputs with a pool of workers: types, and that an   *)
(* Update takes effect, for all eleven types of output and any number of   *)
(* workers, messages and Updates.                                          *)
(***************************************************************************)
EXTENDS OutputPool, FiniteSetTheorems, SequenceTheorems, TLAPS

Conf == [cap : Nat, workers : Slots, addr : STRING]
Chan == [cap : Nat, buf : Seq(Msgs)]

\* Configurations ask for at least one worker.
Configured == Conf0 \in Conf /\ Confs \subseteq Conf /\ MaxGen \in Nat \ {0} /\ MaxMsgs \in Nat /\ MaxWorkers \in Nat

\* The Updates that cancel and await the old workers, and those that are past it.
Awaiting == {"wait", "waitDrain", "kafkaDrain"}
Steps == Awaiting \cup {"idle", "drain", "promDrain", "waitStart"}

PoolTypes ==
  /\ TypeOK
  /\ conf \in Conf /\ broken \in BOOLEAN
  /\ chans \in Seq(Chan) /\ cur = Len(chans)
  /\ DOMAIN w = Gens
  /\ \A g \in Gens : /\ DOMAIN w[g] = Slots
                     /\ \A i \in Slots : DOMAIN w[g][i] = {"st", "ch", "addr", "hold"}
  /\ \A g \in Gens : \A i \in Live(g) : w[g][i].ch \in 1 .. Len(chans)
  /\ wr \in [msg : Msgs \cup {Nothing}, ch : Nat]
  /\ wr.msg # Nothing => wr.ch \in 1 .. Len(chans)
  /\ upd \in [pc : Steps, old : Nat, from : Nat]
  /\ upd.pc \notin {"idle", "waitStart"} => upd.from \in 1 .. Len(chans)

\* The newest workers are not cancelled while the output is open, but between the two halves
\* of an Update that stops the old workers first.
Updating ==
  /\ upd.pc # "idle" => life = "open"
  /\ upd.pc = "waitStart" => kind \in {"snmp", "clickhouse"} /\ upd.old = gen /\ gen < MaxGen
  /\ upd.pc \notin {"idle", "waitStart"} => upd.old \in 1 .. gen - 1 /\ kind \notin {"snmp", "clickhouse"}
  /\ cancelled \subseteq 1 .. gen
  /\ life = "open" /\ upd.pc # "waitStart" => gen \notin cancelled

\* The newest workers: on the channel Write uses, all there, and on the configured address.
Newest ==
  /\ \A i \in Live(gen) : w[gen][i].ch = cur
  /\ kind \notin {"nats", "udp"} /\ ~broken /\ gen \notin cancelled =>
       /\ 1 \in Live(gen)
       /\ kind \in {"tcp", "otlp", "clickhouse", "prometheus"} => Live(gen) = 1 .. conf.workers
  /\ kind \notin {"tcp", "otlp", "prometheus"} /\ ~broken /\ upd.pc # "waitStart" =>
       \A i \in Live(gen) : w[gen][i].st \in {"idle", "busy", "connect"} => w[gen][i].addr = conf.addr

\* Older workers are gone, but for those an Update waits for.
Older ==
  /\ \A g \in Gens : g > gen => Live(g) = {}
  /\ kind # "prometheus" =>
       \A g \in Gens : g < gen => Live(g) = {} \/ (g = upd.old /\ upd.pc \in Awaiting)

\* Outputs whose Write cannot be overtaken by the swap.
Channels ==
  /\ kind \in {"snmp", "influx"} => Len(chans) = 1
  /\ kind = "clickhouse" => /\ \A c \in 1 .. Len(chans) : c # cur => chans[c].buf = <<>>
                            /\ wr.msg # Nothing => wr.ch = cur

PoolInv == PoolTypes /\ Updating /\ Newest /\ Older /\ Channels

-----------------------------------------------------------------------------
(* Channels, and what becomes of messages. *)

Fates == {"new", "queued", "sent", "counted", "lost"}
Bounded(q) == \A c \in 1 .. Len(q) : Len(q[c].buf) <= q[c].cap

LEMMA MarkFate ==
  ASSUME fate \in [Msgs -> Fates], NEW ms, NEW f \in Fates
  PROVE  Mark(ms, f) \in [Msgs -> Fates]
BY DEF Mark

\* A channel's buffer is replaced by one that fits.
LEMMA Rebuffer ==
  ASSUME NEW q \in Seq(Chan), Bounded(q), NEW c \in 1 .. Len(q), NEW e \in Chan,
         e.cap = q[c].cap, Len(e.buf) <= e.cap,
         NEW r, r = [q EXCEPT ![c] = e]
  PROVE  /\ r \in Seq(Chan) /\ Len(r) = Len(q) /\ Bounded(r)
         /\ r[c] = e /\ \A d \in 1 .. Len(q) : d # c => r[d] = q[d]
<1>1. r \in Seq(Chan) /\ Len(r) = Len(q)
  BY ExceptSeq
<1>2. r[c] = e /\ \A d \in 1 .. Len(q) : d # c => r[d] = q[d]
  OBVIOUS
<1>3. Bounded(r)
  BY <1>1, <1>2 DEF Bounded
<1> QED BY <1>1, <1>2, <1>3

LEMMA PutFits ==
  ASSUME NEW q \in Seq(Chan), Bounded(q), NEW c \in 1 .. Len(q), NEW m \in Msgs, Len(q[c].buf) < q[c].cap,
         NEW r, r = Put(q, c, m)
  PROVE  /\ r \in Seq(Chan) /\ Len(r) = Len(q) /\ Bounded(r)
         /\ \A d \in 1 .. Len(q) : d # c => r[d] = q[d]
<1>1. q[c] \in Chan
  OBVIOUS
<1>2. q[c].buf \in Seq(Msgs) /\ q[c].cap \in Nat
  BY <1>1 DEF Chan
<1>3. Append(q[c].buf, m) \in Seq(Msgs) /\ Len(Append(q[c].buf, m)) = Len(q[c].buf) + 1
  BY <1>2
<1>4. PICK new : new = [q[c] EXCEPT !.buf = Append(q[c].buf, m)]
  OBVIOUS
<1>5. new \in Chan /\ new.cap = q[c].cap /\ new.buf = Append(q[c].buf, m)
  BY <1>1, <1>3, <1>4 DEF Chan
<1>6. r = [q EXCEPT ![c] = new]
  BY <1>4 DEF Put
<1>7. Len(new.buf) <= new.cap
  BY <1>2, <1>3, <1>5
<1>8. r \in Seq(Chan) /\ Len(r) = Len(q)
  BY <1>5, <1>6, ExceptSeq
<1>9. r[c] = new /\ \A d \in 1 .. Len(q) : d # c => r[d] = q[d]
  BY <1>6
<1>10. Bounded(r)
  BY <1>5, <1>7, <1>8, <1>9 DEF Bounded
<1> QED BY <1>7, <1>8, <1>9, <1>10

LEMMA TailFits ==
  ASSUME NEW q \in Seq(Chan), Bounded(q), NEW c \in 1 .. Len(q), q[c].buf # <<>>,
         NEW r, r = [q EXCEPT ![c].buf = Tail(@)]
  PROVE  /\ r \in Seq(Chan) /\ Len(r) = Len(q) /\ Bounded(r)
         /\ \A d \in 1 .. Len(q) : d # c => r[d] = q[d]
         /\ Len(r[c].buf) < Len(q[c].buf)
         /\ Head(q[c].buf) \in Msgs
<1>1. q[c] \in Chan /\ Len(q[c].buf) <= q[c].cap
  BY DEF Bounded
<1>2. q[c].buf \in Seq(Msgs) /\ q[c].cap \in Nat
  BY <1>1 DEF Chan
<1>3. /\ Tail(q[c].buf) \in Seq(Msgs) /\ Len(Tail(q[c].buf)) = Len(q[c].buf) - 1
      /\ Head(q[c].buf) \in Msgs
  BY <1>2
<1>4. PICK new : new = [q[c] EXCEPT !.buf = Tail(q[c].buf)]
  OBVIOUS
<1>5. new \in Chan /\ new.cap = q[c].cap /\ new.buf = Tail(q[c].buf)
  BY <1>1, <1>3, <1>4 DEF Chan
<1>6. r = [q EXCEPT ![c] = new]
  BY <1>4
<1>7. Len(new.buf) <= new.cap /\ Len(new.buf) < Len(q[c].buf)
  BY <1>1, <1>2, <1>3, <1>5
<1>8. r \in Seq(Chan) /\ Len(r) = Len(q)
  <2>1. [q EXCEPT ![c] = new] \in Seq(Chan) /\ Len([q EXCEPT ![c] = new]) = Len(q)
    BY <1>5, ExceptSeq
  <2> QED BY <1>6, <2>1, Zenon
<1>9. r[c] = new /\ \A d \in 1 .. Len(q) : d # c => r[d] = q[d]
  BY <1>6
<1>10. Bounded(r)
  BY <1>5, <1>7, <1>8, <1>9 DEF Bounded
<1> QED BY <1>3, <1>7, <1>8, <1>9, <1>10

\* A new channel behind the others.
LEMMA AppendFits ==
  ASSUME NEW q \in Seq(Chan), Bounded(q), NEW ch \in Chan, Len(ch.buf) <= ch.cap,
         NEW r, r = Append(q, ch)
  PROVE  /\ r \in Seq(Chan) /\ Len(r) = Len(q) + 1 /\ Bounded(r) /\ r[Len(r)] = ch
         /\ \A d \in 1 .. Len(q) : r[d] = q[d]
<1>1. Append(q, ch) \in Seq(Chan) /\ Len(Append(q, ch)) = Len(q) + 1 /\ Len(q) \in Nat
  OBVIOUS
<1>2. Append(q, ch)[Len(q) + 1] = ch /\ \A d \in 1 .. Len(q) : Append(q, ch)[d] = q[d]
  OBVIOUS
<1>3. Bounded(Append(q, ch))
  BY <1>1, <1>2 DEF Bounded
<1> QED BY <1>1, <1>2, <1>3

-----------------------------------------------------------------------------
(* A worker's turn: it leaves only when its context is done, takes up the  *)
(* channel of the moment if any, and is on the configured address when it  *)
(* becomes ready.                                                          *)

Parts == {"st", "ch", "addr", "hold"}
Ready == {"idle", "busy", "connect"}

Turned(g, i) ==
  /\ i \in Live(g)
  /\ DOMAIN w' = Gens
  /\ \A h \in Gens : h # g => w'[h] = w[h]
  /\ DOMAIN w'[g] = Slots
  /\ \A j \in Slots : j # i => w'[g][j] = w[g][j]
  /\ DOMAIN w'[g][i] = Parts
  /\ w'[g][i].st # "none" /\ (w'[g][i].st = "exit" => Done(g))
  /\ w'[g][i].ch \in {w[g][i].ch, cur}
  /\ w'[g][i].st \in Ready => \/ w'[g][i].addr = conf.addr
                              \/ w[g][i].st \in Ready /\ w'[g][i].addr = w[g][i].addr

\* What a worker or the write loop does to channels and messages.
Used ==
  /\ UNCHANGED <<kind, conf, cur, gen, cancelled, upd, life, broken>>
  /\ chans' \in Seq(Chan) /\ Len(chans') = Len(chans) /\ Bounded(chans')
  /\ wr' \in {wr, NoWrite}
  /\ \A c \in 1 .. Len(chans) :
       chans[c].buf = <<>> => chans'[c].buf = <<>> \/ (wr.msg # Nothing /\ c = wr.ch)
  /\ fate' \in [Msgs -> Fates]

\* The worker's record becomes x, the others stay.
Set(g, i, x) ==
  /\ DOMAIN w' = Gens /\ DOMAIN w'[g] = Slots /\ w'[g][i] = x
  /\ \A h \in Gens : h # g => w'[h] = w[h]
  /\ \A j \in Slots : j # i => w'[g][j] = w[g][j]

LEMMA RecordTurns ==
  ASSUME NEW g \in Gens, NEW i \in Slots, NEW x, Set(g, i, x),
         DOMAIN x = Parts, w[g][i].st \notin {"none", "exit"},
         x.st # "none", x.st = "exit" => Done(g),
         x.ch = w[g][i].ch \/ x.ch = cur,
         x.st \in Ready => x.addr = conf.addr \/ (w[g][i].st \in Ready /\ x.addr = w[g][i].addr)
  PROVE  Turned(g, i)
BY DEF Turned, Live, Set

LEMMA SetRecord ==
  ASSUME PoolTypes, NEW g \in Gens, NEW i \in Slots, NEW x, w' = [w EXCEPT ![g][i] = x]
  PROVE  Set(g, i, x)
<1>1. DOMAIN w = Gens /\ DOMAIN w[g] = Slots
  BY DEF PoolTypes
<1> QED BY <1>1 DEF Set

\* A new state, and nothing or what it had in its hands.
LEMMA StateTurns ==
  ASSUME PoolTypes, NEW g \in Gens, NEW i \in Slots, NEW st,
         \/ w' = [w EXCEPT ![g][i].st = st]
         \/ \E h : w' = [w EXCEPT ![g][i].st = st, ![g][i].hold = h]
         \/ \E h : w' = [w EXCEPT ![g][i].hold = h, ![g][i].st = st],
         w[g][i].st \notin {"none", "exit"},
         st # "none", st = "exit" => Done(g), st \in Ready => w[g][i].st \in Ready
  PROVE  Turned(g, i)
<1>1. DOMAIN w = Gens /\ DOMAIN w[g] = Slots /\ DOMAIN w[g][i] = Parts
  BY DEF PoolTypes, Parts
<1>2. CASE w' = [w EXCEPT ![g][i].st = st]
  <2>1. PICK x : x = [w[g][i] EXCEPT !.st = st]
    OBVIOUS
  <2>2. DOMAIN x = Parts /\ x.st = st /\ x.ch = w[g][i].ch /\ x.addr = w[g][i].addr
    BY <1>1, <2>1 DEF Parts
  <2>3. w' = [w EXCEPT ![g][i] = x]
    BY <1>2, <2>1
  <2> QED BY <2>2, <2>3, SetRecord, RecordTurns
<1>3. ASSUME NEW h, w' = [w EXCEPT ![g][i].st = st, ![g][i].hold = h]
      PROVE  Turned(g, i)
  <2>1. DOMAIN w' = Gens /\ DOMAIN w'[g] = Slots /\ \A f \in Gens : f # g => w'[f] = w[f]
    BY <1>1, <1>3
  <2>2. \A j \in Slots : j # i => w'[g][j] = w[g][j]
    BY <1>1, <1>3
  <2>3. DOMAIN w'[g][i] = Parts /\ w'[g][i].st = st /\ w'[g][i].ch = w[g][i].ch /\ w'[g][i].addr = w[g][i].addr
    BY <1>1, <1>3 DEF Parts
  <2> QED BY <2>1, <2>2, <2>3, RecordTurns DEF Set
<1>4. ASSUME NEW h, w' = [w EXCEPT ![g][i].hold = h, ![g][i].st = st]
      PROVE  Turned(g, i)
  <2>1. DOMAIN w' = Gens /\ DOMAIN w'[g] = Slots /\ \A f \in Gens : f # g => w'[f] = w[f]
    BY <1>1, <1>4
  <2>2. \A j \in Slots : j # i => w'[g][j] = w[g][j]
    BY <1>1, <1>4
  <2>3. DOMAIN w'[g][i] = Parts /\ w'[g][i].st = st /\ w'[g][i].ch = w[g][i].ch /\ w'[g][i].addr = w[g][i].addr
    BY <1>1, <1>4 DEF Parts
  <2> QED BY <2>1, <2>2, <2>3, RecordTurns DEF Set
<1> QED BY <1>2, <1>3, <1>4

-----------------------------------------------------------------------------
(* Turns, and writes, keep the invariant. *)

\* All that a turn, or none, may change of the workers.
Worked ==
  /\ DOMAIN w' = Gens
  /\ \A h \in Gens :
       /\ DOMAIN w'[h] = Slots /\ \A j \in Slots : DOMAIN w'[h][j] = Parts
       /\ Live(h)' \subseteq Live(h) /\ (~Done(h) => Live(h)' = Live(h))
       /\ \A j \in Live(h)' :
            /\ w'[h][j].ch \in {w[h][j].ch, cur}
            /\ w'[h][j].st \in Ready =>
                 w'[h][j].addr = conf.addr \/ (w[h][j].st \in Ready /\ w'[h][j].addr = w[h][j].addr)

LEMMA TurnWorks ==
  ASSUME PoolTypes, UNCHANGED w \/ \E g \in Gens, i \in Slots : Turned(g, i)
  PROVE  Worked
<1>1. CASE UNCHANGED w
  BY <1>1 DEF Worked, PoolTypes, Parts, Live
<1>2. ASSUME NEW g \in Gens, NEW i \in Slots, Turned(g, i)
      PROVE  Worked
  <2>1. DOMAIN w' = Gens
    BY <1>2 DEF Turned
  <2>2. ASSUME NEW h \in Gens, h # g
        PROVE  /\ DOMAIN w'[h] = Slots /\ \A j \in Slots : DOMAIN w'[h][j] = Parts
               /\ w'[h] = w[h] /\ Live(h)' = Live(h)
    BY <1>2, <2>2 DEF PoolTypes, Turned, Live, Parts
  <2>3. DOMAIN w'[g] = Slots /\ \A j \in Slots : DOMAIN w'[g][j] = Parts
    BY <1>2 DEF PoolTypes, Turned, Parts
  <2>4. Live(g)' \subseteq Live(g) /\ (~Done(g) => Live(g)' = Live(g))
    BY <1>2 DEF Turned, Live
  <2>5. ASSUME NEW j \in Live(g)'
        PROVE  /\ w'[g][j].ch \in {w[g][j].ch, cur}
               /\ w'[g][j].st \in Ready =>
                    w'[g][j].addr = conf.addr \/ (w[g][j].st \in Ready /\ w'[g][j].addr = w[g][j].addr)
    <3>1. j \in Slots
      BY DEF Live
    <3> QED BY <1>2, <3>1 DEF Turned
  <2> QED BY <2>1, <2>2, <2>3, <2>4, <2>5 DEF Worked
<1> QED BY <1>1, <1>2

LEMMA UsedKeeps ==
  ASSUME Configured, PoolInv, Used, Worked
  PROVE  PoolInv'
<1>1. /\ PoolTypes /\ Updating /\ Newest /\ Older /\ Channels
      /\ UNCHANGED <<kind, conf, cur, gen, cancelled, upd, life, broken>>
      /\ gen \in Gens /\ (Done(gen) /\ kind \notin {"nats", "udp"} => gen \in cancelled)
  BY DEF PoolInv, Used, PoolTypes, TypeOK, Done
<1>3. PoolTypes'
  <2>1. TypeOK'
    BY <1>1 DEF PoolTypes, TypeOK, Used, Bounded, Fates
  <2>2. ASSUME NEW h \in Gens, NEW j \in Live(h)'
        PROVE  w'[h][j].ch \in 1 .. Len(chans')
    <3>1. j \in Live(h) /\ w'[h][j].ch \in {w[h][j].ch, cur}
      BY DEF Worked
    <3>2. w[h][j].ch \in 1 .. Len(chans) /\ cur \in 1 .. Len(chans)
      BY <1>1, <3>1 DEF PoolTypes, TypeOK
    <3> QED BY <3>1, <3>2 DEF Used
  <2>3. DOMAIN w' = Gens /\ \A h \in Gens : DOMAIN w'[h] = Slots /\ \A j \in Slots : DOMAIN w'[h][j] = Parts
    BY DEF Worked
  <2>4. wr' \in [msg : Msgs \cup {Nothing}, ch : Nat] /\ (wr'.msg # Nothing => wr'.ch \in 1 .. Len(chans'))
    BY <1>1 DEF PoolTypes, Used, NoWrite, Nothing
  <2> QED BY <1>1, <2>1, <2>2, <2>3, <2>4 DEF PoolTypes, Used, Parts
<1>4. Updating'
  BY <1>1 DEF Updating
<1>5. Newest'
  <2>1. \A j \in Live(gen)' : j \in Live(gen) /\ w'[gen][j].ch = cur
    BY <1>1 DEF Newest, Worked
  <2>2. ASSUME kind \notin {"nats", "udp"}, gen \notin cancelled
        PROVE  Live(gen)' = Live(gen)
    BY <1>1, <2>2 DEF Worked
  <2>3. ASSUME NEW j \in Live(gen)', w'[gen][j].st \in Ready,
               w[gen][j].st \in Ready => w[gen][j].addr = conf.addr
        PROVE  w'[gen][j].addr = conf.addr
    BY <1>1, <2>3 DEF Worked
  <2> QED BY <1>1, <2>1, <2>2, <2>3 DEF Newest, Ready
<1>6. Older'
  BY <1>1 DEF Older, Worked
<1>7. Channels'
  BY <1>1 DEF Channels, Used, PoolTypes, TypeOK, NoWrite
<1> QED BY <1>3, <1>4, <1>5, <1>6, <1>7 DEF PoolInv

-----------------------------------------------------------------------------
(* Every step of a worker is a turn. *)

LEMMA SameChannels ==
  ASSUME PoolTypes, UNCHANGED <<kind, conf, cur, gen, cancelled, upd, life, broken>>,
         wr' \in {wr, NoWrite}, UNCHANGED chans, fate' \in [Msgs -> Fates]
  PROVE  Used
BY DEF Used, PoolTypes, TypeOK, Bounded

LEMMA SameFates ==
  ASSUME PoolTypes, UNCHANGED fate
  PROVE  fate' \in [Msgs -> Fates]
BY DEF PoolTypes, TypeOK, Fates

LEMMA MarkedFates ==
  ASSUME PoolTypes, NEW ms, NEW f \in Fates, fate' = Mark(ms, f)
  PROVE  fate' \in [Msgs -> Fates]
BY MarkFate DEF PoolTypes, TypeOK, Fates

LEMMA BeginTurns ==
  ASSUME PoolTypes, NEW g \in Gens, NEW i \in Slots, Begin(g, i) \/ Connect(g, i)
  PROVE  Turned(g, i) /\ Used
<1>1. DOMAIN w = Gens /\ DOMAIN w[g] = Slots /\ DOMAIN w[g][i] = Parts
  BY DEF PoolTypes, Parts
<1>2. Set(g, i, w'[g][i])
  BY <1>1 DEF Set, Begin, Connect
<1>3. /\ w[g][i].st \in {"start", "dial"} /\ w'[g][i].st \in {"idle", "dial", "busy", "connect"}
      /\ w'[g][i].ch \in {w[g][i].ch, cur} /\ w'[g][i].addr = conf.addr
      /\ DOMAIN w'[g][i] = Parts
  <2>1. w[g][i].st \in {"start", "dial"}
    BY DEF Begin, Connect
  <2>2. PICK st \in {"idle", "dial", "busy", "connect"}, ch \in {w[g][i].ch, cur} :
          w'[g][i] = [w[g][i] EXCEPT !.st = st, !.ch = ch, !.addr = conf.addr]
    <3>1. CASE Begin(g, i)
      <4>1. w'[g][i] = [w[g][i] EXCEPT !.st = IF kind = "snmp" THEN "connect"
                                              ELSE IF kind \in {"otlp", "clickhouse", "influx", "prometheus"}
                                              THEN "idle" ELSE "dial",
                                       !.ch = IF kind \in {"kafka", "kafkaSync", "prometheus"} THEN w[g][i].ch ELSE cur,
                                       !.addr = conf.addr]
        BY <1>1, <3>1 DEF Begin
      <4>2. CASE kind \in {"kafka", "kafkaSync"}
        BY <4>1, <4>2
      <4>3. CASE kind = "prometheus"
        BY <4>1, <4>3
      <4>4. CASE kind \in {"otlp", "clickhouse", "influx"}
        BY <4>1, <4>4
      <4>6. CASE kind = "snmp"
        BY <4>1, <4>6
      <4>5. CASE kind \notin {"kafka", "kafkaSync", "prometheus", "otlp", "clickhouse", "influx", "snmp"}
        BY <4>1, <4>5
      <4> QED BY <4>2, <4>3, <4>4, <4>5, <4>6
    <3>2. CASE Connect(g, i)
      <4>1. w'[g][i] = [w[g][i] EXCEPT !.st = IF w[g][i].hold # <<>> THEN "busy" ELSE "idle",
                                       !.ch = IF kind = "udp" THEN cur ELSE w[g][i].ch,
                                       !.addr = conf.addr]
        BY <1>1, <3>2 DEF Connect
      <4>2. CASE w[g][i].hold # <<>> /\ kind = "udp"
        BY <4>1, <4>2
      <4>3. CASE w[g][i].hold = <<>> /\ kind = "udp"
        BY <4>1, <4>3
      <4>4. CASE w[g][i].hold # <<>> /\ kind # "udp"
        BY <4>1, <4>4
      <4>5. CASE w[g][i].hold = <<>> /\ kind # "udp"
        BY <4>1, <4>5
      <4> QED BY <4>2, <4>3, <4>4, <4>5
    <3> QED BY <3>1, <3>2
  <2>3. /\ DOMAIN w'[g][i] = Parts /\ w'[g][i].st = st /\ w'[g][i].ch = ch
        /\ w'[g][i].addr = conf.addr
    BY <1>1, <2>2 DEF Parts
  <2> QED BY <2>1, <2>3
<1>4. Turned(g, i)
  BY <1>2, <1>3, RecordTurns
<1>5. UNCHANGED <<kind, conf, cur, gen, cancelled, wr, upd, life, broken, chans, fate>>
  BY DEF Begin, Connect, WorkerUnch
<1> QED BY <1>4, <1>5, SameChannels, SameFates

\* The states a worker goes to when it gives up, quits, sends or fails to.
LEMMA EndTurns ==
  ASSUME PoolTypes, NEW g \in Gens, NEW i \in Slots, NEW f \in Fates,
         \/ GiveUp(g, i) \/ SnmpConnect(g, i) \/ Sent(g, i) \/ FlushTimer(g, i) \/ Quit(g, i, f)
         \/ \E st \in {"idle", "dial"} : SendFails(g, i, f, st)
         \/ w[g][i].st = "busy" /\ Become(g, i, "dial") /\ WorkerUnch /\ UNCHANGED <<chans, fate>>
  PROVE  Turned(g, i) /\ Used
<1>1. PICK st \in {"idle", "dial", "busy", "exit"} :
        /\ \/ w' = [w EXCEPT ![g][i].st = st]
           \/ \E h : w' = [w EXCEPT ![g][i].st = st, ![g][i].hold = h]
        /\ w[g][i].st \in {"dial", "busy", "idle", "connect"}
        /\ st = "exit" => Done(g)
        /\ st \in Ready => w[g][i].st \in Ready
  BY DEF GiveUp, SnmpConnect, Sent, FlushTimer, Quit, SendFails, Become, Ready
<1>2. Turned(g, i)
  BY <1>1, StateTurns
<1>3. UNCHANGED <<kind, conf, cur, gen, cancelled, wr, upd, life, broken, chans>>
  BY DEF GiveUp, SnmpConnect, Sent, FlushTimer, Quit, SendFails, Become, WorkerUnch
<1>4. UNCHANGED fate \/ \E ms : \E e \in Fates : fate' = Mark(ms, e)
  BY DEF GiveUp, SnmpConnect, Sent, FlushTimer, Quit, SendFails, Become, Fates
<1>5. fate' \in [Msgs -> Fates]
  BY <1>4, SameFates, MarkedFates
<1> QED BY <1>2, <1>3, <1>5, SameChannels

LEMMA TakeTurns ==
  ASSUME PoolTypes, NEW g \in Gens, NEW i \in Slots, Take(g, i)
  PROVE  Turned(g, i) /\ Used
<1>1. DOMAIN w = Gens /\ DOMAIN w[g] = Slots /\ DOMAIN w[g][i] = Parts
  BY DEF PoolTypes, Parts
<1>2. Set(g, i, w'[g][i])
  BY <1>1 DEF Set, Take
<1>3. w[g][i].st = "idle" /\ i \in Live(g)
  BY DEF Take, Live
<1>4. /\ DOMAIN w'[g][i] = Parts /\ w'[g][i].st \in {"idle", "busy"} /\ w'[g][i].ch = w[g][i].ch
      /\ w'[g][i].addr = w[g][i].addr
  BY <1>1 DEF Take, Parts
<1>5. Turned(g, i)
  BY <1>2, <1>3, <1>4, RecordTurns DEF Ready
<1>6. PICK c \in 1 .. Len(chans) : c = w[g][i].ch
  BY <1>3 DEF PoolTypes
<1>7. chans[c].buf # <<>> /\ chans' = [chans EXCEPT ![c].buf = Tail(@)]
  BY <1>6 DEF Take
<1>8. chans \in Seq(Chan) /\ Bounded(chans)
  BY DEF PoolTypes, TypeOK, Bounded
<1>9. /\ chans' \in Seq(Chan) /\ Len(chans') = Len(chans) /\ Bounded(chans')
      /\ \A d \in 1 .. Len(chans) : d # c => chans'[d] = chans[d]
  <2>1. PICK r : r = chans'
    OBVIOUS
  <2>2. r = [chans EXCEPT ![c].buf = Tail(@)]
    BY <1>7, <2>1
  <2>3. r \in Seq(Chan) /\ Len(r) = Len(chans)
    BY <1>7, <1>8, <2>2, TailFits
  <2>4. Bounded(r)
    BY <1>7, <1>8, <2>2, TailFits
  <2>5. \A d \in 1 .. Len(chans) : d # c => r[d] = chans[d]
    BY <2>2
  <2> QED BY <2>1, <2>3, <2>4, <2>5
<1>10. UNCHANGED <<kind, conf, cur, gen, cancelled, wr, upd, life, broken, fate>>
  BY DEF Take, WorkerUnch
<1>11. Used
  BY <1>7, <1>9, <1>10, SameFates DEF Used
<1> QED BY <1>5, <1>11

\* ClickHouse's worker empties its channel when it stops.
LEMMA EmptyTurns ==
  ASSUME PoolTypes, NEW g \in Gens, NEW i \in Slots,
         w[g][i].st = "idle", Done(g),
         chans' = [chans EXCEPT ![w[g][i].ch].buf = <<>>],
         NEW ms, fate' = Mark(ms, "lost"),
         w' = [w EXCEPT ![g][i].st = "exit", ![g][i].hold = <<>>],
         WorkerUnch
  PROVE  Turned(g, i) /\ Used
<1>1. Turned(g, i)
  BY StateTurns DEF Ready
<1>2. PICK c \in 1 .. Len(chans) : c = w[g][i].ch
  BY DEF PoolTypes, Live
<1>3. chans \in Seq(Chan) /\ Bounded(chans) /\ chans[c] \in Chan
  BY <1>2 DEF PoolTypes, TypeOK, Bounded
<1>4. PICK new : new = [chans[c] EXCEPT !.buf = <<>>]
  OBVIOUS
<1>5. new \in Chan /\ new.cap = chans[c].cap /\ Len(new.buf) <= new.cap /\ new.buf = <<>>
  <2>1. <<>> \in Seq(Msgs) /\ Len(<<>>) = 0
    OBVIOUS
  <2>2. new \in Chan /\ new.cap = chans[c].cap /\ new.buf = <<>> /\ new.cap \in Nat
    BY <1>3, <1>4, <2>1 DEF Chan
  <2> QED BY <2>1, <2>2
<1>6. chans' = [chans EXCEPT ![c] = new]
  BY <1>2, <1>4
<1>7. /\ chans' \in Seq(Chan) /\ Len(chans') = Len(chans) /\ Bounded(chans')
      /\ chans'[c] = new /\ \A d \in 1 .. Len(chans) : d # c => chans'[d] = chans[d]
  <2>1. PICK r : r = chans'
    OBVIOUS
  <2>2. r = [chans EXCEPT ![c] = new]
    BY <1>6, <2>1
  <2>3. r \in Seq(Chan) /\ Len(r) = Len(chans)
    BY <1>3, <1>5, <2>2, Rebuffer
  <2>4. Bounded(r)
    BY <1>3, <1>5, <2>2, Rebuffer
  <2>5. r[c] = new /\ \A d \in 1 .. Len(chans) : d # c => r[d] = chans[d]
    BY <1>3, <2>2
  <2> QED BY <2>1, <2>3, <2>4, <2>5
<1>8. UNCHANGED <<kind, conf, cur, gen, cancelled, wr, upd, life, broken>>
  BY DEF WorkerUnch
<1>9. fate' \in [Msgs -> Fates]
  BY MarkedFates DEF Fates
<1>10. Used
  BY <1>5, <1>7, <1>8, <1>9 DEF Used
<1> QED BY <1>1, <1>10

LEMMA WorkerTurns ==
  ASSUME PoolTypes, NEW g \in Gens, NEW i \in Slots, Worker(g, i)
  PROVE  Turned(g, i) /\ Used
<1>1. {"lost", "counted", "sent"} \subseteq Fates
  BY DEF Fates
<1>2. CASE Begin(g, i) \/ Connect(g, i)
  BY <1>2, BeginTurns
<1>3. CASE Take(g, i)
  BY <1>3, TakeTurns
<1>4. CASE \/ GiveUp(g, i) \/ SnmpConnect(g, i) \/ Sent(g, i) \/ FlushTimer(g, i)
           \/ \E f \in {"lost", "counted", "sent"} :
                Quit(g, i, f) \/ \E st \in {"idle", "dial"} : SendFails(g, i, f, st)
           \/ w[g][i].st = "busy" /\ Become(g, i, "dial") /\ WorkerUnch /\ UNCHANGED <<chans, fate>>
  BY <1>1, <1>4, EndTurns
<1>5. CASE \E ms : /\ w[g][i].st = "idle" /\ Done(g)
                   /\ chans' = [chans EXCEPT ![w[g][i].ch].buf = <<>>]
                   /\ fate' = Mark(ms, "lost")
                   /\ w' = [w EXCEPT ![g][i].st = "exit", ![g][i].hold = <<>>]
                   /\ WorkerUnch
  BY <1>5, EmptyTurns
<1> QED
  BY <1>2, <1>3, <1>4, <1>5
     DEF Worker, KafkaAsyncWorker, KafkaSyncWorker, NatsWorker, JetstreamWorker, TcpWorker, UdpWorker,
         OtlpWorker, SnmpWorker, InfluxWorker, ClickhouseWorker, PrometheusWorker

-----------------------------------------------------------------------------
(* Write. *)

\* A Write begins on the current channel.
LEMMA LoadKeeps ==
  ASSUME Configured, PoolInv, LoadChan
  PROVE  PoolInv'
<1>1. PICK m \in Msgs : wr' = [msg |-> m, ch |-> cur]
  BY DEF LoadChan
<1>2. /\ PoolTypes /\ Updating /\ Newest /\ Older /\ Channels
      /\ UNCHANGED <<kind, conf, cur, gen, cancelled, upd, life, broken, chans, w, fate>>
  BY DEF PoolInv, LoadChan, WriteUnch
<1>3. PoolTypes'
  <2>1. TypeOK' /\ cur \in 1 .. Len(chans)
    BY <1>2 DEF PoolTypes, TypeOK
  <2>2. wr' \in [msg : Msgs \cup {Nothing}, ch : Nat] /\ wr'.ch \in 1 .. Len(chans)
    BY <1>1, <1>2, <2>1 DEF PoolTypes
  <2> QED BY <1>2, <2>1, <2>2 DEF PoolTypes, Live
<1>4. Updating' /\ Newest' /\ Older'
  BY <1>2 DEF Updating, Newest, Older, Live
<1>5. Channels'
  BY <1>1, <1>2 DEF Channels
<1> QED BY <1>3, <1>4, <1>5 DEF PoolInv

LEMMA ReturnUses ==
  ASSUME PoolTypes, NEW f \in Fates, Return(f)
  PROVE  /\ UNCHANGED <<kind, conf, cur, gen, cancelled, upd, life, broken>>
         /\ wr' = NoWrite /\ fate' \in [Msgs -> Fates]
BY MarkedFates DEF Return, WriteUnch

\* Nothing is sent.
LEMMA DropUses ==
  ASSUME PoolTypes, NEW f \in Fates, Return(f), UNCHANGED chans
  PROVE  Used
BY ReturnUses, SameChannels

LEMMA SendUses ==
  ASSUME PoolTypes, SendMsg
  PROVE  Used /\ UNCHANGED w
<1>1. PICK r, c, m : r = chans' /\ c = wr.ch /\ m = wr.msg
  OBVIOUS
<1>2. m # Nothing /\ m \in Msgs /\ c \in 1 .. Len(chans) /\ Room(c) /\ r = Put(chans, c, m)
  BY <1>1 DEF SendMsg, PoolTypes
<1>3. chans \in Seq(Chan) /\ Bounded(chans) /\ Len(chans[c].buf) < chans[c].cap
  BY <1>2 DEF PoolTypes, TypeOK, Bounded, Room
<1>4. r \in Seq(Chan) /\ Len(r) = Len(chans)
  BY <1>2, <1>3, PutFits
<1>5. Bounded(r)
  BY <1>2, <1>3, PutFits
<1>6. \A d \in 1 .. Len(chans) : d # c => r[d] = chans[d]
  BY <1>2, <1>3, PutFits
<1>7. Return("queued") /\ "queued" \in Fates /\ UNCHANGED w
  BY DEF SendMsg, Fates
<1>8. Used
  BY <1>1, <1>2, <1>4, <1>5, <1>6, <1>7, ReturnUses DEF Used
<1> QED BY <1>7, <1>8

\* A worker of InfluxDB takes the event from the hands of Write.
LEMMA HandTurns ==
  ASSUME PoolTypes, NEW g \in Gens, NEW i \in Slots, w[g][i].st = "idle",
         w' = [w EXCEPT ![g][i].hold = <<wr.msg>>, ![g][i].st = "busy"]
  PROVE  Turned(g, i)
<1>1. \E h : w' = [w EXCEPT ![g][i].hold = h, ![g][i].st = "busy"]
  OBVIOUS
<1>2. "busy" \in Ready /\ "idle" \in Ready /\ "busy" \notin {"none", "exit"}
  BY DEF Ready
<1> QED BY <1>1, <1>2, StateTurns

LEMMA WriteKeeps ==
  ASSUME Configured, PoolInv, Write
  PROVE  PoolInv'
<1>1. PoolTypes /\ {"lost", "counted", "queued"} \subseteq Fates
  BY DEF PoolInv, Fates
<1>2. CASE LoadChan
  BY <1>2, LoadKeeps
<1>3. CASE SendMsg
  BY <1>1, <1>3, SendUses, TurnWorks, UsedKeeps
<1>4. CASE \E f \in {"lost", "counted"} : Return(f) /\ UNCHANGED <<chans, w>>
  BY <1>1, <1>4, DropUses, TurnWorks, UsedKeeps
<1>5. CASE /\ \E g \in Gens : \E i \in Slots :
                /\ w[g][i].st = "idle" /\ w[g][i].hold = <<>>
                /\ w' = [w EXCEPT ![g][i].hold = <<wr.msg>>, ![g][i].st = "busy"]
           /\ Return("queued") /\ UNCHANGED chans
  <2>1. \E g \in Gens, i \in Slots : Turned(g, i)
    BY <1>1, <1>5, HandTurns
  <2>2. Used
    BY <1>1, <1>5, DropUses
  <2> QED BY <1>1, <2>1, <2>2, TurnWorks, UsedKeeps
<1> QED
  BY <1>2, <1>3, <1>4, <1>5
     DEF Write, KafkaWrite, NatsWrite, JetstreamWrite, TcpWrite, UdpWrite, OtlpWrite, SnmpWrite, InfluxWrite,
         ClickhouseWrite, PrometheusWrite, Expire, CloseSig

LEMMA WorkerKeeps ==
  ASSUME Configured, PoolInv, NEW g \in Gens, NEW i \in Slots, Worker(g, i)
  PROVE  PoolInv'
<1>1. PoolTypes
  BY DEF PoolInv
<1>2. Turned(g, i) /\ Used
  BY <1>1, WorkerTurns
<1>3. Worked
  BY <1>1, <1>2, TurnWorks
<1> QED BY <1>2, <1>3, UsedKeeps

-----------------------------------------------------------------------------
(* Close. *)

LEMMA CloseKeeps ==
  ASSUME Configured, PoolInv, Close
  PROVE  PoolInv'
<1>1. CASE Cancel
  <2>1. /\ PoolTypes /\ Updating /\ Newest /\ Older /\ Channels
        /\ life' = "closing" /\ cancelled' = cancelled \cup {gen} /\ upd.pc = "idle" /\ gen \in 1 .. MaxGen
        /\ UNCHANGED <<kind, conf, chans, cur, gen, w, wr, upd, fate, broken>>
    BY <1>1 DEF PoolInv, Cancel, PoolTypes, TypeOK, Gens
  <2>2. PoolTypes'
    BY <2>1 DEF PoolTypes, TypeOK, Live, Gens
  <2>3. Updating'
    BY <2>1 DEF Updating
  <2>4. Newest' /\ Older' /\ Channels'
    BY <2>1 DEF Newest, Older, Channels, Live
  <2> QED BY <2>2, <2>3, <2>4 DEF PoolInv
<1>2. CASE \E gens : Gone(gens)
  <2>1. /\ PoolTypes /\ Updating /\ Newest /\ Older /\ Channels
        /\ life = "closing" /\ life' = "closed"
        /\ UNCHANGED <<kind, conf, chans, cur, gen, cancelled, w, wr, upd, fate, broken>>
    BY <1>2 DEF PoolInv, Gone
  <2>2. PoolTypes'
    BY <2>1 DEF PoolTypes, TypeOK, Live
  <2>3. Updating'
    BY <2>1 DEF Updating
  <2>4. Newest' /\ Older' /\ Channels'
    BY <2>1 DEF Newest, Older, Channels, Live
  <2> QED BY <2>2, <2>3, <2>4 DEF PoolInv
<1> QED
  BY <1>1, <1>2
     DEF Close, KafkaClose, NatsClose, JetstreamClose, TcpClose, UdpClose, OtlpClose, SnmpClose, InfluxClose,
         ClickhouseClose, PrometheusClose

-----------------------------------------------------------------------------
(* Update: a new configuration, with or without new workers. *)

\* n new workers on the current channel; the others are left alone.
Manned(n) ==
  /\ gen' = gen + 1 /\ gen' \in Gens
  /\ DOMAIN w' = Gens
  /\ \A h \in Gens : DOMAIN w'[h] = Slots /\ \A j \in Slots : DOMAIN w'[h][j] = Parts
  /\ \A h \in Gens : h # gen' => w'[h] = w[h] /\ Live(h)' = Live(h)
  /\ Live(gen)' = 1 .. n
  /\ \A j \in 1 .. n : w'[gen'][j].st = "start" /\ w'[gen'][j].ch = cur'

LEMMA PoolMans ==
  ASSUME Configured, PoolTypes, NEW n \in 0 .. MaxWorkers, gen < MaxGen, gen' = gen + 1,
         w' = Pool(gen + 1, n, cur')
  PROVE  Manned(n)
<1>1. gen' \in Gens /\ gen' = gen + 1
  BY DEF PoolTypes, TypeOK, Configured, Gens
<1>2. DOMAIN w = Gens /\ \A h \in Gens : DOMAIN w[h] = Slots /\ \A j \in Slots : DOMAIN w[h][j] = Parts
  BY DEF PoolTypes, Parts
<1>3. w'[gen'] = [j \in Slots |-> IF j <= n THEN Fresh(cur') ELSE NoWorker]
  BY <1>1, <1>2 DEF Pool
<1>4. DOMAIN w' = Gens /\ \A h \in Gens : h # gen' => w'[h] = w[h]
  BY <1>1, <1>2 DEF Pool
<1>5. DOMAIN w'[gen'] = Slots /\ \A j \in Slots : w'[gen'][j] = IF j <= n THEN Fresh(cur') ELSE NoWorker
  BY <1>3
<1>6. \A j \in Slots : DOMAIN w'[gen'][j] = Parts
  BY <1>5 DEF Fresh, NoWorker, Parts
<1>7. /\ \A j \in Slots : j <= n => w'[gen'][j].st = "start" /\ w'[gen'][j].ch = cur'
      /\ \A j \in Slots : ~(j <= n) => w'[gen'][j].st = "none"
  <2>1. Fresh(cur').st = "start" /\ Fresh(cur').ch = cur' /\ NoWorker.st = "none"
    BY DEF Fresh, NoWorker
  <2>2. ASSUME NEW j \in Slots, j <= n
        PROVE  w'[gen'][j] = Fresh(cur')
    BY <1>5, <2>2
  <2>3. ASSUME NEW j \in Slots, ~(j <= n)
        PROVE  w'[gen'][j] = NoWorker
    BY <1>5, <2>3
  <2> QED BY <2>1, <2>2, <2>3
<1>8. 1 .. n = {j \in Slots : j <= n}
  BY DEF Slots, Configured
<1>9. Live(gen)' = 1 .. n
  BY <1>7, <1>8 DEF Live
<1>10. \A h \in Gens : h # gen' => Live(h)' = Live(h)
  BY <1>4 DEF Live
<1> QED BY <1>1, <1>2, <1>4, <1>5, <1>6, <1>7, <1>8, <1>9, <1>10 DEF Manned

\* The channels after a restart.
Rechanneled(swap) ==
  /\ chans' \in Seq(Chan) /\ Bounded(chans') /\ cur' = Len(chans') /\ cur' \in 1 .. Len(chans')
  /\ Len(chans) <= Len(chans') /\ (~swap => chans' = chans)

LEMMA RestartedDoes ==
  ASSUME Configured, PoolTypes, NEW c \in Conf, NEW n \in 0 .. MaxWorkers, NEW swap \in BOOLEAN,
         gen < MaxGen, Restarted(c, n, swap)
  PROVE  Manned(n) /\ Rechanneled(swap)
<1>1. chans \in Seq(Chan) /\ Bounded(chans) /\ cur = Len(chans) /\ cur \in 1 .. Len(chans)
  BY DEF PoolTypes, TypeOK, Bounded
<1>2. Manned(n)
  BY PoolMans DEF Restarted
<1>3. CASE swap
  <2>1. PICK r, new : r = chans' /\ new = [cap |-> c.cap, buf |-> <<>>]
    OBVIOUS
  <2>2. <<>> \in Seq(Msgs) /\ Len(<<>>) = 0
    OBVIOUS
  <2>3. new \in Chan /\ Len(new.buf) <= new.cap /\ r = Append(chans, new)
    BY <1>3, <2>1, <2>2 DEF Conf, Chan, Restarted
  <2>4. r \in Seq(Chan) /\ Len(r) = Len(chans) + 1
    BY <1>1, <2>3, AppendFits
  <2>5. Bounded(r)
    BY <1>1, <2>3, AppendFits
  <2> QED BY <1>1, <1>2, <1>3, <2>1, <2>4, <2>5 DEF Rechanneled, Restarted
<1>4. CASE ~swap
  BY <1>1, <1>2, <1>4 DEF Rechanneled, Restarted
<1> QED BY <1>3, <1>4

\* The configuration alone changes.
LEMMA Reconfigured ==
  ASSUME Configured, PoolInv, NEW c \in Conf, conf' = c, upd.pc = "idle",
         UNCHANGED <<kind, chans, cur, gen, cancelled, w, wr, upd, life, fate>>, broken' \in {broken, TRUE},
         broken' \/ /\ kind \in {"tcp", "otlp", "clickhouse", "prometheus"} => c.workers = conf.workers
                    /\ kind \notin {"tcp", "otlp", "prometheus"} => c.addr = conf.addr
  PROVE  PoolInv'
<1>1. PoolTypes /\ Updating /\ Newest /\ Older /\ Channels /\ broken \in BOOLEAN
  BY DEF PoolInv, PoolTypes
<1>2. PoolTypes'
  BY <1>1 DEF PoolTypes, TypeOK, Live
<1>3. Updating' /\ Older' /\ Channels'
  BY <1>1 DEF Updating, Older, Channels, Live
<1>4. Newest'
  BY <1>1 DEF Newest, Live
<1> QED BY <1>2, <1>3, <1>4 DEF PoolInv

\* New workers take over; the old ones are cancelled now or later.
LEMMA Replaced ==
  ASSUME Configured, PoolInv, MayUpdate, NEW c \in Conf, conf' = c, NEW n \in 0 .. MaxWorkers, NEW swap \in BOOLEAN,
         Restarted(c, n, swap), UNCHANGED <<kind, wr, life, fate>>, broken' \in {broken, TRUE},
         kind \notin {"snmp", "clickhouse"}, kind = "influx" => ~swap,
         broken' \/ (n >= 1 /\ (kind \in {"tcp", "otlp", "prometheus"} => n = c.workers)),
         cancelled' \in {cancelled, cancelled \cup {gen}},
         \/ kind = "prometheus" /\ upd' \in {Quiet, upd}
         \/ \E pc \in IF kind = "prometheus" THEN {"promDrain"} ELSE Awaiting :
              upd' = [pc |-> pc, old |-> gen, from |-> cur]
  PROVE  PoolInv'
<1>1. /\ PoolTypes /\ Updating /\ Newest /\ Older /\ Channels /\ broken \in BOOLEAN
      /\ upd.pc = "idle" /\ life = "open" /\ gen < MaxGen /\ gen \in 1 .. MaxGen /\ cur \in 1 .. Len(chans)
      /\ MaxGen \in Nat /\ cancelled \subseteq 1 .. gen
  BY DEF PoolInv, PoolTypes, MayUpdate, TypeOK, Gens, Updating, Configured
<1>2. Manned(n) /\ Rechanneled(swap)
  BY <1>1, RestartedDoes
<1>3. /\ upd' \in [pc : Steps, old : Nat, from : Nat]
      /\ upd'.pc \in (IF kind = "prometheus" THEN {"idle", "promDrain"} ELSE Awaiting)
      /\ upd'.pc # "idle" => upd'.old = gen /\ upd'.from = cur
      /\ upd'.pc # "waitStart"
  BY <1>1 DEF Quiet, Steps, Awaiting, PoolTypes
<1>4. PoolTypes'
  <2>1. TypeOK'
    BY <1>1, <1>2 DEF PoolTypes, TypeOK, Manned, Rechanneled, Bounded, Gens
  <2>2. ASSUME NEW h \in Gens, NEW j \in Live(h)'
        PROVE  w'[h][j].ch \in 1 .. Len(chans')
    <3>1. CASE h = gen'
      BY <1>2, <3>1 DEF Manned, Rechanneled
    <3>2. CASE h # gen'
      <4>1. j \in Live(h) /\ w'[h][j].ch = w[h][j].ch
        BY <1>2, <3>2 DEF Manned
      <4>2. w[h][j].ch \in 1 .. Len(chans)
        BY <1>1, <4>1 DEF PoolTypes
      <4> QED BY <1>2, <4>1, <4>2 DEF Rechanneled
    <3> QED BY <3>1, <3>2
  <2>3. wr'.msg # Nothing => wr'.ch \in 1 .. Len(chans')
    BY <1>1, <1>2 DEF PoolTypes, Rechanneled
  <2>4. upd'.pc \notin {"idle", "waitStart"} => upd'.from \in 1 .. Len(chans')
    BY <1>1, <1>2, <1>3 DEF Rechanneled
  <2> QED BY <1>1, <1>2, <1>3, <2>1, <2>2, <2>3, <2>4 DEF PoolTypes, Manned, Rechanneled, Parts
<1>5. Updating'
  <2>1. gen' = gen + 1 /\ gen \in 1 .. gen' - 1 /\ cancelled' \subseteq 1 .. gen' /\ gen' \notin cancelled'
    BY <1>1, <1>2 DEF Manned
  <2>2. life' = "open" /\ kind' \notin {"snmp", "clickhouse"}
    BY <1>1
  <2>3. upd'.pc \notin {"idle", "waitStart"} => upd'.old \in 1 .. gen' - 1
    BY <1>3, <2>1
  <2> QED BY <1>3, <2>1, <2>2, <2>3 DEF Updating
<1>6. Newest'
  BY <1>1, <1>2 DEF Newest, Manned
<1>7. Older'
  <2>1. \A h \in Gens : h > gen' => Live(h)' = {}
    BY <1>1, <1>2 DEF Older, Manned
  <2>2. ASSUME kind # "prometheus", NEW h \in Gens, h < gen'
        PROVE  Live(h)' = {} \/ (h = upd'.old /\ upd'.pc \in Awaiting)
    <3>1. h < gen \/ h = gen
      BY <1>1, <1>2, <2>2 DEF Manned, Gens
    <3> QED BY <1>1, <1>2, <1>3, <2>2, <3>1 DEF Older, Manned, Awaiting
  <2> QED BY <2>1, <2>2 DEF Older
<1>8. Channels'
  BY <1>1, <1>2 DEF Channels, Rechanneled
<1> QED BY <1>4, <1>5, <1>6, <1>7, <1>8 DEF PoolInv

LEMMA PoolUpdateKeeps ==
  ASSUME Configured, PoolInv, NEW c \in Confs, NEW restart \in BOOLEAN, NEW n \in Slots,
         kind \in {"nats", "jetstream", "tcp", "udp", "otlp"}, PoolUpdate(c, restart, n),
         kind \in {"tcp", "otlp"} => n = c.workers,
         ~restart => /\ kind \in {"tcp", "otlp"} => c.workers = conf.workers
                     /\ kind \notin {"tcp", "otlp"} => c.addr = conf.addr
  PROVE  PoolInv'
<1>1. c \in Conf /\ MayUpdate /\ conf' = c /\ UNCHANGED <<kind, wr, life, fate, broken>> /\ n \in 0 .. MaxWorkers
  BY DEF Configured, PoolUpdate, UpdUnch, Slots
<1>2. CASE c.cap # conf.cap \/ restart
  <2>1. PICK swap \in BOOLEAN : swap <=> c.cap # conf.cap
    OBVIOUS
  <2>2. /\ Restarted(c, n, swap) /\ cancelled' = cancelled \cup {gen}
        /\ \E pc \in Awaiting : upd' = [pc |-> pc, old |-> gen, from |-> cur]
    BY <1>2, <2>1 DEF PoolUpdate, Awaiting
  <2>3. n >= 1 /\ kind \notin {"prometheus", "snmp", "clickhouse", "influx"}
    BY DEF Slots
  <2> QED BY <1>1, <2>2, <2>3, Replaced
<1>3. CASE ~(c.cap # conf.cap \/ restart)
  <2>1. UNCHANGED <<chans, cur, gen, w, cancelled, upd>> /\ upd.pc = "idle"
    BY <1>3 DEF PoolUpdate, MayUpdate
  <2> QED BY <1>1, <1>3, <2>1, Reconfigured
<1> QED BY <1>2, <1>3

LEMMA PoolUpdatesKeep ==
  ASSUME Configured, PoolInv, NEW c \in Confs,
         \/ kind = "nats" /\ NatsUpdate(c)
         \/ kind = "jetstream" /\ JetstreamUpdate(c)
         \/ kind = "tcp" /\ TcpUpdate(c)
         \/ kind = "udp" /\ UdpUpdate(c)
         \/ kind = "otlp" /\ OtlpUpdate(c)
  PROVE  PoolInv'
<1>1. c.workers \in Slots /\ conf.workers \in Slots /\ 1 \in Slots
  BY DEF Configured, PoolInv, PoolTypes, Conf, Slots
<1>2. \E restart \in BOOLEAN, n \in Slots :
        /\ PoolUpdate(c, restart, n) /\ (kind \in {"tcp", "otlp"} => n = c.workers)
        /\ ~restart => /\ kind \in {"tcp", "otlp"} => c.workers = conf.workers
                       /\ kind \notin {"tcp", "otlp"} => c.addr = conf.addr
  BY <1>1 DEF NatsUpdate, JetstreamUpdate, TcpUpdate, UdpUpdate, OtlpUpdate, NatsNeedsRestart,
              JetstreamNeedsRestart, TcpNeedsRestart, UdpNeedsRestart, OtlpNeedsRestart
<1>3. kind \in {"nats", "jetstream", "tcp", "udp", "otlp"}
  OBVIOUS
<1> QED BY <1>2, <1>3, PoolUpdateKeeps

LEMMA KafkaUpdateKeeps ==
  ASSUME Configured, PoolInv, NEW c \in Confs, kind \in {"kafka", "kafkaSync"}, KafkaUpdate(c)
  PROVE  PoolInv'
<1>1. /\ c \in Conf /\ MayUpdate /\ conf' = c /\ UNCHANGED <<kind, wr, life, fate, broken, cancelled>>
      /\ conf.workers \in 0 .. MaxWorkers /\ conf.workers >= 1
  BY DEF Configured, KafkaUpdate, UpdUnch, PoolInv, PoolTypes, Conf, Slots
<1>2. CASE c.cap # conf.cap \/ KafkaNeedsRestart(c)
  <2>1. PICK swap \in BOOLEAN : swap <=> c.cap # conf.cap
    OBVIOUS
  <2>2. /\ Restarted(c, conf.workers, swap)
        /\ \E pc \in Awaiting : upd' = [pc |-> pc, old |-> gen, from |-> cur]
    BY <1>2, <2>1 DEF KafkaUpdate, Awaiting
  <2>3. kind \notin {"prometheus", "snmp", "clickhouse", "influx", "tcp", "otlp"}
    OBVIOUS
  <2> QED BY <1>1, <2>2, <2>3, Replaced
<1>3. CASE ~(c.cap # conf.cap \/ KafkaNeedsRestart(c))
  <2>1. UNCHANGED <<chans, cur, gen, w, upd>> /\ upd.pc = "idle" /\ c.addr = conf.addr
    BY <1>3 DEF KafkaUpdate, MayUpdate, KafkaNeedsRestart
  <2> QED BY <1>1, <1>3, <2>1, Reconfigured
<1> QED BY <1>2, <1>3

LEMMA InfluxUpdateKeeps ==
  ASSUME Configured, PoolInv, NEW c \in Confs, kind = "influx", InfluxUpdate(c)
  PROVE  PoolInv'
<1>1. /\ c \in Conf /\ MayUpdate /\ conf' = c /\ UNCHANGED <<kind, wr, life, fate, broken>>
      /\ 1 \in 0 .. MaxWorkers
  BY DEF Configured, InfluxUpdate, UpdUnch, Conf, Slots
<1>2. CASE ClientNeedsRebuild(c)
  <2>1. PICK swap \in BOOLEAN, n \in 0 .. MaxWorkers : swap = FALSE /\ n = 1
    BY <1>1
  <2>2. /\ Restarted(c, n, swap) /\ cancelled' = cancelled \cup {gen}
        /\ \E pc \in Awaiting : upd' = [pc |-> pc, old |-> gen, from |-> cur]
    BY <1>2, <2>1 DEF InfluxUpdate, Awaiting
  <2>3. kind \notin {"prometheus", "snmp", "clickhouse", "tcp", "otlp"} /\ n >= 1
    BY <2>1
  <2> QED BY <1>1, <2>1, <2>2, <2>3, Replaced
<1>3. CASE ~ClientNeedsRebuild(c)
  <2>1. UNCHANGED <<chans, cur, gen, w, cancelled, upd>> /\ upd.pc = "idle" /\ c.addr = conf.addr
    BY <1>3 DEF InfluxUpdate, MayUpdate, ClientNeedsRebuild
  <2> QED BY <1>1, <1>3, <2>1, Reconfigured
<1> QED BY <1>2, <1>3

LEMMA FailedUpdateKeeps ==
  ASSUME Configured, PoolInv, NEW c \in Confs, UpdateFails(c)
  PROVE  PoolInv'
<1>1. /\ c \in Conf /\ upd.pc = "idle" /\ conf' = c /\ broken' = TRUE
      /\ UNCHANGED <<kind, chans, cur, gen, cancelled, w, wr, upd, life, fate>>
  BY DEF Configured, UpdateFails, MayUpdate
<1> QED BY <1>1, Reconfigured

LEMMA PrometheusUpdateKeeps ==
  ASSUME Configured, PoolInv, NEW c \in Confs, kind = "prometheus", PrometheusUpdate(c) \/ PrometheusBindFails(c)
  PROVE  PoolInv'
<1>1. PICK swap \in BOOLEAN : swap <=> c.cap # conf.cap
  OBVIOUS
<1>2. /\ c \in Conf /\ c.workers \in 0 .. MaxWorkers /\ c.workers >= 1 /\ 0 \in 0 .. MaxWorkers
      /\ MayUpdate /\ conf' = c /\ UNCHANGED <<kind, wr, life, fate>> /\ upd.pc = "idle"
  BY DEF Configured, Conf, Slots, PrometheusUpdate, PrometheusBindFails, UpdUnch, MayUpdate
<1>3. CASE PrometheusUpdate(c)
  <2>1. /\ Restarted(c, c.workers, swap) /\ broken' = broken /\ cancelled' \in {cancelled, cancelled \cup {gen}}
        /\ upd' = Quiet \/ \E pc \in {"promDrain"} : upd' = [pc |-> pc, old |-> gen, from |-> cur]
    BY <1>1, <1>3 DEF PrometheusUpdate, UpdUnch
  <2> QED BY <1>2, <2>1, Replaced
<1>4. CASE PrometheusBindFails(c)
  <2>1. Restarted(c, 0, swap) /\ broken' = TRUE /\ UNCHANGED <<upd, cancelled>>
    BY <1>1, <1>4 DEF PrometheusBindFails
  <2> QED BY <1>2, <2>1, Replaced
<1> QED BY <1>3, <1>4

\* SNMP and ClickHouse: the old workers are cancelled first.
LEMMA StopKeeps ==
  ASSUME Configured, PoolInv, NEW c \in Conf, conf' = c, MayUpdate, kind \in {"snmp", "clickhouse"},
         cancelled' = cancelled \cup {gen},
         NEW from \in Nat, upd' = [pc |-> "waitStart", old |-> gen, from |-> from],
         UNCHANGED <<kind, wr, life, fate, broken, chans, cur, gen, w>>
  PROVE  PoolInv'
<1>1. /\ PoolTypes /\ Updating /\ Newest /\ Older /\ Channels
      /\ upd.pc = "idle" /\ life = "open" /\ gen < MaxGen /\ gen \in 1 .. MaxGen
  BY DEF PoolInv, PoolTypes, MayUpdate, TypeOK, Gens
<1>2. upd' \in [pc : Steps, old : Nat, from : Nat] /\ upd'.pc = "waitStart" /\ upd'.old = gen
  BY <1>1 DEF Steps
<1>3. PoolTypes'
  BY <1>1, <1>2 DEF PoolTypes, TypeOK, Live, Gens
<1>4. Updating'
  BY <1>1, <1>2 DEF Updating
<1>5. Newest' /\ Older' /\ Channels'
  BY <1>1, <1>2 DEF Newest, Older, Channels, Live, Awaiting
<1> QED BY <1>3, <1>4, <1>5 DEF PoolInv

LEMMA StopsKeep ==
  ASSUME Configured, PoolInv, NEW c \in Confs,
         \/ kind = "snmp" /\ SnmpUpdate(c)
         \/ kind = "clickhouse" /\ ClickhouseUpdate(c)
  PROVE  PoolInv'
<1>1. /\ c \in Conf /\ conf' = c /\ MayUpdate /\ UNCHANGED <<kind, wr, life, fate, broken, chans, cur, gen, w>>
      /\ cur \in Nat /\ 0 \in Nat
  BY DEF Configured, SnmpUpdate, ClickhouseUpdate, UpdUnch, PoolInv, PoolTypes, TypeOK
<1>2. CASE \E from \in {cur, 0} : /\ upd' = [pc |-> "waitStart", old |-> gen, from |-> from]
                                 /\ cancelled' = cancelled \cup {gen}
  BY <1>1, <1>2, StopKeeps
<1>3. CASE c = conf /\ UNCHANGED <<cancelled, upd>>
  <2>1. upd.pc = "idle"
    BY <1>1 DEF MayUpdate
  <2> QED BY <1>1, <1>3, <2>1, Reconfigured
<1> QED BY <1>2, <1>3 DEF SnmpUpdate, ClickhouseUpdate

-----------------------------------------------------------------------------
(* The steps of an Update after the first. *)

LEMMA AwaitKeeps ==
  ASSUME Configured, PoolInv, AwaitOld
  PROVE  PoolInv'
<1>1. /\ PoolTypes /\ Updating /\ Newest /\ Older /\ Channels
      /\ UNCHANGED <<kind, wr, life, fate, broken, conf, chans, cur, gen, cancelled, w>>
      /\ upd.pc \in {"wait", "waitDrain"} /\ Live(upd.old) = {}
  BY DEF PoolInv, AwaitOld, UpdUnch, Updating
<1>2. /\ upd' \in [pc : Steps, old : Nat, from : Nat] /\ upd'.pc \in {"idle", "drain"}
      /\ upd'.pc = "drain" => upd'.old = upd.old /\ upd'.from = upd.from
  BY <1>1 DEF AwaitOld, PoolTypes, Quiet, Steps
<1>3. PoolTypes'
  BY <1>1, <1>2 DEF PoolTypes, TypeOK, Live
<1>4. Updating'
  BY <1>1, <1>2 DEF Updating
<1>5. Newest' /\ Channels'
  BY <1>1, <1>2 DEF Newest, Channels, Live
<1>6. Older'
  BY <1>1, <1>2 DEF Older, Live, Awaiting
<1> QED BY <1>3, <1>4, <1>5, <1>6 DEF PoolInv

\* A message of the old channel is moved, or dropped.
Moved ==
  /\ chans' \in Seq(Chan) /\ Len(chans') = Len(chans) /\ Bounded(chans')
  /\ fate' \in [Msgs -> Fates]

LEMMA MoveDoes ==
  ASSUME Configured, PoolTypes, upd.pc \notin {"idle", "waitStart"}, NEW ACTION then, MoveOne(then)
  PROVE  Moved /\ (then \/ UNCHANGED <<upd, cancelled>>)
<1>1. /\ upd.from \in 1 .. Len(chans) /\ cur \in 1 .. Len(chans) /\ chans \in Seq(Chan) /\ Bounded(chans)
      /\ fate \in [Msgs -> Fates]
  BY DEF PoolTypes, TypeOK, Bounded, Fates
<1>2. CASE chans[upd.from].buf = <<>>
  <2>1. then /\ UNCHANGED <<chans, fate>>
    BY <1>2 DEF MoveOne
  <2> QED BY <1>1, <2>1 DEF Moved, Bounded
<1>3. CASE chans[upd.from].buf # <<>>
  <2>0. PICK from, rest : from = upd.from /\ rest = [chans EXCEPT ![from].buf = Tail(@)]
    OBVIOUS
  <2>1. PICK m, fits : m = Head(chans[from].buf) /\ fits = (Len(rest[cur].buf) < rest[cur].cap)
    OBVIOUS
  <2>2. /\ chans' = IF fits THEN Put(rest, cur, m) ELSE rest
        /\ fate' = IF fits THEN fate ELSE Mark({m}, "lost")
        /\ UNCHANGED <<upd, cancelled>>
    BY <1>3, <2>0, <2>1 DEF MoveOne
  <2>3. chans \in Seq(Chan) /\ Bounded(chans) /\ from \in 1 .. Len(chans) /\ chans[from].buf # <<>>
    BY <1>1, <1>3, <2>0
  <2>4. rest \in Seq(Chan) /\ Len(rest) = Len(chans)
    <3>1. rest \in Seq(Chan)
      BY <2>0, <2>3, TailFits
    <3>2. Len(rest) = Len(chans)
      BY <2>0, <2>3, TailFits
    <3> QED BY <3>1, <3>2
  <2>5. Bounded(rest)
    BY <1>1, <2>0, <2>3, TailFits
  <2>6. m \in Msgs
    BY <1>1, <2>0, <2>1, <2>3, TailFits
  <2>7. CASE fits
    <3>1. PICK r, c : r = chans' /\ c = cur
      OBVIOUS
    <3>2. r = Put(rest, c, m) /\ c \in 1 .. Len(rest) /\ Len(rest[c].buf) < rest[c].cap
      BY <1>1, <2>1, <2>2, <2>4, <2>7, <3>1
    <3>3. r \in Seq(Chan) /\ Len(r) = Len(rest)
      BY <2>4, <2>5, <2>6, <3>2, PutFits
    <3>4. Bounded(r)
      BY <2>4, <2>5, <2>6, <3>2, PutFits
    <3> QED BY <1>1, <2>2, <2>4, <2>7, <3>1, <3>3, <3>4 DEF Moved
  <2>8. CASE ~fits
    <3>1. chans' = rest /\ fate' = Mark({m}, "lost") /\ "lost" \in Fates
      BY <2>2, <2>8 DEF Fates
    <3>2. fate' \in [Msgs -> Fates]
      BY <3>1, MarkedFates
    <3> QED BY <2>2, <2>4, <2>5, <3>1, <3>2 DEF Moved
  <2> QED BY <2>7, <2>8
<1> QED BY <1>2, <1>3

\* The end of a drain cancels the old workers, or nobody.
LEMMA MovedKeeps ==
  ASSUME Configured, PoolInv, Moved, UNCHANGED <<kind, conf, cur, gen, w, wr, life, broken>>,
         upd.pc \in {"drain", "kafkaDrain", "promDrain"},
         \/ UNCHANGED <<upd, cancelled>>
         \/ upd' = Quiet /\ cancelled' \in {cancelled, cancelled \cup {upd.old}} /\ upd.pc # "kafkaDrain"
         \/ upd' = [upd EXCEPT !.pc = "wait"] /\ cancelled' = cancelled \cup {upd.old} /\ upd.pc = "kafkaDrain"
  PROVE  PoolInv'
<1>1. /\ PoolTypes /\ Updating /\ Newest /\ Older /\ Channels
      /\ upd.old \in 1 .. gen - 1 /\ gen \in 1 .. MaxGen /\ kind \notin {"snmp", "clickhouse"}
  BY DEF PoolInv, Updating, PoolTypes, TypeOK, Gens
<1>2. /\ upd' \in [pc : Steps, old : Nat, from : Nat]
      /\ upd'.pc \in {"idle", upd.pc, "wait"} /\ (upd'.pc = "wait" <=> upd.pc = "kafkaDrain" /\ upd' # upd)
      /\ upd'.pc # "idle" => upd'.old = upd.old /\ upd'.from = upd.from
  BY <1>1 DEF PoolTypes, Quiet, Steps, Awaiting
<1>3. cancelled' \subseteq cancelled \cup {upd.old}
  OBVIOUS
<1>4. PoolTypes'
  <2>0. cancelled' \subseteq Gens
    BY <1>1, <1>3 DEF PoolTypes, TypeOK, Gens, Configured
  <2>1. TypeOK'
    BY <1>1, <2>0 DEF PoolTypes, TypeOK, Moved, Bounded, Fates
  <2> QED BY <1>1, <1>2, <2>1 DEF PoolTypes, Moved, Live
<1>5. Updating'
  BY <1>1, <1>2, <1>3 DEF Updating
<1>6. Newest'
  BY <1>1, <1>2, <1>3 DEF Newest, Live, Updating
<1>7. Older'
  BY <1>1, <1>2 DEF Older, Live, Awaiting
<1>8. Channels'
  BY <1>1 DEF Channels, Moved
<1> QED BY <1>4, <1>5, <1>6, <1>7, <1>8 DEF PoolInv

LEMMA DrainKeeps ==
  ASSUME Configured, PoolInv, Drain
  PROVE  PoolInv'
<1>1. MoveOne(upd' = Quiet /\ UNCHANGED cancelled) /\ upd.pc = "drain"
  BY DEF Drain
<1>2. Moved /\ ((upd' = Quiet /\ UNCHANGED cancelled) \/ UNCHANGED <<upd, cancelled>>)
  BY <1>1, MoveDoes DEF PoolInv
<1>3. UNCHANGED <<kind, conf, cur, gen, w, wr, life, broken>>
  BY DEF Drain
<1> QED BY <1>1, <1>2, <1>3, MovedKeeps

LEMMA KafkaDrainKeeps ==
  ASSUME Configured, PoolInv, KafkaDrain
  PROVE  PoolInv'
<1>1. MoveOne(upd' = [upd EXCEPT !.pc = "wait"] /\ cancelled' = cancelled \cup {upd.old}) /\ upd.pc = "kafkaDrain"
  BY DEF KafkaDrain
<1>2. /\ Moved
      /\ \/ upd' = [upd EXCEPT !.pc = "wait"] /\ cancelled' = cancelled \cup {upd.old}
         \/ UNCHANGED <<upd, cancelled>>
  BY <1>1, MoveDoes DEF PoolInv
<1>3. UNCHANGED <<kind, conf, cur, gen, w, wr, life, broken>>
  BY DEF KafkaDrain
<1> QED BY <1>1, <1>2, <1>3, MovedKeeps

LEMMA PrometheusDrainKeeps ==
  ASSUME Configured, PoolInv, PrometheusDrain
  PROVE  PoolInv'
<1>1. MoveOne(upd' = Quiet /\ cancelled' = cancelled \cup {upd.old}) /\ upd.pc = "promDrain"
  BY DEF PrometheusDrain
<1>2. Moved /\ ((upd' = Quiet /\ cancelled' = cancelled \cup {upd.old}) \/ UNCHANGED <<upd, cancelled>>)
  BY <1>1, MoveDoes DEF PoolInv
<1>3. UNCHANGED <<kind, conf, cur, gen, w, wr, life, broken>>
  BY DEF PrometheusDrain
<1> QED BY <1>1, <1>2, <1>3, MovedKeeps

\* New workers once the old are gone, on the old channel or on another that holds its messages.
LEMMA StartKeeps ==
  ASSUME Configured, PoolInv, NEW n \in 1 .. MaxWorkers, Manned(n), Rechanneled(TRUE),
         upd.pc = "waitStart", Live(upd.old) = {}, upd' = Quiet,
         UNCHANGED <<kind, conf, cancelled, wr, life, broken>>, fate' \in [Msgs -> Fates],
         kind = "clickhouse" => n = conf.workers,
         kind = "snmp" => UNCHANGED chans,
         kind = "clickhouse" /\ chans' # chans => wr.msg = Nothing,
         \A c \in 1 .. Len(chans') : c # cur' => chans'[c].buf = <<>> \/ chans' = chans
  PROVE  PoolInv'
<1>1. /\ PoolTypes /\ Updating /\ Newest /\ Older /\ Channels /\ gen \in 1 .. MaxGen /\ gen < MaxGen
      /\ upd.old = gen /\ kind \in {"snmp", "clickhouse"} /\ cur = Len(chans) /\ life = "open"
      /\ MaxGen \in Nat /\ gen' = gen + 1
  BY DEF PoolInv, Updating, PoolTypes, TypeOK, Gens, Configured, Manned
<1>2. upd' \in [pc : Steps, old : Nat, from : Nat] /\ upd'.pc = "idle"
  BY DEF Quiet, Steps
<1>3. PoolTypes'
  <2>1. TypeOK'
    BY <1>1 DEF PoolTypes, TypeOK, Manned, Rechanneled, Bounded, Fates
  <2>2. ASSUME NEW h \in Gens, NEW j \in Live(h)'
        PROVE  w'[h][j].ch \in 1 .. Len(chans')
    <3>1. CASE h = gen'
      BY <3>1 DEF Manned, Rechanneled
    <3>2. CASE h # gen'
      <4>1. j \in Live(h) /\ w'[h][j].ch = w[h][j].ch
        BY <3>2 DEF Manned
      <4>2. w[h][j].ch \in 1 .. Len(chans)
        BY <1>1, <4>1 DEF PoolTypes
      <4> QED BY <4>1, <4>2 DEF Rechanneled
    <3> QED BY <3>1, <3>2
  <2>3. wr'.msg # Nothing => wr'.ch \in 1 .. Len(chans')
    BY <1>1 DEF PoolTypes, Rechanneled
  <2> QED BY <1>1, <1>2, <2>1, <2>2, <2>3 DEF PoolTypes, Manned, Rechanneled, Parts
<1>4. Updating'
  BY <1>1, <1>2 DEF Updating
<1>5. Newest'
  BY <1>1 DEF Newest, Manned
<1>6. Older'
  <2>1. \A h \in Gens : h > gen' => Live(h)' = {}
    BY <1>1 DEF Older, Manned
  <2>2. ASSUME NEW h \in Gens, h < gen'
        PROVE  Live(h)' = {}
    <3>1. h < gen \/ h = gen
      BY <1>1, <2>2 DEF Gens
    <3> QED BY <1>1, <2>2, <3>1 DEF Older, Manned, Awaiting
  <2> QED BY <2>1, <2>2 DEF Older
<1>7. Channels'
  <2>1. kind = "snmp" => Len(chans') = 1
    BY <1>1 DEF Channels
  <2>2. CASE chans' = chans
    BY <1>1, <2>1, <2>2 DEF Channels, Rechanneled
  <2>3. CASE chans' # chans
    BY <1>1, <2>1, <2>3 DEF Channels, Rechanneled
  <2> QED BY <2>2, <2>3
<1> QED BY <1>3, <1>4, <1>5, <1>6, <1>7 DEF PoolInv

LEMMA ClickhouseRestarts ==
  ASSUME Configured, PoolInv, ClickhouseRestart, kind = "clickhouse"
  PROVE  /\ Rechanneled(TRUE) /\ fate' \in [Msgs -> Fates]
         /\ \A c \in 1 .. Len(chans') : c # cur' => chans'[c].buf = <<>> \/ chans' = chans
<1>1. /\ PoolTypes /\ Channels /\ chans \in Seq(Chan) /\ Bounded(chans) /\ cur = Len(chans) /\ cur \in 1 .. Len(chans)
      /\ chans[cur] \in Chan /\ conf.cap \in Nat
  BY DEF PoolInv, PoolTypes, TypeOK, Bounded, Conf
<1>2. CASE upd.from = 0
  <2>1. chans' = chans /\ cur' = Len(chans') /\ fate' = fate
    BY <1>2 DEF ClickhouseRestart
  <2>2. fate' \in [Msgs -> Fates]
    BY <1>1, <2>1, SameFates
  <2> QED BY <1>1, <2>1, <2>2 DEF Rechanneled
<1>3. CASE upd.from # 0
  <2>1. PICK old, kept, emptied, new :
          /\ old = chans[cur].buf
          /\ kept = SubSeq(old, 1, IF Len(old) <= conf.cap THEN Len(old) ELSE conf.cap)
          /\ emptied = [chans[cur] EXCEPT !.buf = <<>>]
          /\ new = [cap |-> conf.cap, buf |-> kept]
    OBVIOUS
  <2>2. old \in Seq(Msgs) /\ Len(old) \in Nat
    <3>1. old \in Seq(Msgs)
      BY <1>1, <2>1 DEF Chan
    <3> QED BY <3>1
  <2>3. kept \in Seq(Msgs) /\ Len(kept) <= conf.cap
    <3>1. PICK n \in Nat : n = IF Len(old) <= conf.cap THEN Len(old) ELSE conf.cap
      BY <1>1, <2>2
    <3>2. n <= Len(old) /\ n <= conf.cap /\ kept = SubSeq(old, 1, n)
      BY <1>1, <2>1, <2>2, <3>1
    <3>3. kept \in Seq(Msgs)
      BY <2>2, <3>2
    <3>4. Len(kept) = n
      BY <2>2, <3>2
    <3> QED BY <3>2, <3>3, <3>4
  <2>4. new \in Chan /\ Len(new.buf) <= new.cap
    BY <1>1, <2>1, <2>3 DEF Chan
  <2>5. emptied \in Chan /\ emptied.cap = chans[cur].cap /\ emptied.buf = <<>> /\ Len(emptied.buf) <= emptied.cap
    <3>1. <<>> \in Seq(Msgs) /\ Len(<<>>) = 0
      OBVIOUS
    <3>2. emptied \in Chan /\ emptied.cap = chans[cur].cap /\ emptied.buf = <<>> /\ emptied.cap \in Nat
      BY <1>1, <2>1, <3>1 DEF Chan
    <3> QED BY <3>1, <3>2
  <2>6. PICK q, k : q = [chans EXCEPT ![k] = emptied] /\ k = cur
    OBVIOUS
  <2>7. q \in Seq(Chan) /\ Len(q) = Len(chans)
    BY <1>1, <2>5, <2>6, Rebuffer
  <2>8. Bounded(q)
    BY <1>1, <2>5, <2>6, Rebuffer
  <2>9. \A c \in 1 .. Len(chans) : q[c].buf = <<>>
    <3>1. q[k] = emptied /\ \A c \in 1 .. Len(chans) : c # k => q[c] = chans[c]
      BY <1>1, <2>6
    <3>2. \A c \in 1 .. Len(chans) : c # k => chans[c].buf = <<>>
      BY <1>1, <2>6 DEF Channels
    <3> QED BY <2>5, <3>1, <3>2
  <2>10. PICK r : r = chans'
    OBVIOUS
  <2>11. r = Append(q, new) /\ cur' = Len(r)
    BY <1>3, <2>1, <2>6, <2>10 DEF ClickhouseRestart
  <2>12. r \in Seq(Chan) /\ Len(r) = Len(q) + 1
    BY <2>4, <2>7, <2>8, <2>11, AppendFits
  <2>13. Bounded(r)
    BY <2>4, <2>7, <2>8, <2>11, AppendFits
  <2>14. \A c \in 1 .. Len(q) : r[c] = q[c]
    BY <2>4, <2>7, <2>8, <2>11, AppendFits
  <2>15. \E ms : fate' = Mark(ms, "counted")
    BY <1>3 DEF ClickhouseRestart
  <2>16. fate' \in [Msgs -> Fates]
    BY <1>1, <2>15, MarkedFates DEF Fates
  <2>17. Rechanneled(TRUE)
    BY <1>1, <2>7, <2>10, <2>11, <2>12, <2>13 DEF Rechanneled
  <2>18. \A c \in 1 .. Len(r) : c # Len(r) => r[c].buf = <<>>
    BY <1>1, <2>7, <2>9, <2>12, <2>14
  <2> QED BY <2>10, <2>11, <2>16, <2>17, <2>18
<1> QED BY <1>2, <1>3

LEMMA StartNewKeeps ==
  ASSUME Configured, PoolInv, StartNew
  PROVE  PoolInv'
<1>1. /\ PoolTypes /\ upd.pc = "waitStart" /\ Live(upd.old) = {} /\ upd' = Quiet /\ gen < MaxGen
      /\ UNCHANGED <<kind, conf, cancelled, wr, life, broken>>
  BY DEF PoolInv, StartNew, Updating
<1>2. CASE kind = "snmp" /\ SnmpRestart
  <2>1. PICK n \in 1 .. MaxWorkers : n = 1
    BY DEF Configured, Conf, Slots
  <2>2. n \in 0 .. MaxWorkers /\ gen' = gen + 1 /\ cur' = cur /\ w' = Pool(gen + 1, n, cur') /\ chans' = chans /\ fate' = fate
    BY <1>2, <2>1 DEF SnmpRestart
  <2>3. Manned(n)
    BY <1>1, <2>2, PoolMans
  <2>4. Rechanneled(TRUE) /\ fate' \in [Msgs -> Fates]
    BY <1>1, <2>2, SameFates DEF Rechanneled, PoolTypes, TypeOK, Bounded
  <2> QED BY <1>1, <1>2, <2>2, <2>3, <2>4, StartKeeps
<1>3. CASE kind = "clickhouse" /\ ClickhouseRestart
  <2>1. PICK n \in 1 .. MaxWorkers : n = conf.workers
    BY <1>1 DEF PoolTypes, Conf, Slots
  <2>2. n \in 0 .. MaxWorkers /\ gen' = gen + 1 /\ w' = Pool(gen + 1, n, cur') /\ wr.msg = Nothing
    BY <1>3, <2>1 DEF ClickhouseRestart
  <2>3. Manned(n)
    BY <1>1, <2>2, PoolMans
  <2> QED BY <1>1, <1>3, <2>1, <2>2, <2>3, ClickhouseRestarts, StartKeeps
<1> QED BY <1>2, <1>3 DEF StartNew

-----------------------------------------------------------------------------
(* The theorems. *)

LEMMA PoolInitially ==
  ASSUME Configured, Init
  PROVE  PoolInv
<1>1. PICK n \in 1 .. MaxWorkers :
        StartPool(n) /\ (kind \in {"tcp", "otlp", "clickhouse", "prometheus"} => n = Conf0.workers)
  BY DEF Init, Configured, Conf, Slots, KafkaInit, NatsInit, JetstreamInit, TcpInit, UdpInit, OtlpInit, SnmpInit,
         InfluxInit, ClickhouseInit, PrometheusInit
<1>2. /\ Conf0 \in Conf /\ conf = Conf0 /\ cur = 1 /\ gen = 1 /\ cancelled = {} /\ 1 \in Gens /\ kind \in Kinds
      /\ wr = NoWrite /\ upd = Quiet /\ life = "open" /\ broken = FALSE /\ fate = [m \in Msgs |-> "new"]
  <2>1. /\ conf = Conf0 /\ cur = 1 /\ gen = 1 /\ cancelled = {}
        /\ wr = NoWrite /\ upd = Quiet /\ life = "open" /\ broken = FALSE /\ fate = [m \in Msgs |-> "new"]
    BY <1>1 DEF StartPool
  <2>2. Conf0 \in Conf /\ 1 \in Gens
    BY DEF Configured, Gens
  <2>3. kind \in Kinds
    BY DEF Init
  <2> QED BY <2>1, <2>2, <2>3
<1>3. chans \in Seq(Chan) /\ Len(chans) = 1 /\ chans[1].buf = <<>> /\ Len(chans[1].buf) <= chans[1].cap
  <2>1. <<>> \in Seq(Msgs) /\ Len(<<>>) = 0
    OBVIOUS
  <2>2. [cap |-> Conf0.cap, buf |-> <<>>] \in Chan /\ Conf0.cap \in Nat
    BY <1>2, <2>1 DEF Chan, Conf
  <2>3. chans = <<[cap |-> Conf0.cap, buf |-> <<>>]>>
    BY <1>1 DEF StartPool
  <2> QED BY <2>1, <2>2, <2>3
<1>4. /\ DOMAIN w = Gens
      /\ \A g \in Gens : /\ DOMAIN w[g] = Slots
                         /\ \A i \in Slots : w[g][i] = IF g = 1 /\ i <= n THEN Fresh(1) ELSE NoWorker
  <2>1. w = [g \in Gens |-> [i \in Slots |-> IF g = 1 /\ i <= n THEN Fresh(1) ELSE NoWorker]]
    BY <1>1 DEF StartPool
  <2> QED BY <2>1
<1>5. /\ DOMAIN Fresh(1) = Parts /\ DOMAIN NoWorker = Parts
      /\ Fresh(1).st = "start" /\ Fresh(1).ch = 1 /\ NoWorker.st = "none"
  BY DEF Fresh, NoWorker, Parts
<1>6. \A g \in Gens : g # 1 => Live(g) = {}
  BY <1>4, <1>5 DEF Live
<1>7. Live(1) = 1 .. n /\ \A i \in 1 .. n : w[1][i] = Fresh(1)
  <2>1. 1 .. n = {i \in Slots : i <= n}
    BY DEF Slots, Configured
  <2>2. \A i \in Slots : (i <= n => w[1][i] = Fresh(1)) /\ (~(i <= n) => w[1][i] = NoWorker)
    BY <1>2, <1>4
  <2> QED BY <1>5, <2>1, <2>2 DEF Live
<1>8. PoolTypes
  <2>1. TypeOK
    BY <1>2, <1>3 DEF TypeOK
  <2>2. \A g \in Gens : \A i \in Live(g) : w[g][i].ch \in 1 .. Len(chans)
    BY <1>3, <1>5, <1>6, <1>7
  <2>3. \A g \in Gens : DOMAIN w[g] = Slots /\ \A i \in Slots : DOMAIN w[g][i] = Parts
    BY <1>4, <1>5
  <2>4. wr \in [msg : Msgs \cup {Nothing}, ch : Nat] /\ wr.msg = Nothing
    BY <1>2 DEF NoWrite
  <2>5. upd \in [pc : Steps, old : Nat, from : Nat] /\ upd.pc = "idle"
    BY <1>2 DEF Quiet, Steps
  <2> QED BY <1>2, <1>3, <1>4, <2>1, <2>2, <2>3, <2>4, <2>5 DEF PoolTypes, Parts
<1>9. Updating
  BY <1>2 DEF Updating, Quiet
<1>10. Newest
  <2>1. Live(gen) = 1 .. n /\ 1 \in Live(gen)
    BY <1>2, <1>7
  <2>2. \A i \in Live(gen) : w[gen][i].ch = cur /\ w[gen][i].st = "start"
    BY <1>2, <1>5, <1>7, <2>1
  <2> QED BY <1>1, <1>2, <2>1, <2>2 DEF Newest
<1>11. Older
  BY <1>2, <1>6 DEF Older, Gens
<1>12. Channels
  BY <1>2, <1>3 DEF Channels, NoWrite
<1> QED BY <1>8, <1>9, <1>10, <1>11, <1>12 DEF PoolInv

LEMMA PoolStep ==
  ASSUME Configured, PoolInv, [Next]_vars
  PROVE  PoolInv'
<1>1. CASE UNCHANGED vars
  BY <1>1 DEF vars, PoolInv, PoolTypes, TypeOK, Updating, Newest, Older, Channels, Live
<1>2. CASE Write
  BY <1>2, WriteKeeps
<1>3. CASE Close
  BY <1>3, CloseKeeps
<1>4. CASE \E g \in Gens, i \in Slots : Worker(g, i)
  BY <1>4, WorkerKeeps
<1>5. CASE Update
  <2>1. CASE AwaitOld
    BY <2>1, AwaitKeeps
  <2>2. CASE Drain
    BY <2>2, DrainKeeps
  <2>3. CASE KafkaDrain
    BY <2>3, KafkaDrainKeeps
  <2>4. CASE PrometheusDrain
    BY <2>4, PrometheusDrainKeeps
  <2>5. CASE StartNew
    BY <2>5, StartNewKeeps
  <2>6. ASSUME NEW c \in Confs,
               \/ kind = "nats" /\ NatsUpdate(c)
               \/ kind = "jetstream" /\ JetstreamUpdate(c)
               \/ kind = "tcp" /\ TcpUpdate(c)
               \/ kind = "udp" /\ UdpUpdate(c)
               \/ kind = "otlp" /\ OtlpUpdate(c)
        PROVE  PoolInv'
    BY <2>6, PoolUpdatesKeep
  <2>7. ASSUME NEW c \in Confs,
               \/ kind \in {"kafka", "kafkaSync"} /\ KafkaUpdate(c)
               \/ kind = "influx" /\ InfluxUpdate(c)
               \/ UpdateFails(c)
        PROVE  PoolInv'
    BY <2>7, KafkaUpdateKeeps, InfluxUpdateKeeps, FailedUpdateKeeps
  <2>8. ASSUME NEW c \in Confs,
               \/ kind = "snmp" /\ SnmpUpdate(c)
               \/ kind = "clickhouse" /\ ClickhouseUpdate(c)
               \/ kind = "prometheus" /\ (PrometheusUpdate(c) \/ PrometheusBindFails(c))
        PROVE  PoolInv'
    BY <2>8, StopsKeep, PrometheusUpdateKeeps
  <2> QED BY <1>5, <2>1, <2>2, <2>3, <2>4, <2>5, <2>6, <2>7, <2>8 DEF Update
<1> QED BY <1>1, <1>2, <1>3, <1>4, <1>5 DEF Next

LEMMA PoolImplies ==
  ASSUME Configured, PoolInv
  PROVE  TypeOK /\ UpdateTakesEffect
<1>1. /\ PoolTypes /\ Updating /\ Newest /\ Older /\ Channels /\ TypeOK /\ gen \in Gens
      /\ Done(gen) /\ kind \notin {"nats", "udp"} => gen \in cancelled
  BY DEF PoolInv, PoolTypes, TypeOK, Done
<1>2. ServedAfterUpdate
  <2>1. SUFFICES ASSUME kind \notin {"nats", "udp"}, ~broken, upd.pc = "idle", life = "open"
                 PROVE  \E g \in Gens : \E i \in Live(g) :
                          ~Done(g) /\ (w[g][i].st \in {"start", "dial"} \/ w[g][i].ch = cur)
    BY DEF ServedAfterUpdate, Served
  <2>2. gen \notin cancelled
    BY <1>1, <2>1 DEF Updating
  <2>3. 1 \in Live(gen) /\ w[gen][1].ch = cur /\ ~Done(gen)
    BY <1>1, <2>1, <2>2 DEF Newest
  <2> QED BY <1>1, <2>3
<1>3. NotStranded
  <2>1. kind \in {"snmp", "influx"} => \A c \in 1 .. Len(chans) : c = cur
    BY <1>1 DEF Channels, PoolTypes
  <2> QED BY <1>1, <2>1 DEF NotStranded, Channels
<1>4. NewAddressUsed
  <2>1. SUFFICES ASSUME kind \notin {"tcp", "otlp", "prometheus"}, ~broken, upd.pc = "idle", life = "open",
                        NEW g \in Gens, NEW i \in Live(g), w[g][i].st \in {"idle", "busy", "connect"}
                 PROVE  w[g][i].addr = conf.addr
    BY DEF NewAddressUsed
  <2>2. g = gen
    BY <1>1, <2>1 DEF Older, Awaiting, Gens
  <2> QED BY <1>1, <2>1, <2>2 DEF Newest
<1>5. WorkersAsConfigured
  <2>1. SUFFICES ASSUME kind \in {"tcp", "otlp", "clickhouse", "prometheus"}, ~broken, upd.pc = "idle", life = "open"
                 PROVE  Cardinality(Live(gen)) = conf.workers
    BY DEF WorkersAsConfigured
  <2>2. Live(gen) = 1 .. conf.workers
    BY <1>1, <2>1 DEF Updating, Newest
  <2>3. conf.workers \in Nat
    BY <1>1 DEF PoolTypes, Conf, Slots
  <2> QED BY <2>2, <2>3, FS_Interval
<1> QED BY <1>1, <1>2, <1>3, <1>4, <1>5 DEF UpdateTakesEffect

\* Types, for every type of output (newOutput and Init of the packages under outputs): the
\* current channel exists, no buffer exceeds its capacity, every message has one fate.
THEOREM OutputPoolTypes == ASSUME Configured PROVE Spec => []TypeOK
<1>1. Init => PoolInv
  BY PoolInitially
<1>2. PoolInv /\ [Next]_vars => PoolInv'
  BY PoolStep
<1>3. PoolInv => TypeOK
  BY PoolImplies
<1> QED BY <1>1, <1>2, <1>3, PTL DEF Spec

\* After an Update that did not fail half way an output has workers on the channel Write
\* uses, as many as configured, they send to the configured address, and nothing is left in
\* the old channel (each for the types of output that OutputPool names): Update of the
\* packages under outputs against their Write, workers and Close.
THEOREM UpdatesTakeEffect == ASSUME Configured PROVE Spec => []UpdateTakesEffect
<1>1. Init => PoolInv
  BY PoolInitially
<1>2. PoolInv /\ [Next]_vars => PoolInv'
  BY PoolStep
<1>3. PoolInv => UpdateTakesEffect
  BY PoolImplies
<1> QED BY <1>1, <1>2, <1>3, PTL DEF Spec
=============================================================================
