---------------------------- MODULE EventPipeline ----------------------------
(***************************************************************************)
(* The collector's single writer hands every message to every output, and  *)
(* each output runs its own chain of event processors on it.               *)
(*                                                                         *)
(* A message from a target is a response: an output converts it to events  *)
(* of its own.  A message from an input holds *EventMsg pointers: the      *)
(* writer hands the SAME events to every output (OutputsManager.write), and *)
(* processors change them in place while another output's worker may still *)
(* have them in its queue.  obj is what the pointers of the current message *)
(* point to; a queue holds pointers <<message, index>> and events alike.    *)
(*                                                                         *)
(* Where the chain runs is the output's kind: file, influxdb and clickhouse *)
(* run it in the writer's call; prometheus and prometheus_write run it      *)
(* there on an input's events, but hand responses to workers that run it,   *)
(* several at once and beside the writer, on the same processors.  A        *)
(* processor's Apply is one step of a worker, but the rate limiter asks its *)
(* index and adds to it in two.  (The trigger's occurrences have no lock     *)
(* either; what it makes of a race is not modelled.)                        *)
(***************************************************************************)
EXTENDS EventProcessors

CONSTANTS EvOuts,      \* the outputs
          EvChains,    \* processor chains an output may be configured with
          EvBatches,   \* sequences of events a message of an input may hold
          EvResponses, \* [ts, prefix, updates, deletes, meta]: responses of a target
          EvPlaces,    \* where an output may run its chain: "writer", "workers"
          EvWorkers,   \* the workers an output of the second kind has
          MaxEvMsgs    \* bound: messages

VARIABLES chain,    \* chain[o]: o's processors
          place,    \* place[o]: where they run on a response
          msgs,     \* the messages so far, as they arrived
          obj,      \* obj[m][i]: event i of message m as it is now in memory
          todo,     \* outputs the writer has not given the last message to
          queue,    \* queue[o]: events on their way to o's worker
          wrote,    \* wrote[o]: [msg, from, ev] that left o
          mem,      \* mem[o]: what o's processors remember
          raw,      \* raw[o]: the responses (numbers of messages) no worker has taken yet
          work      \* work[o][w]: the response a worker of o is at, [msg, step, es, out, adding]

evars == <<chain, place, msgs, obj, todo, queue, wrote, mem, raw, work>>

(* A worker at processor number step has the events es before it, or the    *)
(* rate limiter's loop has out behind and es before it; adding: the first   *)
(* of es has not been rejected and is not in the index yet.                 *)
Idle == [msg |-> 0, step |-> 0, es |-> <<>>, out |-> <<>>, adding |-> FALSE]

Init ==
  /\ chain \in [EvOuts -> EvChains]
  /\ msgs = <<>> /\ obj = <<>> /\ todo = {}
  /\ queue = [o \in EvOuts |-> <<>>]
  /\ wrote = [o \in EvOuts |-> <<>>]
  /\ mem = [o \in EvOuts |-> NoMemory]
  /\ place \in [EvOuts -> EvPlaces]
  /\ raw = [o \in EvOuts |-> <<>>]
  /\ work = [o \in EvOuts |-> [w \in EvWorkers |-> Idle]]

N == Len(msgs)
\* the events of a message: an output makes its own from a response
EventsOf(m) == IF m.path = "input" THEN m.evs ELSE ResponseToEventMsgs("s", m.rsp, m.rsp.meta)
Now == N

\* An event without a map of tags makes event-value-tag panic: no such message is modelled.
ValueTags == {"event-value-tag", "event-value-tag-v2"}
Survived(es) ==
  (\E i \in DOMAIN es : es[i].bare) =>
    \A o \in EvOuts : \A i \in DOMAIN chain[o] : chain[o][i].kind \notin ValueTags

\* writeLoop takes the next message
Receive ==
  /\ todo = {} /\ N < MaxEvMsgs
  /\ \/ \E es \in EvBatches :
           Survived(es) /\ msgs' = Append(msgs, [path |-> "input", evs |-> es]) /\ obj' = Append(obj, es)
     \/ \E r \in EvResponses :
           msgs' = Append(msgs, [path |-> "target", rsp |-> r]) /\ obj' = Append(obj, <<>>)
  /\ todo' = EvOuts
  /\ UNCHANGED <<chain, place, queue, wrote, mem, raw, work>>

Sent(o, es, from) == [i \in DOMAIN es |-> [msg |-> N, from |-> from, at |-> 0, ev |-> es[i]]]

\* Write: ResponseToEventMsgs makes events for this output alone
Write(o) ==
  /\ o \in todo /\ msgs[N].path = "target" /\ place[o] = "writer"
  /\ LET r == RunChain(chain[o], mem[o], EventsOf(msgs[N]), Now)
     IN /\ mem' = [mem EXCEPT ![o] = r.mem]
        /\ queue' = [queue EXCEPT ![o] = @ \o Sent(o, r.es, 0)]
  /\ todo' = todo \ {o}
  /\ UNCHANGED <<chain, place, msgs, obj, wrote, raw, work>>

\* Write of an output whose workers convert the responses; none waits until its time-out here
Hand(o) ==
  /\ o \in todo /\ msgs[N].path = "target" /\ place[o] = "workers"
  /\ raw' = [raw EXCEPT ![o] = Append(@, N)]
  /\ todo' = todo \ {o}
  /\ UNCHANGED <<chain, place, msgs, obj, queue, wrote, mem, work>>

\* the event p was given, after p: a new event leaves it alone; keep empties what it drops
NewEvents == {"event-group-by", "event-jq"}
Touched(p, e, r) ==
  IF p.kind \in NewEvents THEN e
  ELSE IF r # <<>> THEN r[1]
  ELSE IF p.kind = "event-keep" THEN [e EXCEPT !.vals = <<>>, !.tags = <<>>]
  ELSE e

(* The chain on one event: what it returns, what is left at the pointer, and *)
(* whether the events returned still are that pointer.                       *)
Pointed(acc, p, r) ==
  [es |-> r.es, mem |-> r.mem,
   obj |-> IF acc.same /\ acc.es # <<>> THEN Touched(p, acc.obj, r.es) ELSE acc.obj,
   same |-> acc.same /\ p.kind \notin NewEvents]
PointerStep(acc, p) == Pointed(acc, p, RunStep([es |-> acc.es, mem |-> acc.mem], p, Now))
OnPointer(ps, m, e) ==
  FoldLeft(PointerStep, [es |-> <<e>>, mem |-> m, obj |-> e, same |-> TRUE], ps)

(* WriteEvent of every event of the message, one after the other; the       *)
(* pointer goes into the queue.                                             *)
Queued(r, o, i) ==
  IF r.same /\ r.es # <<>> THEN <<[msg |-> N, from |-> i, at |-> i, ev |-> r.es[1]]>>
  ELSE Sent(o, r.es, i)
EventStep(acc, i, r, o) ==
  [mem |-> r.mem, obj |-> [acc.obj EXCEPT ![i] = r.obj], q |-> acc.q \o Queued(r, o, i)]
EachEvent(o) ==
  FoldLeft(LAMBDA acc, i : EventStep(acc, i, OnPointer(chain[o], acc.mem, acc.obj[i]), o),
           [mem |-> mem[o], obj |-> obj[N], q |-> <<>>], [i \in DOMAIN obj[N] |-> i])
WriteEvent(o) ==
  /\ o \in todo /\ msgs[N].path = "input"
  /\ LET r == EachEvent(o)
     IN /\ mem' = [mem EXCEPT ![o] = r.mem]
        /\ obj' = [obj EXCEPT ![N] = r.obj]
        /\ queue' = [queue EXCEPT ![o] = @ \o r.q]
  /\ todo' = todo \ {o}
  /\ UNCHANGED <<chain, place, msgs, wrote, raw, work>>

\* the output's worker sends what the entry holds, or points to, by now
Drain(o) ==
  /\ queue[o] # <<>>
  /\ LET h == Head(queue[o])
     IN wrote' = [wrote EXCEPT ![o] =
          Append(@, [msg |-> h.msg, from |-> h.from,
                     ev |-> IF h.at = 0 THEN h.ev ELSE obj[h.msg][h.at]])]
  /\ queue' = [queue EXCEPT ![o] = Tail(@)]
  /\ UNCHANGED <<chain, place, msgs, obj, todo, mem, raw, work>>

-----------------------------------------------------------------------------
(* A worker of an output that converts the responses itself.                *)

Take(o, w) ==
  /\ work[o][w] = Idle /\ raw[o] # <<>>
  /\ LET m == Head(raw[o])
     IN work' = [work EXCEPT ![o][w] =
          [msg |-> m, step |-> 1, es |-> EventsOf(msgs[m]), out |-> <<>>, adding |-> FALSE]]
  /\ raw' = [raw EXCEPT ![o] = Tail(@)]
  /\ UNCHANGED <<chain, place, msgs, obj, todo, queue, wrote, mem>>

Runs(o, w) == work[o][w].step \in DOMAIN chain[o]
Turn(o, w) == chain[o][work[o][w].step]
Limits(p) == p.kind = "event-rate-limit"
OthersKeep == UNCHANGED <<chain, place, msgs, obj, todo, queue, wrote, raw>>

\* the Apply of any other processor
Process(o, w) ==
  /\ Runs(o, w) /\ ~Limits(Turn(o, w))
  /\ LET r == RunStep([es |-> work[o][w].es, mem |-> mem[o]], Turn(o, w), Now)
     IN /\ work' = [work EXCEPT ![o][w].es = r.es, ![o][w].step = @ + 1]
        /\ mem' = [mem EXCEPT ![o] = r.mem]
  /\ OthersKeep

\* rateLimit.Apply: eventIndex.Get of the next event
Get(o, w) ==
  LET k == work[o][w]
      index == mem[o].index
  IN /\ Runs(o, w) /\ Limits(Turn(o, w)) /\ k.es # <<>> /\ ~k.adding
     /\ work' = IF RateRejects(Turn(o, w), index, Head(k.es))
                THEN [work EXCEPT ![o][w].es = Tail(@)] ELSE [work EXCEPT ![o][w].adding = TRUE]
     /\ mem' = [mem EXCEPT ![o].index = Touch(Turn(o, w), @, Head(k.es))]
     /\ OthersKeep

\* eventIndex.Add, once the event has passed, whatever the index holds by now
Add(o, w) ==
  LET e == Head(work[o][w].es)
  IN /\ work[o][w].adding
     /\ work' = [work EXCEPT ![o][w].es = Tail(@), ![o][w].out = Append(@, e), ![o][w].adding = FALSE]
     /\ mem' = [mem EXCEPT ![o].index = MostRecent(Turn(o, w), @, [tags |-> e.tags, ts |-> e.ts])]
     /\ OthersKeep

\* the loop is over
Through(o, w) ==
  /\ Runs(o, w) /\ Limits(Turn(o, w)) /\ work[o][w].es = <<>>
  /\ work' = [work EXCEPT ![o][w].es = work[o][w].out, ![o][w].out = <<>>, ![o][w].step = @ + 1]
  /\ UNCHANGED mem /\ OthersKeep

\* workerHandleEvent of what the chain has left
Deliver(o, w) ==
  LET k == work[o][w]
  IN /\ k.msg # 0 /\ ~Runs(o, w)
     /\ wrote' = [wrote EXCEPT ![o] =
          @ \o [i \in DOMAIN k.es |-> [msg |-> k.msg, from |-> 0, ev |-> k.es[i]]]]
     /\ work' = [work EXCEPT ![o][w] = Idle]
     /\ UNCHANGED <<chain, place, msgs, obj, todo, queue, mem, raw>>

Working(o, w) ==
  /\ place[o] = "workers"
  /\ Take(o, w) \/ Process(o, w) \/ Get(o, w) \/ Add(o, w) \/ Through(o, w) \/ Deliver(o, w)
Next ==
  \/ Receive
  \/ \E o \in EvOuts : Write(o) \/ Hand(o) \/ WriteEvent(o) \/ Drain(o)
  \/ \E o \in EvOuts, w \in EvWorkers : Working(o, w)
Spec == Init /\ [][Next]_evars

-----------------------------------------------------------------------------
(* Processors that rearrange events lose nothing of the events that have    *)
(* tags: what an output behind merge, group-by, add-tag and combine writes   *)
(* of a message names each of their values and deletes, whether the writer   *)
(* or several workers run the chain.  (Of an input's event without tags     *)
(* group-by loses everything.)                                             *)
Rearranging == {"event-merge", "event-group-by", "event-combine", "event-add-tag"}
Conserving(ps) == \A i \in DOMAIN ps :
  /\ ps[i].kind \in Rearranging
  /\ ps[i].kind = "event-combine" => \A j \in DOMAIN ps[i].procs : ps[i].procs[j].proc.kind \in Rearranging
NamesOf(e) == IF e.bare THEN {} ELSE DOMAIN e.vals \cup e.dels
Names(es) == UNION {NamesOf(es[i]) : i \in DOMAIN es}
WorkedOff(o) == queue[o] = <<>> /\ raw[o] = <<>> /\ work[o] = [w \in EvWorkers |-> Idle]
MergeConserves ==
  \A o \in EvOuts : Conserving(chain[o]) /\ WorkedOff(o) =>
    \A m \in 1 .. (IF o \in todo THEN N - 1 ELSE N) :
      Names(EventsOf(msgs[m])) \subseteq
        UNION {Names(<<wrote[o][i].ev>>) : i \in {j \in DOMAIN wrote[o] : wrote[o][j].msg = m}}

(* Behind a rate limiter that runs in the writer and whose cache holds every *)
(* set of tags, two events with the same tags that follow one another have  *)
(* the same timestamp or are 1/limit seconds apart, whatever was dropped     *)
(* between them and however late events arrive.  (Of two workers between    *)
(* Get and Add neither sees the other's event: both pass.)                  *)
Limited(ps) == Len(ps) = 1 /\ Limits(ps[1])
Spaced(o) == Limited(chain[o]) /\ place[o] = "writer"
RateLimitSpacing ==
  \A o \in EvOuts : Spaced(o) =>
    \A i, j \in DOMAIN wrote[o] :
      LET a == wrote[o][i].ev
          b == wrote[o][j].ev
      IN (/\ i < j /\ a.tags = b.tags
          /\ ~\E k \in (i + 1) .. (j - 1) : wrote[o][k].ev.tags = a.tags)
         => a.ts = b.ts \/ (b.ts - a.ts) * chain[o][1].perSecond >= OneSecond

(* An output writes what its own processors made of the event that arrived. *)
OwnProcessors ==
  \A o \in EvOuts : \A i \in DOMAIN wrote[o] :
    LET w == wrote[o][i]
        from == IF w.from = 0 THEN EventsOf(msgs[w.msg]) ELSE <<msgs[w.msg].evs[w.from]>>
        r == RunChain(chain[o], NoMemory, from, w.msg).es
    IN \E j \in DOMAIN r : r[j] = w.ev
=============================================================================
