---------------------------- MODULE ManagersProofs ----------------------------
(***************************************************************************)
(* Theorems about the components that keep up with the configuration       *)
(* store: OutputsManager, InputsManager (In), the tunnel server (Tun) and  *)
(* the list of a target's subscriptions (Lists), for any names,            *)
(* processors, requests, rules, writes and bounds.  The managers follow a  *)
(* watch channel of the store and index the processors in use, so they     *)
(* rest on the lemmas about maps and about channels that come first.       *)
(*                                                                         *)
(* The invariants are not inductive by themselves.  Those about what runs  *)
(* need the order of the events that wait in a channel: whether the last   *)
(* of them about a name deletes it (Absent), and whether one that is no    *)
(* longer true is followed by one that is (Overtaken).                     *)
(***************************************************************************)
EXTENDS OutputsManager, SequenceTheorems, TLAPS

-----------------------------------------------------------------------------
(* Maps. *)

\* f maps some members of K to members of V.
Map(f, K, V) == f \in [DOMAIN f -> V] /\ DOMAIN f \subseteq K

-----------------------------------------------------------------------------
(* Channels of events about names. *)

\* Nothing from place a to place b of channel q is about i.
Silent(q, i, a, b) == \A k \in a .. b : q[k].name # i

\* Of the first n events the last one about i deletes it.
Deleted(q, i, n) ==
  \E k \in 1 .. n : q[k].type = "delete" /\ q[k].name = i /\ Silent(q, i, k + 1, n)

\* When the first n events are handled i is not there; those in S are there now.
Absent(q, i, n, S) == Deleted(q, i, n) \/ (Silent(q, i, 1, n) /\ i \notin S)

\* An event appended leaves the ones before it; it decides alone about its name.
LEMMA AppendFacts ==
  ASSUME NEW E, NEW q \in Seq(E), NEW e \in E
  PROVE  /\ Append(q, e) \in Seq(E) /\ Len(Append(q, e)) = Len(q) + 1 /\ Len(q) \in Nat
         /\ \A k \in 1 .. Len(q) : Append(q, e)[k] = q[k]
         /\ Append(q, e)[Len(q) + 1] = e
OBVIOUS

LEMMA AbsentAppend ==
  ASSUME NEW E, NEW q \in Seq(E), NEW e \in E, NEW i, NEW S
  PROVE  /\ \A n \in 0 .. Len(q) : Absent(q, i, n, S) => Absent(Append(q, e), i, n, S)
         /\ e.name # i /\ Absent(q, i, Len(q), S) => Absent(Append(q, e), i, Len(q) + 1, S)
         /\ e.name = i /\ e.type = "delete" => Absent(Append(q, e), i, Len(q) + 1, S)
<1>1. ASSUME NEW n \in 0 .. Len(q), Absent(q, i, n, S)
      PROVE  Absent(Append(q, e), i, n, S)
  BY <1>1, AppendFacts DEF Absent, Deleted, Silent
<1>2. ASSUME e.name # i, Absent(q, i, Len(q), S)
      PROVE  Absent(Append(q, e), i, Len(q) + 1, S)
  BY <1>2, AppendFacts DEF Absent, Deleted, Silent
<1>3. ASSUME e.name = i, e.type = "delete"
      PROVE  Absent(Append(q, e), i, Len(q) + 1, S)
  BY <1>3, AppendFacts DEF Absent, Deleted, Silent
<1> QED BY <1>1, <1>2, <1>3

\* The first event is handled: what it says about i comes true.
LEMMA AbsentTail ==
  ASSUME NEW E, NEW q \in Seq(E), q # <<>>, NEW i, NEW S, NEW T,
         Head(q).name # i => (i \in T => i \in S),
         Head(q).name = i /\ Head(q).type = "delete" => i \notin T,
         NEW n \in 1 .. Len(q), Absent(q, i, n, S)
  PROVE  Absent(Tail(q), i, n - 1, T)
<1>1. /\ Tail(q) \in Seq(E) /\ Len(Tail(q)) = Len(q) - 1 /\ Len(q) \in Nat
      /\ \A k \in 1 .. Len(q) - 1 : Tail(q)[k] = q[k + 1]
      /\ Head(q) = q[1]
  BY HeadTailProperties
<1>2. ASSUME NEW k \in 1 .. n, q[k].type = "delete", q[k].name = i, Silent(q, i, k + 1, n)
      PROVE  Absent(Tail(q), i, n - 1, T)
  <2>1. CASE k = 1
    BY <1>1, <1>2, <2>1 DEF Absent, Silent
  <2>2. CASE k # 1
    <3>1. k - 1 \in 1 .. n - 1 /\ Tail(q)[k - 1] = q[k] /\ Silent(Tail(q), i, k, n - 1)
      BY <1>1, <1>2, <2>2 DEF Silent
    <3> QED BY <1>2, <3>1 DEF Absent, Deleted
  <2> QED BY <2>1, <2>2
<1>3. ASSUME Silent(q, i, 1, n), i \notin S
      PROVE  Absent(Tail(q), i, n - 1, T)
  BY <1>1, <1>3 DEF Absent, Silent
<1> QED BY <1>2, <1>3 DEF Absent, Deleted

-----------------------------------------------------------------------------
(* Outputs. *)

OutEvents == [type : {"create", "update"}, name : Outs, cfg : Cfgs]
             \cup [type : {"delete"}, name : Outs]
ProcEvents == Procs \X Versions
LoopStates ==
  {Idle} \cup [pc : {"init"}, name : Outs, cfg : Cfgs]
  \cup [pc : {"register"}, name : Outs, cfg : Cfgs, seen : [Procs -> Versions]]
  \cup [pc : {"publish"}, name : Outs]
  \cup [pc : {"update", "track", "cfg"}, name : Outs, cfg : Cfgs, old : Cfgs]
ApiStates ==
  {Idle} \cup [pc : {"delProc"}, proc : Procs]
  \cup [pc : {"delOuts", "setOuts"}, req : Requests, todo : SUBSET Outs]
  \cup [pc : {"delProcs", "setProcs"}, req : Requests, todo : SUBSET Procs]

\* The bodies of apply name outputs and processors, and configure outputs with these.
Bodies == \A r \in Requests : Map(r.outs, Outs, Cfgs) /\ r.procs \in SUBSET Procs

OutTypes ==
  /\ Map(conf, Outs, Cfgs) /\ Map(outs, Outs, Output)
  /\ proc \in [Procs -> Versions]
  /\ evq \in Seq(OutEvents) /\ pq \in Seq(ProcEvents)
  /\ inUse \in [Procs -> SUBSET Outs]
  /\ state \in [Outs -> {"none", "running", "failed", "stopping"}]
  /\ loop \in LoopStates /\ api \in ApiStates
  /\ api.pc = "setOuts" => api.todo \subseteq DOMAIN api.req.outs

\* Unless its Update failed half way an output runs what it names, and the index names it
\* under these; while the loop is between Impl.Update and the index, the output in hand
\* runs what the index will name.
Tracked ==
  \A o \in DOMAIN outs : ~outs[o].half =>
    /\ outs[o].own = outs[o].use
    /\ IF loop.pc = "track" /\ loop.name = o THEN outs[o].use = loop.cfg
       ELSE \A p \in outs[o].use : o \in inUse[p]

\* What is run, reported or being created.
Live == DOMAIN outs \cup {o \in Outs : state[o] # "none"}
        \cup {o \in Outs : loop.pc \in {"init", "register", "publish"} /\ loop.name = o}

\* An output that is not configured is gone once the events are handled.
Gone == \A o \in Outs \ stuck : o \notin DOMAIN conf => Absent(evq, o, Len(evq), Live)

\* v is no older version of the processor p that is stored.
Current(v, p) == Present(p) /\ v[1] = proc[p][1] => v = proc[p]

\* No version that is run, in hand or in an event is of a later generation than the stored.
Known ==
  /\ \A o \in DOMAIN outs : \A p \in Procs : outs[o].seen[p][1] <= proc[p][1]
  /\ loop.pc = "register" => \A p \in Procs : loop.seen[p][1] <= proc[p][1]
  /\ \A k \in 1 .. Len(pq) : pq[k][2][1] <= proc[pq[k][1]][1]

\* The last event about a processor carries its stored version; with no event about it,
\* an output runs that one already, unless it could not build it.
Runs(o) == IF outs[o].half THEN {} ELSE outs[o].use \ outs[o].missed
Quiet(p) == \A k \in 1 .. Len(pq) : pq[k][1] # p
LastCurrent ==
  \A k \in 1 .. Len(pq) :
    (\A j \in k + 1 .. Len(pq) : pq[j][1] # pq[k][1]) => Current(pq[k][2], pq[k][1])
SeenCurrent ==
  \A p \in Procs : Quiet(p) =>
    /\ \A o \in DOMAIN outs : p \in Runs(o) => Current(outs[o].seen[p], p)
    /\ loop.pc = "register" => Current(loop.seen[p], p)

LEMMA LoopFacts ==
  ASSUME loop \in LoopStates
  PROVE  /\ loop.pc \in {"idle", "init", "register", "publish", "update", "track", "cfg"}
         /\ loop = Idle <=> loop.pc = "idle"
         /\ loop.pc # "idle" => loop.name \in Outs
         /\ loop.pc \in {"init", "register", "update", "track", "cfg"} => loop.cfg \in Cfgs
         /\ loop.pc = "register" => loop.seen \in [Procs -> Versions]
         /\ loop.pc \in {"update", "track", "cfg"} =>
              loop \in [pc : {"update", "track", "cfg"}, name : Outs, cfg : Cfgs, old : Cfgs]
BY DEF LoopStates, Idle

LEMMA ApiFacts ==
  ASSUME api \in ApiStates
  PROVE  /\ api.pc \in {"idle", "delProc", "delOuts", "delProcs", "setProcs", "setOuts"}
         /\ api.pc = "delProc" => api.proc \in Procs
         /\ api.pc \in {"delOuts", "setOuts"} =>
              api \in [pc : {"delOuts", "setOuts"}, req : Requests, todo : SUBSET Outs]
         /\ api.pc \in {"delProcs", "setProcs"} =>
              api \in [pc : {"delProcs", "setProcs"}, req : Requests, todo : SUBSET Procs]
BY DEF ApiStates, Idle

\* The store: what the writes of an output and of a processor do to the types.
LEMMA SetOutputTypes ==
  ASSUME Map(conf, Outs, Cfgs), evq \in Seq(OutEvents), NEW o \in Outs, NEW c \in Cfgs, SetOutput(o, c)
  PROVE  Map(conf', Outs, Cfgs) /\ evq' \in Seq(OutEvents) /\ DOMAIN conf' = DOMAIN conf \cup {o}
<1>1. Map(conf', Outs, Cfgs) /\ DOMAIN conf' = DOMAIN conf \cup {o}
  BY DEF Map, SetOutput, Put
<1>2. [type |-> IF o \in DOMAIN conf THEN "update" ELSE "create", name |-> o, cfg |-> c] \in OutEvents
  BY DEF OutEvents
<1>3. evq' \in Seq(OutEvents)
  BY <1>2, AppendFacts DEF SetOutput
<1> QED BY <1>1, <1>3

LEMMA DelOutputTypes ==
  ASSUME Map(conf, Outs, Cfgs), NEW q \in Seq(OutEvents), NEW o \in Outs, DelOutput(o, q)
  PROVE  Map(conf', Outs, Cfgs) /\ evq' \in Seq(OutEvents) /\ DOMAIN conf' = DOMAIN conf \ {o}
<1>1. Map(conf', Outs, Cfgs) /\ DOMAIN conf' = DOMAIN conf \ {o}
  BY DEF Map, DelOutput, Drop, Restrict
<1>2. [type |-> "delete", name |-> o] \in OutEvents
  BY DEF OutEvents
<1>3. evq' \in Seq(OutEvents)
  BY <1>2, AppendFacts DEF DelOutput
<1> QED BY <1>1, <1>3

LEMMA SetProcTypes ==
  ASSUME proc \in [Procs -> Versions], pq \in Seq(ProcEvents), NEW p \in Procs, SetProc(p)
  PROVE  /\ proc' \in [Procs -> Versions] /\ pq' \in Seq(ProcEvents)
         /\ \A x \in Procs : x # p => proc'[x] = proc[x]
         /\ Present(p) => /\ proc'[p] = <<proc[p][1], proc[p][2] + 1>>
                          /\ pq' = Append(pq, <<p, proc'[p]>>) /\ <<p, proc'[p]>> \in ProcEvents
         /\ ~Present(p) => proc'[p] = <<proc[p][1] + 1, 1>> /\ pq' = pq
<1>1. proc[p] \in Versions /\ proc[p][1] \in Nat /\ proc[p][2] \in Nat
  BY DEF Versions
<1>2. /\ proc' \in [Procs -> Versions] /\ \A x \in Procs : x # p => proc'[x] = proc[x]
      /\ Present(p) => proc'[p] = <<proc[p][1], proc[p][2] + 1>>
      /\ ~Present(p) => proc'[p] = <<proc[p][1] + 1, 1>>
  BY <1>1 DEF SetProc, Versions
<1>3. <<p, proc'[p]>> \in ProcEvents
  BY <1>2 DEF ProcEvents
<1>4. pq' = IF Present(p) THEN Append(pq, <<p, proc'[p]>>) ELSE pq
  BY DEF SetProc
<1>5. pq' \in Seq(ProcEvents)
  BY <1>3, <1>4, AppendFacts
<1> QED BY <1>2, <1>3, <1>4, <1>5

LEMMA DelProcTypes ==
  ASSUME proc \in [Procs -> Versions], NEW p \in Procs, DelProc(p)
  PROVE  /\ proc' \in [Procs -> Versions] /\ proc'[p] = <<proc[p][1], 0>>
         /\ \A x \in Procs : x # p => proc'[x] = proc[x]
<1>1. proc[p] \in Versions /\ proc[p][1] \in Nat
  BY DEF Versions
<1> QED BY <1>1 DEF DelProc, Versions

LEMMA DeleteOutputTypes ==
  ASSUME OutTypes, NEW q \in Seq(OutEvents), NEW o \in Outs, DeleteOutput(o, q)
  PROVE  /\ Map(conf', Outs, Cfgs) /\ evq' \in Seq(OutEvents) /\ Map(outs', Outs, Output)
         /\ inUse' \in [Procs -> SUBSET Outs]
         /\ state' \in [Outs -> {"none", "running", "failed", "stopping"}]
<1>1. CASE /\ o \in DOMAIN outs /\ inUse' = Untrack(inUse, o, outs[o].cfg)
           /\ outs' = Drop(outs, o) /\ state' = [state EXCEPT ![o] = "none"] /\ DelOutput(o, q)
  <2>1. Map(outs', Outs, Output)
    BY <1>1 DEF OutTypes, Map, Drop, Restrict
  <2> QED BY <1>1, <2>1, DelOutputTypes DEF OutTypes, Untrack
<1>2. CASE /\ state' = [state EXCEPT ![o] = "stopping"] \/ state' = [state EXCEPT ![o] = "none"]
           /\ evq' = q /\ UNCHANGED <<inUse, outs, conf>>
  BY <1>2 DEF OutTypes, Map
<1> QED BY <1>1, <1>2 DEF DeleteOutput

\* The outputs of the manager with one of them changed.
LEMMA OutputSet ==
  ASSUME Map(outs, Outs, Output), NEW o \in DOMAIN outs, NEW n \in Output, outs' = [outs EXCEPT ![o] = n]
  PROVE  /\ Map(outs', Outs, Output) /\ DOMAIN outs' = DOMAIN outs /\ outs'[o] = n
         /\ \A x \in DOMAIN outs : x # o => outs'[x] = outs[x]
<1>1. outs \in [DOMAIN outs -> Output] /\ DOMAIN outs \subseteq Outs
  BY DEF Map
<1> QED BY <1>1 DEF Map

\* Impl.Update leaves the other outputs alone.  The one in hand stays as it is or runs the
\* processors of the store; when the loop goes on to the index it runs those it names.
LEMMA UpdateOutputFacts ==
  ASSUME OutTypes, UpdateOutput
  PROVE  /\ Map(outs', Outs, Output) /\ DOMAIN outs' = DOMAIN outs
         /\ \A o \in DOMAIN outs : o # loop.name => outs'[o] = outs[o]
         /\ loop.name \in DOMAIN outs =>
              LET r == outs[loop.name]
                  n == outs'[loop.name] IN
              \/ n = r /\ (loop' # Idle => r.own = loop.cfg)
              \/ /\ n.seen = proc
                 /\ n.half \/ (n.own = loop.cfg /\ n.use = loop.cfg)
                 /\ n.half <=> loop' = Idle
         /\ loop' = Idle \/ loop' = [loop EXCEPT !.pc = "track"]
<1>1. loop.cfg \in Cfgs /\ [loop EXCEPT !.pc = "track"] # Idle
  <2>1. [loop EXCEPT !.pc = "track"].pc = "track" /\ Idle.pc = "idle"
    BY LoopFacts DEF UpdateOutput, OutTypes, Idle
  <2> QED BY <2>1, LoopFacts DEF UpdateOutput, OutTypes
<1>2. ASSUME NEW c \in Cfgs, NEW b \in BOOLEAN, loop.name \in DOMAIN outs,
             outs' = [outs EXCEPT ![loop.name] = [Installed(outs[loop.name]) EXCEPT !.own = c, !.half = b]]
      PROVE  /\ Map(outs', Outs, Output) /\ DOMAIN outs' = DOMAIN outs
             /\ \A o \in DOMAIN outs : o # loop.name => outs'[o] = outs[o]
             /\ outs'[loop.name].seen = proc /\ outs'[loop.name].half = b
             /\ outs'[loop.name].own = c /\ outs'[loop.name].use = loop.cfg
  <2> DEFINE n == [Installed(outs[loop.name]) EXCEPT !.own = c, !.half = b]
  <2>1. outs[loop.name] \in Output /\ proc \in [Procs -> Versions]
    BY <1>2 DEF OutTypes, Map
  <2>2. Installed(outs[loop.name]) = [outs[loop.name] EXCEPT !.use = loop.cfg, !.seen = proc, !.missed = {}]
    BY DEF Installed
  <2>3. n \in Output /\ n.seen = proc /\ n.half = b /\ n.own = c /\ n.use = loop.cfg
    BY <1>1, <1>2, <2>1, <2>2 DEF Output
  <2> HIDE DEF n
  <2>4. outs' = [outs EXCEPT ![loop.name] = n]
    BY <1>2 DEF n
  <2>5. Map(outs, Outs, Output)
    BY DEF OutTypes
  <2>6. /\ Map(outs', Outs, Output) /\ DOMAIN outs' = DOMAIN outs /\ outs'[loop.name] = n
        /\ \A o \in DOMAIN outs : o # loop.name => outs'[o] = outs[o]
    BY <1>2, <2>3, <2>4, <2>5, OutputSet
  <2> QED BY <2>3, <2>6
<1>3. CASE UpdateInstalls
  <2>1. CASE loop.name \in DOMAIN outs
    <3>1. outs' = [outs EXCEPT ![loop.name] =
                     [Installed(outs[loop.name]) EXCEPT !.own = loop.cfg, !.half = FALSE]]
      BY <1>3, <2>1 DEF UpdateInstalls, Updated
    <3> QED BY <1>1, <1>2, <1>3, <2>1, <3>1 DEF UpdateInstalls
  <2>2. CASE loop.name \notin DOMAIN outs
    BY <1>1, <1>3, <2>2 DEF UpdateInstalls, Updated, OutTypes, Map
  <2> QED BY <2>1, <2>2
<1>4. CASE UpdateKeeps
  BY <1>1, <1>4 DEF UpdateKeeps, OutTypes, Map
<1>5. CASE UpdateFails
  <2>1. CASE UNCHANGED outs
    BY <1>1, <1>5, <2>1 DEF UpdateFails, OutTypes, Map
  <2>2. ASSUME NEW stored \in BOOLEAN,
               Updated([Installed(outs[loop.name]) EXCEPT !.own = IF stored THEN loop.cfg ELSE @,
                                                          !.half = TRUE])
        PROVE  \/ UNCHANGED outs
               \/ loop.name \in DOMAIN outs /\ \E c \in Cfgs :
                    outs' = [outs EXCEPT ![loop.name] =
                               [Installed(outs[loop.name]) EXCEPT !.own = c, !.half = TRUE]]
    <3>1. CASE loop.name \in DOMAIN outs
      <4>1. outs[loop.name] \in Output
        BY <3>1 DEF OutTypes, Map
      <4>2. Installed(outs[loop.name]).own = outs[loop.name].own /\ outs[loop.name].own \in Cfgs
        BY <4>1 DEF Installed, Output
      <4>3. CASE stored
        BY <1>1, <2>2, <3>1, <4>3 DEF Updated
      <4>4. CASE ~stored
        BY <2>2, <3>1, <4>2, <4>4 DEF Updated
      <4> QED BY <4>3, <4>4
    <3>2. CASE loop.name \notin DOMAIN outs
      BY <2>2, <3>2 DEF Updated
    <3> QED BY <3>1, <3>2
  <2>3. ASSUME loop.name \in DOMAIN outs, NEW c \in Cfgs,
               outs' = [outs EXCEPT ![loop.name] =
                          [Installed(outs[loop.name]) EXCEPT !.own = c, !.half = TRUE]]
        PROVE  /\ Map(outs', Outs, Output) /\ DOMAIN outs' = DOMAIN outs
               /\ \A o \in DOMAIN outs : o # loop.name => outs'[o] = outs[o]
               /\ outs'[loop.name].seen = proc /\ outs'[loop.name].half = TRUE
    BY <1>2, <2>3
  <2> QED BY <1>5, <2>1, <2>2, <2>3 DEF UpdateFails
<1> QED BY <1>3, <1>4, <1>5 DEF UpdateOutput

\* UpdateProcessor of one output: what it names and whether its Update failed stay; it may
\* read the event's version of the processor, and misses it otherwise.
LEMMA ProcessorUpdatesFacts ==
  ASSUME NEW r \in Output, NEW p \in Procs, NEW v \in Versions, NEW n \in ProcessorUpdates(r, p, v)
  PROVE  /\ n \in Output /\ n.own = r.own /\ n.half = r.half
         /\ \A x \in Procs : x # p => n.seen[x] = r.seen[x] /\ (x \in n.missed <=> x \in r.missed)
         /\ n.seen[p] = r.seen[p] \/ n.seen[p] = v
         /\ ~r.half => n.use = r.use
         /\ p \in r.own => p \in n.missed \/ n.seen[p] = v
<1>1. CASE p \notin r.own
  BY <1>1 DEF ProcessorUpdates
<1>2. CASE p \in r.own /\ n = [r EXCEPT !.missed = @ \cup {p}]
  BY <1>2 DEF Output
<1>3. ASSUME p \in r.own,
             NEW u \in IF r.half THEN {(r.use \ {q}) \cup {p} : q \in r.use} ELSE {r.use},
             n = [r EXCEPT !.use = u, !.seen[p] = v, !.missed = @ \ {p}]
      PROVE  /\ n \in Output /\ n.own = r.own /\ n.half = r.half
             /\ \A x \in Procs : x # p => n.seen[x] = r.seen[x] /\ (x \in n.missed <=> x \in r.missed)
             /\ n.seen[p] = v /\ (~r.half => n.use = r.use)
  <2>1. u \in Cfgs /\ (~r.half => u = r.use)
    BY <1>3 DEF Output, Cfgs
  <2>2. [r.seen EXCEPT ![p] = v] \in [Procs -> Versions]
    BY DEF Output
  <2>3. n = [r EXCEPT !.use = u, !.seen = [r.seen EXCEPT ![p] = v], !.missed = r.missed \ {p}]
    BY <1>3 DEF Output
  <2> QED BY <2>1, <2>2, <2>3 DEF Output
<1> QED BY <1>1, <1>2, <1>3 DEF ProcessorUpdates

\* UpdateProcessor: every output takes one of the results.
LEMMA UpdateProcessorFacts ==
  ASSUME OutTypes, UpdateProcessor
  PROVE  /\ Head(pq)[1] \in Procs /\ Head(pq)[2] \in Versions
         /\ Map(outs', Outs, Output) /\ DOMAIN outs' = DOMAIN outs
         /\ \A o \in DOMAIN outs :
              outs[o] \in Output /\ outs'[o] \in ProcessorUpdates(outs[o], Head(pq)[1], Head(pq)[2])
<1>1. Head(pq) \in ProcEvents
  BY HeadTailProperties DEF UpdateProcessor, OutTypes
<1>2. Head(pq)[1] \in Procs /\ Head(pq)[2] \in Versions
  BY <1>1 DEF ProcEvents
<1>3. \A o \in DOMAIN outs : outs[o] \in Output
  BY DEF OutTypes, Map
<1>4. /\ \E S : outs' \in [DOMAIN outs -> S]
      /\ \A o \in DOMAIN outs : outs'[o] \in ProcessorUpdates(outs[o], Head(pq)[1], Head(pq)[2])
  BY DEF UpdateProcessor
<1>5. \A o \in DOMAIN outs : outs'[o] \in Output
  BY <1>2, <1>3, <1>4, ProcessorUpdatesFacts
<1> QED BY <1>2, <1>3, <1>4, <1>5 DEF OutTypes, Map

\* The types of the state: one step per action.
LEMMA OutTypesStep ==
  ASSUME Bodies, OutTypes, [Next]_vars
  PROVE  OutTypes'
<1> USE DEF OutTypes
<1>1. CASE TakeDelete
  <2>1. Head(evq) \in OutEvents /\ Tail(evq) \in Seq(OutEvents)
    BY <1>1, HeadTailProperties DEF TakeDelete
  <2> QED BY <1>1, <2>1, DeleteOutputTypes DEF TakeDelete, OutEvents
<1>2. CASE TakeEvent
  <2>1. /\ Head(evq) \in OutEvents /\ Head(evq).type # "delete" /\ evq' = Tail(evq)
        /\ Tail(evq) \in Seq(OutEvents)
    BY <1>2, HeadTailProperties DEF TakeEvent
  <2>2. Head(evq).name \in Outs /\ Head(evq).cfg \in Cfgs
    BY <2>1 DEF OutEvents
  <2>3. loop' \in LoopStates
    BY <1>2, <2>2 DEF TakeEvent, LoopStates, Map, Output
  <2> QED BY <1>2, <2>1, <2>3 DEF TakeEvent, Map
<1>3. CASE InitOutput
  <2>1. loop' \in LoopStates /\ state' \in [Outs -> {"none", "running", "failed", "stopping"}]
    BY <1>3, LoopFacts DEF InitOutput, LoopStates
  <2> QED BY <1>3, <2>1 DEF InitOutput, Map
<1>4. CASE Register
  <2>1. [cfg |-> loop.cfg, own |-> loop.cfg, use |-> loop.cfg, seen |-> loop.seen,
         missed |-> {}, half |-> FALSE] \in Output /\ loop.name \in Outs
    BY <1>4, LoopFacts DEF Register, Output
  <2>2. Map(outs', Outs, Output)
    BY <1>4, <2>1 DEF Register, Map, Put
  <2>3. loop' \in LoopStates /\ inUse' \in [Procs -> SUBSET Outs]
    BY <1>4, <2>1 DEF Register, LoopStates, Track
  <2> QED BY <1>4, <2>2, <2>3 DEF Register, Map
<1>5. CASE Publish
  BY <1>5, LoopFacts DEF Publish, LoopStates, Map
<1>6. CASE UpdateOutput
  <2>1. loop' \in LoopStates
    BY <1>6, LoopFacts, UpdateOutputFacts DEF UpdateOutput, LoopStates
  <2> QED BY <1>6, <2>1, UpdateOutputFacts DEF UpdateOutput, Map
<1>7. CASE TrackOutput
  BY <1>7, LoopFacts DEF TrackOutput, LoopStates, Track, Untrack, Map
<1>8. CASE SetCfg
  <2>1. loop' \in LoopStates
    BY <1>8, LoopFacts DEF SetCfg, LoopStates
  <2>2. CASE loop.name \in DOMAIN outs
    <3> DEFINE n == [outs[loop.name] EXCEPT !.cfg = loop.cfg]
    <3>1. outs[loop.name] \in Output /\ loop.cfg \in Cfgs
      BY <1>8, <2>2, LoopFacts DEF SetCfg, Map
    <3>2. n \in Output
      BY <3>1 DEF Output
    <3> HIDE DEF n
    <3>3. outs' = [outs EXCEPT ![loop.name] = n]
      BY <1>8, <2>2 DEF SetCfg, n
    <3>4. Map(outs', Outs, Output)
      BY <2>2, <3>2, <3>3, OutputSet
    <3> QED BY <1>8, <2>1, <3>4 DEF SetCfg, Map
  <2>3. CASE loop.name \notin DOMAIN outs
    BY <1>8, <2>1, <2>3 DEF SetCfg, Map
  <2> QED BY <2>2, <2>3
<1>9. CASE UpdateProcessor
  <2>1. Tail(pq) \in Seq(ProcEvents)
    BY <1>9, HeadTailProperties DEF UpdateProcessor
  <2> QED BY <1>9, <2>1, UpdateProcessorFacts DEF UpdateProcessor, Map
<1>10. CASE PostOutput
  BY <1>10, SetOutputTypes DEF PostOutput, Map
<1>11. CASE DeleteOutputApi
  BY <1>11, DeleteOutputTypes DEF DeleteOutputApi
<1>12. CASE PostProcessor
  BY <1>12, SetProcTypes DEF PostProcessor, Map
<1>13. CASE CheckProcessor
  BY <1>13 DEF CheckProcessor, ApiStates, Map
<1>14. CASE DeleteProcessor
  <2>1. api' \in ApiStates /\ api'.pc = "idle"
    BY <1>14 DEF DeleteProcessor, ApiStates, Idle
  <2> QED BY <1>14, <2>1, ApiFacts, DelProcTypes DEF DeleteProcessor, DelProc, Map
<1>15. CASE ApplyBegin
  BY <1>15 DEF ApplyBegin, ApiStates, Map
<1>16. CASE ApplyDelOutput
  <2>1. api' \in ApiStates
    BY <1>16, ApiFacts DEF ApplyDelOutput, ApiStates
  <2> QED BY <1>16, <2>1, ApiFacts, DelOutputTypes DEF ApplyDelOutput, Map
<1>17. CASE ApplyDelProc
  <2>1. api' \in ApiStates
    BY <1>17, ApiFacts DEF ApplyDelProc, ApiStates
  <2> QED BY <1>17, <2>1, ApiFacts, DelProcTypes DEF ApplyDelProc, DelProc, Map
<1>18. CASE ApplySetProc
  <2>1. api' \in ApiStates
    BY <1>18, ApiFacts DEF ApplySetProc, ApiStates
  <2> QED BY <1>18, <2>1, ApiFacts, SetProcTypes DEF ApplySetProc, Map
<1>19. CASE ApplySetOutput
  <2>1. /\ api \in [pc : {"delOuts", "setOuts"}, req : Requests, todo : SUBSET Outs]
        /\ api.todo \subseteq DOMAIN api.req.outs /\ Map(api.req.outs, Outs, Cfgs)
    BY <1>19, ApiFacts DEF ApplySetOutput, Bodies
  <2>2. PICK o \in api.todo : SetOutput(o, api.req.outs[o]) /\ api' = [api EXCEPT !.todo = @ \ {o}]
    BY <1>19 DEF ApplySetOutput
  <2>3. api' \in ApiStates /\ api'.todo \subseteq DOMAIN api'.req.outs
    BY <2>1, <2>2 DEF ApiStates
  <2>4. o \in Outs /\ api.req.outs[o] \in Cfgs
    BY <2>1 DEF Map
  <2> QED BY <1>19, <2>2, <2>3, <2>4, SetOutputTypes DEF ApplySetOutput, Map
<1>20. CASE ApplyNext
  <2>1. CASE api.pc = "delOuts"
    BY <1>20, <2>1, ApiFacts DEF ApplyNext, ApiStates, Map
  <2>2. CASE api.pc = "delProcs"
    BY <1>20, <2>2, ApiFacts DEF ApplyNext, ApiStates, Bodies, Map
  <2>3. CASE api.pc = "setProcs"
    BY <1>20, <2>3, ApiFacts DEF ApplyNext, ApiStates, Bodies, Map
  <2>4. CASE api.pc = "setOuts"
    <3>1. api' = Idle
      BY <1>20, <2>4 DEF ApplyNext
    <3>2. api' \in ApiStates /\ api'.pc = "idle"
      BY <3>1 DEF ApiStates, Idle
    <3> QED BY <1>20, <3>2 DEF ApplyNext, Map
  <2> QED BY <1>20, <2>1, <2>2, <2>3, <2>4 DEF ApplyNext
<1>21. CASE UNCHANGED vars
  BY <1>21 DEF vars, Map
<1> QED BY <1>1, <1>2, <1>3, <1>4, <1>5, <1>6, <1>7, <1>8, <1>9, <1>10, <1>11, <1>12, <1>13,
           <1>14, <1>15, <1>16, <1>17, <1>18, <1>19, <1>20, <1>21 DEF Next, Loop, Api

\* The index: one step per action that changes the outputs, the index or the loop.
LEMMA TrackedStep ==
  ASSUME OutTypes, Tracked, [Next]_vars
  PROVE  Tracked'
<1> USE DEF OutTypes
<1>1. ASSUME NEW o \in Outs, NEW q, DeleteOutput(o, q), UNCHANGED loop
      PROVE  Tracked'
  <2>1. CASE inUse' = Untrack(inUse, o, outs[o].cfg) /\ outs' = Drop(outs, o)
    BY <1>1, <2>1 DEF Tracked, Untrack, Drop, Restrict, Map, Output, Cfgs
  <2>2. CASE UNCHANGED <<inUse, outs>>
    BY <1>1, <2>2 DEF Tracked
  <2> QED BY <1>1, <2>1, <2>2 DEF DeleteOutput
<1>2. CASE TakeDelete
  <2>1. Head(evq) \in OutEvents
    BY <1>2, HeadTailProperties DEF TakeDelete
  <2> QED BY <1>1, <1>2, <2>1 DEF TakeDelete, OutEvents
<1>3. CASE TakeEvent
  BY <1>3 DEF TakeEvent, Tracked, Idle
<1>4. CASE InitOutput
  BY <1>4, LoopFacts DEF InitOutput, Tracked, Idle
<1>5. CASE Register
  <2>1. /\ DOMAIN outs' = DOMAIN outs \cup {loop.name} /\ outs'[loop.name].use = loop.cfg
        /\ outs'[loop.name].own = loop.cfg
        /\ \A o \in DOMAIN outs : o # loop.name => outs'[o] = outs[o]
    BY <1>5 DEF Register, Put
  <2>2. \A p \in Procs : /\ p \in loop.cfg => inUse'[p] = inUse[p] \cup {loop.name}
                         /\ p \notin loop.cfg => inUse'[p] = inUse[p]
    BY <1>5 DEF Register, Track
  <2>3. loop.cfg \subseteq Procs /\ loop'.pc = "publish" /\ loop.pc = "register"
    BY <1>5, LoopFacts DEF Register, Cfgs
  <2>4. \A o \in DOMAIN outs : outs[o].use \subseteq Procs
    BY DEF Map, Output, Cfgs
  <2>5. \A o \in DOMAIN outs : ~outs[o].half =>
          outs[o].own = outs[o].use /\ \A p \in outs[o].use : o \in inUse[p]
    BY <2>3 DEF Tracked
  <2> QED BY <2>1, <2>2, <2>3, <2>4, <2>5 DEF Tracked
<1>6. CASE Publish
  BY <1>6, LoopFacts DEF Publish, Tracked, Idle
<1>7. CASE UpdateOutput
  <2>1. /\ DOMAIN outs' = DOMAIN outs /\ UNCHANGED inUse /\ loop.pc = "update"
        /\ \A o \in DOMAIN outs : o # loop.name => outs'[o] = outs[o]
    BY <1>7, UpdateOutputFacts DEF UpdateOutput
  <2>2. CASE loop' = Idle
    <3>1. \A o \in DOMAIN outs : outs'[o] = outs[o] \/ outs'[o].half
      BY <1>7, <2>2, UpdateOutputFacts
    <3> QED BY <2>1, <2>2, <3>1 DEF Tracked, Idle
  <2>3. CASE loop' = [loop EXCEPT !.pc = "track"] /\ loop' # Idle
    <3>1. loop'.pc = "track" /\ loop'.name = loop.name /\ loop'.cfg = loop.cfg
      BY <1>7, <2>3, LoopFacts DEF UpdateOutput
    <3>2. loop.name \in DOMAIN outs /\ ~outs'[loop.name].half =>
            outs'[loop.name].own = outs'[loop.name].use /\ outs'[loop.name].use = loop.cfg
      BY <1>7, <2>3, UpdateOutputFacts DEF Tracked
    <3> QED BY <2>1, <3>1, <3>2 DEF Tracked
  <2> QED BY <1>7, <2>2, <2>3, UpdateOutputFacts
<1>8. CASE TrackOutput
  <2>1. loop'.pc = "cfg" /\ loop'.name = loop.name /\ loop.cfg \subseteq Procs
    BY <1>8, LoopFacts DEF TrackOutput, Cfgs
  <2>2. \A p \in Procs : /\ p \in loop.cfg => loop.name \in inUse'[p]
                         /\ \A o \in inUse[p] : o # loop.name => o \in inUse'[p]
    BY <1>8 DEF TrackOutput, Track, Untrack
  <2> QED BY <1>8, <2>1, <2>2 DEF TrackOutput, Tracked, Map, Output, Cfgs
<1>9. CASE SetCfg
  <2>1. /\ DOMAIN outs' = DOMAIN outs
        /\ \A o \in DOMAIN outs : /\ outs'[o].use = outs[o].use /\ outs'[o].own = outs[o].own
                                  /\ outs'[o].half = outs[o].half
    BY <1>9 DEF SetCfg, Map, Output
  <2> QED BY <1>9, <2>1 DEF SetCfg, Tracked, Idle
<1>10. CASE UpdateProcessor
  <2>1. /\ DOMAIN outs' = DOMAIN outs
        /\ \A o \in DOMAIN outs : /\ outs'[o].own = outs[o].own /\ outs'[o].half = outs[o].half
                                  /\ ~outs[o].half => outs'[o].use = outs[o].use
    BY <1>10, UpdateProcessorFacts, ProcessorUpdatesFacts
  <2> QED BY <1>10, <2>1 DEF UpdateProcessor, Tracked
<1>11. CASE DeleteOutputApi
  BY <1>1, <1>11 DEF DeleteOutputApi
<1>12. CASE UNCHANGED <<outs, inUse, loop>>
  BY <1>12 DEF Tracked
<1> QED BY <1>2, <1>3, <1>4, <1>5, <1>6, <1>7, <1>8, <1>9, <1>10, <1>11, <1>12
        DEF Next, Loop, Api, vars, PostOutput, PostProcessor, CheckProcessor, DeleteProcessor,
            ApplyBegin, ApplyDelOutput, ApplyDelProc, ApplySetProc, ApplySetOutput, ApplyNext

\* Initially nothing is configured, run or waiting.
LEMMA OutInit ==
  ASSUME Init
  PROVE  /\ OutTypes /\ Tracked /\ DOMAIN conf = {} /\ DOMAIN outs = {} /\ Live = {}
         /\ Len(evq) = 0 /\ Len(pq) = 0 /\ loop.pc = "idle"
<1>1. evq \in Seq(OutEvents) /\ pq \in Seq(ProcEvents) /\ Len(evq) = 0 /\ Len(pq) = 0
      /\ DOMAIN conf = {} /\ DOMAIN outs = {}
  BY DEF Init
<1>2. loop \in LoopStates /\ api \in ApiStates /\ loop.pc = "idle" /\ api.pc = "idle"
  BY DEF Init, LoopStates, ApiStates, Idle
<1> QED BY <1>1, <1>2 DEF Init, OutTypes, Map, Versions, Tracked, Live

\* Whatever deletes, failed closes, failed updates and re-creations come between: the
\* index that guards the deletion of a processor names every output that runs it, but for
\* an Update that failed after it had installed other processors.
THEOREM UsedIsTrackedAlways ==
  ASSUME Bodies
  PROVE  Spec => []UsedIsTracked
<1>1. Init => OutTypes /\ Tracked
  BY OutInit
<1>2. OutTypes /\ Tracked /\ [Next]_vars => OutTypes' /\ Tracked'
  BY Bodies, OutTypesStep, TrackedStep
<1>3. OutTypes /\ Tracked => UsedIsTracked
  BY DEF Tracked, UsedIsTracked, Idle
<1> QED BY <1>1, <1>2, <1>3, PTL DEF Spec

\* Absent speaks of an output only, and a smaller S keeps it.
LEMMA AbsentShrinks ==
  ASSUME NEW q, NEW i, NEW n, NEW S, NEW T, i \in T => i \in S, Absent(q, i, n, S)
  PROVE  Absent(q, i, n, T)
BY DEF Absent

\* A write of the store: its event decides about the output it names.
LEMMA GoneSet ==
  ASSUME OutTypes, Gone, UNCHANGED stuck, NEW o \in Outs, NEW c \in Cfgs, SetOutput(o, c),
         Live' \subseteq Live
  PROVE  Gone'
<1> DEFINE e == [type |-> IF o \in DOMAIN conf THEN "update" ELSE "create", name |-> o, cfg |-> c]
<1>1. e \in OutEvents /\ evq \in Seq(OutEvents) /\ evq' = Append(evq, e) /\ e.name = o
  BY DEF OutTypes, OutEvents, SetOutput
<1>2. DOMAIN conf' = DOMAIN conf \cup {o}
  BY SetOutputTypes DEF OutTypes
<1> HIDE DEF e
<1>3. Len(evq') = Len(evq) + 1
  BY <1>1, AppendFacts
<1>4. ASSUME NEW x \in Outs \ stuck, x \notin DOMAIN conf'
      PROVE  Absent(evq', x, Len(evq'), Live')
  <2>1. x # e.name /\ Absent(evq, x, Len(evq), Live)
    BY <1>1, <1>2, <1>4 DEF Gone
  <2>2. Absent(evq', x, Len(evq'), Live)
    BY <1>1, <1>3, <2>1, AbsentAppend
  <2> QED BY <2>2, AbsentShrinks
<1> QED BY <1>4 DEF Gone

LEMMA GoneDel ==
  ASSUME OutTypes, NEW q \in Seq(OutEvents), NEW o \in Outs, DelOutput(o, q), stuck' = stuck,
         Live' \subseteq Live, 
         \A x \in Outs \ stuck : x \notin DOMAIN conf => Absent(q, x, Len(q), Live'),
         o \notin stuck /\ o \notin DOMAIN conf => Absent(q, o, Len(q), Live')
  PROVE  Gone'
<1> DEFINE e == [type |-> "delete", name |-> o]
<1>1. DOMAIN conf' = DOMAIN conf \ {o} /\ e \in OutEvents /\ e.name = o /\ e.type = "delete"
  BY DelOutputTypes DEF OutTypes, OutEvents
<1> HIDE DEF e
<1>2. CASE o \in DOMAIN conf
  <2>1. evq' = Append(q, e) /\ Len(evq') = Len(q) + 1
    BY <1>1, <1>2, AppendFacts DEF DelOutput, e
  <2>2. ASSUME NEW x \in Outs \ stuck, x \notin DOMAIN conf'
        PROVE  Absent(evq', x, Len(evq'), Live')
    <3>1. CASE x = o
      BY <1>1, <2>1, <3>1, AbsentAppend
    <3>2. CASE x # o
      BY <1>1, <2>1, <2>2, <3>2, AbsentAppend
    <3> QED BY <3>1, <3>2
  <2> QED BY <2>2 DEF Gone
<1>3. CASE o \notin DOMAIN conf
  BY <1>1, <1>3 DEF Gone, DelOutput
<1> QED BY <1>2, <1>3

\* DeleteOutput, by the handler (q the channel as it is) or by the loop (q its tail).
LEMMA GoneDelete ==
  ASSUME OutTypes, NEW q \in Seq(OutEvents), NEW o \in Outs, DeleteOutput(o, q), UNCHANGED loop,
         \A x \in Outs \ stuck' : x \notin DOMAIN conf => Absent(q, x, Len(q), Live')
  PROVE  Gone'
<1>1. CASE /\ o \in DOMAIN outs /\ outs' = Drop(outs, o) /\ state' = [state EXCEPT ![o] = "none"]
           /\ DelOutput(o, q) /\ UNCHANGED stuck
  <2>1. DOMAIN outs' \subseteq DOMAIN outs
    BY <1>1 DEF Drop, Restrict
  <2>2. Live' \subseteq Live
    BY <1>1, <2>1 DEF Live, OutTypes
  <2> QED BY <1>1, <2>2, GoneDel
<1>2. CASE evq' = q /\ UNCHANGED <<conf>>
  BY <1>2 DEF Gone
<1> QED BY <1>1, <1>2 DEF DeleteOutput

LEMMA GoneStep ==
  ASSUME Bodies, OutTypes, Gone, [Next]_vars
  PROVE  Gone'
<1> USE DEF OutTypes
<1>1. ASSUME UNCHANGED <<conf, evq, stuck>>, Live' \subseteq Live
      PROVE  Gone'
  BY <1>1, AbsentShrinks DEF Gone
<1>2. ASSUME NEW o \in Outs, NEW q, DeleteOutput(o, q), UNCHANGED loop
      PROVE  /\ Live' \subseteq Live \cup {o} /\ stuck \subseteq stuck'
             /\ o \in Live' => o \in stuck' \/ loop.pc \in {"init", "register", "publish"}
  <2>1. CASE outs' = Drop(outs, o) /\ state' = [state EXCEPT ![o] = "none"] /\ UNCHANGED stuck
    BY <1>2, <2>1 DEF Live, Drop, Restrict
  <2>2. CASE UNCHANGED outs /\ state' = [state EXCEPT ![o] = "stopping"] /\ stuck' = stuck \cup {o}
    BY <1>2, <2>2 DEF Live
  <2>3. CASE o \notin DOMAIN outs /\ UNCHANGED <<outs, stuck>> /\ state' = [state EXCEPT ![o] = "none"]
    BY <1>2, <2>3 DEF Live
  <2> QED BY <1>2, <2>1, <2>2, <2>3 DEF DeleteOutput
<1>3. ASSUME evq # <<>>, stuck \subseteq stuck',
             \A x \in Outs \ stuck' :
               /\ Head(evq).name # x => (x \in Live' => x \in Live)
               /\ Head(evq).name = x /\ Head(evq).type = "delete" => x \notin Live'
      PROVE  /\ Head(evq) \in OutEvents /\ Tail(evq) \in Seq(OutEvents)
             /\ \A x \in Outs \ stuck' : x \notin DOMAIN conf => Absent(Tail(evq), x, Len(Tail(evq)), Live')
  <2>1. /\ Head(evq) \in OutEvents /\ Tail(evq) \in Seq(OutEvents)
        /\ Len(Tail(evq)) = Len(evq) - 1 /\ Len(evq) \in 1 .. Len(evq)
    BY <1>3, HeadTailProperties, EmptySeq
  <2>2. ASSUME NEW x \in Outs \ stuck', x \notin DOMAIN conf
        PROVE  Absent(Tail(evq), x, Len(evq) - 1, Live')
    <3>1. Absent(evq, x, Len(evq), Live)
      BY <1>3, <2>2 DEF Gone
    <3> QED BY <1>3, <2>1, <2>2, <3>1, AbsentTail
  <2> QED BY <2>1, <2>2
<1>4. CASE TakeDelete
  <2>1. Head(evq) \in OutEvents /\ Tail(evq) \in Seq(OutEvents) /\ evq # <<>>
        /\ Head(evq).type = "delete" /\ UNCHANGED loop /\ loop.pc = "idle"
        /\ DeleteOutput(Head(evq).name, Tail(evq))
    BY <1>4, HeadTailProperties DEF TakeDelete, Idle
  <2>2. Head(evq).name \in Outs
    BY <2>1 DEF OutEvents
  <2>3. \A x \in Outs \ stuck' : x \notin DOMAIN conf => Absent(Tail(evq), x, Len(Tail(evq)), Live')
    <3>1. Live' \subseteq Live \cup {Head(evq).name} /\ stuck \subseteq stuck'
          /\ (Head(evq).name \in Live' => Head(evq).name \in stuck')
      BY <1>2, <2>1, <2>2
    <3> QED BY <1>3, <2>1, <3>1
  <2> QED BY <2>1, <2>2, <2>3, GoneDelete
<1>5. CASE TakeEvent
  <2>1. /\ evq # <<>> /\ Head(evq).type # "delete" /\ UNCHANGED <<conf, outs, state, stuck>>
        /\ evq' = Tail(evq)
    BY <1>5 DEF TakeEvent
  <2>2. \A x \in Outs : Head(evq).name # x => (x \in Live' => x \in Live)
    BY <1>5, <2>1 DEF TakeEvent, Live
  <2> QED BY <1>3, <2>1, <2>2 DEF Gone
<1>6. CASE InitOutput
  <2>1. Live' \subseteq Live
    BY <1>6, LoopFacts DEF InitOutput, Live, Idle
  <2> QED BY <1>1, <1>6, <2>1 DEF InitOutput
<1>7. CASE Register
  <2>1. DOMAIN outs' = DOMAIN outs \cup {loop.name}
    BY <1>7 DEF Register, Put
  <2>2. Live' \subseteq Live
    BY <1>7, <2>1, LoopFacts DEF Register, Live
  <2> QED BY <1>1, <1>7, <2>2 DEF Register
<1>8. CASE Publish
  <2>1. Live' \subseteq Live
    BY <1>8, LoopFacts DEF Publish, Live, Idle
  <2> QED BY <1>1, <1>8, <2>1 DEF Publish
<1>9. CASE UpdateOutput \/ TrackOutput \/ SetCfg \/ UpdateProcessor
  <2>1. DOMAIN outs' = DOMAIN outs
    BY <1>9, UpdateOutputFacts, UpdateProcessorFacts DEF TrackOutput, SetCfg
  <2>2. loop'.pc \notin {"init", "register", "publish"} /\ UNCHANGED <<conf, evq, stuck, state>>
    BY <1>9, LoopFacts, UpdateOutputFacts DEF UpdateOutput, TrackOutput, SetCfg, UpdateProcessor, Idle
  <2>3. Live' \subseteq Live
    BY <2>1, <2>2 DEF Live
  <2> QED BY <1>1, <2>2, <2>3
<1>10. CASE PostOutput
  <2>1. Live' \subseteq Live /\ UNCHANGED stuck
    BY <1>10 DEF PostOutput, Live
  <2> QED BY <1>10, <2>1, GoneSet DEF PostOutput
<1>11. CASE DeleteOutputApi
  <2>1. PICK o \in Outs : DeleteOutput(o, evq) /\ UNCHANGED loop
    BY <1>11 DEF DeleteOutputApi
  <2>2. \A x \in Outs \ stuck' : x \in Live' => x \in Live
    <3>1. CASE state' = [state EXCEPT ![o] = "none"]
      BY <2>1, <3>1 DEF DeleteOutput, Live, Drop, Restrict
    <3>2. CASE stuck' = stuck \cup {o}
      BY <1>2, <2>1, <3>2
    <3> QED BY <2>1, <3>1, <3>2 DEF DeleteOutput
  <2>3. \A x \in Outs \ stuck' : x \notin DOMAIN conf => Absent(evq, x, Len(evq), Live')
    BY <1>2, <2>1, <2>2, AbsentShrinks DEF Gone
  <2> QED BY <2>1, <2>3, GoneDelete
<1>12. CASE ApplyDelOutput
  <2>1. PICK o \in Outs : DelOutput(o, evq)
    BY <1>12, ApiFacts DEF ApplyDelOutput
  <2>2. Live' = Live /\ UNCHANGED stuck
    BY <1>12 DEF ApplyDelOutput, Live
  <2> QED BY <2>1, <2>2, GoneDel DEF Gone
<1>13. CASE ApplySetOutput
  <2>1. PICK o \in api.todo : SetOutput(o, api.req.outs[o])
    BY <1>13 DEF ApplySetOutput
  <2>2. o \in Outs /\ api.req.outs[o] \in Cfgs
    BY <1>13, ApiFacts DEF ApplySetOutput, Bodies, Map
  <2>3. Live' = Live /\ UNCHANGED stuck
    BY <1>13 DEF ApplySetOutput, Live
  <2> QED BY <2>1, <2>2, <2>3, GoneSet
<1>14. CASE UNCHANGED <<conf, evq, stuck, outs, state, loop>>
  BY <1>1, <1>14 DEF Live
<1> QED BY <1>4, <1>5, <1>6, <1>7, <1>8, <1>9, <1>10, <1>11, <1>12, <1>13, <1>14
        DEF Next, Loop, Api, vars, PostProcessor, CheckProcessor, DeleteProcessor,
            ApplyBegin, ApplyDelProc, ApplySetProc, ApplyNext

\* The versions: what is stored, what the events carry and what the outputs run.
UpToDate == Known /\ LastCurrent /\ SeenCurrent

\* A processor is written: its version moves on and an event follows, or it begins a new
\* generation that nothing has seen.
LEMMA UpToDateSet ==
  ASSUME OutTypes, UpToDate, NEW p \in Procs, SetProc(p), UNCHANGED <<outs, loop>>
  PROVE  UpToDate'
<1>1. /\ proc \in [Procs -> Versions] /\ pq \in Seq(ProcEvents) /\ Len(pq) \in Nat
      /\ \A x \in Procs : proc[x][1] \in Nat /\ proc[x][2] \in Nat
      /\ \A x \in Procs : x # p => proc'[x] = proc[x]
  <2>1. \A x \in Procs : proc[x] \in Versions
    BY DEF OutTypes
  <2>2. \A x \in Procs : proc[x][1] \in Nat /\ proc[x][2] \in Nat
    BY <2>1 DEF Versions
  <2>3. proc \in [Procs -> Versions] /\ pq \in Seq(ProcEvents)
    BY DEF OutTypes
  <2>4. \A x \in Procs : x # p => proc'[x] = proc[x]
    BY <2>3, SetProcTypes
  <2> QED BY <2>2, <2>3, <2>4
<1>2. \A k \in 1 .. Len(pq) : pq[k][1] \in Procs /\ pq[k][2] \in Versions /\ pq[k][2][1] \in Nat
  BY <1>1 DEF ProcEvents, Versions
<1>3. /\ \A o \in DOMAIN outs : \A x \in Procs : outs[o].seen[x][1] \in Nat
      /\ loop.pc = "register" => \A x \in Procs : loop.seen[x][1] \in Nat
  BY LoopFacts DEF OutTypes, Map, Output, Versions
<1>4. CASE Present(p)
  <2>1. /\ proc'[p] = <<proc[p][1], proc[p][2] + 1>>
        /\ pq' = Append(pq, <<p, proc'[p]>>) /\ <<p, proc'[p]>> \in ProcEvents
    BY <1>1, <1>4, SetProcTypes
  <2>2. /\ Len(pq') = Len(pq) + 1 /\ \A k \in 1 .. Len(pq) : pq'[k] = pq[k]
        /\ pq'[Len(pq')] = <<p, proc'[p]>>
    BY <1>1, <2>1, AppendFacts
  <2>3. \A x \in Procs : proc'[x][1] = proc[x][1]
    <3>1. proc'[p][1] = proc[p][1]
      BY <2>1
    <3> QED BY <1>1, <3>1
  <2>4. Known'
    <3>1. \A k \in 1 .. Len(pq') : pq'[k][2][1] <= proc'[pq'[k][1]][1]
      <4>1. ASSUME NEW k \in 1 .. Len(pq) PROVE pq'[k][2][1] <= proc'[pq'[k][1]][1]
        BY <1>2, <2>2, <2>3 DEF UpToDate, Known
      <4>2. pq'[Len(pq')][2][1] <= proc'[pq'[Len(pq')][1]][1]
        BY <1>1, <2>2, <2>3
      <4> QED BY <1>1, <2>2, <4>1, <4>2
    <3> QED BY <2>3, <3>1 DEF UpToDate, Known
  <2>5. LastCurrent'
    <3>1. SUFFICES ASSUME NEW k \in 1 .. Len(pq'),
                          \A j \in k + 1 .. Len(pq') : pq'[j][1] # pq'[k][1]
                   PROVE  Current(pq[k][2], pq[k][1])'
      BY DEF LastCurrent
    <3>2. CASE k = Len(pq')
      BY <2>2, <3>2 DEF Current
    <3>3. CASE k \in 1 .. Len(pq)
      <4>1. pq[k][1] # p /\ \A j \in k + 1 .. Len(pq) : pq[j][1] # pq[k][1]
        <5>1. pq'[Len(pq')][1] # pq'[k][1] /\ pq'[Len(pq')][1] = p /\ pq'[k] = pq[k]
          BY <1>1, <2>2, <3>1, <3>3
        <5>2. ASSUME NEW j \in k + 1 .. Len(pq) PROVE pq[j][1] # pq[k][1]
          <6>1. j \in 1 .. Len(pq) /\ j \in k + 1 .. Len(pq')
            BY <1>1, <2>2, <3>3
          <6> QED BY <2>2, <3>1, <5>1, <6>1
        <5> QED BY <5>1, <5>2
      <4>2. Current(pq[k][2], pq[k][1])
        BY <3>3, <4>1 DEF UpToDate, LastCurrent
      <4> QED BY <1>1, <1>2, <2>2, <3>3, <4>1, <4>2 DEF Current, Present
    <3> QED BY <1>1, <2>2, <3>2, <3>3
  <2>6. SeenCurrent'
    <3>1. ASSUME NEW x \in Procs, Quiet(x)' PROVE x # p /\ Quiet(x)
      BY <1>1, <2>2, <3>1 DEF Quiet
    <3> QED BY <1>1, <3>1 DEF UpToDate, SeenCurrent, Current, Present, Runs
  <2> QED BY <2>4, <2>5, <2>6 DEF UpToDate
<1>5. CASE ~Present(p)
  <2>1. proc'[p] = <<proc[p][1] + 1, 1>> /\ pq' = pq
    BY <1>1, <1>5, SetProcTypes
  <2>2. \A x \in Procs : proc'[x][1] \in Nat /\ proc[x][1] <= proc'[x][1]
    BY <1>1, <2>1
  <2>3. Known'
    <3>1. ASSUME NEW x \in Procs, NEW g \in Nat, g <= proc[x][1] PROVE g <= proc'[x][1]
      BY <1>1, <2>2, <3>1
    <3>2. \A k \in 1 .. Len(pq) : pq[k][2][1] <= proc'[pq[k][1]][1]
      BY <1>2, <3>1 DEF UpToDate, Known
    <3>3. \A o \in DOMAIN outs : \A x \in Procs : outs[o].seen[x][1] <= proc'[x][1]
      BY <1>3, <3>1 DEF UpToDate, Known
    <3>4. loop.pc = "register" => \A x \in Procs : loop.seen[x][1] <= proc'[x][1]
      BY <1>3, <3>1 DEF UpToDate, Known
    <3> QED BY <2>1, <3>2, <3>3, <3>4 DEF Known
  <2>4. ASSUME NEW x \in Procs, NEW v, v[1] \in Nat, v[1] <= proc[x][1], Current(v, x)
        PROVE  Current(v, x)'
    <3>1. CASE x = p
      BY <1>1, <2>1, <2>4, <3>1 DEF Current
    <3>2. CASE x # p
      BY <1>1, <2>4, <3>2 DEF Current, Present
    <3> QED BY <3>1, <3>2
  <2>5. LastCurrent'
    <3>1. SUFFICES ASSUME NEW k \in 1 .. Len(pq),
                          \A j \in k + 1 .. Len(pq) : pq[j][1] # pq[k][1]
                   PROVE  Current(pq[k][2], pq[k][1])'
      BY <2>1 DEF LastCurrent
    <3>2. Current(pq[k][2], pq[k][1])
      BY <3>1 DEF UpToDate, LastCurrent
    <3>3. pq[k][2][1] <= proc[pq[k][1]][1] /\ pq[k][1] \in Procs /\ pq[k][2][1] \in Nat
      BY <1>2 DEF UpToDate, Known
    <3> QED BY <2>1, <2>4, <3>2, <3>3
  <2>6. SeenCurrent'
    <3>1. SUFFICES ASSUME NEW x \in Procs, Quiet(x)
                   PROVE  /\ \A o \in DOMAIN outs : x \in Runs(o) => Current(outs[o].seen[x], x)'
                          /\ loop.pc = "register" => Current(loop.seen[x], x)'
      BY <2>1 DEF SeenCurrent, Quiet, Runs
    <3>2. ASSUME NEW o \in DOMAIN outs, x \in Runs(o) PROVE Current(outs[o].seen[x], x)'
      BY <1>3, <2>4, <3>1, <3>2 DEF UpToDate, Known, SeenCurrent
    <3>3. ASSUME loop.pc = "register" PROVE Current(loop.seen[x], x)'
      BY <1>3, <2>4, <3>1, <3>3 DEF UpToDate, Known, SeenCurrent
    <3> QED BY <3>2, <3>3
  <2> QED BY <2>3, <2>5, <2>6 DEF UpToDate
<1> QED BY <1>4, <1>5

\* A processor is deleted: there is no version of it to be behind of.
LEMMA UpToDateDel ==
  ASSUME OutTypes, UpToDate, NEW p \in Procs, DelProc(p), UNCHANGED <<outs, loop>>
  PROVE  UpToDate'
<1>1. /\ proc \in [Procs -> Versions] /\ proc'[p] = <<proc[p][1], 0>> /\ pq' = pq
      /\ \A x \in Procs : x # p => proc'[x] = proc[x]
  BY DelProcTypes DEF OutTypes, DelProc
<1>2. \A x \in Procs : proc'[x][1] = proc[x][1]
  BY <1>1
<1>3. \A k \in 1 .. Len(pq) : pq[k][1] \in Procs
  BY DEF OutTypes, ProcEvents
<1>4. ASSUME NEW x \in Procs, NEW v, Current(v, x) PROVE Current(v, x)'
  BY <1>1, <1>4 DEF Current, Present
<1>5. Known'
  BY <1>1, <1>2, <1>3 DEF UpToDate, Known
<1>6. LastCurrent'
  BY <1>1, <1>3, <1>4 DEF UpToDate, LastCurrent
<1>7. SeenCurrent'
  BY <1>1, <1>4 DEF UpToDate, SeenCurrent, Quiet, Runs
<1> QED BY <1>5, <1>6, <1>7 DEF UpToDate

\* An event is handled: the outputs that run its processor take the version it carries.
LEMMA UpToDateEvent ==
  ASSUME OutTypes, Tracked, UpToDate, UpdateProcessor
  PROVE  UpToDate'
<1> DEFINE p == Head(pq)[1]
           v == Head(pq)[2]
<1>1. /\ pq # <<>> /\ pq \in Seq(ProcEvents) /\ pq' = Tail(pq) /\ UNCHANGED <<proc, loop>>
      /\ loop.pc = "idle"
  BY DEF UpdateProcessor, OutTypes, Idle
<1>2. /\ Len(pq) \in Nat /\ Len(pq) >= 1 /\ Len(pq') = Len(pq) - 1 /\ Head(pq) = pq[1]
      /\ \A k \in 1 .. Len(pq') : pq'[k] = pq[k + 1] /\ k + 1 \in 1 .. Len(pq)
  BY <1>1, HeadTailProperties, EmptySeq
<1>3. p \in Procs /\ v \in Versions /\ v[1] <= proc[p][1]
  BY <1>1, <1>2 DEF ProcEvents, UpToDate, Known
<1>4. /\ DOMAIN outs' = DOMAIN outs
      /\ \A o \in DOMAIN outs, x \in Procs :
           /\ outs'[o].seen[x] = outs[o].seen[x] \/ (x = p /\ outs'[o].seen[x] = v)
           /\ x \in Runs(o)' => IF x = p THEN outs'[o].seen[x] = v
                                ELSE x \in Runs(o) /\ outs'[o].seen[x] = outs[o].seen[x]
  <2>1. DOMAIN outs' = DOMAIN outs
    BY UpdateProcessorFacts
  <2>2. ASSUME NEW o \in DOMAIN outs, NEW x \in Procs
        PROVE  /\ outs'[o].seen[x] = outs[o].seen[x] \/ (x = p /\ outs'[o].seen[x] = v)
               /\ x \in Runs(o)' => IF x = p THEN outs'[o].seen[x] = v
                                    ELSE x \in Runs(o) /\ outs'[o].seen[x] = outs[o].seen[x]
    <3>1. outs[o] \in Output /\ outs'[o] \in ProcessorUpdates(outs[o], p, v)
      BY UpdateProcessorFacts
    <3> HIDE DEF p, v
    <3>2. /\ outs'[o].half = outs[o].half /\ (~outs[o].half => outs'[o].use = outs[o].use)
          /\ x # p => outs'[o].seen[x] = outs[o].seen[x] /\ (x \in outs'[o].missed <=> x \in outs[o].missed)
          /\ outs'[o].seen[p] = outs[o].seen[p] \/ outs'[o].seen[p] = v
          /\ p \in outs[o].own => p \in outs'[o].missed \/ outs'[o].seen[p] = v
      BY <1>3, <3>1, ProcessorUpdatesFacts
    <3> QED BY <3>2 DEF Tracked, Runs
  <2> QED BY <2>1, <2>2
<1> HIDE DEF p, v
<1>5. Known'
  <2>1. \A k \in 1 .. Len(pq') : pq'[k][2][1] <= proc[pq'[k][1]][1]
    BY <1>2 DEF UpToDate, Known
  <2>2. \A o \in DOMAIN outs' : \A x \in Procs : outs'[o].seen[x][1] <= proc[x][1]
    BY <1>3, <1>4 DEF UpToDate, Known
  <2> QED BY <1>1, <2>1, <2>2 DEF Known
<1>6. LastCurrent'
  <2>1. SUFFICES ASSUME NEW k \in 1 .. Len(pq'),
                        \A j \in k + 1 .. Len(pq') : pq'[j][1] # pq'[k][1]
                 PROVE  Current(pq'[k][2], pq'[k][1])
    BY <1>1 DEF LastCurrent, Current, Present
  <2>2. ASSUME NEW j \in k + 2 .. Len(pq) PROVE pq[j][1] # pq[k + 1][1]
    <3>1. j - 1 \in k + 1 .. Len(pq') /\ j - 1 \in 1 .. Len(pq') /\ (j - 1) + 1 = j
      BY <1>2
    <3> QED BY <1>2, <2>1, <3>1
  <2> QED BY <1>2, <2>1, <2>2 DEF UpToDate, LastCurrent
<1>7. SeenCurrent'
  <2>1. SUFFICES ASSUME NEW x \in Procs, Quiet(x)', NEW o \in DOMAIN outs, x \in Runs(o)'
                 PROVE  Current(outs'[o].seen[x], x)
    BY <1>1, <1>4 DEF SeenCurrent, Current, Present
  <2>2. \A j \in 2 .. Len(pq) : pq[j][1] # x
    <3>1. ASSUME NEW j \in 2 .. Len(pq) PROVE pq[j][1] # x
      <4>1. j - 1 \in 1 .. Len(pq') /\ (j - 1) + 1 = j
        BY <1>2
      <4> QED BY <1>2, <2>1, <4>1 DEF Quiet
    <3> QED BY <3>1
  <2>3. CASE x = p
    BY <1>2, <1>4, <2>1, <2>2, <2>3 DEF UpToDate, LastCurrent, p, v
  <2>4. CASE x # p
    <3>1. Quiet(x)
      BY <1>2, <2>2, <2>4 DEF Quiet, p
    <3> QED BY <1>4, <2>1, <2>4, <3>1 DEF UpToDate, SeenCurrent
  <2> QED BY <2>3, <2>4
<1> QED BY <1>5, <1>6, <1>7 DEF UpToDate

\* What is run changes, the processors and their events do not: it is enough that each
\* version run was run before, was in hand, or is the one that is stored.
LEMMA UpToDateRun ==
  ASSUME OutTypes, UpToDate, UNCHANGED <<proc, pq>>, DOMAIN outs' \subseteq Outs,
         \A o \in DOMAIN outs' : \A x \in Procs :
           \/ o \in DOMAIN outs /\ outs'[o].seen[x] = outs[o].seen[x]
              /\ (x \in Runs(o)' => x \in Runs(o))
           \/ loop.pc = "register" /\ outs'[o].seen[x] = loop.seen[x]
           \/ outs'[o].seen[x] = proc[x],
         loop'.pc = "register" => loop'.seen = proc \/ loop' = loop
  PROVE  UpToDate'
<1>1. \A x \in Procs : proc[x][1] \in Nat
  <2>1. \A x \in Procs : proc[x] \in Versions
    BY DEF OutTypes
  <2> QED BY <2>1 DEF Versions
<1>2. Known'
  <2>1. ASSUME NEW o \in DOMAIN outs', NEW x \in Procs PROVE outs'[o].seen[x][1] <= proc[x][1]
    BY <1>1 DEF UpToDate, Known
  <2>2. ASSUME loop'.pc = "register", NEW x \in Procs PROVE loop'.seen[x][1] <= proc[x][1]
    BY <1>1, <2>2 DEF UpToDate, Known
  <2> QED BY <2>1, <2>2 DEF UpToDate, Known
<1>3. LastCurrent'
  BY DEF UpToDate, LastCurrent, Current, Present
<1>4. SeenCurrent'
  <2>1. SUFFICES ASSUME NEW x \in Procs, Quiet(x)
                 PROVE  /\ \A o \in DOMAIN outs' : x \in Runs(o)' => Current(outs'[o].seen[x], x)
                        /\ loop'.pc = "register" => Current(loop'.seen[x], x)
    BY DEF SeenCurrent, Quiet, Current, Present
  <2>2. ASSUME NEW o \in DOMAIN outs', x \in Runs(o)' PROVE Current(outs'[o].seen[x], x)
    <3>1. Current(proc[x], x)
      BY DEF Current
    <3> QED BY <2>1, <2>2, <3>1 DEF UpToDate, SeenCurrent
  <2>3. ASSUME loop'.pc = "register" PROVE Current(loop'.seen[x], x)
    <3>1. Current(proc[x], x)
      BY DEF Current
    <3> QED BY <2>1, <2>3, <3>1 DEF UpToDate, SeenCurrent
  <2> QED BY <2>2, <2>3
<1> QED BY <1>2, <1>3, <1>4 DEF UpToDate

LEMMA UpToDateStep ==
  ASSUME Bodies, OutTypes, Tracked, UpToDate, [Next]_vars
  PROVE  UpToDate'
<1>1. DOMAIN outs' \subseteq Outs /\ DOMAIN outs \subseteq Outs
  BY Bodies, OutTypesStep DEF OutTypes, Map
<1>2. \A o \in DOMAIN outs : outs[o] \in Output
  BY DEF OutTypes, Map
<1>3. ASSUME NEW o, NEW q, DeleteOutput(o, q), UNCHANGED <<proc, pq, loop>>
      PROVE  UpToDate'
  <2>1. DOMAIN outs' \subseteq DOMAIN outs /\ \A x \in DOMAIN outs' : outs'[x] = outs[x]
    BY <1>3 DEF DeleteOutput, Drop, Restrict
  <2> QED BY <1>1, <1>3, <2>1, UpToDateRun DEF Runs
<1>4. CASE TakeDelete \/ DeleteOutputApi
  BY <1>3, <1>4 DEF TakeDelete, DeleteOutputApi
<1>5. CASE TakeEvent
  BY <1>1, <1>5, UpToDateRun DEF Runs, TakeEvent
<1>6. CASE InitOutput
  <2>1. loop'.pc = "register" => loop'.seen = proc
    BY <1>6 DEF InitOutput, Idle
  <2> QED BY <1>1, <1>6, <2>1, UpToDateRun DEF Runs, InitOutput
<1>7. CASE Register
  <2>1. /\ DOMAIN outs' = DOMAIN outs \cup {loop.name} /\ outs'[loop.name].seen = loop.seen
        /\ \A o \in DOMAIN outs : o # loop.name => outs'[o] = outs[o]
    BY <1>7 DEF Register, Put
  <2>2. loop'.pc = "publish" /\ loop.pc = "register" /\ UNCHANGED <<proc, pq>>
    BY <1>7 DEF Register
  <2> QED BY <1>1, <2>1, <2>2, UpToDateRun DEF Runs
<1>8. CASE Publish
  BY <1>1, <1>8, UpToDateRun DEF Runs, Publish, Idle
<1>9. CASE UpdateOutput
  <2>1. \A o \in DOMAIN outs' : o \in DOMAIN outs /\ (outs'[o] = outs[o] \/ outs'[o].seen = proc)
    BY <1>9, UpdateOutputFacts
  <2>2. UNCHANGED <<proc, pq>> /\ loop'.pc # "register"
    BY <1>9, LoopFacts, UpdateOutputFacts DEF UpdateOutput, Idle, OutTypes
  <2> QED BY <1>1, <2>1, <2>2, UpToDateRun DEF Runs
<1>10. CASE TrackOutput
  <2>1. UNCHANGED <<proc, pq, outs>> /\ loop'.pc # "register"
    BY <1>10, LoopFacts DEF TrackOutput, OutTypes
  <2> QED BY <1>1, <2>1, UpToDateRun DEF Runs
<1>11. CASE SetCfg
  <2>1. DOMAIN outs' = DOMAIN outs
        /\ \A o \in DOMAIN outs : /\ outs'[o].use = outs[o].use /\ outs'[o].seen = outs[o].seen
                                  /\ outs'[o].half = outs[o].half /\ outs'[o].missed = outs[o].missed
    BY <1>2, <1>11 DEF SetCfg, Output
  <2>2. UNCHANGED <<proc, pq>> /\ loop'.pc # "register"
    BY <1>11 DEF SetCfg, Idle
  <2> QED BY <1>1, <2>1, <2>2, UpToDateRun DEF Runs
<1>12. CASE UpdateProcessor
  BY <1>12, UpToDateEvent
<1>13. CASE PostProcessor \/ ApplySetProc
  <2>1. UNCHANGED <<outs, loop>> /\ \E p \in Procs : SetProc(p)
    BY <1>13, ApiFacts DEF PostProcessor, ApplySetProc, OutTypes
  <2> QED BY <2>1, UpToDateSet
<1>14. CASE DeleteProcessor \/ ApplyDelProc
  <2>1. UNCHANGED <<outs, loop>> /\ \E p \in Procs : DelProc(p)
    BY <1>14, ApiFacts DEF DeleteProcessor, ApplyDelProc, OutTypes
  <2> QED BY <2>1, UpToDateDel
<1>15. CASE UNCHANGED <<outs, loop, proc, pq>>
  BY <1>1, <1>15, UpToDateRun DEF Runs
<1> QED BY <1>4, <1>5, <1>6, <1>7, <1>8, <1>9, <1>10, <1>11, <1>12, <1>13, <1>14, <1>15
        DEF Next, Loop, Api, vars, PostOutput, CheckProcessor, ApplyBegin, ApplyDelOutput,
            ApplySetOutput, ApplyNext

\* Once the events are handled, an output that is not configured is neither run nor
\* reported (also when a DELETE met its creation half way), and every output runs the
\* stored version of each of its processors that was not created anew since and could be
\* built, but for an output whose Update failed half way.
THEOREM OutputsSettleAlways ==
  ASSUME Bodies
  PROVE  Spec => []OutputsSettle
<1> DEFINE Inv == OutTypes /\ Tracked /\ Gone /\ UpToDate
<1>1. Init => Inv
  <2>1. ASSUME Init PROVE Gone
    BY <2>1, OutInit DEF Gone, Absent, Silent
  <2>2. ASSUME Init PROVE UpToDate
    BY <2>2, OutInit DEF UpToDate, Known, LastCurrent, SeenCurrent
  <2> QED BY <2>1, <2>2, OutInit
<1>2. Inv /\ [Next]_vars => Inv'
  BY Bodies, OutTypesStep, TrackedStep, GoneStep, UpToDateStep
<1>3. Inv => OutputsSettle
  <2> SUFFICES ASSUME Inv, Settled PROVE ProcessorsCurrent /\ RemovedIsGone
    BY DEF OutputsSettle, ProcessorsCurrent, RemovedIsGone
  <2>1. Len(evq) = 0 /\ Len(pq) = 0
    BY DEF Settled
  <2>2. RemovedIsGone
    <3>1. \A o \in Outs \ stuck : o \notin DOMAIN conf => o \notin Live
      BY <2>1 DEF Gone, Absent, Deleted
    <3> QED BY <3>1 DEF RemovedIsGone, Live
  <2>3. ProcessorsCurrent
    <3>1. \A p \in Procs : Quiet(p)
      BY <2>1 DEF Quiet
    <3>2. \A o \in DOMAIN outs : outs[o].use \subseteq Procs
      BY DEF OutTypes, Map, Output, Cfgs
    <3> QED BY <3>1, <3>2 DEF ProcessorsCurrent, UpToDate, SeenCurrent, Current, Runs
  <2> QED BY <2>2, <2>3
<1> QED BY <1>1, <1>2, <1>3, PTL DEF Spec

-----------------------------------------------------------------------------
(* Inputs. *)

CONSTANT Ins
VARIABLES ins, open
In == INSTANCE InputsManager

InEvents == [type : {"create", "update"}, name : Ins, cfg : Cfgs]
            \cup [type : {"delete"}, name : Ins]

InTypes ==
  /\ Map(conf, Ins, Cfgs) /\ Map(ins, Ins, Cfgs)
  /\ evq \in Seq(InEvents)
  /\ inUse \in [Procs -> SUBSET Ins] /\ open \in [Ins -> Int] /\ stuck \in SUBSET Ins

\* What a create announces, and what is not configured, is not there once the events
\* before it are handled.
CreatedOnce ==
  \A i \in Ins \ stuck : \A n \in 1 .. Len(evq) :
    evq[n].type = "create" /\ evq[n].name = i => Absent(evq, i, n - 1, DOMAIN ins)
Dropped ==
  \A i \in Ins \ stuck : i \notin DOMAIN conf => Absent(evq, i, Len(evq), DOMAIN ins)
InInv == InTypes /\ CreatedOnce /\ Dropped /\ In!InputsTracked

\* The effect of one event on what runs, on the index and on the config.
LEMMA InHandled ==
  ASSUME InTypes, CreatedOnce, In!InputsTracked, evq # <<>>, In!HandleEvent
  PROVE  /\ Map(conf', Ins, Cfgs) /\ Map(ins', Ins, Cfgs)
         /\ inUse' \in [Procs -> SUBSET Ins] /\ open' \in [Ins -> Int]
         /\ stuck' \in SUBSET Ins /\ stuck \subseteq stuck'
         /\ In!InputsTracked'
         /\ \A i \in Ins : Head(evq).name # i =>
              (i \in DOMAIN ins' <=> i \in DOMAIN ins) /\ (i \in DOMAIN conf' <=> i \in DOMAIN conf)
         /\ \A i \in Ins \ stuck' :
              Head(evq).name = i /\ Head(evq).type = "delete" => i \notin DOMAIN ins'
         /\ DOMAIN conf' \subseteq DOMAIN conf
<1> DEFINE e == Head(evq)
<1>1. /\ e \in InEvents /\ e = evq[1] /\ Len(evq) \in Nat /\ 1 \in 1 .. Len(evq)
  BY HeadTailProperties DEF InTypes
<1>2. e.name \in Ins /\ (e.type # "delete" => e.cfg \in Cfgs)
  BY <1>1 DEF InEvents
<1>3. ASSUME e.type = "create", e.name \notin stuck PROVE e.name \notin DOMAIN ins
  BY <1>1, <1>2, <1>3 DEF CreatedOnce, Absent, Deleted, Silent
<1>4. ASSUME e.type # "delete", In!CreateInput(e.name, e.cfg),
             e.name \notin stuck => e.name \notin DOMAIN ins
      PROVE  /\ Map(ins', Ins, Cfgs) /\ inUse' \in [Procs -> SUBSET Ins]
             /\ open' \in [Ins -> Int] /\ UNCHANGED <<conf, stuck>> /\ In!InputsTracked'
             /\ \A i \in Ins : e.name # i => (i \in DOMAIN ins' <=> i \in DOMAIN ins)
  <2>1. CASE UNCHANGED <<inUse, ins, open, conf, stuck>>
    BY <2>1 DEF InTypes, In!InputsTracked, In!NoLostInput, In!IndexExact
  <2>2. CASE /\ inUse' = In!Track(inUse, e.name, e.cfg) /\ ins' = In!Put(ins, e.name, e.cfg)
             /\ open' = [open EXCEPT ![e.name] = @ + 1] /\ UNCHANGED <<conf, stuck>>
    <3>1. /\ Map(ins', Ins, Cfgs) /\ DOMAIN ins' = DOMAIN ins \cup {e.name}
          /\ ins'[e.name] = e.cfg /\ \A x \in DOMAIN ins : x # e.name => ins'[x] = ins[x]
      <4>1. Map(ins, Ins, Cfgs) /\ e.name \in Ins /\ e.cfg \in Cfgs
        BY <1>2, <1>4 DEF InTypes
      <4> QED BY <4>1, <2>2 DEF Map, In!Put
    <3>2. In!NoLostInput'
      BY <1>2, <1>4, <2>2, <3>1 DEF InTypes, In!InputsTracked, In!NoLostInput
    <3>3. In!IndexExact'
      BY <1>2, <1>4, <2>2, <3>1 DEF InTypes, In!InputsTracked, In!IndexExact, In!Track
    <3>4. inUse' \in [Procs -> SUBSET Ins] /\ open' \in [Ins -> Int]
      BY <1>2, <2>2 DEF InTypes, In!Track
    <3> QED BY <2>2, <3>1, <3>2, <3>3, <3>4 DEF In!InputsTracked
  <2> QED BY <1>4, <2>1, <2>2 DEF In!CreateInput
<1>5. CASE e.type = "create" /\ In!CreateInput(e.name, e.cfg)
  BY <1>2, <1>3, <1>4, <1>5 DEF InTypes
<1>6. CASE e.type = "update" /\ In!UpdateInput(e.name, e.cfg)
  <2>1. CASE e.name \notin DOMAIN ins
    BY <1>2, <1>4, <1>6, <2>1 DEF InTypes, In!UpdateInput
  <2>2. CASE e.name \in DOMAIN ins /\ UNCHANGED <<inUse, ins, conf, state, open, stuck>>
    BY <1>6, <2>2 DEF InTypes, In!InputsTracked, In!NoLostInput, In!IndexExact
  <2>3. CASE /\ e.name \in DOMAIN ins
             /\ inUse' = In!Track(In!Untrack(inUse, e.name, ins[e.name]), e.name, e.cfg)
             /\ ins' = [ins EXCEPT ![e.name] = e.cfg]
             /\ UNCHANGED <<conf, state, open, stuck>>
    <3>1. /\ Map(ins', Ins, Cfgs) /\ DOMAIN ins' = DOMAIN ins
          /\ ins'[e.name] = e.cfg /\ \A x \in DOMAIN ins : x # e.name => ins'[x] = ins[x]
      BY <1>2, <1>6, <2>3 DEF InTypes, Map
    <3>2. In!NoLostInput'
      BY <2>3, <3>1 DEF In!InputsTracked, In!NoLostInput
    <3>3. In!IndexExact'
      BY <1>2, <1>6, <2>3, <3>1 DEF InTypes, In!InputsTracked, In!IndexExact, In!Track, In!Untrack
    <3>4. inUse' \in [Procs -> SUBSET Ins]
      BY <1>2, <2>3 DEF InTypes, In!Track, In!Untrack
    <3> QED BY <1>6, <2>3, <3>1, <3>2, <3>3, <3>4 DEF InTypes, In!InputsTracked
  <2> QED BY <1>6, <2>1, <2>2, <2>3 DEF In!UpdateInput
<1>7. CASE e.type = "delete" /\ In!DeleteInput(e.name)
  <2>1. CASE /\ e.name \in DOMAIN ins /\ UNCHANGED <<inUse, ins, open, conf>>
             /\ stuck' = stuck \cup {e.name}
    BY <1>2, <2>1 DEF InTypes, In!InputsTracked, In!NoLostInput, In!IndexExact
  <2>2. CASE e.name \notin DOMAIN ins /\ UNCHANGED <<inUse, ins, open, conf, stuck>>
    BY <1>2, <2>2 DEF InTypes, In!InputsTracked, In!NoLostInput, In!IndexExact
  <2>3. CASE /\ e.name \in DOMAIN ins /\ inUse' = In!Untrack(inUse, e.name, ins[e.name])
             /\ ins' = In!Drop(ins, e.name) /\ open' = [open EXCEPT ![e.name] = @ - 1]
             /\ conf' = In!Drop(conf, e.name) /\ UNCHANGED stuck
    <3>1. /\ Map(ins', Ins, Cfgs) /\ DOMAIN ins' = DOMAIN ins \ {e.name}
          /\ \A x \in DOMAIN ins \ {e.name} : ins'[x] = ins[x]
          /\ Map(conf', Ins, Cfgs) /\ DOMAIN conf' = DOMAIN conf \ {e.name}
      BY <1>2, <2>3 DEF InTypes, Map, In!Drop, In!Restrict
    <3>2. In!NoLostInput'
      BY <1>2, <2>3, <3>1 DEF InTypes, In!InputsTracked, In!NoLostInput
    <3>3. In!IndexExact'
      BY <1>2, <2>3, <3>1 DEF InTypes, In!InputsTracked, In!IndexExact, In!Untrack
    <3>4. inUse' \in [Procs -> SUBSET Ins] /\ open' \in [Ins -> Int]
      BY <1>2, <2>3 DEF InTypes, In!Untrack
    <3> QED BY <2>3, <3>1, <3>2, <3>3, <3>4 DEF InTypes, In!InputsTracked
  <2> QED BY <1>7, <2>1, <2>2, <2>3 DEF In!DeleteInput
<1> QED BY <1>5, <1>6, <1>7 DEF In!HandleEvent

\* The first event is handled, and the store may append one that deletes it.
LEMMA InQueue ==
  ASSUME InTypes, CreatedOnce, Dropped, In!InputsTracked, evq # <<>>, In!HandleEvent
  PROVE  evq' \in Seq(InEvents) /\ CreatedOnce' /\ Dropped'
<1> DEFINE e == Head(evq)
           d == [type |-> "delete", name |-> e.name]
<1>1. /\ e \in InEvents /\ Tail(evq) \in Seq(InEvents) /\ Len(Tail(evq)) = Len(evq) - 1
      /\ Len(evq) \in Nat /\ \A n \in 1 .. Len(Tail(evq)) : Tail(evq)[n] = evq[n + 1]
  BY HeadTailProperties DEF InTypes
<1>2. d \in InEvents
  BY <1>1 DEF InEvents
<1>3. ASSUME NEW i \in Ins \ stuck', NEW n \in 1 .. Len(evq), Absent(evq, i, n, DOMAIN ins)
      PROVE  Absent(Tail(evq), i, n - 1, DOMAIN ins')
  BY <1>3, AbsentTail, InHandled DEF InTypes
<1>4. ASSUME NEW i \in Ins \ stuck', NEW n \in 1 .. Len(Tail(evq)),
             Tail(evq)[n].type = "create", Tail(evq)[n].name = i
      PROVE  Absent(Tail(evq), i, n - 1, DOMAIN ins')
  <2>1. i \notin stuck /\ n + 1 \in 1 .. Len(evq) /\ n \in 1 .. Len(evq)
        /\ evq[n + 1].type = "create" /\ evq[n + 1].name = i
    BY <1>1, <1>4, InHandled
  <2>2. Absent(evq, i, n, DOMAIN ins)
    BY <2>1 DEF CreatedOnce
  <2> QED BY <1>3, <2>1, <2>2
<1>5. ASSUME NEW i \in Ins \ stuck', i \notin DOMAIN conf
      PROVE  Absent(Tail(evq), i, Len(Tail(evq)), DOMAIN ins')
  <2>1. i \notin stuck /\ Len(evq) \in 1 .. Len(evq)
    BY <1>1, InHandled, EmptySeq DEF InTypes
  <2>2. Absent(evq, i, Len(evq), DOMAIN ins)
    BY <1>5, <2>1 DEF Dropped
  <2> QED BY <1>1, <1>3, <2>1, <2>2
<1>6. CASE e.name \in DOMAIN conf \ DOMAIN conf'
  <2>1. evq' = Append(Tail(evq), d)
    BY <1>6 DEF In!HandleEvent
  <2>2. /\ evq' \in Seq(InEvents) /\ Len(evq') = Len(Tail(evq)) + 1 /\ Len(Tail(evq)) \in Nat
        /\ \A n \in 1 .. Len(Tail(evq)) : evq'[n] = Tail(evq)[n]
        /\ evq'[Len(evq')] = d
    BY <1>1, <1>2, <2>1, AppendFacts
  <2>3. ASSUME NEW i \in Ins \ stuck', NEW n \in 1 .. Len(evq'), evq'[n].type = "create", evq'[n].name = i
        PROVE  Absent(evq', i, n - 1, DOMAIN ins')
    <3>1. n \in 1 .. Len(Tail(evq)) /\ Tail(evq)[n] = evq'[n]
      BY <2>2, <2>3
    <3>2. Absent(Tail(evq), i, n - 1, DOMAIN ins') /\ n - 1 \in 0 .. Len(Tail(evq))
      BY <1>4, <2>2, <2>3, <3>1
    <3> QED BY <1>1, <1>2, <2>1, <3>2, AbsentAppend
  <2>4. ASSUME NEW i \in Ins \ stuck', i \notin DOMAIN conf'
        PROVE  Absent(evq', i, Len(evq'), DOMAIN ins')
    <3>1. CASE i = e.name
      BY <1>1, <1>2, <2>1, <2>2, <3>1, AbsentAppend
    <3>2. CASE i # e.name
      BY <1>1, <1>2, <1>5, <2>1, <2>2, <2>4, <3>2, AbsentAppend, InHandled
    <3> QED BY <3>1, <3>2
  <2> QED BY <2>2, <2>3, <2>4 DEF CreatedOnce, Dropped
<1>7. CASE e.name \notin DOMAIN conf \ DOMAIN conf'
  <2>1. evq' = Tail(evq) /\ DOMAIN conf' = DOMAIN conf
    BY <1>1, <1>7, InHandled DEF In!HandleEvent, InTypes, Map
  <2> QED BY <1>1, <1>4, <1>5, <2>1 DEF CreatedOnce, Dropped
<1> QED BY <1>6, <1>7

\* A request writes the store: the event it appends decides about its name.
LEMMA InRequest ==
  ASSUME InInv, In!PostInput \/ In!DeleteInputApi
  PROVE  InInv'
<1>1. CASE In!PostInput
  <2>1. PICK i \in Ins, c \in Cfgs :
          /\ conf' = In!Put(conf, i, c)
          /\ evq' = Append(evq, [type |-> IF i \in DOMAIN conf THEN "update" ELSE "create",
                                 name |-> i, cfg |-> c])
    BY <1>1 DEF In!PostInput, Cfgs
  <2> DEFINE e == [type |-> IF i \in DOMAIN conf THEN "update" ELSE "create", name |-> i, cfg |-> c]
  <2>2. UNCHANGED <<ins, inUse, state, open, stuck>>
    BY <1>1 DEF In!PostInput
  <2>3. e \in InEvents /\ evq \in Seq(InEvents)
    BY DEF InEvents, InInv, InTypes
  <2>4. Map(conf', Ins, Cfgs) /\ DOMAIN conf' = DOMAIN conf \cup {i}
    BY <2>1 DEF InInv, InTypes, Map, In!Put
  <2>5. /\ evq' \in Seq(InEvents) /\ Len(evq') = Len(evq) + 1 /\ Len(evq) \in Nat
        /\ \A n \in 1 .. Len(evq) : evq'[n] = evq[n]
        /\ evq'[Len(evq')] = e
    BY <2>1, <2>3, AppendFacts
  <2>6. CreatedOnce'
    <3>1. SUFFICES ASSUME NEW j \in Ins \ stuck, NEW n \in 1 .. Len(evq'),
                          evq'[n].type = "create", evq'[n].name = j
                   PROVE  Absent(evq', j, n - 1, DOMAIN ins)
      BY <2>2 DEF CreatedOnce
    <3>2. CASE n \in 1 .. Len(evq)
      <4>1. Absent(evq, j, n - 1, DOMAIN ins) /\ n - 1 \in 0 .. Len(evq)
        BY <2>5, <3>1, <3>2 DEF InInv, CreatedOnce
      <4> QED BY <2>1, <2>3, <4>1, AbsentAppend
    <3>3. CASE n = Len(evq')
      <4>1. j = i /\ i \notin DOMAIN conf /\ n - 1 = Len(evq) /\ Len(evq) \in 0 .. Len(evq)
        BY <2>5, <3>1, <3>3
      <4>2. Absent(evq, j, Len(evq), DOMAIN ins)
        BY <4>1 DEF InInv, Dropped
      <4> QED BY <2>1, <2>3, <4>1, <4>2, AbsentAppend
    <3> QED BY <2>5, <3>2, <3>3
  <2>7. Dropped'
    <3>1. SUFFICES ASSUME NEW j \in Ins \ stuck, j \notin DOMAIN conf'
                   PROVE  Absent(evq', j, Len(evq'), DOMAIN ins)
      BY <2>2 DEF Dropped
    <3>2. j # e.name /\ Absent(evq, j, Len(evq), DOMAIN ins)
      BY <2>4, <3>1 DEF InInv, Dropped
    <3> QED BY <2>1, <2>3, <2>5, <3>2, AbsentAppend
  <2> QED BY <2>2, <2>4, <2>5, <2>6, <2>7
          DEF InInv, InTypes, In!InputsTracked, In!NoLostInput, In!IndexExact
<1>2. CASE In!DeleteInputApi
  <2>1. PICK i \in DOMAIN conf :
          conf' = In!Drop(conf, i) /\ evq' = Append(evq, [type |-> "delete", name |-> i])
    BY <1>2 DEF In!DeleteInputApi
  <2> DEFINE e == [type |-> "delete", name |-> i]
  <2>2. UNCHANGED <<ins, inUse, state, open, stuck>>
    BY <1>2 DEF In!DeleteInputApi
  <2>3. e \in InEvents /\ evq \in Seq(InEvents)
    BY DEF InEvents, InInv, InTypes, Map
  <2>4. Map(conf', Ins, Cfgs) /\ DOMAIN conf' = DOMAIN conf \ {i}
    BY <2>1 DEF InInv, InTypes, Map, In!Drop, In!Restrict
  <2>5. /\ evq' \in Seq(InEvents) /\ Len(evq') = Len(evq) + 1 /\ Len(evq) \in Nat
        /\ \A n \in 1 .. Len(evq) : evq'[n] = evq[n]
        /\ evq'[Len(evq')] = e
    BY <2>1, <2>3, AppendFacts
  <2>6. CreatedOnce'
    <3>1. SUFFICES ASSUME NEW j \in Ins \ stuck, NEW n \in 1 .. Len(evq'),
                          evq'[n].type = "create", evq'[n].name = j
                   PROVE  Absent(evq', j, n - 1, DOMAIN ins)
      BY <2>2 DEF CreatedOnce
    <3>2. n \in 1 .. Len(evq) /\ n - 1 \in 0 .. Len(evq)
      BY <2>5, <3>1
    <3>3. Absent(evq, j, n - 1, DOMAIN ins)
      BY <2>5, <3>1, <3>2 DEF InInv, CreatedOnce
    <3> QED BY <2>1, <2>3, <3>2, <3>3, AbsentAppend
  <2>7. Dropped'
    <3>1. SUFFICES ASSUME NEW j \in Ins \ stuck, j \notin DOMAIN conf'
                   PROVE  Absent(evq', j, Len(evq'), DOMAIN ins)
      BY <2>2 DEF Dropped
    <3>2. j = e.name \/ Absent(evq, j, Len(evq), DOMAIN ins)
      BY <2>4, <3>1 DEF InInv, Dropped
    <3> QED BY <2>1, <2>3, <2>5, <3>2, AbsentAppend
  <2> QED BY <2>2, <2>4, <2>5, <2>6, <2>7
          DEF InInv, InTypes, In!InputsTracked, In!NoLostInput, In!IndexExact
<1> QED BY <1>1, <1>2

\* Whatever is posted and deleted, and whichever start, update or close fails: every input
\* that was started is one the manager knows and can close, and the index names an
\* input for exactly the processors of its config (unless a Close failed).
THEOREM InputsTracked == In!Spec => []In!InputsTracked
<1>1. In!Init => InInv
  <2> SUFFICES ASSUME In!Init PROVE InInv
    OBVIOUS
  <2>1. evq \in Seq(InEvents) /\ Len(evq) = 0 /\ DOMAIN conf = {} /\ DOMAIN ins = {}
    BY DEF In!Init
  <2> QED BY <2>1 DEF In!Init, InInv, InTypes, Map, CreatedOnce, Dropped, Absent, Silent,
                      In!InputsTracked, In!NoLostInput, In!IndexExact
<1>2. InInv /\ [In!Next]_In!vars => InInv'
  <2> SUFFICES ASSUME InInv, [In!Next]_In!vars PROVE InInv'
    OBVIOUS
  <2>1. CASE In!HandleEvent
    <3>1. evq # <<>>
      BY <2>1 DEF In!HandleEvent
    <3> QED BY <2>1, <3>1, InHandled, InQueue DEF InInv, InTypes
  <2>2. CASE UNCHANGED In!vars
    BY <2>2 DEF In!vars, InInv, InTypes, Map, CreatedOnce, Dropped,
                In!InputsTracked, In!NoLostInput, In!IndexExact
  <2> QED BY <2>1, <2>2, InRequest DEF In!Next
<1>3. InInv => In!InputsTracked
  BY DEF InInv
<1> QED BY <1>1, <1>2, <1>3, PTL DEF In!Spec

-----------------------------------------------------------------------------
(* Tunnel.  A handler that has still to store something for a target runs  *)
(* while the target has its session; the reconciliation holds ts.mu, so    *)
(* what it has still to store is of targets that are connected.            *)

CONSTANTS TunTargets, Rules, Covers, TunKinds, MaxVer, MaxRuleOps, MaxSessions
VARIABLES kind, rules, sess, h, connected, cfgs, evs, rec, g, cfn, nops, nsess
Tun == INSTANCE Tunnel

TunnelTypes ==
  /\ DOMAIN h = TunTargets /\ \A t \in TunTargets : DOMAIN h[t] = {"pc", "tc"}
  /\ DOMAIN cfgs = TunTargets
  /\ DOMAIN rec = {"on", "left", "cur", "tc"} /\ rec.on \in BOOLEAN

Handling ==
  \A t \in TunTargets : /\ h[t].pc \in {"list", "set"} => t \in sess
                        /\ h[t].pc = "delete" => t \notin sess

Reconciling ==
  /\ connected = sess
  /\ rec.on => rec.left \subseteq sess /\ (rec.cur # "-" => rec.cur \in sess)

TunnelInv == kind = "collector" => TunnelTypes /\ Handling /\ Reconciling /\ Tun!NoOrphanTarget

\* A handler's step for a target leaves the others alone.
LEMMA HandlerPoint ==
  ASSUME TunnelTypes, NEW t \in TunTargets, NEW e,
         h' = [h EXCEPT ![t].pc = e] \/ (h' = [h EXCEPT ![t] = e] /\ DOMAIN e = {"pc", "tc"})
  PROVE  /\ DOMAIN h' = TunTargets /\ \A u \in TunTargets : DOMAIN h'[u] = {"pc", "tc"}
         /\ \A u \in TunTargets \ {t} : h'[u] = h[u]
         /\ h' = [h EXCEPT ![t].pc = e] => h'[t].pc = e
         /\ h' = [h EXCEPT ![t] = e] => h'[t] = e
<1>1. CASE h' = [h EXCEPT ![t].pc = e]
  BY <1>1 DEF TunnelTypes
<1>2. CASE h' = [h EXCEPT ![t] = e] /\ DOMAIN e = {"pc", "tc"}
  BY <1>2 DEF TunnelTypes
<1> QED BY <1>1, <1>2

LEMMA TunnelInit == Tun!Init => TunnelInv
<1> SUFFICES ASSUME Tun!Init, kind = "collector" PROVE TunnelTypes /\ Handling /\ Reconciling /\ Tun!NoOrphanTarget
  BY DEF TunnelInv
<1>1. h = [t \in TunTargets |-> [pc |-> "idle", tc |-> <<0, 0>>]]
  BY DEF Tun!Init, Tun!Idle, Tun!None
<1>2. rec = [on |-> FALSE, left |-> {}, cur |-> "-", tc |-> <<0, 0>>]
  BY DEF Tun!Init, Tun!NoRec, Tun!None
<1>3. cfgs = [t \in TunTargets |-> Tun!None] /\ connected = sess
  BY DEF Tun!Init
<1> QED BY <1>1, <1>2, <1>3 DEF TunnelTypes, Handling, Reconciling, Tun!NoOrphanTarget

LEMMA TunnelStep ==
  TunnelInv /\ [Tun!Next]_Tun!vars => TunnelInv'
<1> SUFFICES ASSUME TunnelInv, [Tun!Next]_Tun!vars, kind' = "collector" PROVE TunnelInv'
  BY DEF TunnelInv
<1>1. kind = "collector"
  BY DEF Tun!Next, Tun!vars, Tun!PostRule, Tun!DeleteRule, Tun!ChangeRule, Tun!AddTarget, Tun!DeleteTarget, Tun!Handlers, Tun!AddMatch, Tun!AddStore,
         Tun!DeleteStore, Tun!Watcher, Tun!Reconcile, Tun!ReconcileMatch, Tun!ReconcileStore, Tun!ReconcileEnd, Tun!AppAddTarget,
         Tun!AppDeleteTarget, Tun!AppGo, Tun!AppStart, Tun!AppSubscribe
<1>2. TunnelTypes /\ Handling /\ Reconciling /\ Tun!NoOrphanTarget
  BY <1>1 DEF TunnelInv
\* The handlers.
<1>3. ASSUME NEW t \in TunTargets, Tun!AddTarget(t) \/ Tun!DeleteTarget(t)
      PROVE  TunnelInv'
  <2>1. /\ UNCHANGED <<cfgs, rec>> /\ connected' = sess' /\ ~rec.on /\ h[t] = Tun!Idle
        /\ \/ sess' = sess \cup {t} /\ h' = [h EXCEPT ![t].pc = "list"]
           \/ sess' = sess \ {t} /\ h' = [h EXCEPT ![t].pc = "delete"]
    <3>1. CASE Tun!AddTarget(t)
      BY <1>2, <3>1 DEF Tun!AddTarget, Tun!Register, Tun!MuFree, Reconciling
    <3>2. CASE Tun!DeleteTarget(t)
      BY <1>2, <3>2 DEF Tun!DeleteTarget, Tun!MuFree, Reconciling
    <3> QED BY <1>3, <3>1, <3>2
  <2>2. /\ DOMAIN h' = TunTargets /\ \A u \in TunTargets : DOMAIN h'[u] = {"pc", "tc"}
        /\ \A u \in TunTargets \ {t} : h'[u] = h[u]
        /\ \/ sess' = sess \cup {t} /\ h'[t].pc = "list"
           \/ sess' = sess \ {t} /\ h'[t].pc = "delete"
    BY <1>2, <2>1, HandlerPoint
  <2>3. h'[t] # Tun!Idle
    BY <2>2 DEF Tun!Idle
  <2> QED BY <1>1, <1>2, <2>1, <2>2, <2>3 DEF TunnelInv, TunnelTypes, Handling, Reconciling, Tun!NoOrphanTarget
<1>4. ASSUME NEW t \in TunTargets, Tun!Handlers(t)
      PROVE  TunnelInv'
  <2>1. UNCHANGED <<sess, connected, rec>> /\ h[t].pc # "idle"
    BY <1>4 DEF Tun!Handlers, Tun!AddMatch, Tun!AddStore, Tun!DeleteStore
  <2>2. PICK e : h' = [h EXCEPT ![t] = e] /\ DOMAIN e = {"pc", "tc"}
                 /\ (e = Tun!Idle \/ (e.pc = "set" /\ h[t].pc = "list"))
    <3>1. DOMAIN Tun!Idle = {"pc", "tc"} /\ DOMAIN [pc |-> "set", tc |-> Tun!Match(t)] = {"pc", "tc"}
      BY DEF Tun!Idle
    <3>2. \/ h' = [h EXCEPT ![t] = Tun!Idle]
          \/ h' = [h EXCEPT ![t] = [pc |-> "set", tc |-> Tun!Match(t)]] /\ h[t].pc = "list"
      BY <1>4 DEF Tun!Handlers, Tun!AddMatch, Tun!AddStore, Tun!DeleteStore
    <3> QED BY <3>1, <3>2
  <2>3. /\ DOMAIN h' = TunTargets /\ \A u \in TunTargets : DOMAIN h'[u] = {"pc", "tc"}
        /\ (\A u \in TunTargets \ {t} : h'[u] = h[u]) /\ h'[t] = e
    BY <1>2, <2>2, HandlerPoint
  <2>4. /\ DOMAIN cfgs' = TunTargets /\ \A u \in TunTargets \ {t} : cfgs'[u] = cfgs[u]
        /\ h[t].pc = "delete" => cfgs'[t] = Tun!None
    BY <1>2, <1>4 DEF TunnelTypes, Tun!Handlers, Tun!AddMatch, Tun!AddStore, Tun!DeleteStore
  <2>5. h[t].pc \in {"list", "set", "delete"}
    BY <1>4 DEF Tun!Handlers, Tun!AddMatch, Tun!AddStore, Tun!DeleteStore
  <2>6. Handling'
    BY <1>2, <2>1, <2>2, <2>3 DEF Handling, Tun!Idle
  <2>7. Tun!NoOrphanTarget'
    BY <1>1, <1>2, <2>1, <2>3, <2>4, <2>5 DEF Handling, Tun!NoOrphanTarget
  <2> QED BY <1>2, <2>1, <2>3, <2>4, <2>6, <2>7 DEF TunnelInv, TunnelTypes, Reconciling
\* The watcher: what it stores is of a target that has its session.
<1>5. ASSUME Tun!Watcher
      PROVE  TunnelInv'
  <2>1. UNCHANGED <<sess, connected, h>>
    BY <1>5 DEF Tun!Watcher, Tun!Reconcile, Tun!ReconcileMatch, Tun!ReconcileStore, Tun!ReconcileEnd
  <2>2. DOMAIN rec' = {"on", "left", "cur", "tc"} /\ rec'.on \in BOOLEAN /\ Reconciling'
    <3>1. CASE Tun!Reconcile
      BY <1>2, <2>1, <3>1 DEF Tun!Reconcile, Tun!NoRec, Reconciling
    <3>2. ASSUME NEW t \in TunTargets, Tun!ReconcileMatch(t)
          PROVE  DOMAIN rec' = {"on", "left", "cur", "tc"} /\ rec'.on \in BOOLEAN /\ Reconciling'
      <4>1. /\ DOMAIN rec' = DOMAIN rec /\ rec'.on = rec.on /\ rec'.cur = t
            /\ rec'.left = rec.left \ {t} /\ t \in rec.left /\ rec.on
        BY <1>2, <3>2 DEF Tun!ReconcileMatch, TunnelTypes
      <4> QED BY <1>2, <2>1, <4>1 DEF Reconciling, TunnelTypes
    <3>3. CASE Tun!ReconcileStore
      <4>1. DOMAIN rec' = DOMAIN rec /\ rec'.on = rec.on /\ rec'.cur = "-" /\ rec'.left = rec.left
        BY <1>2, <3>3 DEF Tun!ReconcileStore, TunnelTypes
      <4> QED BY <1>2, <2>1, <4>1 DEF Reconciling, TunnelTypes
    <3>4. CASE Tun!ReconcileEnd
      BY <1>2, <2>1, <3>4 DEF Tun!ReconcileEnd, Tun!NoRec, Reconciling
    <3> QED BY <1>5, <3>1, <3>2, <3>3, <3>4 DEF Tun!Watcher
  <2>3. DOMAIN cfgs' = TunTargets /\ \A u \in TunTargets : u \notin sess => cfgs'[u] = cfgs[u]
    <3>1. CASE Tun!ReconcileStore
      <4>1. cfgs' = [cfgs EXCEPT ![rec.cur] = rec.tc] /\ rec.cur \in sess
        BY <1>2, <3>1 DEF Tun!ReconcileStore, Reconciling
      <4> QED BY <1>2, <4>1 DEF TunnelTypes
    <3>2. CASE ~Tun!ReconcileStore
      BY <1>2, <1>5, <3>2 DEF Tun!Watcher, Tun!Reconcile, Tun!ReconcileMatch, Tun!ReconcileEnd, TunnelTypes
    <3> QED BY <3>1, <3>2
  <2> QED BY <1>1, <1>2, <2>1, <2>2, <2>3 DEF TunnelInv, TunnelTypes, Handling, Tun!NoOrphanTarget
\* The rules, and the app's actions, of which only a goroutine's could be taken.
<1>6. ASSUME UNCHANGED <<sess, h, connected, cfgs, rec>> PROVE TunnelInv'
  <2>1. TunnelTypes'
    BY <1>2, <1>6 DEF TunnelTypes
  <2>2. Handling'
    BY <1>2, <1>6 DEF Handling
  <2>3. Reconciling'
    BY <1>2, <1>6 DEF Reconciling
  <2>4. Tun!NoOrphanTarget'
    BY <1>1, <1>2, <1>6 DEF Tun!NoOrphanTarget
  <2> QED BY <2>1, <2>2, <2>3, <2>4 DEF TunnelInv
<1>7. ASSUME NEW r \in Rules, Tun!PostRule(r) \/ Tun!DeleteRule(r) PROVE TunnelInv'
  BY <1>6, <1>7 DEF Tun!PostRule, Tun!DeleteRule, Tun!ChangeRule
<1>8. ASSUME NEW t \in TunTargets, Tun!AppAddTarget(t) \/ Tun!AppDeleteTarget(t) \/ Tun!AppGo(t) PROVE TunnelInv'
  BY <1>1, <1>6, <1>8 DEF Tun!AppAddTarget, Tun!AppDeleteTarget, Tun!AppGo, Tun!AppStart, Tun!AppSubscribe
<1>9. CASE UNCHANGED Tun!vars
  BY <1>6, <1>9 DEF Tun!vars
<1> QED BY <1>3, <1>4, <1>5, <1>7, <1>8, <1>9 DEF Tun!Next

\* The collector's tunnel server leaves no configuration of a target that has left in the
\* store, for any targets, rules and sessions: no handler and no reconciliation writes it back.
THEOREM NoTargetOrphaned == Tun!Spec => []Tun!NoOrphanTarget
<1>1. TunnelInv => Tun!NoOrphanTarget
  BY DEF TunnelInv, Tun!NoOrphanTarget
<1> QED BY <1>1, TunnelInit, TunnelStep, PTL DEF Tun!Spec

-----------------------------------------------------------------------------
(* TargetSubscriptions.  The events of a subscription still to come tell    *)
(* where what is known of it and what runs of it lag behind the store, for  *)
(* the two channels may be served in any order.                             *)

CONSTANTS Subs, MaxWrites
VARIABLES store, config, subEvents, tgtEvents, known, list, aliased, applied, running, writes,
          survived, doubled, patched

Lists == INSTANCE TargetSubscriptions

SubEvents == [op : {"apply", "remove"}, sub : Subs]

ListTypes ==
  /\ store \subseteq Subs /\ known \subseteq Subs /\ running \subseteq Subs
  /\ patched \in BOOLEAN
  /\ subEvents \in Seq(SubEvents)

\* Event k of q is about s; it says what the store S says.
About(q, k, s) == k \in 1 .. Len(q) /\ q[k].sub = s
True(q, S, k) == (q[k].op = "apply") <=> (q[k].sub \in S)

Listed(s) == list = <<>> \/ s \in Lists!Range(list)

\* An event that is no longer true is followed by one about the same subscription that is.
Overtaken ==
  \A k \in 1 .. Len(subEvents) :
    ~True(subEvents, store, k) => \E j \in 1 .. Len(subEvents) : j > k /\ About(subEvents, j, subEvents[k].sub) /\ True(subEvents, store, j)

\* An event about s is to come; one that removes it.
Comes(q, s) == \E k \in 1 .. Len(q) : About(q, k, s)
Stops(q, s) == \E k \in 1 .. Len(q) : About(q, k, s) /\ q[k].op = "remove"

\* A subscription without events is known as the store has it.
KnownOrCome ==
  \A s \in Subs : Comes(subEvents, s) \/ (s \in known <=> s \in store)

\* What runs and should not has an event to come that stops it, or outlived a reconnect, and
\* what should run and does not one to start it.
StopsOrComes ==
  \A s \in Subs \ doubled :
    /\ s \in running /\ s \notin store => Stops(subEvents, s)
    /\ ~patched /\ s \in running /\ ~Listed(s) => Stops(subEvents, s) \/ s \in survived
    /\ ~patched /\ s \in store /\ Listed(s) /\ s \notin running => Comes(subEvents, s)

ListInv == ListTypes /\ Overtaken /\ KnownOrCome /\ StopsOrComes

LEMMA ListInit == Lists!Init => ListInv
<1> SUFFICES ASSUME Lists!Init PROVE ListInv
  OBVIOUS
<1>1. subEvents = <<>> /\ Len(subEvents) = 0
  BY DEF Lists!Init
<1>2. running = (IF list = <<>> THEN store ELSE Lists!Range(list)) \cap store
  BY DEF Lists!Init, Lists!Names
<1>3. known = store /\ store \subseteq Subs /\ patched = FALSE
  BY DEF Lists!Init
<1>4. ListTypes
  <2>1. <<>> \in Seq(SubEvents)
    OBVIOUS
  <2>2. running \subseteq store
    BY <1>2
  <2> QED BY <1>1, <1>3, <2>1, <2>2 DEF ListTypes
<1>4a. Overtaken
  BY <1>1 DEF Overtaken
<1>5. \A s \in running : s \in store /\ Listed(s)
  BY <1>2 DEF Listed
<1>6. \A s \in store : Listed(s) => s \in running
  BY <1>2 DEF Listed
<1> QED BY <1>3, <1>4, <1>5, <1>6, <1>4a DEF ListInv, KnownOrCome, StopsOrComes

\* The API writes a subscription to the store and its event follows.
LEMMA WriteKeeps ==
  ASSUME ListInv, NEW s \in Subs, Lists!PostSubscription(s) \/ Lists!DeleteSubscription(s)
  PROVE  ListInv'
<1>1. PICK o \in {"apply", "remove"} :
        /\ subEvents' = Append(subEvents, [op |-> o, sub |-> s])
        /\ store' = IF o = "apply" THEN store \cup {s} ELSE store \ {s}
        /\ UNCHANGED <<known, list, running, survived, doubled, patched>>
  BY DEF Lists!PostSubscription, Lists!DeleteSubscription, Lists!loops
<1>2. /\ subEvents \in Seq(SubEvents) /\ [op |-> o, sub |-> s] \in SubEvents
      /\ store \subseteq Subs /\ Len(subEvents) \in Nat
  BY DEF ListInv, ListTypes, SubEvents
<1>3. /\ subEvents' \in Seq(SubEvents) /\ Len(subEvents') = Len(subEvents) + 1
      /\ \A k \in 1 .. Len(subEvents) : subEvents'[k] = subEvents[k]
      /\ subEvents'[Len(subEvents) + 1].op = o /\ subEvents'[Len(subEvents) + 1].sub = s
  BY <1>1, <1>2
<1>s. \A k \in 1 .. Len(subEvents) : subEvents[k].sub \in Subs
  <2>1. \A k \in 1 .. Len(subEvents) : subEvents[k] \in SubEvents
    BY <1>2
  <2> QED BY <2>1 DEF SubEvents
<1>4. store' \subseteq Subs /\ (s \in store' <=> o = "apply") /\ \A r \in Subs \ {s} : r \in store' <=> r \in store
  BY <1>1, <1>2
<1>5. ListTypes'
  BY <1>1, <1>3, <1>4 DEF ListInv, ListTypes
\* The events before it stay, and it is true.
<1>6. /\ \A k \in 1 .. Len(subEvents), r \in Subs : About(subEvents, k, r) => About(subEvents', k, r)
      /\ \A k \in 1 .. Len(subEvents) : subEvents[k].sub # s => (True(subEvents', store', k) <=> True(subEvents, store, k))
      /\ About(subEvents', Len(subEvents) + 1, s) /\ True(subEvents', store', Len(subEvents) + 1)
  <2>1. \A k \in 1 .. Len(subEvents), r \in Subs : About(subEvents, k, r) => About(subEvents', k, r)
    BY <1>2, <1>3 DEF About
  <2>3. \A k \in 1 .. Len(subEvents) : subEvents[k].sub # s => (True(subEvents', store', k) <=> True(subEvents, store, k))
    BY <1>3, <1>4, <1>s DEF True
  <2>4. About(subEvents', Len(subEvents) + 1, s) /\ True(subEvents', store', Len(subEvents) + 1)
    BY <1>2, <1>3, <1>4 DEF About, True
  <2> QED BY <2>1, <2>3, <2>4
<1>7. Overtaken'
  <2> SUFFICES ASSUME NEW k \in 1 .. Len(subEvents'), ~True(subEvents', store', k)
               PROVE  \E j \in 1 .. Len(subEvents') : j > k /\ About(subEvents', j, subEvents'[k].sub) /\ True(subEvents', store', j)
    BY DEF Overtaken
  <2>1. k \in 1 .. Len(subEvents) /\ subEvents'[k] = subEvents[k] /\ subEvents[k].sub \in Subs
    <3>1. k # Len(subEvents) + 1
      BY <1>6
    <3> QED BY <1>2, <1>3, <1>s, <3>1
  <2>2. CASE subEvents[k].sub = s
    BY <1>2, <1>3, <1>6, <2>1, <2>2
  <2>3. CASE subEvents[k].sub # s
    <3>1. PICK j \in 1 .. Len(subEvents) : j > k /\ About(subEvents, j, subEvents[k].sub) /\ True(subEvents, store, j)
      BY <1>6, <2>1, <2>3 DEF ListInv, Overtaken
    <3>2. subEvents[j].sub # s
      BY <2>3, <3>1 DEF About
    <3> QED BY <1>2, <1>3, <1>6, <2>1, <3>1, <3>2
  <2> QED BY <2>2, <2>3
<1>8. KnownOrCome' /\ StopsOrComes'
  <2>1. ASSUME NEW r \in Subs, Comes(subEvents, r) PROVE Comes(subEvents', r)
    BY <1>2, <1>3, <1>6, <2>1 DEF Comes
  <2>2. ASSUME NEW r \in Subs, Stops(subEvents, r) PROVE Stops(subEvents', r)
    BY <1>2, <1>3, <1>6, <2>2 DEF Stops
  <2>3. Comes(subEvents', s) /\ (o = "remove" => Stops(subEvents', s))
    BY <1>2, <1>3, <1>6 DEF Comes, Stops
  <2>4. \A r : Listed(r)' <=> Listed(r)
    BY <1>1 DEF Listed
  <2>5. KnownOrCome'
    BY <1>1, <1>4, <2>1, <2>3 DEF ListInv, KnownOrCome
  <2>6. StopsOrComes'
    <3> SUFFICES ASSUME NEW r \in Subs \ doubled
                 PROVE  /\ r \in running /\ r \notin store' => Stops(subEvents', r)
                        /\ ~patched /\ r \in running /\ ~Listed(r) => Stops(subEvents', r) \/ r \in survived
                        /\ ~patched /\ r \in store' /\ Listed(r) /\ r \notin running => Comes(subEvents', r)
      BY <1>1, <2>4 DEF StopsOrComes
    <3>1. CASE r = s
      BY <1>4, <2>2, <2>3, <3>1 DEF ListInv, StopsOrComes
    <3>2. CASE r # s
      BY <1>4, <2>1, <2>2, <3>2 DEF ListInv, StopsOrComes
    <3> QED BY <3>1, <3>2
  <2> QED BY <2>5, <2>6
<1> QED BY <1>5, <1>7, <1>8 DEF ListInv

\* An event taken from the channel: the ones after it move up, about its subscription nothing
\* else has to come if it is true.
LEMMA Taken ==
  ASSUME ListInv, subEvents # <<>>, subEvents' = Tail(subEvents), UNCHANGED store
  PROVE  /\ subEvents' \in Seq(SubEvents) /\ Head(subEvents) \in SubEvents
         /\ Overtaken'
         /\ \A k \in 1 .. Len(subEvents) :
              \/ k = 1 /\ subEvents[k] = Head(subEvents)
              \/ k - 1 \in 1 .. Len(subEvents') /\ subEvents'[k - 1] = subEvents[k]
         /\ LET s == Head(subEvents).sub IN
            ~(Head(subEvents).op = "apply" <=> s \in store) =>
              \E k \in 1 .. Len(subEvents') : About(subEvents', k, s) /\ True(subEvents', store', k)
<1>1. /\ Tail(subEvents) \in Seq(SubEvents) /\ Len(Tail(subEvents)) = Len(subEvents) - 1
      /\ Len(subEvents) \in Nat /\ Len(subEvents) >= 1
      /\ \A k \in 1 .. Len(subEvents) - 1 : Tail(subEvents)[k] = subEvents[k + 1]
      /\ Head(subEvents) = subEvents[1] /\ Head(subEvents) \in SubEvents
  BY HeadTailProperties DEF ListInv, ListTypes
<1>2. \A k \in 1 .. Len(subEvents) : k = 1 \/ (k - 1 \in 1 .. Len(subEvents') /\ subEvents'[k - 1] = subEvents[k])
  <2> TAKE k \in 1 .. Len(subEvents)
  <2>1. k # 1 => k - 1 \in 1 .. Len(subEvents) - 1 /\ (k - 1) + 1 = k
    BY <1>1
  <2> QED BY <1>1, <2>1
\* An event that follows the first one is there, one place before.
<1>3. ASSUME NEW k \in 1 .. Len(subEvents), ~True(subEvents, store, k)
      PROVE  \E j \in 1 .. Len(subEvents') : /\ j > k - 1 /\ About(subEvents', j, subEvents[k].sub)
                                             /\ True(subEvents', store', j)
  <2>1. PICK i \in 1 .. Len(subEvents) : i > k /\ About(subEvents, i, subEvents[k].sub) /\ True(subEvents, store, i)
    BY <1>3 DEF ListInv, Overtaken
  <2>2. i - 1 \in 1 .. Len(subEvents') /\ subEvents'[i - 1] = subEvents[i] /\ i - 1 > k - 1
    BY <1>1, <1>2, <2>1
  <2> QED BY <2>1, <2>2 DEF About, True
<1>4. Overtaken'
  <2> SUFFICES ASSUME NEW k \in 1 .. Len(subEvents'), ~True(subEvents', store', k)
               PROVE  \E j \in 1 .. Len(subEvents') : /\ j > k /\ About(subEvents', j, subEvents'[k].sub)
                                                      /\ True(subEvents', store', j)
    BY DEF Overtaken
  <2>1. k + 1 \in 1 .. Len(subEvents) /\ subEvents'[k] = subEvents[k + 1] /\ (k + 1) - 1 = k
    BY <1>1
  <2>2. ~True(subEvents, store, k + 1)
    BY <2>1 DEF True
  <2> QED BY <1>3, <2>1, <2>2
<1>5. ~(Head(subEvents).op = "apply" <=> Head(subEvents).sub \in store) => ~True(subEvents, store, 1)
  BY <1>1 DEF True
<1>6. 1 \in 1 .. Len(subEvents)
  BY <1>1
<1>7. \A k \in 1 .. Len(subEvents) : k = 1 => subEvents[k] = Head(subEvents)
  BY <1>1
<1>8. subEvents' \in Seq(SubEvents) /\ Head(subEvents) \in SubEvents
  BY <1>1
<1> QED BY <1>1, <1>2, <1>3, <1>4, <1>5, <1>6, <1>7, <1>8

LEMMA EventKeeps ==
  ASSUME ListInv, Lists!ApplySubscription \/ Lists!RemoveSubscription
  PROVE  ListInv'
<1> DEFINE s == Head(subEvents).sub
           o == Head(subEvents).op
<1>1. /\ subEvents # <<>> /\ subEvents' = Tail(subEvents) /\ UNCHANGED <<store, list, doubled, patched>>
      /\ \/ o = "apply" /\ known' = known \cup {s}
            /\ running' = running \cup ((IF list = <<>> THEN {s} ELSE Lists!Range(list)) \cap {s})
            /\ survived' = survived \ ((IF list = <<>> THEN {s} ELSE Lists!Range(list)) \cap {s})
         \/ o = "remove" /\ known' = known \ {s} /\ survived' = survived \ {s}
            /\ running' \subseteq running /\ running \ {s} \subseteq running'
            /\ (s \in running' => s \in doubled)
  BY DEF Lists!ApplySubscription, Lists!RemoveSubscription, Lists!Names, Lists!Stop
<1>2. /\ subEvents' \in Seq(SubEvents) /\ Head(subEvents) \in SubEvents
      /\ Overtaken'
      /\ \A k \in 1 .. Len(subEvents) :
           \/ k = 1 /\ subEvents[k] = Head(subEvents)
           \/ k - 1 \in 1 .. Len(subEvents') /\ subEvents'[k - 1] = subEvents[k]
      /\ ~(o = "apply" <=> s \in store) =>
           \E k \in 1 .. Len(subEvents') : About(subEvents', k, s) /\ True(subEvents', store', k)
  BY <1>1, Taken
<1>3. s \in Subs /\ o \in {"apply", "remove"}
  BY <1>2 DEF SubEvents
<1> HIDE DEF s, o
\* A subscription's events are still to come, but for the one that was taken.
<1>4. ASSUME NEW r \in Subs, NEW k \in 1 .. Len(subEvents), About(subEvents, k, r),
             r # s \/ subEvents[k].op # o
      PROVE  k - 1 \in 1 .. Len(subEvents') /\ About(subEvents', k - 1, r) /\ subEvents'[k - 1].op = subEvents[k].op
  BY <1>2, <1>4 DEF About, s, o
<1>c. ASSUME NEW r \in Subs, r # s, Comes(subEvents, r) PROVE Comes(subEvents', r)
  BY <1>4, <1>c DEF Comes
<1>d. ASSUME NEW r \in Subs, r # s \/ o # "remove", Stops(subEvents, r) PROVE Stops(subEvents', r)
  BY <1>4, <1>d DEF Stops
<1>5. \A r : Listed(r)' <=> Listed(r)
  BY <1>1 DEF Listed
<1>6. ListTypes'
  BY <1>1, <1>2, <1>3 DEF ListInv, ListTypes
<1>7. KnownOrCome'
  <2> SUFFICES ASSUME NEW r \in Subs
               PROVE  Comes(subEvents', r) \/ (r \in known' <=> r \in store)
    BY <1>1 DEF KnownOrCome
  <2>1. CASE r = s
    BY <1>1, <1>2, <2>1 DEF Comes
  <2>2. CASE r # s
    BY <1>1, <1>c, <2>2 DEF ListInv, KnownOrCome
  <2> QED BY <2>1, <2>2
<1>8. StopsOrComes'
  <2> SUFFICES ASSUME NEW r \in Subs \ doubled
               PROVE  /\ r \in running' /\ r \notin store => Stops(subEvents', r)
                      /\ ~patched /\ r \in running' /\ ~Listed(r) => Stops(subEvents', r) \/ r \in survived'
                      /\ ~patched /\ r \in store /\ Listed(r) /\ r \notin running' => Comes(subEvents', r)
    BY <1>1, <1>5 DEF StopsOrComes
  <2>1. CASE r # s
    <3>1. (r \in running' <=> r \in running) /\ (r \in survived' <=> r \in survived)
      BY <1>1, <2>1
    <3> QED BY <1>c, <1>d, <2>1, <3>1 DEF ListInv, StopsOrComes
  <2>2. CASE r = s /\ o = "remove"
    <3>1. r \notin running'
      BY <1>1, <2>2
    <3>2. s \in store => Comes(subEvents', s)
      BY <1>2, <2>2 DEF Comes
    <3> QED BY <2>2, <3>1, <3>2
  <2>3. CASE r = s /\ o = "apply"
    <3>1. s \notin store => Stops(subEvents', s)
      <4> HAVE s \notin store
      <4>1. PICK k \in 1 .. Len(subEvents') : About(subEvents', k, s) /\ True(subEvents', store', k)
        BY <1>2, <2>3
      <4>2. subEvents'[k] \in SubEvents
        BY <1>2
      <4>3. subEvents'[k].op = "remove"
        BY <1>1, <4>1, <4>2 DEF About, True, SubEvents
      <4> QED BY <4>1, <4>3 DEF Stops
    <3>2. Listed(s) => s \in running'
      BY <1>1, <2>3 DEF Listed
    <3>3. ~Listed(s) => (s \in running' <=> s \in running) /\ (s \in survived' <=> s \in survived)
      BY <1>1, <2>3 DEF Listed
    <3>4. Stops(subEvents, s) => Stops(subEvents', s)
      BY <1>3, <1>d, <2>3
    <3> QED BY <2>3, <3>1, <3>2, <3>3, <3>4 DEF ListInv, StopsOrComes
  <2> QED BY <1>3, <2>1, <2>2, <2>3
<1> QED BY <1>2, <1>6, <1>7, <1>8 DEF ListInv

\* A new list starts what the store has of it and stops what it no longer names.
LEMMA ListKeeps ==
  ASSUME ListInv, Lists!ApplyLists \/ Lists!Reconnect
  PROVE  ListInv'
<1>1. UNCHANGED <<store, known, subEvents>>
  BY DEF Lists!ApplyLists, Lists!Reconnect
<1>2. Overtaken' /\ KnownOrCome'
  BY <1>1 DEF ListInv, Overtaken, KnownOrCome
\* A subscription that is not in the store and has an event to come has a removal to come.
<1>3. ASSUME NEW s \in Subs, s \notin store, Comes(subEvents, s)
      PROVE  Stops(subEvents, s)
  <2>1. \A j \in 1 .. Len(subEvents) : subEvents[j].op \in {"apply", "remove"}
    <3>1. \A j \in 1 .. Len(subEvents) : subEvents[j] \in SubEvents
      BY DEF ListInv, ListTypes
    <3> QED BY <3>1 DEF SubEvents
  <2> QED BY <1>3, <2>1 DEF ListInv, Overtaken, About, True, Comes, Stops
<1>4. CASE Lists!ApplyLists
  <2> DEFINE new == Head(tgtEvents).list
             N(l) == IF l = <<>> THEN store ELSE Lists!Range(l)
  <2>1. PICK T \in SUBSET (N(list) \ N(new)) :
          /\ list' = new /\ running' = (running \cup ((N(new) \ N(list)) \cap store)) \ T
          /\ (N(list) \ N(new)) \ doubled \subseteq T
          /\ survived' = survived \ (N(list) \ N(new)) /\ doubled \subseteq doubled' /\ patched' = patched
    BY <1>4 DEF Lists!ApplyLists, Lists!Added, Lists!Removed, Lists!Names, Lists!NewList
  <2>2. ListTypes'
    BY <1>1, <2>1 DEF ListInv, ListTypes
  <2>3. StopsOrComes'
    <3> SUFFICES ASSUME NEW r \in Subs \ doubled'
                 PROVE  /\ r \in running' /\ r \notin store => Stops(subEvents, r)
                        /\ ~patched /\ r \in running' /\ ~Listed(r)' => Stops(subEvents, r) \/ r \in survived'
                        /\ ~patched /\ r \in store /\ Listed(r)' /\ r \notin running' => Comes(subEvents, r)
      BY <1>1, <2>1 DEF StopsOrComes
    <3>1. /\ r \in running /\ r \notin store => Stops(subEvents, r)
          /\ ~patched /\ r \in running /\ ~Listed(r) => Stops(subEvents, r) \/ r \in survived
          /\ ~patched /\ r \in store /\ Listed(r) /\ r \notin running => Comes(subEvents, r)
      BY <2>1 DEF ListInv, StopsOrComes
    <3>2. (Listed(r)' <=> new = <<>> \/ r \in Lists!Range(new)) /\ (Listed(r) <=> list = <<>> \/ r \in Lists!Range(list))
      BY <2>1 DEF Listed
    <3>3. /\ r \in running' <=> (r \in running \/ (r \in N(new) /\ r \notin N(list) /\ r \in store))
                                /\ ~(r \in N(list) /\ r \notin N(new))
          /\ r \in survived' <=> r \in survived /\ ~(r \in N(list) /\ r \notin N(new))
      BY <2>1
    <3> QED BY <3>1, <3>2, <3>3
  <2> QED BY <1>2, <2>2, <2>3 DEF ListInv
<1>5. CASE Lists!Reconnect
  <2> DEFINE new == Head(tgtEvents).list
             started == (IF new = <<>> THEN known ELSE Lists!Range(new)) \cap (known \cup store)
  <2>1. PICK S \in SUBSET running :
          /\ list' = new /\ running' = started \cup S /\ patched' = FALSE
          /\ doubled' = doubled \cup (started \cap S) /\ survived' = S \ started
    BY <1>5 DEF Lists!Reconnect, Lists!Names, Lists!NewList
  <2>2. ListTypes'
    BY <1>1, <2>1 DEF ListInv, ListTypes
  <2>3. StopsOrComes'
    <3> SUFFICES ASSUME NEW r \in Subs \ doubled'
                 PROVE  /\ r \in running' /\ r \notin store => Stops(subEvents, r)
                        /\ r \in running' /\ ~Listed(r)' => Stops(subEvents, r) \/ r \in survived'
                        /\ r \in store /\ Listed(r)' /\ r \notin running' => Comes(subEvents, r)
      BY <1>1, <2>1 DEF StopsOrComes
    <3>1. Comes(subEvents, r) \/ (r \in known <=> r \in store)
      BY DEF ListInv, KnownOrCome
    <3>2. Listed(r)' <=> new = <<>> \/ r \in Lists!Range(new)
      BY <2>1 DEF Listed
    <3>3. r \in running /\ r \notin store => Stops(subEvents, r)
      BY <2>1 DEF ListInv, StopsOrComes
    <3>4. r \notin store /\ r \in started => Stops(subEvents, r)
      BY <1>3, <3>1
    <3>5. r \in running' => r \in started \/ (r \in running /\ r \in survived')
      BY <2>1
    <3>6. r \in started => Listed(r)'
      BY <3>2
    <3>7. r \in store /\ Listed(r)' /\ r \notin running' => Comes(subEvents, r)
      BY <2>1, <3>1, <3>2
    <3> HIDE DEF started
    <3> QED BY <3>3, <3>4, <3>5, <3>6, <3>7
  <2> QED BY <1>2, <2>2, <2>3 DEF ListInv
<1> QED BY <1>4, <1>5

\* Once the queued events are handled no deleted subscription runs, and a target runs what its
\* list names, for any subscriptions, any writes and any order in which the two watch channels
\* are served: but for a list that a write changed under the manager, a loop that outlived a
\* reconnect, and a subscription that was started beside a loop of its own.
THEOREM RunsAsListed == Lists!Spec => []Lists!RunsWhatItLists
<1>1. ListInv /\ [Lists!Next]_Lists!vars => ListInv'
  <2> SUFFICES ASSUME ListInv, [Lists!Next]_Lists!vars PROVE ListInv'
    OBVIOUS
  <2>1. ASSUME UNCHANGED <<store, subEvents, known, list, running, survived, doubled, patched>> PROVE ListInv'
    BY <2>1 DEF ListInv, ListTypes, Overtaken, KnownOrCome, StopsOrComes, Listed
  <2>2. ASSUME NEW l \in Lists!Lists, Lists!PatchSubscriptions(l) PROVE ListInv'
    <3>1. CASE list' = list /\ patched' = patched
      BY <2>1, <2>2, <3>1 DEF Lists!PatchSubscriptions, Lists!loops
    <3>2. CASE patched' = TRUE
      BY <2>2, <3>2 DEF Lists!PatchSubscriptions, Lists!loops, ListInv, ListTypes, Overtaken, KnownOrCome,
                        StopsOrComes
    <3> QED BY <2>2, <3>1, <3>2 DEF Lists!PatchSubscriptions, ListInv, ListTypes
  <2>3. ASSUME NEW l \in Lists!Lists, Lists!PostTarget(l) PROVE ListInv'
    BY <2>1, <2>3 DEF Lists!PostTarget, Lists!loops
  <2>4. CASE Lists!ApplyEqual \/ Lists!ApplyUnchanged \/ UNCHANGED Lists!vars
    BY <2>1, <2>4 DEF Lists!ApplyEqual, Lists!ApplyUnchanged, Lists!vars, Lists!loops
  <2>5. ASSUME NEW s \in Subs, Lists!LoopsMeet(s) PROVE ListInv'
    BY <2>5 DEF Lists!LoopsMeet, ListInv, ListTypes, Overtaken, KnownOrCome, StopsOrComes, Listed
  <2> QED BY <2>2, <2>3, <2>4, <2>5, WriteKeeps, EventKeeps, ListKeeps DEF Lists!Next
<1>2. ListInv => Lists!RunsWhatItLists
  <2> SUFFICES ASSUME ListInv, subEvents = <<>>
               PROVE  LET wanted == (IF list = <<>> THEN store ELSE Lists!Range(list)) \cap store IN
                      /\ known = store /\ running \ doubled \subseteq store
                      /\ ~patched => /\ wanted \ doubled \subseteq running
                                     /\ running \ doubled \subseteq wanted \cup survived
    BY DEF Lists!RunsWhatItLists, Lists!Quiet, Lists!Wanted, Lists!Names
  <2>1. \A s : ~Comes(subEvents, s) /\ ~Stops(subEvents, s)
    BY DEF Comes, Stops
  <2> QED BY <2>1 DEF ListInv, ListTypes, KnownOrCome, StopsOrComes, Listed
<1> QED BY <1>1, <1>2, ListInit, PTL DEF Lists!Spec
=============================================================================
