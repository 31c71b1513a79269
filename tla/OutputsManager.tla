--------------------------- MODULE OutputsManager ---------------------------
(***************************************************************************)
(* The outputs manager of the collector: the config store and its watch    *)
(* channels, the manager's event loop, the outputs it runs, the index of   *)
(* the processors they use, and the API handlers that write the store.     *)
(*                                                                         *)
(* A DELETE of an output runs DeleteOutput on the handler's goroutine, all *)
(* other changes reach the manager as events.  A step of the loop ends     *)
(* where it releases mgr.mu or calls the output's implementation, so that  *)
(* the handlers run in between.  An output's config is the set of          *)
(* processors it names.                                                    *)
(***************************************************************************)
EXTENDS Naturals, Sequences, FiniteSets, TLC, Functions

CONSTANTS Outs,       \* names of outputs
          Procs,      \* names of processors
          Requests,   \* the bodies of apply: records [outs, procs], outs a map to configs
          ApiOps,     \* the requests made: "output", "processor", "apply"
          MaxOps,     \* bound: requests to the API
          CloseFails  \* whether Impl.Close may return an error

VARIABLES
  conf,    \* Config store, "outputs": a map to sets of processors
  proc,    \* Config store, "processors": <<generation, version>>, <<g, 0>> = absent
  evq,     \* the watch channel of "outputs"
  pq,      \* the watch channel of "processors" (updates only)
  outs,    \* mgr.outputs: a map to records Output
  inUse,   \* mgr.processorsInUse
  state,   \* State store, "outputs"
  loop,    \* the event loop: its place and the event in hand
  api,     \* a handler that takes several steps: place and argument
  ops,     \* requests so far
  want,    \* history: outputs the last request naming them asked for
  stuck    \* history: outputs whose Close failed

vars == <<conf, proc, evq, pq, outs, inUse, state, loop, api, ops, want, stuck>>

Cfgs == SUBSET Procs
Versions == Nat \X Nat

\* A ManagedOutput and its implementation.
Output == [cfg    : Cfgs,                \* mo.Cfg
           own    : Cfgs,                \* the implementation's own copy of the config
           use    : Cfgs,                \* the processors it runs,
           seen   : [Procs -> Versions], \* the versions of them it has read,
           missed : SUBSET Procs,        \* those whose last update it could not build
           half   : BOOLEAN]             \* an Update failed after it had installed its
                                         \* processors; none has installed any since

Idle == [pc |-> "idle"]
Put(f, k, v) == [x \in DOMAIN f \cup {k} |-> IF x = k THEN v ELSE f[x]]
Drop(f, k) == Restrict(f, DOMAIN f \ {k})

TypeOK ==
  /\ DOMAIN conf \subseteq Outs /\ Range(conf) \subseteq Cfgs
  /\ proc \in [Procs -> Nat \X Nat]
  /\ \A i \in DOMAIN evq : evq[i].name \in Outs /\ evq[i].type \in {"create", "update", "delete"}
  /\ DOMAIN outs \subseteq Outs /\ Range(outs) \subseteq Output
  /\ inUse \in [Procs -> SUBSET Outs]
  /\ state \in [Outs -> {"none", "running", "failed", "stopping"}]
  /\ loop.pc \in {"idle", "init", "register", "publish", "update", "track", "cfg"}

Init ==
  /\ conf = <<>>
  /\ proc = [p \in Procs |-> <<1, 1>>]
  /\ evq = <<>> /\ pq = <<>>
  /\ outs = <<>>
  /\ inUse = [p \in Procs |-> {}]
  /\ state = [o \in Outs |-> "none"]
  /\ loop = Idle /\ api = Idle /\ ops = 0
  /\ want = {}
  /\ stuck = {}

-----------------------------------------------------------------------------
(* The store: every write is followed by its event, in the order of writes. *)

Present(p) == proc[p][2] > 0

SetOutput(o, c) ==
  /\ conf' = Put(conf, o, c)
  /\ evq' = Append(evq, [type |-> IF o \in DOMAIN conf THEN "update" ELSE "create", name |-> o, cfg |-> c])

DelOutput(o, q) ==
  /\ conf' = Drop(conf, o)
  /\ evq' = IF o \in DOMAIN conf THEN Append(q, [type |-> "delete", name |-> o]) ELSE q

\* Only updates are watched: a processor that is created anew sends nothing.
SetProc(p) ==
  /\ proc' = [proc EXCEPT ![p] = IF Present(p) THEN <<@[1], @[2] + 1>> ELSE <<@[1] + 1, 1>>]
  /\ pq' = IF Present(p) THEN Append(pq, <<p, proc'[p]>>) ELSE pq

DelProc(p) == proc' = [proc EXCEPT ![p] = <<@[1], 0>>] /\ UNCHANGED pq

-----------------------------------------------------------------------------
(* The manager. *)

Track(u, o, ps) == [p \in Procs |-> IF p \in ps THEN u[p] \cup {o} ELSE u[p]]
Untrack(u, o, ps) == [p \in Procs |-> IF p \in ps THEN u[p] \ {o} ELSE u[p]]

ProcessorInUse(p) == inUse[p] # {}

\* Mutant: an output that is not running is left as it is, its state too.
DeleteOutputEarly(o, q) ==
  \/ /\ o \in DOMAIN outs
     /\ inUse' = Untrack(inUse, o, outs[o].cfg)
     /\ outs' = Drop(outs, o)
     /\ state' = [state EXCEPT ![o] = "none"]
     /\ DelOutput(o, q)
     /\ UNCHANGED stuck
  \/ o \notin DOMAIN outs /\ evq' = q /\ UNCHANGED <<state, inUse, outs, conf, stuck>>

\* DeleteOutput holds mgr.mu throughout; q is the watch channel when it starts.  It
\* deletes the config too, which may be newer than the one it was asked to delete.
DeleteOutput(o, q) ==
  \/ /\ o \in DOMAIN outs
     /\ inUse' = Untrack(inUse, o, outs[o].cfg)
     /\ outs' = Drop(outs, o)
     /\ state' = [state EXCEPT ![o] = "none"]
     /\ DelOutput(o, q)
     /\ UNCHANGED stuck
  \/ /\ o \in DOMAIN outs /\ CloseFails
     /\ state' = [state EXCEPT ![o] = "stopping"]
     /\ stuck' = stuck \cup {o}
     /\ evq' = q
     /\ UNCHANGED <<inUse, outs, conf>>
  \/ /\ o \notin DOMAIN outs
     /\ state' = [state EXCEPT ![o] = "none"]
     /\ evq' = q
     /\ UNCHANGED <<inUse, outs, conf, stuck>>

TakeDelete ==
  /\ loop = Idle /\ evq # <<>> /\ Head(evq).type = "delete"
  /\ DeleteOutput(Head(evq).name, Tail(evq))
  /\ UNCHANGED <<proc, pq, loop, api, ops, want>>

\* createOutput, or updateOutput of an output the manager does not have.
TakeEvent ==
  /\ loop = Idle /\ evq # <<>> /\ Head(evq).type # "delete"
  /\ evq' = Tail(evq)
  /\ LET e == Head(evq) IN
     loop' = IF e.type = "create" \/ e.name \notin DOMAIN outs
             THEN [pc |-> "init", name |-> e.name, cfg |-> e.cfg]
             ELSE [pc |-> "update", name |-> e.name, cfg |-> e.cfg, old |-> outs[e.name].cfg]
  /\ UNCHANGED <<conf, proc, pq, outs, inUse, state, api, ops, want, stuck>>

\* impl.Init reads the processors it names from the store; without one it fails, and
\* it may fail for reasons of its own.
InitOutput ==
  /\ loop.pc = "init"
  /\ \/ /\ \A p \in loop.cfg : Present(p)
        /\ loop' = [pc |-> "register", name |-> loop.name, cfg |-> loop.cfg, seen |-> proc]
        /\ UNCHANGED state
     \/ /\ state' = [state EXCEPT ![loop.name] = "failed"]
        /\ loop' = Idle
  /\ UNCHANGED <<conf, proc, evq, pq, outs, inUse, api, ops, want, stuck>>

Register ==
  /\ loop.pc = "register"
  /\ inUse' = Track(inUse, loop.name, loop.cfg)
  /\ outs' = Put(outs, loop.name, 
                   [cfg |-> loop.cfg, own |-> loop.cfg, use |-> loop.cfg, seen |-> loop.seen,
                    missed |-> {}, half |-> FALSE])
  /\ loop' = [pc |-> "publish", name |-> loop.name]
  /\ UNCHANGED <<conf, proc, evq, pq, state, api, ops, want, stuck>>

Publish ==
  /\ loop.pc = "publish"
  /\ state' = [state EXCEPT ![loop.name] = "running"]
  /\ loop' = Idle
  /\ UNCHANGED <<conf, proc, evq, pq, outs, inUse, api, ops, want, stuck>>

\* What the output runs when Impl.Update has installed the processors it names.
Installed(r) == [r EXCEPT !.use = loop.cfg, !.seen = proc, !.missed = {}]

\* Impl.Update of the output that updateOutput looked up; an API delete may have closed
\* it and removed it since.
Updated(r) ==
  outs' = IF loop.name \in DOMAIN outs THEN [outs EXCEPT ![loop.name] = r] ELSE outs

\* Impl.Update reads the processors from the store.
UpdateInstalls ==
  /\ \A p \in loop.cfg : Present(p)
  /\ Updated([Installed(outs[loop.name]) EXCEPT !.own = loop.cfg, !.half = FALSE])
  /\ loop' = [loop EXCEPT !.pc = "track"]

\* Impl.Update keeps the processors it has, since its list of names did not change.
UpdateKeeps ==
  /\ loop.name \in DOMAIN outs => outs[loop.name].own = loop.cfg
  /\ loop' = [loop EXCEPT !.pc = "track"]
  /\ UNCHANGED outs

\* Impl.Update fails; that of prometheus may have installed the new processors, and the
\* new config too, before it does.  The manager's config and the index stay as they were.
UpdateFails ==
  /\ \/ UNCHANGED outs
     \/ /\ \A p \in loop.cfg : Present(p)
        /\ \E stored \in BOOLEAN :
             Updated([Installed(outs[loop.name]) EXCEPT !.own = IF stored THEN loop.cfg ELSE @,
                                                        !.half = TRUE])
  /\ loop' = Idle

UpdateOutput ==
  /\ loop.pc = "update"
  /\ UpdateInstalls \/ UpdateKeeps \/ UpdateFails
  /\ UNCHANGED <<conf, proc, evq, pq, inUse, state, api, ops, want, stuck>>

\* Mutant: the new processors are entered before the old ones are taken out.
TrackOutputSwapped ==
  /\ loop.pc = "track"
  /\ inUse' = Untrack(Track(inUse, loop.name, loop.cfg), loop.name, loop.old)
  /\ loop' = [loop EXCEPT !.pc = "cfg"]
  /\ UNCHANGED <<conf, proc, evq, pq, outs, state, api, ops, want, stuck>>

TrackOutput ==
  /\ loop.pc = "track"
  /\ inUse' = Track(Untrack(inUse, loop.name, loop.old), loop.name, loop.cfg)
  /\ loop' = [loop EXCEPT !.pc = "cfg"]
  /\ UNCHANGED <<conf, proc, evq, pq, outs, state, api, ops, want, stuck>>

SetCfg ==
  /\ loop.pc = "cfg"
  /\ outs' = IF loop.name \notin DOMAIN outs THEN outs ELSE [outs EXCEPT ![loop.name].cfg = loop.cfg]
  /\ loop' = Idle
  /\ UNCHANGED <<conf, proc, evq, pq, inUse, state, api, ops, want, stuck>>

\* What an output that runs r may run after its UpdateProcessor of p, now version v.  An
\* output that does not name p is left alone; of one that does the processor may fail to
\* be built and stay the old one.  p's place in the output's own list tells which of its
\* processors is replaced: another one when an Update failed half way.
ProcessorUpdates(r, p, v) ==
  IF p \notin r.own THEN {r}
  ELSE {[r EXCEPT !.missed = @ \cup {p}]}
       \cup {[r EXCEPT !.use = u, !.seen[p] = v, !.missed = @ \ {p}] :
               u \in IF r.half THEN {(r.use \ {q}) \cup {p} : q \in r.use} ELSE {r.use}}

\* updateProcessor: every output is asked to rebuild the processor from the event; an error
\* is logged.
UpdateProcessor ==
  /\ loop = Idle /\ pq # <<>>
  /\ \E f \in [DOMAIN outs -> UNION {ProcessorUpdates(outs[o], Head(pq)[1], Head(pq)[2]) :
                                        o \in DOMAIN outs}] :
       /\ \A o \in DOMAIN outs : f[o] \in ProcessorUpdates(outs[o], Head(pq)[1], Head(pq)[2])
       /\ outs' = f
  /\ pq' = Tail(pq)
  /\ UNCHANGED <<conf, proc, evq, inUse, state, loop, api, ops, want, stuck>>

-----------------------------------------------------------------------------
(* The API. *)

Request(k) == k \in ApiOps /\ ops < MaxOps /\ ops' = ops + 1

\* The check that the processors exist reads a []string, which JSON never yields.
PostOutput ==
  /\ Request("output")
  /\ \E o \in Outs, c \in Cfgs : SetOutput(o, c) /\ want' = want \cup {o}
  /\ UNCHANGED <<proc, pq, outs, inUse, state, loop, api, stuck>>

DeleteOutputApi ==
  /\ Request("output")
  /\ \E o \in Outs : DeleteOutput(o, evq) /\ want' = want \ {o}
  /\ UNCHANGED <<proc, pq, loop, api>>

PostProcessor ==
  /\ Request("processor")
  /\ \E p \in Procs : SetProc(p)
  /\ UNCHANGED <<conf, evq, outs, inUse, state, loop, api, want, stuck>>

\* The handler asks whether the processor is in use, and deletes it in a second step.
CheckProcessor ==
  /\ api = Idle /\ Request("processor")
  /\ \E p \in Procs : ~ProcessorInUse(p) /\ api' = [pc |-> "delProc", proc |-> p]
  /\ UNCHANGED <<conf, proc, evq, pq, outs, inUse, state, loop, want, stuck>>

DeleteProcessor ==
  /\ api.pc = "delProc"
  /\ DelProc(api.proc)
  /\ api' = Idle
  /\ UNCHANGED <<conf, evq, outs, inUse, state, loop, ops, want, stuck>>

\* handleConfigApply, under applyLock: the outputs and then the processors that the body
\* leaves out are deleted, then the processors and the outputs of the body are set.
ApplyBegin ==
  /\ api = Idle /\ Request("apply")
  /\ \E r \in Requests : api' = [pc |-> "delOuts", req |-> r, 
                                  todo |-> DOMAIN conf \ DOMAIN r.outs]
  /\ UNCHANGED <<conf, proc, evq, pq, outs, inUse, state, loop, want, stuck>>

ApplyDelOutput ==
  /\ api.pc = "delOuts"
  /\ \E o \in api.todo : DelOutput(o, evq) /\ want' = want \ {o}
                         /\ api' = [api EXCEPT !.todo = @ \ {o}]
  /\ UNCHANGED <<proc, pq, outs, inUse, state, loop, ops, stuck>>

ApplyDelProc ==
  /\ api.pc = "delProcs"
  /\ \E p \in api.todo : DelProc(p) /\ api' = [api EXCEPT !.todo = @ \ {p}]
  /\ UNCHANGED <<conf, evq, outs, inUse, state, loop, ops, want, stuck>>

ApplySetProc ==
  /\ api.pc = "setProcs"
  /\ \E p \in api.todo : SetProc(p) /\ api' = [api EXCEPT !.todo = @ \ {p}]
  /\ UNCHANGED <<conf, evq, outs, inUse, state, loop, ops, want, stuck>>

ApplySetOutput ==
  /\ api.pc = "setOuts"
  /\ \E o \in api.todo : /\ SetOutput(o, api.req.outs[o])
                         /\ want' = want \cup {o}
                         /\ api' = [api EXCEPT !.todo = @ \ {o}]
  /\ UNCHANGED <<proc, pq, outs, inUse, state, loop, ops, stuck>>

\* The end of one loop of the handler and the start of the next.
ApplyNext ==
  /\ api.pc \in {"delOuts", "delProcs", "setProcs", "setOuts"} /\ api.todo = {}
  /\ api' = CASE api.pc = "delOuts" -> [api EXCEPT !.pc = "delProcs", !.todo = {p \in Procs : Present(p)} \ api.req.procs]
              [] api.pc = "delProcs" -> [api EXCEPT !.pc = "setProcs", !.todo = api.req.procs]
              [] api.pc = "setProcs" -> [api EXCEPT !.pc = "setOuts", !.todo = DOMAIN api.req.outs]
              [] OTHER -> Idle
  /\ UNCHANGED <<conf, proc, evq, pq, outs, inUse, state, loop, ops, want, stuck>>

Loop == TakeDelete \/ TakeEvent \/ InitOutput \/ Register \/ Publish
        \/ UpdateOutput \/ TrackOutput \/ SetCfg \/ UpdateProcessor
Api == PostOutput \/ DeleteOutputApi \/ PostProcessor \/ CheckProcessor \/ DeleteProcessor
       \/ ApplyBegin \/ ApplyDelOutput \/ ApplyDelProc \/ ApplySetProc \/ ApplySetOutput \/ ApplyNext
Next == Loop \/ Api

Spec == Init /\ [][Next]_vars

-----------------------------------------------------------------------------
(* Properties. *)

Settled == loop = Idle /\ api = Idle /\ evq = <<>> /\ pq = <<>>

\* The index that guards the deletion of a processor names every output that runs it,
\* whatever deletes, failed closes, failed updates and re-creations came between (the loop
\* may be between Impl.Update and the index, never idle).  An output whose Update failed
\* half way may run processors the index does not name.
UsedIsTracked ==
  loop = Idle => \A o \in DOMAIN outs : ~outs[o].half => \A p \in outs[o].use : o \in inUse[p]

\* Once the events are handled an output runs the stored version of a processor, though
\* it may have read a newer one than the event it handles next; a processor deleted and
\* created again since is a new one, of which the manager hears nothing.  A processor that
\* could not be built when it was last updated stays the old one, and an output whose
\* Update failed half way looks for its processors in the wrong places.
ProcessorsCurrent ==
  Settled => \A o \in DOMAIN outs : ~outs[o].half => \A p \in outs[o].use \ outs[o].missed :
               Present(p) /\ outs[o].seen[p][1] = proc[p][1] => outs[o].seen[p] = proc[p]

\* Once the events are handled, an output that is not configured is neither run nor
\* reported, also when a DELETE met its creation half way (unless its Close failed).
RemovedIsGone ==
  Settled => \A o \in Outs \ (DOMAIN conf \cup stuck) : o \notin DOMAIN outs /\ state[o] = "none"
OutputsSettle == ProcessorsCurrent /\ RemovedIsGone

\* "Applies a complete configuration to the collector": what the last request set is
\* configured once the events are handled.
ConfiguredAsRequested == Settled => want \subseteq DOMAIN conf
=============================================================================
