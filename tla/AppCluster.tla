------------------------------ MODULE AppCluster ------------------------------
(***************************************************************************)
(* Clustering of the classic subscribe command.  Every instance campaigns  *)
(* for the leader key; the leader watches the registered services, runs    *)
(* the loader and dispatches unlocked targets over the instances' HTTP     *)
(* API.  An instance that is handed a target runs TargetSubscribeStream:   *)
(* lock the target, subscribe, keep the lock.  Rebalance and drain work    *)
(* under the dispatch lock, with a context that never expires.  The short  *)
(* overlap of an old and a new leader is Election's subject, not this      *)
(* module's: an instance that loses the key knows it.                      *)
(***************************************************************************)
EXTENDS Integers, FiniteSets, FiniteSetsExt

CONSTANTS Nodes,
          Targets,    \* 1 .. k, in the order of their names
          TagMatch,   \* [Targets -> [Nodes -> Nat]]: tags a service shares with a target
          HasLoader,  \* targets come from the leader's loader, else from every instance's file
          Cut,        \* pairs of instances whose API calls never get through
          Bad,        \* pairs of instance and target whose initTarget fails
          AppOps,     \* requests made: rebalance, drain, yield (DELETE leader),
                      \* delete (by the loader's source), resub
          MaxFaults,  \* bound: crashes, lost locks, slow assignments
          MaxOps      \* bound: requests

None == 0
Free == <<None, None>>
Slots == 1 .. 2       \* bound: goroutines of TargetSubscribeStream per target, a further one is not started
Threads == {"main", "loader", "asked"}   \* the holder of dispatchLock, startLoader, a waiting drain

VARIABLES
  alive, reg,   \* running instances; registered services
  key,          \* holder of the leader key
  view,         \* a.apiServices
  cfg,          \* a.Config.Targets
  oper,         \* a.Targets
  w, fn,        \* goroutines of TargetSubscribeStream; targetsLockFn
  lock,         \* holders of the target locks: <<instance, goroutine>>
  d,            \* threads that dispatch
  want,         \* targets the loader's source lists
  ladd,         \* the loader's channel: targets to add
  faults, ops

vars == <<alive, reg, key, view, cfg, oper, w, fn, lock, d, want, ladd, faults, ops>>

Off == [pc |-> "off", can |-> FALSE, str |-> FALSE]
Idle == [kind |-> "none", pc |-> "idle", todo |-> {}, t |-> None, s |-> None, of |-> None, denied |-> {},
         time |-> "ok", iter |-> 0]
StaticCfg == IF HasLoader THEN {} ELSE Targets

Init ==
  /\ alive = Nodes /\ reg = Nodes /\ key = None
  /\ view = [n \in Nodes |-> {}]
  /\ cfg = [n \in Nodes |-> StaticCfg] /\ oper = [n \in Nodes |-> {}]
  /\ w = [n \in Nodes |-> [t \in Targets |-> [k \in Slots |-> Off]]]
  /\ fn = [n \in Nodes |-> [t \in Targets |-> None]]
  /\ lock = [t \in Targets |-> Free]
  /\ d = [n \in Nodes |-> [th \in Threads |-> Idle]]
  /\ want = Targets /\ ladd = [n \in Nodes |-> {}] /\ faults = 0 /\ ops = 0

Reaches(n, m) == m \in alive /\ <<n, m>> \notin Cut
IsLeader(n) == key = n /\ n \in alive
HolderOf(t) == lock[t][1]
HeldBy(m) == {t \in Targets : HolderOf(t) = m}

-----------------------------------------------------------------------------
(* TargetSubscribeStream and the handlers that stop it. *)

\* Unlock: the entry goes and the goroutine that keeps it returns on doneChan.
UnlockT(n, t) == IF HolderOf(t) = n THEN [lock EXCEPT ![t] = Free] ELSE lock
Unlocked(n, t, ws) ==
  IF HolderOf(t) = n /\ ws[lock[t][2]].pc = "kept" THEN [ws EXCEPT ![lock[t][2]] = Off] ELSE ws

\* Cancelling a context: the keeper of a lock returns and leaves the lock to its TTL, a
\* waiting Lock will return ctx.Err().
Cancelled(ws, k) ==
  IF k = None THEN ws
  ELSE CASE ws[k].pc = "kept" -> [ws EXCEPT ![k] = Off]
         [] ws[k].pc = "lock" -> [ws EXCEPT ![k].can = TRUE]
         [] OTHER -> ws

Silenced(ws) == [k \in Slots |-> [ws[k] EXCEPT !.str = FALSE]]

WStart(n, t, k) ==
  /\ w[n][t][k].pc = "start"
  /\ fn' = [fn EXCEPT ![n][t] = k]
  /\ LET ws == Cancelled(w[n][t], IF fn[n][t] = k THEN None ELSE fn[n][t]) IN
     IF <<n, t>> \in Bad
     THEN w' = [w EXCEPT ![n][t] = [ws EXCEPT ![k] = Off]] /\ UNCHANGED oper
     ELSE /\ w' = [w EXCEPT ![n][t] = [ws EXCEPT ![k] = [pc |-> "lock", can |-> FALSE, str |-> FALSE]]]
          /\ oper' = [oper EXCEPT ![n] = @ \cup {t}]
  /\ UNCHANGED <<alive, reg, key, view, cfg, lock, d, want, ladd, faults, ops>>

\* The lock is taken, the target queued and clientSubscribe started.
WLock(n, t, k) ==
  /\ w[n][t][k].pc = "lock" /\ ~w[n][t][k].can /\ lock[t] = Free
  /\ lock' = [lock EXCEPT ![t] = <<n, k>>]
  /\ w' = [w EXCEPT ![n][t][k] = [pc |-> "kept", can |-> FALSE, str |-> t \in oper[n]]]
  /\ UNCHANGED <<alive, reg, key, view, cfg, oper, fn, d, want, ladd, faults, ops>>

\* Lock fails: only ErrCanceled ends the goroutine, ctx.Err() is retried from START.
WLockFail(n, t, k) ==
  /\ w[n][t][k].pc = "lock"
  /\ \/ w[n][t][k].can /\ w' = [w EXCEPT ![n][t][k] = Off]
     \/ (w[n][t][k].can \/ lock[t] # Free) /\ w' = [w EXCEPT ![n][t][k].pc = "start"]
  /\ UNCHANGED <<alive, reg, key, view, cfg, oper, fn, lock, d, want, ladd, faults, ops>>

\* stopTarget: object and lock go; the goroutine that keeps the lock returns on doneChan.
StopTarget(n, t) ==
  /\ oper' = [oper EXCEPT ![n] = @ \ {t}]
  /\ lock' = UnlockT(n, t)

\* KeepLock reports an error: stopTarget, then START again.
WLost(n, t, k) ==
  /\ w[n][t][k].pc = "kept" /\ lock[t] # <<n, k>>
  /\ LET ws == [w[n][t] EXCEPT ![k] = [Off EXCEPT !.pc = "start"]] IN
     IF t \in oper[n]
     THEN StopTarget(n, t) /\ w' = [w EXCEPT ![n][t] = Unlocked(n, t, Silenced(ws))]
     ELSE w' = [w EXCEPT ![n][t] = ws] /\ UNCHANGED <<oper, lock>>
  /\ UNCHANGED <<alive, reg, key, view, cfg, fn, d, want, ladd, faults, ops>>

\* A lock nobody keeps any more expires.
LockExpires(t) ==
  /\ lock[t] # Free /\ w[lock[t][1]][t][lock[t][2]].pc # "kept"
  /\ lock' = [lock EXCEPT ![t] = Free]
  /\ UNCHANGED <<alive, reg, key, view, cfg, oper, w, fn, d, want, ladd, faults, ops>>

\* Mutant: neither the context nor the lock is released.
DeleteKeepsLock(m, t) ==
  IF t \notin cfg[m] THEN UNCHANGED <<cfg, oper, w, lock>>
  ELSE /\ cfg' = [cfg EXCEPT ![m] = @ \ {t}]
       /\ oper' = [oper EXCEPT ![m] = @ \ {t}]
       /\ w' = [w EXCEPT ![m][t] = Silenced(@)]
       /\ UNCHANGED lock

\* DeleteTarget at instance m: config, context, object and lock.
DeleteTarget(m, t) ==
  IF t \notin cfg[m] THEN UNCHANGED <<cfg, oper, w, lock>>
  ELSE /\ cfg' = [cfg EXCEPT ![m] = @ \ {t}]
       /\ oper' = [oper EXCEPT ![m] = @ \ {t}]
       /\ LET ws == Cancelled(w[m][t], fn[m][t]) IN
          IF t \in oper[m]
          THEN w' = [w EXCEPT ![m][t] = Unlocked(m, t, Silenced(ws))] /\ lock' = UnlockT(m, t)
          ELSE w' = [w EXCEPT ![m][t] = ws] /\ UNCHANGED lock

\* POST /config/targets and POST /targets/{id}: AddTargetConfig, a goroutine more.
HandleConfigTargetsPost(m, t) == [cfg EXCEPT ![m] = @ \cup {t}]
HandleTargetsPost(ws) ==
  LET free == {k \in Slots : ws[k].pc = "off"} IN
  IF free = {} THEN ws ELSE [ws EXCEPT ![Min(free)] = [Off EXCEPT !.pc = "start"]]

\* DELETE /targets/{id}: only a target with an object is deleted.
HandleTargetsDelete(m, t) == IF t \in oper[m] THEN DeleteTarget(m, t) ELSE UNCHANGED <<cfg, oper, w, lock>>

-----------------------------------------------------------------------------
(* Leadership and membership. *)

Register(n) ==
  /\ n \in alive /\ n \notin reg /\ reg' = reg \cup {n}
  /\ UNCHANGED <<alive, key, view, cfg, oper, w, fn, lock, d, want, ladd, faults, ops>>

ServiceExpires(n) ==
  /\ n \notin alive /\ n \in reg /\ reg' = reg \ {n}
  /\ UNCHANGED <<alive, key, view, cfg, oper, w, fn, lock, d, want, ladd, faults, ops>>

StartCluster(n) ==
  /\ n \in alive /\ key = None /\ key' = n
  /\ ladd' = [ladd EXCEPT ![n] = IF HasLoader THEN want ELSE {}]
  /\ UNCHANGED <<alive, reg, view, cfg, oper, w, fn, lock, d, want, faults, ops>>

KeyExpires ==
  /\ key # None /\ key \notin alive /\ key' = None
  /\ UNCHANGED <<alive, reg, view, cfg, oper, w, fn, lock, d, want, ladd, faults, ops>>

UpdateServices(n) ==
  /\ IsLeader(n) /\ view[n] # reg /\ view' = [view EXCEPT ![n] = reg]
  /\ UNCHANGED <<alive, reg, key, cfg, oper, w, fn, lock, d, want, ladd, faults, ops>>

-----------------------------------------------------------------------------
(* Dispatching. *)

\* selectService: the least loaded of the services that share most tags with the target.
Matching(n, t) == {m \in view[n] : \A x \in view[n] : TagMatch[t][x] =< TagMatch[t][m]}
Load(m) == Cardinality(HeldBy(m))
\* Mutant: the load decides, refused or not.
SelectIgnoresDenied(n, t, denied) ==
  LET c == IF Cardinality(view[n]) = 1 THEN view[n] ELSE Matching(n, t) IN
  {m \in c : \A x \in c : Load(m) =< Load(x)}
SelectService(n, t, denied) ==
  LET c == IF Cardinality(view[n]) = 1 THEN view[n] ELSE Matching(n, t) IN
  {m \in c \ denied : \A x \in c \ denied : Load(m) =< Load(x)}

\* A context that is cancelled with the leadership, or the deadline of a pass.
CtxErr(n, th) ==
  d[n][th].kind \in {"loop", "loader"} /\ (~IsLeader(n) \/ d[n][th].time = "expired")
Go(n, th, r) == d' = [d EXCEPT ![n][th] = r]
Done(n, th) == IF th = "loader" THEN Idle ELSE [d[n][th] EXCEPT !.pc = "next", !.t = None, !.denied = {}]

DispatchTargetsOnce(n) ==
  /\ IsLeader(n) /\ d[n]["main"].kind = "none" /\ view[n] # {}
  /\ Go(n, "main", [Idle EXCEPT !.kind = "loop", !.pc = "next", !.todo = cfg[n]])
  /\ UNCHANGED <<alive, reg, key, view, cfg, oper, w, fn, lock, want, ladd, faults, ops>>

\* The next target of the pass: IsLocked decides, and fails once the pass is late.
PassNext(n) ==
  /\ d[n]["main"].kind = "loop" /\ d[n]["main"].pc = "next"
  /\ LET r == d[n]["main"]
         todo == r.todo \cap cfg[n]
     IN IF todo = {} \/ CtxErr(n, "main") THEN Go(n, "main", Idle)
        ELSE \E t \in todo :
               Go(n, "main", [r EXCEPT !.todo = todo \ {t}, !.t = t,
                                       !.pc = IF lock[t] # Free THEN "next" ELSE "select"])
  /\ UNCHANGED <<alive, reg, key, view, cfg, oper, w, fn, lock, want, ladd, faults, ops>>

LoaderAdd(n) ==
  /\ IsLeader(n) /\ d[n]["loader"].kind = "none"
  /\ \E t \in ladd[n] :
       /\ ladd' = [ladd EXCEPT ![n] = @ \ {t}]
       /\ cfg' = [cfg EXCEPT ![n] = @ \cup {t}]
       /\ IF lock[t] # Free THEN UNCHANGED d
          ELSE Go(n, "loader", [Idle EXCEPT !.kind = "loader", !.pc = "select", !.t = t])
  /\ UNCHANGED <<alive, reg, key, view, oper, w, fn, lock, want, faults, ops>>

Select(n, th) ==
  /\ d[n][th].pc = "select"
  /\ LET r == d[n][th]
         c == SelectService(n, r.t, r.denied)
     IN IF CtxErr(n, th) \/ c = {}
        THEN Go(n, th, IF view[n] = {} /\ r.kind = "loop" THEN [Done(n, th) EXCEPT !.todo = {}] ELSE Done(n, th))
        ELSE \E m \in c : Go(n, th, [r EXCEPT !.s = m, !.pc = "assign"])
  /\ UNCHANGED <<alive, reg, key, view, cfg, oper, w, fn, lock, want, ladd, faults, ops>>

Denied(r) == [r EXCEPT !.denied = @ \cup {r.s}, !.pc = "select"]

\* assignTarget, first call: the config.
AssignConfig(n, th) ==
  /\ d[n][th].pc = "assign"
  /\ LET r == d[n][th] IN
     IF Reaches(n, r.s)
     THEN Go(n, th, [r EXCEPT !.pc = "start"]) /\ cfg' = HandleConfigTargetsPost(r.s, r.t)
     ELSE Go(n, th, Denied(r)) /\ UNCHANGED cfg
  /\ UNCHANGED <<alive, reg, key, view, oper, w, fn, lock, want, ladd, faults, ops>>

\* Second call: start it; the handler answers 404 when the config is gone again.
AssignStart(n, th) ==
  /\ d[n][th].pc = "start"
  /\ LET r == d[n][th] IN
     IF Reaches(n, r.s) /\ r.t \in cfg[r.s]
     THEN /\ Go(n, th, [r EXCEPT !.pc = "wait"])
          /\ w' = [w EXCEPT ![r.s][r.t] = HandleTargetsPost(@)]
     ELSE Go(n, th, Denied(r)) /\ UNCHANGED w
  /\ UNCHANGED <<alive, reg, key, view, cfg, oper, fn, lock, want, ladd, faults, ops>>

WaitOver(n, th) ==
  /\ d[n][th].pc = "wait"
  /\ lock[d[n][th].t] # Free \/ CtxErr(n, th)
  /\ Go(n, th, Done(n, th))
  /\ UNCHANGED <<alive, reg, key, view, cfg, oper, w, fn, lock, want, ladd, faults, ops>>

\* Nobody at the service is about to take the lock.
Hopeless(r) == \A k \in Slots : w[r.s][r.t][k].pc = "off"

\* TargetAssignmentTimeout: unassign and select again, the service is not denied.
WaitTimeout(n, th) ==
  /\ d[n][th].pc = "wait" /\ lock[d[n][th].t] = Free /\ ~CtxErr(n, th)
  /\ LET r == d[n][th] IN
     /\ IF Hopeless(r) THEN UNCHANGED faults ELSE faults < MaxFaults /\ faults' = faults + 1
     /\ Go(n, th, [r EXCEPT !.pc = "select", !.time = IF @ = "ok" THEN "late" ELSE @])
     /\ IF r.s \in view[n] /\ Reaches(n, r.s) THEN HandleTargetsDelete(r.s, r.t)
        ELSE UNCHANGED <<cfg, oper, w, lock>>
  /\ UNCHANGED <<alive, reg, key, view, fn, want, ladd, ops>>

\* The deadline of a pass (TargetsWatchTimer) goes by once an assignment took its time.
PassExpires(n) ==
  /\ d[n]["main"].kind = "loop" /\ d[n]["main"].time = "late"
  /\ d' = [d EXCEPT ![n]["main"].time = "expired"]
  /\ UNCHANGED <<alive, reg, key, view, cfg, oper, w, fn, lock, want, ladd, faults, ops>>

-----------------------------------------------------------------------------
(* Requests to the leader's API. *)

Request(n, op) == op \in AppOps /\ IsLeader(n) /\ ops < MaxOps /\ ops' = ops + 1

\* The handler reads the instance's targets; its goroutine waits for dispatchLock with them.
HandleDrain(n, m) ==
  /\ Request(n, "drain") /\ m \in reg /\ d[n]["asked"].kind = "none"
  /\ Go(n, "asked", [Idle EXCEPT !.kind = "drain", !.pc = "next", !.todo = HeldBy(m), !.of = m])
  /\ UNCHANGED <<alive, reg, key, view, cfg, oper, w, fn, lock, want, ladd, faults>>

DrainLocks(n) ==
  /\ d[n]["asked"].kind = "drain" /\ d[n]["main"].kind = "none"
  /\ d' = [d EXCEPT ![n]["main"] = d[n]["asked"], ![n]["asked"] = Idle]
  /\ UNCHANGED <<alive, reg, key, view, cfg, oper, w, fn, lock, want, ladd, faults, ops>>

\* The target is unassigned first, then its config is looked up.
DrainNext(n) ==
  /\ d[n]["main"].kind = "drain" /\ d[n]["main"].pc = "next"
  /\ LET r == d[n]["main"]
         m == r.of
     IN IF r.todo = {} THEN Go(n, "main", Idle) /\ UNCHANGED <<cfg, oper, w, lock>>
        ELSE LET t == Min(r.todo)
                 skip == [r EXCEPT !.todo = @ \ {t}]
             IN IF m \in view[n] /\ ~Reaches(n, m)
                THEN Go(n, "main", skip) /\ UNCHANGED <<cfg, oper, w, lock>>
                ELSE /\ IF m \in view[n] THEN HandleTargetsDelete(m, t) ELSE UNCHANGED <<cfg, oper, w, lock>>
                     /\ Go(n, "main", IF t \notin cfg'[n] \/ lock'[t] # Free THEN skip
                                      ELSE [skip EXCEPT !.pc = "select", !.t = t, !.denied = {m}])
  /\ UNCHANGED <<alive, reg, key, view, fn, want, ladd, faults, ops>>

HandleRebalance(n) ==
  /\ Request(n, "rebalance") /\ d[n]["main"].kind = "none"
  /\ Go(n, "main", [Idle EXCEPT !.kind = "rebalance", !.pc = "next", !.iter = -1])
  /\ UNCHANGED <<alive, reg, key, view, cfg, oper, w, fn, lock, want, ladd, faults>>

\* One round: the first target of the most loaded instance whose config is known moves;
\* there are at most half of the first difference of them.
RebalanceNext(n) ==
  /\ d[n]["main"].kind = "rebalance" /\ d[n]["main"].pc = "next"
  /\ LET ms == view[n] \cup {HolderOf(t) : t \in {u \in Targets : lock[u] # Free}} IN
     \/ ms = {} /\ Go(n, "main", Idle) /\ UNCHANGED <<cfg, oper, w, lock>>
     \/ \E hi, lo \in ms :
         /\ \A m \in ms : Load(lo) =< Load(m) /\ Load(m) =< Load(hi)
         /\ LET delta == Load(hi) - Load(lo)
                left == IF d[n]["main"].iter < 0 THEN delta \div 2 ELSE d[n]["main"].iter
                known == HeldBy(hi) \cap cfg[n]
            IN IF delta < 2 \/ left = 0 \/ known = {} \/ (hi \in view[n] /\ ~Reaches(n, hi))
               THEN Go(n, "main", Idle) /\ UNCHANGED <<cfg, oper, w, lock>>
               ELSE LET t == Min(known)
                        r == [d[n]["main"] EXCEPT !.iter = left - 1]
                    IN /\ IF hi \in view[n] THEN HandleTargetsDelete(hi, t) ELSE UNCHANGED <<cfg, oper, w, lock>>
                       /\ Go(n, "main", IF lock'[t] # Free THEN r ELSE [r EXCEPT !.pc = "select", !.t = t])
  /\ UNCHANGED <<alive, reg, key, view, fn, want, ladd, faults, ops>>

\* PATCH of a target's subscriptions, on any instance: stopTarget, then a new goroutine.
UpdateTargetSubscription(n, t) ==
  /\ "resub" \in AppOps /\ n \in alive /\ ops < MaxOps /\ ops' = ops + 1
  /\ \E k \in Slots : w[n][t][k].pc = "off"
  /\ t \in cfg[n] \cap oper[n] /\ StopTarget(n, t)
  /\ w' = [w EXCEPT ![n][t] = HandleTargetsPost(Unlocked(n, t, Silenced(@)))]
  /\ UNCHANGED <<alive, reg, key, view, cfg, fn, d, want, ladd, faults>>

HandleLeaderDelete(n) ==
  /\ Request(n, "yield") /\ key' = None /\ ladd' = [ladd EXCEPT ![n] = {}]
  /\ UNCHANGED <<alive, reg, view, cfg, oper, w, fn, lock, d, want, faults>>

\* What a crash of n leaves: locks and the registration go with their TTLs.
Crashed(n) ==
  /\ alive' = alive \ {n} /\ view' = [view EXCEPT ![n] = {}]
  /\ fn' = [fn EXCEPT ![n] = [t \in Targets |-> None]]
  /\ d' = [d EXCEPT ![n] = [th \in Threads |-> Idle]] /\ ladd' = [ladd EXCEPT ![n] = {}]
Stopped(f, n) == [f EXCEPT ![n] = [t \in Targets |-> [k \in Slots |-> Off]]]

\* The source drops a target: deleteTarget calls every service; an error panics on the nil
\* response, after any of the other calls.
LoaderDelete(n, t) ==
  /\ HasLoader /\ Request(n, "delete") /\ t \in want /\ want' = want \ {t}
  /\ IF \A m \in view[n] : Reaches(n, m)
     THEN /\ LET hit == {m \in view[n] : t \in cfg[m]} IN
             /\ cfg' = [m \in Nodes |-> IF m \in hit THEN cfg[m] \ {t} ELSE cfg[m]]
             /\ oper' = [m \in Nodes |-> IF m \in hit THEN oper[m] \ {t} ELSE oper[m]]
             /\ w' = [m \in Nodes |-> IF m \notin hit THEN w[m]
                        ELSE [w[m] EXCEPT ![t] = IF t \in oper[m]
                                                 THEN Unlocked(m, t, Silenced(Cancelled(@, fn[m][t])))
                                                 ELSE Cancelled(@, fn[m][t])]]
             /\ lock' = IF HolderOf(t) \in {m \in hit : t \in oper[m]} THEN [lock EXCEPT ![t] = Free] ELSE lock
          /\ ladd' = [ladd EXCEPT ![n] = @ \ {t}]
          /\ UNCHANGED <<alive, view, fn, d>>
     ELSE /\ Crashed(n) /\ w' = Stopped(w, n)
          /\ cfg' = [cfg EXCEPT ![n] = StaticCfg] /\ oper' = [oper EXCEPT ![n] = {}] /\ UNCHANGED lock
  /\ UNCHANGED <<reg, key, faults>>

-----------------------------------------------------------------------------
(* Faults. *)

Crash(n) ==
  /\ n \in alive /\ faults < MaxFaults /\ faults' = faults + 1
  /\ Crashed(n) /\ w' = Stopped(w, n)
  /\ cfg' = [cfg EXCEPT ![n] = StaticCfg] /\ oper' = [oper EXCEPT ![n] = {}]
  /\ UNCHANGED <<reg, key, lock, want, ops>>

Restart(n) ==
  /\ n \notin alive /\ alive' = alive \cup {n}
  /\ UNCHANGED <<reg, key, view, cfg, oper, w, fn, lock, d, want, ladd, faults, ops>>

LoseLock ==
  /\ faults < MaxFaults /\ faults' = faults + 1
  /\ \/ \E t \in Targets : lock[t] # Free /\ lock' = [lock EXCEPT ![t] = Free] /\ UNCHANGED key
     \/ key # None /\ key' = None /\ UNCHANGED lock
  /\ ladd' = [n \in Nodes |-> IF key' = n THEN ladd[n] ELSE {}]
  /\ UNCHANGED <<alive, reg, view, cfg, oper, w, fn, d, want, ops>>

-----------------------------------------------------------------------------
Worker(n, t, k) == WStart(n, t, k) \/ WLock(n, t, k) \/ WLockFail(n, t, k) \/ WLost(n, t, k)
Dispatcher(n, th) ==
  Select(n, th) \/ AssignConfig(n, th) \/ AssignStart(n, th) \/ WaitOver(n, th) \/ WaitTimeout(n, th)
MainThread(n) ==
  DispatchTargetsOnce(n) \/ PassNext(n) \/ DrainLocks(n) \/ DrainNext(n) \/ RebalanceNext(n) \/ Dispatcher(n, "main")

Next ==
  \/ KeyExpires \/ LoseLock
  \/ \E t \in Targets : LockExpires(t)
  \/ \E n \in Nodes :
       \/ Register(n) \/ ServiceExpires(n) \/ StartCluster(n) \/ UpdateServices(n)
       \/ MainThread(n) \/ Dispatcher(n, "loader") \/ LoaderAdd(n) \/ PassExpires(n)
       \/ HandleRebalance(n) \/ HandleLeaderDelete(n) \/ Crash(n) \/ Restart(n)
       \/ \E m \in Nodes : HandleDrain(n, m)
       \/ \E t \in Targets : LoaderDelete(n, t) \/ UpdateTargetSubscription(n, t) \/ \E k \in Slots : Worker(n, t, k)

Spec == Init /\ [][Next]_vars

\* Goroutines run, leases expire, the registry answers; instances are restarted.  The
\* strong fairness is time: Lock of a free key answers within the 5 s of lock-retry.
Fairness ==
  /\ WF_vars(KeyExpires)
  /\ \A t \in Targets : WF_vars(LockExpires(t))
  /\ \A n \in Nodes :
       /\ WF_vars(Register(n)) /\ WF_vars(ServiceExpires(n)) /\ WF_vars(Restart(n))
       /\ WF_vars(StartCluster(n)) /\ WF_vars(UpdateServices(n)) /\ WF_vars(PassExpires(n))
       /\ WF_vars(MainThread(n)) /\ WF_vars(Dispatcher(n, "loader") \/ LoaderAdd(n))
       /\ \A t \in Targets, k \in Slots : WF_vars(Worker(n, t, k))
       /\ \A t \in Targets : SF_vars(\E k \in Slots : WLock(n, t, k))
FairSpec == Spec /\ Fairness

-----------------------------------------------------------------------------
Streamed(t) == \E n \in alive, k \in Slots : w[n][t][k].str

\* A drain or a rebalance has handed its target to a service that answers and then fails to
\* initialise it: the assignment times out, the service is not denied, and under a.ctx the
\* same one may be selected again for ever (dispatchTarget, after max retries).
Reselects(n) ==
  LET r == d[n]["main"] IN r.kind \in {"drain", "rebalance"} /\ <<r.s, r.t>> \in Bad

\* Dispatching, draining and rebalancing release dispatchLock in the end, whichever
\* services refuse the target - but for a service that accepts it and never starts it.
DispatchIdle(n) == d[n]["main"].kind = "none" \/ Reselects(n)
DispatchReturns == \A n \in Nodes : []<>DispatchIdle(n)

\* A target that the leaders keep in their config is never left uncollected for good,
\* whatever faults and requests went before.
Dropped(t) == \A n \in Nodes : IsLeader(n) => t \notin cfg[n]
NeverStranded == \A t \in Targets : <>[]Dropped(t) \/ []<>Streamed(t)
=============================================================================
