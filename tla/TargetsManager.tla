--------------------------- MODULE TargetsManager ---------------------------
(***************************************************************************)
(* The lifecycle of one target in the collector's targets manager          *)
(* (pkg/collector/managers/targets/targets_manager.go): apply, remove,     *)
(* start, stop, the retry loop of a failed start, SetIntendedState, and    *)
(* the goroutines start() leaves behind (the lock keeper, watchConnState   *)
(* and the subscription reader).                                           *)
(*                                                                         *)
(* One target name is modelled; removing and re-adding it makes a new      *)
(* ManagedTarget, so there may be several objects of that name.  Each call *)
(* of start() makes a new context, identified by its attempt number: the   *)
(* keeper, the watcher and the reader of that attempt live in it.  A step  *)
(* of a thread is the code between two points where another goroutine can  *)
(* change what it reads: a Get or Set of the state store, an acquisition   *)
(* of mt.Lock, a call to the network or to the locker.                     *)
(***************************************************************************)
EXTENDS Naturals, FiniteSets

CONSTANTS
  Locker,       \* the locker of the cluster, whose lock start() takes, or "none"
  Cfgs,         \* the connection settings a target's config can have
  ApiOps,       \* the intended states the API is asked to set
  MaxObj,       \* bound: ManagedTargets created
  MaxAttempt,   \* bound: calls of start() that reach the dial
  MaxRetry,     \* bound: retry loops scheduled
  MaxOps,       \* bound: config events and API calls
  MaxRefresh    \* bound: refreshes of the state store by watchers and readers

ASSUME ConstantsAssumption ==
  /\ Locker \in {"none", "consul", "k8s", "redis"}
  /\ Cfgs # {}
  /\ ApiOps \subseteq {"enable", "disable"}

ASSUME BoundsAssumption ==
  /\ MaxObj \in Nat /\ MaxAttempt \in Nat /\ MaxRetry \in Nat
  /\ MaxOps \in Nat /\ MaxRefresh \in Nat

InCluster == Locker # "none"   \* clustering is configured

Objs     == 1 .. MaxObj
Attempts == 1 .. MaxAttempt
Retries  == 1 .. MaxRetry

Loop     == <<"loop", 0>>    \* the event loop of TargetsManager.Start
Api      == <<"api", 0>>     \* a handler of the API server
NoThread == <<"none", 0>>
Retry(r) == <<"retry", r>>   \* retryLoop
Keep(a)  == <<"keep", a>>    \* the goroutine that keeps the target's lock
Watch(a) == <<"watch", a>>   \* watchConnState
Read(a)  == <<"read", a>>    \* the reader of the attempt's subscriptions

Callers == {Loop, Api} \cup {Retry(r) : r \in Retries}
Threads == Callers \cup UNION {{Keep(a), Watch(a), Read(a)} : a \in Attempts}

States == {"", "starting", "running", "failed", "stopping", "stopped"}

\* What a caller is executing; start() and stop() are the StartPcs and StopPcs.
StartPcs == {"start", "dial", "lock", "watch", "caps", "subs", "ok", "err"}
StopPcs  == {"stop", "close", "setStopped", "unlock"}
Pcs == StartPcs \cup StopPcs \cup
       {"off", "idle", "acquire", "delete", "delay", "timer", "probe", "probing",
        "unreachable", "wait", "fail", "first", "flow", "refresh", "last", "done"}
Ops == {"none", "create", "update", "reconnect", "remove", "enable", "disable",
        "retry", "end", "keepDone", "keepErr"}

VARIABLES
  targets,   \* tm.targets[name]: the current object, 0 when there is none
  assigned,  \* amIAssigned(name)
  ob,        \* the ManagedTargets: cfg, T.Cfn, T.conn, retryCancel, owner of mt.Lock
  state,     \* the target's entry in the state store
  th,        \* the threads
  live,      \* the attempts whose context is not cancelled
  open,      \* the attempts whose gRPC connection is open
  rlive,     \* the retry loops whose context is not cancelled
  nobj,      \* how many ManagedTargets were created,
  natt,      \* attempts made, retry loops scheduled, ...
  nretry,
  nops,
  nrefresh,
  lock,      \* holder of the target's lock in the locker: free, me or other
  wanted     \* history: the last caller to lock mt wanted it started

used == <<nobj, natt, nretry, nops, nrefresh>>
vars == <<targets, assigned, ob, state, th, live, open, rlive, used, lock, wanted>>

Thread == [pc : Pcs, op : Ops, mt : Objs \cup {0}, att : Attempts \cup {0},
           cfg : Cfgs, saved : States, inStart : BOOLEAN]

ManagedTarget == [cfg : Cfgs, cfn : Attempts \cup {0}, conn : Attempts \cup {0},
                  retry : Retries \cup {0}, owner : Callers \cup {NoThread}]

AnyCfg == CHOOSE c \in Cfgs : TRUE
NewTarget(c) == [cfg |-> c, cfn |-> 0, conn |-> 0, retry |-> 0, owner |-> NoThread]
NewThread(p, o, a) == [pc |-> p, op |-> "none", mt |-> o, att |-> a,
                       cfg |-> AnyCfg, saved |-> "", inStart |-> FALSE]

Init ==
  /\ targets = 0
  /\ assigned = ~InCluster
  /\ ob = [o \in Objs |-> NewTarget(AnyCfg)]
  /\ state = ""
  /\ th = [t \in Threads |-> NewThread(IF t \in {Loop, Api} THEN "idle" ELSE "off", 0, 0)]
  /\ live = {} /\ open = {} /\ rlive = {}
  /\ nobj = 0 /\ natt = 0 /\ nretry = 0 /\ nops = 0 /\ nrefresh = 0
  /\ lock = "free"
  /\ wanted = [o \in Objs |-> FALSE]

At(t, p) == th[t].pc = p
Goto(t, p) == th' = [th EXCEPT ![t].pc = p]

\* mt.Lock() can be taken by t, which is about to.
CanLock(t, p) == /\ At(t, "acquire") /\ th[t].op = p
                 /\ ob[th[t].mt].owner = NoThread

\* Callers that may still make an attempt: a new one is let in only when there is
\* an attempt left for it, so that the bound never stops a call half way.
Starters == {t \in Callers : /\ th[t].pc \notin {"idle", "off", "done", "delay", "timer"}
                             /\ th[t].op \notin {"remove", "disable", "end"}}
CanStart == natt + Cardinality(Starters) < MaxAttempt

\* Where a caller goes when its call returns.
Rest(t) == IF t \in {Loop, Api} THEN "idle" ELSE "done"

-----------------------------------------------------------------------------
(* The event loop: config and assignment events *)

\* apply(name, cfg), up to mt.Lock(): a target event of an assigned target, or
\* setAssigned(name, true), which re-applies the config.
Apply(c) ==
  /\ At(Loop, "idle") /\ nops < MaxOps /\ CanStart
  /\ assigned' = TRUE
  /\ IF targets = 0
       THEN LET o == nobj + 1 IN
            /\ o <= MaxObj
            /\ targets' = o
            /\ ob' = [ob EXCEPT ![o] = NewTarget(c)]
            /\ nobj' = o
            /\ th' = [th EXCEPT ![Loop].pc = "acquire", ![Loop].op = "create",
                                ![Loop].mt = o]
       ELSE /\ th' = [th EXCEPT ![Loop].pc = "acquire", ![Loop].op = "update",
                                ![Loop].mt = targets, ![Loop].cfg = c]
            /\ UNCHANGED <<targets, ob, nobj>>
  /\ nops' = nops + 1
  /\ UNCHANGED <<state, live, open, rlive, natt, nretry, nrefresh, lock, wanted>>

\* remove(name), up to mt.Lock(): a delete event of an assigned target, or
\* setAssigned(name, false).
Remove(a) ==
  /\ At(Loop, "idle") /\ nops < MaxOps /\ assigned
  /\ assigned' = (a \/ ~InCluster)
  /\ targets' = 0
  /\ th' = [th EXCEPT ![Loop].pc = IF targets = 0 THEN "delete" ELSE "acquire",
                      ![Loop].op = "remove", ![Loop].mt = targets]
  /\ nops' = nops + 1
  /\ UNCHANGED <<ob, state, live, open, rlive, nobj, natt, nretry, nrefresh, lock, wanted>>

\* setAssigned(name, true) of a target whose config is not known yet.
AssignUnknown ==
  /\ At(Loop, "idle") /\ ~assigned
  /\ assigned' = TRUE
  /\ UNCHANGED <<targets, ob, state, th, live, open, rlive, used, lock, wanted>>

\* SetIntendedState(name, state), up to mt.Lock().
SetIntendedState(p) ==
  /\ At(Api, "idle") /\ nops < MaxOps /\ targets # 0
  /\ p = "enable" => CanStart
  /\ th' = [th EXCEPT ![Api].pc = "acquire", ![Api].op = p, ![Api].mt = targets]
  /\ nops' = nops + 1
  /\ UNCHANGED <<targets, assigned, ob, state, live, open, rlive, nobj, natt, nretry,
                 nrefresh, lock, wanted>>

-----------------------------------------------------------------------------
(* What a caller does once it holds mt.Lock *)

\* closeClient(mt): cancels the context in T.Cfn and closes the connection in T.
CloseClient(o) ==
  /\ live' = live \ {ob[o].cfn}
  /\ open' = open \ {ob[o].conn}

\* apply of a new object: lock it and start it.
CreateLocked ==
  /\ CanLock(Loop, "create")
  /\ LET o == th[Loop].mt IN
     /\ ob' = [ob EXCEPT ![o].owner = Loop]
     /\ wanted' = [wanted EXCEPT ![o] = TRUE]
  /\ Goto(Loop, "start")
  /\ UNCHANGED <<targets, assigned, state, live, open, rlive, used, lock>>

\* apply of a known object: nothing to do when the config is equal, otherwise
\* stop, install the config and start.
UpdateLocked ==
  /\ CanLock(Loop, "update")
  /\ LET o == th[Loop].mt IN
     IF ob[o].cfg = th[Loop].cfg
       THEN Goto(Loop, "idle") /\ UNCHANGED <<ob, wanted>>
       ELSE /\ ob' = [ob EXCEPT ![o].owner = Loop]
            /\ wanted' = [wanted EXCEPT ![o] = TRUE]
            /\ th' = [th EXCEPT ![Loop].pc = "stop", ![Loop].op = "reconnect"]
  /\ UNCHANGED <<targets, assigned, state, live, open, rlive, used, lock>>

\* Mutant: the retry is cancelled and stays registered.
StopKeepsCancel(t, p) ==
  /\ CanLock(t, p)
  /\ LET o == th[t].mt
         skip == p = "disable" /\ state \in {"stopped", "stopping"} IN
     /\ ob' = [ob EXCEPT ![o].owner = IF skip THEN NoThread ELSE t]
     /\ rlive' = rlive \ {ob[o].retry}
     /\ wanted' = [wanted EXCEPT ![o] = FALSE]
     /\ Goto(t, IF skip THEN "idle" ELSE "stop")
  /\ UNCHANGED <<targets, assigned, state, live, open, used, lock>>

\* remove and SetIntendedState(disabled): cancel the retry, then stop unless the
\* API finds the target stopped or stopping already.
StopLocked(t, p) ==
  /\ CanLock(t, p)
  /\ LET o == th[t].mt
         skip == p = "disable" /\ state \in {"stopped", "stopping"} IN
     /\ ob' = [ob EXCEPT ![o].retry = 0, ![o].owner = IF skip THEN NoThread ELSE t]
     /\ rlive' = rlive \ {ob[o].retry}
     /\ wanted' = [wanted EXCEPT ![o] = FALSE]
     /\ Goto(t, IF skip THEN "idle" ELSE "stop")
  /\ UNCHANGED <<targets, assigned, state, live, open, used, lock>>

\* SetIntendedState(enabled): of a failed target, cancel the retry and close the
\* client the failed start left, then start.
EnableLocked ==
  /\ CanLock(Api, "enable")
  /\ LET o == th[Api].mt IN
     IF state \in {"running", "starting"}
       THEN /\ Goto(Api, "idle")
            /\ UNCHANGED <<ob, live, open, rlive, wanted>>
       ELSE /\ Goto(Api, "start")
            /\ wanted' = [wanted EXCEPT ![o] = TRUE]
            /\ IF state = "failed"
                 THEN /\ ob' = [ob EXCEPT ![o].owner = Api, ![o].retry = 0]
                      /\ rlive' = rlive \ {ob[o].retry}
                      /\ CloseClient(o)
                 ELSE /\ ob' = [ob EXCEPT ![o].owner = Api]
                      /\ UNCHANGED <<live, open, rlive>>
  /\ UNCHANGED <<targets, assigned, state, used, lock>>

\* Mutant: retryLoop does not look at its context once it has mt.Lock.
RetryLockedNoCtx(r) ==
  /\ CanLock(Retry(r), "retry") /\ state = "failed"
  /\ LET o == th[Retry(r)].mt IN
     /\ Goto(Retry(r), "start")
     /\ ob' = [ob EXCEPT ![o].owner = Retry(r)]
     /\ CloseClient(o)
  /\ UNCHANGED <<targets, assigned, state, rlive, used, lock, wanted>>

\* retryLoop after a successful probe.
RetryLocked(r) ==
  /\ CanLock(Retry(r), "retry")
  /\ LET o == th[Retry(r)].mt IN
     IF r \notin rlive
       THEN /\ Goto(Retry(r), "done")
            /\ UNCHANGED <<ob, live, open, rlive>>
     ELSE IF state # "failed"
       THEN /\ Goto(Retry(r), "done")
            /\ ob' = [ob EXCEPT ![o].retry = 0]
            /\ rlive' = rlive \ {r}
            /\ UNCHANGED <<live, open>>
       ELSE /\ Goto(Retry(r), "start")
            /\ ob' = [ob EXCEPT ![o].owner = Retry(r)]
            /\ CloseClient(o)
            /\ UNCHANGED rlive
  /\ UNCHANGED <<targets, assigned, state, used, lock, wanted>>

\* Mutant: endRetry clears retryCancel whoever it belongs to.
EndRetryAlways(r) ==
  /\ CanLock(Retry(r), "end")
  /\ Goto(Retry(r), "done")
  /\ ob' = [ob EXCEPT ![th[Retry(r)].mt].retry = 0]
  /\ rlive' = rlive \ {r}
  /\ UNCHANGED <<targets, assigned, state, live, open, used, lock, wanted>>

\* endRetry: clears retryCancel when it still belongs to this loop.
EndRetry(r) ==
  /\ CanLock(Retry(r), "end")
  /\ Goto(Retry(r), "done")
  /\ ob' = IF r \in rlive THEN [ob EXCEPT ![th[Retry(r)].mt].retry = 0] ELSE ob
  /\ rlive' = rlive \ {r}
  /\ UNCHANGED <<targets, assigned, state, live, open, used, lock, wanted>>

-----------------------------------------------------------------------------
(* start(mt), called with mt.Lock held *)

\* A running target is left alone; otherwise publish Starting and make the
\* attempt's context.
StartBegin(t) ==
  /\ At(t, "start")
  /\ IF state = "running"
       THEN Goto(t, "ok") /\ UNCHANGED <<ob, state, live, natt>>
       ELSE LET a == natt + 1 IN
            /\ a <= MaxAttempt
            /\ state' = "starting"
            /\ natt' = a
            /\ live' = live \cup {a}
            /\ ob' = [ob EXCEPT ![th[t].mt].cfn = a]
            /\ th' = [th EXCEPT ![t].pc = "dial", ![t].att = a]
  /\ UNCHANGED <<targets, assigned, open, rlive, nobj, nretry, nops, nrefresh, lock, wanted>>

\* CreateGNMIClient: the dial does not wait for the device, it fails only when
\* the client cannot be built.
Dial(t) ==
  /\ At(t, "dial")
  /\ \/ /\ ob' = [ob EXCEPT ![th[t].mt].conn = th[t].att]
        /\ open' = open \cup {th[t].att}
        /\ Goto(t, IF InCluster THEN "lock" ELSE "watch")
        /\ UNCHANGED state
     \/ /\ state' = "failed"
        /\ Goto(t, "err")
        /\ UNCHANGED <<ob, open>>
  /\ UNCHANGED <<targets, assigned, live, rlive, used, lock, wanted>>

\* locker.Lock got the key, and the keeper starts.  The key must be free; k8s takes
\* over a lease that bears its own identity.
LockTaken(t) ==
  /\ At(t, "lock") /\ th[t].att \in live
  /\ lock = "free" \/ (Locker = "k8s" /\ lock = "me")
  /\ lock' = "me"
  /\ th' = [th EXCEPT ![t].pc = "watch",
                      ![Keep(th[t].att)] = NewThread("wait", th[t].mt, th[t].att)]
  /\ UNCHANGED <<targets, assigned, ob, state, live, open, rlive, used, wanted>>

\* locker.Lock failed: the target is Failed and stopped.
LockFailed(t) ==
  /\ At(t, "lock")
  /\ state' = "failed"
  /\ th' = [th EXCEPT ![t].pc = "stop", ![t].inStart = TRUE]
  /\ UNCHANGED <<targets, assigned, ob, live, open, rlive, used, lock, wanted>>

\* Lock returns: with the key, because its context is cancelled, or, with redis,
\* because the key is taken.  Those of consul and k8s go on trying while another
\* holds it, and start() waits, with mt.Lock.
AcquireLock(t) ==
  \/ LockTaken(t)
  \/ LockFailed(t) /\ (th[t].att \notin live \/ (Locker = "redis" /\ lock # "free"))

\* Lock fails early: a call to redis or k8s does; an Unlock of the key by another
\* goroutine of this member closes the channel that the Lock of consul watches.
LockError(t) ==
  /\ LockFailed(t)
  /\ Locker = "consul" => \E u \in Threads \ {t} : At(u, "unlock")

\* watchConnState starts.
WatchConnState(t) ==
  /\ At(t, "watch")
  /\ th' = [th EXCEPT ![t].pc = "caps",
                      ![Watch(th[t].att)] = NewThread("wait", th[t].mt, th[t].att)]
  /\ UNCHANGED <<targets, assigned, ob, state, live, open, rlive, used, lock, wanted>>

\* The Capabilities RPC: it can succeed while the client is open and its context
\* is not cancelled.
Capabilities(t) ==
  /\ At(t, "caps")
  /\ \/ /\ th[t].att \in live \cap open
        /\ state' = "running"
        /\ Goto(t, "subs")
     \/ /\ state' = "failed"
        /\ Goto(t, "err")
  /\ UNCHANGED <<targets, assigned, ob, live, open, rlive, used, lock, wanted>>

\* The subscriptions are started and Running is published again.
StartSubscriptions(t) ==
  /\ At(t, "subs")
  /\ state' = "running"
  /\ th' = [th EXCEPT ![t].pc = "ok",
                      ![Read(th[t].att)] = NewThread("first", th[t].mt, th[t].att)]
  /\ UNCHANGED <<targets, assigned, ob, live, open, rlive, used, lock, wanted>>

\* start() returned nil.
StartOk(t) ==
  /\ At(t, "ok")
  /\ LET o == th[t].mt
         p == th[t].op IN
     /\ state' = IF p = "create" THEN "running" ELSE state
     /\ ob' = [ob EXCEPT ![o].owner = NoThread,
                         ![o].retry = IF p = "retry" THEN 0 ELSE @]
     /\ rlive' = IF p = "retry" THEN rlive \ {ob[o].retry} ELSE rlive
  /\ Goto(t, Rest(t))
  /\ UNCHANGED <<targets, assigned, live, open, used, lock, wanted>>

\* start() returned an error to a caller other than the retry loop, which
\* schedules a retry unless one is pending (scheduleRetry).  apply publishes
\* Failed again; SetIntendedState does not.
StartErr(t) ==
  /\ At(t, "err") /\ th[t].op # "retry"
  /\ LET o == th[t].mt
         r == nretry + 1 IN
     /\ state' = IF th[t].op = "enable" THEN state ELSE "failed"
     /\ IF ob[o].retry # 0
          THEN /\ ob' = [ob EXCEPT ![o].owner = NoThread]
               /\ th' = [th EXCEPT ![t].pc = "idle"]
               /\ UNCHANGED <<rlive, nretry>>
          ELSE /\ r <= MaxRetry
               /\ ob' = [ob EXCEPT ![o].owner = NoThread, ![o].retry = r]
               /\ th' = [th EXCEPT ![t].pc = "idle",
                                   ![Retry(r)] = NewThread("delay", o, 0)]
               /\ rlive' = rlive \cup {r}
               /\ nretry' = r
  /\ UNCHANGED <<targets, assigned, live, open, nobj, natt, nops, nrefresh, lock, wanted>>

\* start() returned an error to the retry loop, which goes on waiting.
RetryErr(t) ==
  /\ At(t, "err") /\ th[t].op = "retry"
  /\ state' = "failed"
  /\ ob' = [ob EXCEPT ![th[t].mt].owner = NoThread]
  /\ Goto(t, "delay")
  /\ UNCHANGED <<targets, assigned, live, open, rlive, used, lock, wanted>>

-----------------------------------------------------------------------------
(* stop(mt): callers hold mt.Lock, the lock keeper does not *)

\* Where stop() returns to.
AfterStop(t) ==
  IF th[t].inStart THEN "err"
  ELSE CASE th[t].op = "reconnect" -> "start"
         [] th[t].op = "remove"    -> "delete"
         [] th[t].op = "keepErr"   -> "fail"
         [] OTHER                  -> Rest(t)

\* Mutant: remove and SetIntendedState(disabled) do not unlock mt after stop().
StopReturnLocked(t) ==
  /\ th' = [th EXCEPT ![t].pc = AfterStop(t), ![t].inStart = FALSE]
  /\ ob' = IF th[t].op = "reconnect" THEN [ob EXCEPT ![th[t].mt].cfg = th[t].cfg] ELSE ob

\* The effect of returning from stop(): apply installs the new config, remove
\* and SetIntendedState release mt.Lock, the others go on.
StopReturn(t) ==
  LET o == th[t].mt IN
  /\ th' = [th EXCEPT ![t].pc = AfterStop(t), ![t].inStart = FALSE]
  /\ ob' = IF th[t].inStart \/ t \notin Callers THEN ob
           ELSE IF th[t].op = "reconnect" THEN [ob EXCEPT ![o].cfg = th[t].cfg]
           ELSE [ob EXCEPT ![o].owner = NoThread]

StopBegin(t) ==
  /\ At(t, "stop")
  /\ IF state = "stopped"
       THEN StopReturn(t) /\ UNCHANGED state
       ELSE /\ state' = "stopping"
            /\ Goto(t, "close")
            /\ UNCHANGED ob
  /\ UNCHANGED <<targets, assigned, live, open, rlive, used, lock, wanted>>

StopClose(t) ==
  /\ At(t, "close")
  /\ CloseClient(th[t].mt)
  /\ Goto(t, "setStopped")
  /\ UNCHANGED <<targets, assigned, ob, state, rlive, used, lock, wanted>>

SetStopped(t) ==
  /\ At(t, "setStopped")
  /\ state' = "stopped"
  /\ IF InCluster THEN Goto(t, "unlock") /\ UNCHANGED ob ELSE StopReturn(t)
  /\ UNCHANGED <<targets, assigned, live, open, rlive, used, lock, wanted>>

\* consul and k8s delete the key whoever holds it, redis only its own; any of them
\* may know no lock of this key to release, or fail.
Unlock(t) ==
  /\ At(t, "unlock")
  /\ lock' \in {lock} \cup (IF Locker = "redis" /\ lock # "me" THEN {} ELSE {"free"})
  /\ StopReturn(t)
  /\ UNCHANGED <<targets, assigned, state, live, open, rlive, used, wanted>>

\* Mutant: remove publishes a state of its own instead of deleting the entry.
DeleteStateMarks ==
  /\ At(Loop, "delete")
  /\ state' = "removed"
  /\ Goto(Loop, "idle")
  /\ UNCHANGED <<targets, assigned, ob, live, open, rlive, used, lock, wanted>>

\* The end of remove(): the state store entry is deleted.
DeleteState ==
  /\ At(Loop, "delete")
  /\ state' = ""
  /\ Goto(Loop, "idle")
  /\ UNCHANGED <<targets, assigned, ob, live, open, rlive, used, lock, wanted>>

-----------------------------------------------------------------------------
(* retryLoop: between two starts it holds no lock of mt *)

\* retryDelay reads the retry timer under mt.RLock.
RetryDelay(r) ==
  /\ At(Retry(r), "delay")
  /\ ob[th[Retry(r)].mt].owner = NoThread
  /\ Goto(Retry(r), "timer")
  /\ UNCHANGED <<targets, assigned, ob, state, live, open, rlive, used, lock, wanted>>

\* The select finds the loop's context cancelled.
RetryCancelled(r) ==
  /\ At(Retry(r), "timer") /\ r \notin rlive
  /\ Goto(Retry(r), "done")
  /\ UNCHANGED <<targets, assigned, ob, state, live, open, rlive, used, lock, wanted>>

\* retryWanted, evaluated without mt.Lock.
RetryWanted(r) ==
  /\ r \in rlive
  /\ targets = th[Retry(r)].mt
  /\ assigned
  /\ state = "failed"

\* The timer fires: probe when a retry is still wanted, otherwise endRetry.
RetryTimer(r) ==
  /\ At(Retry(r), "timer")
  /\ IF RetryWanted(r)
       THEN /\ CanStart
            /\ th' = [th EXCEPT ![Retry(r)].pc = "probe", ![Retry(r)].op = "retry"]
       ELSE th' = [th EXCEPT ![Retry(r)].pc = "acquire", ![Retry(r)].op = "end"]
  /\ UNCHANGED <<targets, assigned, ob, state, live, open, rlive, used, lock, wanted>>

\* probe reads the config under mt.RLock, then waits on the network.
ProbeBegin(r) ==
  /\ At(Retry(r), "probe")
  /\ ob[th[Retry(r)].mt].owner = NoThread
  /\ Goto(Retry(r), "probing")
  /\ UNCHANGED <<targets, assigned, ob, state, live, open, rlive, used, lock, wanted>>

\* The device answered the probe.
ProbeOk(r) ==
  /\ At(Retry(r), "probing")
  /\ Goto(Retry(r), "acquire")
  /\ UNCHANGED <<targets, assigned, ob, state, live, open, rlive, used, lock, wanted>>

\* The probe failed; a cancelled loop returns.
ProbeErr(r) ==
  /\ At(Retry(r), "probing")
  /\ Goto(Retry(r), IF r \in rlive THEN "unreachable" ELSE "done")
  /\ UNCHANGED <<targets, assigned, ob, state, live, open, rlive, used, lock, wanted>>

\* After the check of its context the loop publishes Failed, without mt.Lock.
PublishUnreachable(r) ==
  /\ At(Retry(r), "unreachable")
  /\ state' = "failed"
  /\ Goto(Retry(r), "delay")
  /\ UNCHANGED <<targets, assigned, ob, live, open, rlive, used, lock, wanted>>

-----------------------------------------------------------------------------
(* The goroutines an attempt leaves behind *)

\* The lock keeper: the lock is released (doneCh), or the context is cancelled.
KeepDone(a) ==
  /\ At(Keep(a), "wait") /\ a \notin live
  /\ \/ Goto(Keep(a), "done")
     \/ th' = [th EXCEPT ![Keep(a)].pc = "stop", ![Keep(a)].op = "keepDone"]
  /\ UNCHANGED <<targets, assigned, ob, state, live, open, rlive, used, lock, wanted>>

\* The lock keeper: KeepLock reports an error.  The lock may be lost with it, and
\* the redis and k8s lockers report a cancelled context as an error too.
KeepErr(a) ==
  /\ At(Keep(a), "wait")
  /\ th' = [th EXCEPT ![Keep(a)].pc = "stop", ![Keep(a)].op = "keepErr"]
  /\ lock' \in {lock} \cup (IF a \in live /\ lock = "me" THEN {"free"} ELSE {})
  /\ UNCHANGED <<targets, assigned, ob, state, live, open, rlive, used, wanted>>

\* The lock keeper, back from stop() on an error, publishes Failed.
KeepFail(a) ==
  /\ At(Keep(a), "fail")
  /\ state' = "failed"
  /\ Goto(Keep(a), "done")
  /\ UNCHANGED <<targets, assigned, ob, live, open, rlive, used, lock, wanted>>

\* A goroutine that refreshes the store reads the state, and writes it back in a
\* later step unless there is none.
RefreshRead(t, p) ==
  /\ nrefresh < MaxRefresh
  /\ nrefresh' = nrefresh + 1
  /\ th' = [th EXCEPT ![t].pc = IF state = "" THEN p ELSE "refresh",
                      ![t].saved = state]
  /\ UNCHANGED <<targets, assigned, ob, state, live, open, rlive, nobj, natt, nretry, nops,
                 lock, wanted>>

RefreshWrite(t, p) ==
  /\ At(t, "refresh")
  /\ state' = th[t].saved
  /\ th' = [th EXCEPT ![t].pc = p, ![t].saved = ""]
  /\ UNCHANGED <<targets, assigned, ob, live, open, rlive, used, lock, wanted>>

\* watchConnState: the connectivity of the client changed.
WatchRead(a) == At(Watch(a), "wait") /\ RefreshRead(Watch(a), "wait")
WatchWrite(a) == RefreshWrite(Watch(a), "wait")

WatchExit(a) ==
  /\ At(Watch(a), "wait") /\ a \notin live
  /\ Goto(Watch(a), "done")
  /\ UNCHANGED <<targets, assigned, ob, state, live, open, rlive, used, lock, wanted>>

\* The subscription's reader: the first response publishes Running.
FirstResponse(a) ==
  /\ At(Read(a), "first")
  /\ state' = "running"
  /\ Goto(Read(a), "flow")
  /\ UNCHANGED <<targets, assigned, ob, live, open, rlive, used, lock, wanted>>

\* The reader: a subscription error refreshes the store.
ReadErr(a) == th[Read(a)].pc \in {"first", "flow"} /\ RefreshRead(Read(a), "first")
ReadErrWrite(a) == RefreshWrite(Read(a), "first")

\* The reader: the stream ended with the connection, the deferred refresh runs.
ReadEnd(a) ==
  /\ th[Read(a)].pc \in {"first", "flow"} /\ a \notin open
  /\ th' = [th EXCEPT ![Read(a)].pc = IF state = "" THEN "done" ELSE "last",
                      ![Read(a)].saved = state]
  /\ UNCHANGED <<targets, assigned, ob, state, live, open, rlive, used, lock, wanted>>
ReadEndWrite(a) ==
  /\ At(Read(a), "last")
  /\ state' = th[Read(a)].saved
  /\ th' = [th EXCEPT ![Read(a)].pc = "done", ![Read(a)].saved = ""]
  /\ UNCHANGED <<targets, assigned, ob, live, open, rlive, used, lock, wanted>>

-----------------------------------------------------------------------------
(* The other members of the cluster, and the key's time to live *)

OtherLock ==
  /\ InCluster
  /\ \/ lock = "free" /\ lock' = "other"
     \/ lock = "other" /\ lock' = "free"
     \/ /\ lock = "me" /\ lock' = "free"   \* expired: nobody renews it
        /\ \A a \in live : ~At(Keep(a), "wait")
  /\ UNCHANGED <<targets, assigned, ob, state, th, live, open, rlive, used, wanted>>

-----------------------------------------------------------------------------
EventLoop ==
  \/ \E c \in Cfgs : Apply(c)
  \/ AssignUnknown
  \/ \E a \in BOOLEAN : Remove(a)
  \/ CreateLocked \/ UpdateLocked \/ StopLocked(Loop, "remove")
  \/ DeleteState

ApiHandler ==
  \/ \E p \in ApiOps : SetIntendedState(p)
  \/ EnableLocked \/ StopLocked(Api, "disable")

Start(t) ==
  \/ StartBegin(t) \/ Dial(t) \/ AcquireLock(t) \/ WatchConnState(t)
  \/ Capabilities(t) \/ StartSubscriptions(t)
  \/ StartOk(t) \/ StartErr(t) \/ RetryErr(t)

Stop(t) == StopBegin(t) \/ StopClose(t) \/ SetStopped(t) \/ Unlock(t)

RetryLoop(r) ==
  \/ RetryDelay(r) \/ RetryCancelled(r) \/ RetryTimer(r)
  \/ ProbeBegin(r) \/ ProbeOk(r) \/ ProbeErr(r) \/ PublishUnreachable(r)
  \/ RetryLocked(r) \/ EndRetry(r)

Goroutines(a) ==
  \/ KeepDone(a) \/ KeepErr(a) \/ KeepFail(a)
  \/ WatchRead(a) \/ WatchWrite(a) \/ WatchExit(a)
  \/ FirstResponse(a) \/ ReadErr(a) \/ ReadErrWrite(a) \/ ReadEnd(a) \/ ReadEndWrite(a)

Next ==
  \/ EventLoop \/ ApiHandler
  \/ \E t \in Callers : Start(t) \/ LockError(t)
  \/ \E t \in Threads : Stop(t)
  \/ \E r \in Retries : RetryLoop(r)
  \/ \E a \in Attempts : Goroutines(a)
  \/ OtherLock

Spec == Init /\ [][Next]_vars

\* The runtime runs every ready goroutine, and Go's mutexes let a waiter in; the
\* config store, the API's clients, the other members and the locker's service promise
\* nothing.
Fairness ==
  /\ WF_vars(CreateLocked \/ UpdateLocked \/ StopLocked(Loop, "remove") \/ DeleteState)
  /\ WF_vars(EnableLocked \/ StopLocked(Api, "disable"))
  /\ \A t \in Callers : WF_vars(Start(t)) /\ WF_vars(Stop(t))
  /\ \A r \in Retries : SF_vars(RetryLoop(r))

FairSpec == Spec /\ Fairness

-----------------------------------------------------------------------------
(* Properties *)

\* The variables keep their types: among them, the state published in the store is one
\* of the states of pkg/collector/store, or none.
TypeOK ==
  /\ targets \in Objs \cup {0}
  /\ assigned \in BOOLEAN
  /\ ob \in [Objs -> ManagedTarget]
  /\ state \in States
  /\ th \in [Threads -> Thread]
  /\ live \subseteq Attempts
  /\ open \subseteq Attempts
  /\ rlive \subseteq Retries
  /\ nobj \in 0 .. MaxObj /\ natt \in 0 .. MaxAttempt /\ nretry \in 0 .. MaxRetry
  /\ nops \in Nat /\ nrefresh \in Nat
  /\ lock \in {"free", "me", "other"}
  /\ wanted \in [Objs -> BOOLEAN]

\* mt.retryCancel is set exactly while a retry loop of that object is running and
\* not cancelled, and it belongs to that loop: a loop that ends never clears the
\* retryCancel of the loop scheduled after it, and none is left without an owner.
RetryOwnership ==
  /\ \A r \in rlive : /\ th[Retry(r)].pc \notin {"off", "done"}
                       /\ th[Retry(r)].mt # 0
                       /\ ob[th[Retry(r)].mt].retry = r
  /\ \A o \in Objs : ob[o].retry # 0 => /\ ob[o].retry \in rlive
                                        /\ th[Retry(ob[o].retry)].mt = o

\* A retry starts a target only while the last caller that decided about it wanted
\* it started: never after remove or a disable, whatever it was doing meanwhile.
RetryRespectsIntent ==
  \A r \in Retries : th[Retry(r)].pc \in StartPcs => wanted[th[Retry(r)].mt]

\* A start() of the retry's target waits in Lock, with mt.Lock.
WaitsForKey(r) == \E t \in Callers : At(t, "lock") /\ th[t].mt = th[Retry(r)].mt

\* A retry loop that was cancelled ends.  It does not only when it must lock mt and a
\* start() of the same target keeps it for good, waiting in Lock of consul or k8s
\* for a key that another member holds.
CancelledRetryEnds ==
  \A r \in Retries :
    [](~At(Retry(r), "off") /\ r \notin rlive => <>At(Retry(r), "done") \/ <>[]WaitsForKey(r))

\* scheduleRetry: a target whose start failed is restarted until it starts.  While
\* the target is configured, assigned and wanted, and the last start() of its
\* object did not get as far as its subscriptions, a retry is pending.
RetriedUntilStarted ==
  LET o == targets IN
  (/\ o # 0 /\ assigned /\ wanted[o]
   /\ ob[o].owner = NoThread
   /\ ob[o].cfn # 0 /\ At(Read(ob[o].cfn), "off"))
  => ob[o].retry # 0
=============================================================================
