------------------------ MODULE TargetsManagerProofs ------------------------
(***************************************************************************)
(* Proofs about the lifecycle of a managed target, for every number of     *)
(* objects, attempts, retry loops, operations and refreshes.               *)
(*                                                                         *)
(* RetryOwnership and RetryRespectsIntent are not inductive by themselves: *)
(* they rest on who owns mt.Lock (a caller inside start() or stop() does), *)
(* on what a retry loop can be doing and for which object, and on the      *)
(* decision that the last owner of the lock took.  IInv adds these.        *)
(* Two lemmas carry the induction: Quiet, for the steps that touch neither *)
(* lock nor retry, and Locking, for the steps that take or release mt.Lock *)
(* and may clear retryCancel on the way.                                   *)
(***************************************************************************)
EXTENDS TargetsManager, TLAPS

Busy == StartPcs \cup StopPcs
AttemptPcs == {"dial", "lock", "watch", "caps", "subs"}   \* start(), once it has a context

\* A caller inside start() or stop() works on an object and owns its mt.Lock;
\* one that is about to lock works on an object.
LockDiscipline ==
  \A t \in Callers :
    /\ th[t].pc \in Busy => th[t].mt \in 1 .. nobj /\ ob[th[t].mt].owner = t
    /\ th[t].pc = "acquire" => th[t].mt \in 1 .. nobj
    /\ th[t].pc \in AttemptPcs => th[t].att \in Attempts

\* What a retry loop can be doing.
RetryPcs == Busy \cup {"acquire", "off", "delay", "timer", "probe", "probing", "unreachable",
                      "done"}

RetryThreads ==
  \A r \in Retries :
    /\ th[Retry(r)].pc # "off" => th[Retry(r)].mt \in 1 .. nobj /\ r <= nretry
    /\ th[Retry(r)].pc \in Busy => r \in rlive /\ th[Retry(r)].op = "retry"
    /\ th[Retry(r)].pc \in RetryPcs
    /\ th[Retry(r)].pc \in {"probe", "probing"} => th[Retry(r)].op = "retry"
    /\ th[Retry(r)].pc \in StopPcs => th[Retry(r)].inStart
    /\ r \in rlive => wanted[th[Retry(r)].mt]

\* An object that was not created yet is untouched.
FreshObjects ==
  /\ targets <= nobj
  /\ \A o \in Objs : o > nobj => ob[o].retry = 0 /\ ob[o].owner = NoThread

\* A caller inside start(), or in a stop() that is followed by start().
Starting(x) == \/ x.pc \in StartPcs
               \/ x.pc \in StopPcs /\ (x.inStart \/ x.op = "reconnect")

\* Callers start only objects whose last decision was to start them.
Intent ==
  \A t \in Callers : /\ th[t].inStart => th[t].pc \in StopPcs
                     /\ Starting(th[t]) => wanted[th[t].mt]

\* The event loop and the API never run an operation of the retry loop.
CallerOps ==
  /\ th[Loop].op \notin {"retry", "end"} /\ th[Api].op \notin {"retry", "end"}

\* The inductive invariant.
IInv == TypeOK /\ RetryOwnership /\ LockDiscipline /\ RetryThreads /\ FreshObjects /\ CallerOps /\ Intent

\* The threads are distinct, and the goroutines of an attempt are no callers.
LEMMA ThreadFacts ==
  /\ Loop \in Callers /\ Api \in Callers /\ Loop # Api
  /\ NoThread \notin Callers
  /\ Callers \subseteq Threads
  /\ \A r \in Retries : Retry(r) \in Callers /\ Retry(r) # Loop /\ Retry(r) # Api
  /\ \A r, s \in Retries : Retry(r) = Retry(s) => r = s
  /\ \A t \in Callers : t = Loop \/ t = Api \/ \E r \in Retries : t = Retry(r)
  /\ \A a \in Attempts : /\ Keep(a) \in Threads \ Callers
                         /\ Watch(a) \in Threads \ Callers
                         /\ Read(a) \in Threads \ Callers
BY DEF Loop, Api, NoThread, Callers, Threads, Retry, Keep, Watch, Read

\* The config a slot of ob is filled with before its object exists is a config.
LEMMA CfgFact == AnyCfg \in Cfgs
BY ConstantsAssumption DEF AnyCfg

\* Created objects are objects.
LEMMA ObjFact == TypeOK => \A o \in 1 .. nobj : o \in Objs /\ o \in Nat /\ o # 0
BY BoundsAssumption DEF TypeOK, Objs

\* Setting fields of an object to values of their types keeps the objects typed.
LEMMA SetOwner ==
  ASSUME NEW f \in [Objs -> ManagedTarget], NEW o \in Objs,
         NEW w \in Callers \cup {NoThread}
  PROVE  [f EXCEPT ![o].owner = w] \in [Objs -> ManagedTarget]
<1>1. [f[o] EXCEPT !.owner = w] \in ManagedTarget
  BY DEF ManagedTarget
<1> QED
  BY <1>1

\* ... retryCancel.
LEMMA SetRetry ==
  ASSUME NEW f \in [Objs -> ManagedTarget], NEW o \in Objs, NEW n \in Retries \cup {0}
  PROVE  [f EXCEPT ![o].retry = n] \in [Objs -> ManagedTarget]
<1>1. [f[o] EXCEPT !.retry = n] \in ManagedTarget
  BY DEF ManagedTarget
<1> QED
  BY <1>1

\* ... the config.
LEMMA SetCfg ==
  ASSUME NEW f \in [Objs -> ManagedTarget], NEW o \in Objs, NEW c \in Cfgs
  PROVE  [f EXCEPT ![o].cfg = c] \in [Objs -> ManagedTarget]
<1>1. [f[o] EXCEPT !.cfg = c] \in ManagedTarget
  BY DEF ManagedTarget
<1> QED
  BY <1>1

\* ... the context.
LEMMA SetCfn ==
  ASSUME NEW f \in [Objs -> ManagedTarget], NEW o \in Objs, NEW a \in Attempts
  PROVE  [f EXCEPT ![o].cfn = a] \in [Objs -> ManagedTarget]
<1>1. [f[o] EXCEPT !.cfn = a] \in ManagedTarget
  BY DEF ManagedTarget
<1> QED
  BY <1>1

\* ... the owner and retryCancel.
LEMMA SetOwnerRetry ==
  ASSUME NEW f \in [Objs -> ManagedTarget], NEW o \in Objs,
         NEW w \in Callers \cup {NoThread}, NEW n \in Retries \cup {0}
  PROVE  [f EXCEPT ![o].owner = w, ![o].retry = n] \in [Objs -> ManagedTarget]
<1>1. [f[o] EXCEPT !.owner = w, !.retry = n] \in ManagedTarget
  BY DEF ManagedTarget
<1> QED
  BY <1>1

\* The counters are within their bounds.
UsedOK == /\ nobj \in 0 .. MaxObj /\ natt \in 0 .. MaxAttempt /\ nretry \in 0 .. MaxRetry
          /\ nops \in Nat /\ nrefresh \in Nat

\* NewTargetsManager: the manager starts with no target, no retry and no lock held.
THEOREM InitIInv == Init => IInv
<1> SUFFICES ASSUME Init PROVE IInv
  OBVIOUS
<1>0. \A t \in Threads : th[t].pc \in {"idle", "off"} /\ th[t].op = "none"
  BY DEF Init, NewThread
<1>00. \A r \in Retries : th[Retry(r)].pc = "off"
  BY ThreadFacts DEF Init, NewThread
<1>1. TypeOK
  <2>1. ob \in [Objs -> ManagedTarget]
    BY CfgFact DEF Init, NewTarget, ManagedTarget
  <2>2. th \in [Threads -> Thread]
    BY CfgFact DEF Init, NewThread, Thread, States, Pcs, Ops
  <2>3. UsedOK
    <3>1. nobj = 0 /\ natt = 0 /\ nretry = 0 /\ nops = 0 /\ nrefresh = 0
      BY DEF Init
    <3> QED
      BY <3>1, BoundsAssumption DEF UsedOK
  <2> QED
    BY <2>1, <2>2, <2>3, BoundsAssumption DEF Init, TypeOK, States, UsedOK
<1>2. RetryOwnership
  BY DEF Init, RetryOwnership, NewTarget
<1>3. LockDiscipline
  BY <1>0, ThreadFacts DEF LockDiscipline, Busy, StartPcs, StopPcs, AttemptPcs
<1>4. RetryThreads
  BY <1>00 DEF Init, RetryThreads, RetryPcs, Busy, StartPcs, StopPcs
<1>5. CallerOps
  BY <1>0, ThreadFacts DEF CallerOps
<1>6. FreshObjects
  <2>1. targets = 0 /\ nobj = 0 /\ \A o \in Objs : ob[o] = NewTarget(AnyCfg)
    BY DEF Init
  <2> QED
    BY <2>1 DEF FreshObjects, NewTarget
<1>7. Intent
  <2>1. \A t \in Threads : th[t].inStart = FALSE
    BY DEF Init, NewThread
  <2> QED
    BY <1>0, <2>1, ThreadFacts DEF Intent, Starting, StartPcs, StopPcs
<1> QED
  BY <1>1, <1>2, <1>3, <1>4, <1>5, <1>6, <1>7 DEF IInv

\* What a step of a caller may do to its own thread without touching locks and
\* retries: it does not enter start() or stop(), and a retry loop that is still
\* wanted does not end.
QuietMove(t) ==
  /\ th'[t].pc \in Busy => th[t].pc \in Busy /\ th'[t].mt = th[t].mt
  /\ th'[t].pc = "acquire" => th'[t].mt \in 1 .. nobj
  /\ th'[t].pc \in AttemptPcs => th'[t].att \in Attempts
  /\ th'[t].inStart => th'[t].pc \in StopPcs
  /\ Starting(th'[t]) => Starting(th[t])
  /\ t \in {Loop, Api} => th'[t].op \notin {"retry", "end"}
  /\ \A r \in Retries : t = Retry(r) =>
       /\ th[t].pc # "off"
       /\ th'[t].mt = th[t].mt
       /\ th'[t].pc \in RetryPcs \ {"off"}
       /\ th'[t].pc = "done" => r \notin rlive
       /\ th'[t].pc \in Busy \cup {"probe", "probing"} => th'[t].op = "retry"
       /\ th'[t].pc \in StopPcs => th'[t].inStart

\* A quiet step of one thread preserves the invariant.
LEMMA Quiet ==
  ASSUME IInv, TypeOK', NEW t \in Threads,
         rlive' = rlive, wanted' = wanted, nretry' = nretry, nobj' = nobj,
         targets' \in {0, targets},
         \A o \in Objs : ob'[o].retry = ob[o].retry /\ ob'[o].owner = ob[o].owner,
         \A u \in Callers : u # t => th'[u] = th[u],
         t \in Callers => QuietMove(t)
  PROVE  IInv'
<1>1. RetryOwnership'
  <2>0. \A r \in Retries : th'[Retry(r)].mt = th[Retry(r)].mt
    BY ThreadFacts DEF QuietMove
  <2>1. \A r \in rlive : r \in Retries /\ th'[Retry(r)].pc \notin {"off", "done"}
    BY ThreadFacts DEF IInv, TypeOK, RetryOwnership, QuietMove
  <2>2. \A r \in rlive : th'[Retry(r)].mt # 0 /\ ob'[th'[Retry(r)].mt].retry = r
    <3> SUFFICES ASSUME NEW r \in rlive
                 PROVE  th'[Retry(r)].mt # 0 /\ ob'[th'[Retry(r)].mt].retry = r
      OBVIOUS
    <3>1. th[Retry(r)].mt \in Objs /\ r \in Retries
      BY ObjFact DEF IInv, TypeOK, RetryOwnership, RetryThreads
    <3> QED
      BY <3>1, <2>0 DEF IInv, RetryOwnership
  <2>3. \A o \in Objs : ob[o].retry # 0 => /\ ob[o].retry \in rlive
                                          /\ th'[Retry(ob[o].retry)].mt = o
    BY <2>0, <2>1 DEF IInv, RetryOwnership
  <2> QED
    BY <2>1, <2>2, <2>3 DEF RetryOwnership
<1>2. LockDiscipline'
  BY ThreadFacts, ObjFact DEF IInv, LockDiscipline, QuietMove
<1>3. RetryThreads'
  BY ThreadFacts DEF IInv, RetryThreads, QuietMove
<1>4. FreshObjects'
  BY BoundsAssumption DEF IInv, TypeOK, FreshObjects, Objs
<1>5. CallerOps'
  BY ThreadFacts DEF IInv, CallerOps, QuietMove
<1>6. Intent'
  <2> SUFFICES ASSUME NEW u \in Callers
               PROVE  /\ th'[u].inStart => th'[u].pc \in StopPcs
                      /\ Starting(th'[u]) => wanted'[th'[u].mt]
    BY DEF Intent
  <2>1. CASE u # t
    BY <2>1 DEF IInv, Intent
  <2>2. CASE u = t
    <3>1. Starting(th'[t]) => th'[t].pc \in Busy
      BY DEF Starting, Busy
    <3> QED
      BY <2>2, <3>1 DEF IInv, Intent, QuietMove
  <2> QED
    BY <2>1, <2>2
<1> QED
  BY <1>1, <1>2, <1>3, <1>4, <1>5, <1>6 DEF IInv

\* A step of caller t that takes or releases the lock of its object o, and may
\* clear the retry of o on the way.
LockMove(t, o) ==
  /\ th[t].mt = o /\ th'[t].mt = o
  /\ ob[o].owner \in {NoThread, t}
  /\ th'[t].pc \notin AttemptPcs \cup {"acquire"}
  /\ th'[t].inStart => th'[t].pc \in StopPcs
  /\ Starting(th'[t]) => wanted'[o]
  /\ th'[t].pc \in Busy => ob'[o].owner = t
  /\ ob'[o].owner \in {NoThread, t}
  /\ \/ ob'[o].retry = ob[o].retry /\ rlive' = rlive /\ (wanted[o] => wanted'[o])
     \/ ob'[o].retry = 0 /\ rlive' = rlive \ {ob[o].retry}
  /\ t \in {Loop, Api} => th'[t].op \notin {"retry", "end"}
  /\ \A r \in Retries : t = Retry(r) =>
       /\ th[t].pc # "off"
       /\ th'[t].pc \in RetryPcs \ {"off", "probe", "probing"}
       /\ th'[t].pc = "done" => r \notin rlive'
       /\ th'[t].pc \in Busy => th'[t].op = "retry" /\ r \in rlive'
       /\ th'[t].pc \in StopPcs => th'[t].inStart

\* A step of one caller that takes or releases mt.Lock preserves the invariant.
LEMMA Locking ==
  ASSUME IInv, TypeOK', NEW t \in Callers, NEW o \in 1 .. nobj,
         LockMove(t, o),
         nretry' = nretry, nobj' = nobj, targets' = targets,
         \A p \in Objs : p # o => /\ ob'[p].retry = ob[p].retry
                                 /\ ob'[p].owner = ob[p].owner
                                 /\ wanted'[p] = wanted[p],
         \A u \in Callers : u # t => th'[u] = th[u]
  PROVE  IInv'
<1>0. \A r \in Retries : th'[Retry(r)].mt = th[Retry(r)].mt
  BY ThreadFacts DEF LockMove
<1>a. o \in Objs /\ o # 0
  BY ObjFact DEF IInv
<1>b. \A r \in rlive : r \in Retries /\ r # 0 /\ th[Retry(r)].mt \in Objs
  BY ObjFact, BoundsAssumption DEF IInv, TypeOK, RetryOwnership, RetryThreads, Retries
<1>c. rlive' \subseteq rlive
  BY DEF LockMove
<1>d. \A r \in rlive' : th[Retry(r)].mt = o => ob'[o].retry = ob[o].retry /\ rlive' = rlive
  BY <1>c, <1>b DEF LockMove, IInv, RetryOwnership
<1>1. RetryOwnership'
  <2>1. \A r \in rlive' : th'[Retry(r)].pc \notin {"off", "done"}
    BY ThreadFacts, <1>b, <1>c DEF IInv, RetryOwnership, LockMove
  <2>2. \A r \in rlive' : th'[Retry(r)].mt # 0 /\ ob'[th'[Retry(r)].mt].retry = r
    BY <1>0, <1>b, <1>c, <1>d DEF IInv, RetryOwnership
  <2>3. \A p \in Objs : ob'[p].retry # 0 => /\ ob'[p].retry \in rlive'
                                           /\ th'[Retry(ob'[p].retry)].mt = p
    <3> SUFFICES ASSUME NEW p \in Objs, ob'[p].retry # 0
                 PROVE  ob'[p].retry \in rlive' /\ th'[Retry(ob'[p].retry)].mt = p
      OBVIOUS
    <3>1. ob'[p].retry = ob[p].retry
      BY DEF LockMove
    <3>2. ob[p].retry \in rlive /\ th[Retry(ob[p].retry)].mt = p
      BY <3>1 DEF IInv, RetryOwnership
    <3>3. ob[p].retry \in rlive'
      <4>1. CASE p = o
        BY <4>1, <3>1, <3>2 DEF LockMove
      <4>2. CASE p # o
        <5>1. ob[o].retry # ob[p].retry
          BY <4>2, <3>2, <1>a DEF IInv, RetryOwnership
        <5> QED
          BY <5>1, <3>2 DEF LockMove
      <4> QED
        BY <4>1, <4>2
    <3> QED
      BY <3>1, <3>2, <3>3, <1>0, <1>b
  <2> QED
    BY <2>1, <2>2, <2>3 DEF RetryOwnership
<1>2. LockDiscipline'
  <2> SUFFICES ASSUME NEW u \in Callers
               PROVE  /\ th'[u].pc \in Busy => th'[u].mt \in 1 .. nobj /\ ob'[th'[u].mt].owner = u
                      /\ th'[u].pc = "acquire" => th'[u].mt \in 1 .. nobj
                      /\ th'[u].pc \in AttemptPcs => th'[u].att \in Attempts
    BY DEF LockDiscipline
  <2>1. CASE u = t
    BY <2>1 DEF LockMove
  <2>2. CASE u # t
    <3>1. th'[u] = th[u]
      BY <2>2
    <3>2. th[u].pc \in Busy => th[u].mt # o /\ th[u].mt \in Objs
      BY <2>2, ThreadFacts, ObjFact DEF IInv, LockDiscipline, LockMove
    <3> QED
      BY <3>1, <3>2 DEF IInv, LockDiscipline
  <2> QED
    BY <2>1, <2>2
<1>3. RetryThreads'
  <2> SUFFICES ASSUME NEW r \in Retries
               PROVE  /\ th'[Retry(r)].pc # "off" => th'[Retry(r)].mt \in 1 .. nobj /\ r <= nretry
                      /\ th'[Retry(r)].pc \in Busy => r \in rlive' /\ th'[Retry(r)].op = "retry"
                      /\ th'[Retry(r)].pc \in RetryPcs
                      /\ th'[Retry(r)].pc \in {"probe", "probing"} => th'[Retry(r)].op = "retry"
                      /\ th'[Retry(r)].pc \in StopPcs => th'[Retry(r)].inStart
                      /\ r \in rlive' => wanted'[th'[Retry(r)].mt]
    BY DEF RetryThreads
  <2>1. r \in rlive' => wanted'[th'[Retry(r)].mt]
    BY <1>0, <1>b, <1>c, <1>d, <1>a DEF IInv, RetryThreads, LockMove, RetryOwnership
  <2>2. CASE t = Retry(r)
    BY <2>1, <2>2, <1>0 DEF IInv, RetryThreads, LockMove
  <2>3. CASE t # Retry(r)
    <3>1. th'[Retry(r)] = th[Retry(r)]
      BY <2>3, ThreadFacts
    <3>2. th[Retry(r)].pc \in Busy => r \in rlive'
      <4> SUFFICES ASSUME th[Retry(r)].pc \in Busy PROVE r \in rlive'
        OBVIOUS
      <4>1. th[Retry(r)].mt # o
        BY <2>3, ThreadFacts DEF IInv, LockDiscipline, LockMove
      <4>2. r \in rlive /\ ob[o].retry # r
        BY <4>1, <1>a, <1>b DEF IInv, RetryOwnership, RetryThreads
      <4> QED
        BY <4>2 DEF LockMove
    <3> QED
      BY <3>1, <3>2, <2>1 DEF IInv, RetryThreads
  <2> QED
    BY <2>2, <2>3
<1>4. FreshObjects'
  <2> SUFFICES ASSUME NEW p \in Objs, p > nobj
               PROVE  ob'[p].retry = 0 /\ ob'[p].owner = NoThread
    BY DEF IInv, FreshObjects
  <2>1. p # o
    BY BoundsAssumption DEF IInv, TypeOK, Objs
  <2> QED
    BY <2>1 DEF IInv, FreshObjects
<1>5. CallerOps'
  BY ThreadFacts DEF IInv, CallerOps, LockMove
<1>6. Intent'
  <2> SUFFICES ASSUME NEW u \in Callers
               PROVE  /\ th'[u].inStart => th'[u].pc \in StopPcs
                      /\ Starting(th'[u]) => wanted'[th'[u].mt]
    BY DEF Intent
  <2>1. CASE u = t
    BY <2>1 DEF LockMove
  <2>2. CASE u # t
    <3>1. th'[u] = th[u]
      BY <2>2
    <3>2. Starting(th[u]) => th[u].mt # o /\ th[u].mt \in Objs
      BY <2>2, ThreadFacts, ObjFact DEF IInv, LockDiscipline, LockMove, Starting, Busy
    <3> QED
      BY <3>1, <3>2 DEF IInv, Intent
  <2> QED
    BY <2>1, <2>2
<1> QED
  BY <1>1, <1>2, <1>3, <1>4, <1>5, <1>6 DEF IInv

\* A step that changes one caller, and otherwise only the state store and the lock.
LEMMA QuietFrame ==
  ASSUME IInv, NEW t \in Threads,
         th' \in [Threads -> Thread], state' \in States, lock' \in {"free", "me", "other"},
         UNCHANGED <<targets, assigned, ob, live, open, rlive, used, wanted>>,
         \A u \in Callers : u # t => th'[u] = th[u],
         t \in Callers => QuietMove(t)
  PROVE  IInv'
<1>1. TypeOK'
  BY DEF IInv, TypeOK, used
<1> QED
  BY <1>1, Quiet DEF used

\* Thread t goes to p; its object and whether it is inside start() stay the same.
OnlyMoves(t, p) ==
  /\ th'[t].pc = p /\ th'[t].mt = th[t].mt /\ th'[t].att = th[t].att
  /\ th'[t].inStart = th[t].inStart
  /\ \A u \in Callers : u # t => th'[u] = th[u]

\* Setting a thread's pc moves that thread only.
LEMMA MovePc ==
  ASSUME th \in [Threads -> Thread], NEW t \in Threads, NEW p \in Pcs,
         th' = [th EXCEPT ![t].pc = p]
  PROVE  th' \in [Threads -> Thread] /\ OnlyMoves(t, p) /\ th'[t].op = th[t].op
<1>1. th' \in [Threads -> Thread]
  BY DEF Thread
<1>2. OnlyMoves(t, p) /\ th'[t].op = th[t].op
  BY ThreadFacts DEF Thread, OnlyMoves
<1> QED
  BY <1>1, <1>2

\* Setting a thread's pc and operation moves that thread only.
LEMMA MovePcOp ==
  ASSUME th \in [Threads -> Thread], NEW t \in Threads, NEW p \in Pcs, NEW q \in Ops,
         th' = [th EXCEPT ![t].pc = p, ![t].op = q]
  PROVE  th' \in [Threads -> Thread] /\ OnlyMoves(t, p) /\ th'[t].op = q
<1>0. [th[t] EXCEPT !.pc = p, !.op = q] \in Thread
  BY DEF Thread
<1>1. th' \in [Threads -> Thread]
  BY <1>0
<1>2. th'[t].pc = p /\ th'[t].mt = th[t].mt /\ th'[t].att = th[t].att
      /\ th'[t].inStart = th[t].inStart /\ th'[t].op = q
  BY DEF Thread
<1>3. \A u \in Callers : u # t => th'[u] = th[u]
  BY ThreadFacts
<1> QED
  BY <1>1, <1>2, <1>3 DEF OnlyMoves

\* A retry loop that holds no lock.
LEMMA RetryLoopStep ==
  ASSUME IInv, NEW r \in Retries, RetryLoop(r) PROVE IInv'
<1> DEFINE t == Retry(r)
<1> USE DEF RetryPcs, Busy, StartPcs, StopPcs, AttemptPcs
<1>a. t \in Callers /\ t \in Threads /\ t \notin {Loop, Api}
      /\ \A s \in Retries : t = Retry(s) => s = r
  BY ThreadFacts
<1>b. ASSUME NEW p \in Pcs, NEW q \in Ops, th' = [th EXCEPT ![t].pc = p, ![t].op = q]
      PROVE  th' \in [Threads -> Thread] /\ OnlyMoves(t, p) /\ th'[t].op = q
  BY <1>a, <1>b, MovePcOp DEF IInv, TypeOK
<1>c. ASSUME NEW p \in Pcs, th' = [th EXCEPT ![t].pc = p]
      PROVE  th' \in [Threads -> Thread] /\ OnlyMoves(t, p) /\ th'[t].op = th[t].op
  BY <1>a, <1>c, MovePc DEF IInv, TypeOK
<1>d. state \in States /\ lock \in {"free", "me", "other"} /\ "failed" \in States
  BY DEF IInv, TypeOK, States
<1>e. th[t].pc \notin StopPcs => ~th[t].inStart
  BY <1>a DEF IInv, Intent
<1>1. CASE RetryDelay(r)
  <2>1. th' = [th EXCEPT ![t].pc = "timer"] /\ th[t].pc = "delay"
    BY <1>1 DEF RetryDelay, Goto, At
  <2>2. QuietMove(t)
    BY <2>1, <1>a, <1>c, <1>e DEF QuietMove, Starting, OnlyMoves, Pcs
  <2> QED
    BY <1>1, <1>a, <1>c, <1>d, <2>1, <2>2, QuietFrame DEF RetryDelay, OnlyMoves, Pcs
<1>2. CASE RetryCancelled(r)
  <2>1. th' = [th EXCEPT ![t].pc = "done"] /\ th[t].pc = "timer" /\ r \notin rlive
    BY <1>2 DEF RetryCancelled, Goto, At
  <2>2. QuietMove(t)
    BY <2>1, <1>a, <1>c, <1>e DEF QuietMove, Starting, OnlyMoves, Pcs
  <2> QED
    BY <1>2, <1>a, <1>c, <1>d, <2>1, <2>2, QuietFrame DEF RetryCancelled, OnlyMoves, Pcs
<1>3. CASE RetryTimer(r)
  <2>1. /\ th[t].pc = "timer"
        /\ \/ th' = [th EXCEPT ![t].pc = "probe", ![t].op = "retry"]
           \/ th' = [th EXCEPT ![t].pc = "acquire", ![t].op = "end"]
    BY <1>3 DEF RetryTimer, At
  <2>2. th[t].mt \in 1 .. nobj
    BY <1>3 DEF IInv, RetryThreads, RetryTimer, At
  <2>3. /\ th' \in [Threads -> Thread] /\ th'[t].mt = th[t].mt /\ th'[t].inStart = th[t].inStart
        /\ \/ th'[t].pc = "probe" /\ th'[t].op = "retry"
           \/ th'[t].pc = "acquire" /\ th'[t].op = "end"
        /\ \A u \in Callers : u # t => th'[u] = th[u]
    BY <2>1, <1>b DEF OnlyMoves, Pcs, Ops
  <2>4. QuietMove(t)
    BY <1>a, <1>e, <1>3, <2>2, <2>3 DEF QuietMove, Starting, RetryTimer, At
  <2> QED
    BY <1>3, <1>a, <1>d, <2>3, <2>4, QuietFrame DEF RetryTimer
<1>4. CASE ProbeBegin(r)
  <2>1. th' = [th EXCEPT ![t].pc = "probing"] /\ th[t].pc = "probe" /\ th[t].op = "retry"
    BY <1>4 DEF ProbeBegin, Goto, At, IInv, RetryThreads
  <2>2. QuietMove(t)
    BY <2>1, <1>a, <1>c, <1>e DEF QuietMove, Starting, OnlyMoves, Pcs
  <2> QED
    BY <1>4, <1>a, <1>c, <1>d, <2>1, <2>2, QuietFrame DEF ProbeBegin, OnlyMoves, Pcs
<1>5. CASE ProbeOk(r)
  <2>1. th' = [th EXCEPT ![t].pc = "acquire"] /\ th[t].pc = "probing"
    BY <1>5 DEF ProbeOk, Goto, At
  <2>2. th[t].mt \in 1 .. nobj
    BY <2>1 DEF IInv, RetryThreads
  <2>3. QuietMove(t)
    BY <2>1, <2>2, <1>a, <1>c, <1>e DEF QuietMove, Starting, OnlyMoves, Pcs
  <2> QED
    BY <1>5, <1>a, <1>c, <1>d, <2>1, <2>3, QuietFrame DEF ProbeOk, OnlyMoves, Pcs
<1>6. CASE ProbeErr(r)
  <2>1. /\ th[t].pc = "probing"
        /\ \/ th' = [th EXCEPT ![t].pc = "unreachable"]
           \/ /\ th' = [th EXCEPT ![t].pc = "done"]
              /\ r \notin rlive
    BY <1>6 DEF ProbeErr, Goto, At
  <2>2. QuietMove(t) /\ th' \in [Threads -> Thread] /\ \A u \in Callers : u # t => th'[u] = th[u]
    BY <2>1, <1>a, <1>c, <1>e DEF QuietMove, Starting, OnlyMoves, Pcs
  <2> QED
    BY <1>6, <1>a, <1>d, <2>2, QuietFrame DEF ProbeErr
<1>7. CASE PublishUnreachable(r)
  <2>1. th' = [th EXCEPT ![t].pc = "delay"] /\ th[t].pc = "unreachable" /\ state' = "failed"
    BY <1>7 DEF PublishUnreachable, Goto, At
  <2>2. QuietMove(t)
    BY <2>1, <1>a, <1>c, <1>e DEF QuietMove, Starting, OnlyMoves, Pcs
  <2> QED
    BY <1>7, <1>a, <1>c, <1>d, <2>1, <2>2, QuietFrame DEF PublishUnreachable, OnlyMoves, Pcs
<1>8. CASE RetryLocked(r)
  <2> DEFINE o == th[t].mt
  <2>1. th[t].pc = "acquire" /\ th[t].op = "retry" /\ ob[o].owner = NoThread /\ o \in 1 .. nobj
    BY <1>8, <1>a DEF RetryLocked, CanLock, At, IInv, LockDiscipline
  <2>2. o \in Objs
    BY <2>1, ObjFact DEF IInv
  <2>3. CASE r \notin rlive
    <3>1. th' = [th EXCEPT ![t].pc = "done"] /\ UNCHANGED <<ob, live, open, rlive>>
      BY <1>8, <2>3 DEF RetryLocked, Goto
    <3>2. QuietMove(t)
      BY <3>1, <2>1, <2>3, <1>a, <1>c, <1>e DEF QuietMove, Starting, OnlyMoves, Pcs
    <3> QED
      BY <1>8, <3>1, <3>2, <1>a, <1>c, <1>d, QuietFrame DEF RetryLocked, OnlyMoves, Pcs
  <2>4. CASE r \in rlive /\ state # "failed"
    <3>1. /\ th' = [th EXCEPT ![t].pc = "done"]
          /\ ob' = [ob EXCEPT ![o].retry = 0]
          /\ rlive' = rlive \ {r}
          /\ UNCHANGED <<live, open>>
      BY <1>8, <2>4 DEF RetryLocked, Goto
    <3>2. ob[o].retry = r
      BY <2>4 DEF IInv, RetryOwnership
    <3>3. ob' \in [Objs -> ManagedTarget]
      <4>1. o \in Objs /\ ob \in [Objs -> ManagedTarget]
        BY <2>1, ObjFact DEF IInv, TypeOK
      <4> QED
        BY <3>1, <4>1, SetRetry
    <3>4. /\ ob'[o].retry = 0 /\ ob'[o].owner = ob[o].owner
          /\ \A p \in Objs : p # o => ob'[p] = ob[p]
      BY <3>1, <2>2 DEF IInv, TypeOK, ManagedTarget
    <3>5. TypeOK'
      BY <1>8, <3>1, <3>3, <1>c DEF IInv, TypeOK, RetryLocked, used, Pcs
    <3>6. LockMove(t, o)
      BY <3>1, <3>2, <3>4, <2>1, <1>a, <1>c, <1>e DEF LockMove, Starting, OnlyMoves, Pcs
    <3>7. /\ nretry' = nretry /\ nobj' = nobj /\ targets' = targets /\ wanted' = wanted
          /\ \A u \in Callers : u # t => th'[u] = th[u]
      BY <1>8, <3>1, <1>c DEF RetryLocked, OnlyMoves, used, Pcs
    <3> QED
      BY <3>4, <3>5, <3>6, <3>7, <2>1, <1>a, Locking
  <2>5. CASE r \in rlive /\ state = "failed"
    <3>1. /\ th' = [th EXCEPT ![t].pc = "start"]
          /\ ob' = [ob EXCEPT ![o].owner = t]
          /\ rlive' = rlive
          /\ live' \subseteq live /\ open' \subseteq open
      BY <1>8, <2>5 DEF RetryLocked, Goto, CloseClient
    <3>3. ob' \in [Objs -> ManagedTarget]
      <4>1. o \in Objs /\ ob \in [Objs -> ManagedTarget]
        BY <2>1, ObjFact DEF IInv, TypeOK
      <4> QED
        BY <3>1, <4>1, <1>a, SetOwner
    <3>4. /\ ob'[o].retry = ob[o].retry /\ ob'[o].owner = t
          /\ \A p \in Objs : p # o => ob'[p] = ob[p]
      BY <3>1, <2>2 DEF IInv, TypeOK, ManagedTarget
    <3>5. TypeOK'
      BY <1>8, <3>1, <3>3, <1>c DEF IInv, TypeOK, RetryLocked, used, Pcs
    <3>6. LockMove(t, o)
      <4>1. wanted[o] /\ wanted' = wanted
        BY <1>8, <2>5 DEF IInv, RetryThreads, RetryLocked
      <4> QED
        BY <4>1, <3>1, <3>4, <2>1, <2>5, <1>a, <1>c, <1>e DEF LockMove, Starting, OnlyMoves, Pcs
    <3>7. /\ nretry' = nretry /\ nobj' = nobj /\ targets' = targets /\ wanted' = wanted
          /\ \A u \in Callers : u # t => th'[u] = th[u]
      BY <1>8, <3>1, <1>c DEF RetryLocked, OnlyMoves, used, Pcs
    <3> QED
      BY <3>4, <3>5, <3>6, <3>7, <2>1, <1>a, Locking
  <2> QED
    BY <2>3, <2>4, <2>5
<1>9. CASE EndRetry(r)
  <2> DEFINE o == th[t].mt
  <2>1. th[t].pc = "acquire" /\ ob[o].owner = NoThread /\ o \in 1 .. nobj
    BY <1>9, <1>a DEF EndRetry, CanLock, At, IInv, LockDiscipline
  <2>2. o \in Objs
    BY <2>1, ObjFact DEF IInv
  <2>3. th' = [th EXCEPT ![t].pc = "done"] /\ rlive' = rlive \ {r}
    BY <1>9 DEF EndRetry, Goto
  <2>4. CASE r \notin rlive
    <3>1. ob' = ob /\ rlive' = rlive
      BY <1>9, <2>3, <2>4 DEF EndRetry
    <3>2. QuietMove(t)
      BY <2>3, <2>1, <2>4, <1>a, <1>c, <1>e DEF QuietMove, Starting, OnlyMoves, Pcs
    <3> QED
      BY <1>9, <2>3, <3>1, <3>2, <1>a, <1>c, <1>d, QuietFrame DEF EndRetry, OnlyMoves, Pcs
  <2>5. CASE r \in rlive
    <3>1. ob' = [ob EXCEPT ![o].retry = 0]
      BY <1>9, <2>5 DEF EndRetry
    <3>2. ob[o].retry = r
      BY <2>5 DEF IInv, RetryOwnership
    <3>3. ob' \in [Objs -> ManagedTarget]
      <4>1. o \in Objs /\ ob \in [Objs -> ManagedTarget]
        BY <2>1, ObjFact DEF IInv, TypeOK
      <4> QED
        BY <3>1, <4>1, SetRetry
    <3>4. /\ ob'[o].retry = 0 /\ ob'[o].owner = ob[o].owner
          /\ \A p \in Objs : p # o => ob'[p] = ob[p]
      BY <3>1, <2>2 DEF IInv, TypeOK, ManagedTarget
    <3>5. TypeOK'
      BY <1>9, <2>3, <3>3, <1>c DEF IInv, TypeOK, EndRetry, used, Pcs
    <3>6. LockMove(t, o)
      BY <2>3, <3>2, <3>4, <2>1, <1>a, <1>c, <1>e DEF LockMove, Starting, OnlyMoves, Pcs
    <3>7. /\ nretry' = nretry /\ nobj' = nobj /\ targets' = targets /\ wanted' = wanted
          /\ \A u \in Callers : u # t => th'[u] = th[u]
      BY <1>9, <2>3, <1>c DEF EndRetry, OnlyMoves, used, Pcs
    <3> QED
      BY <3>4, <3>5, <3>6, <3>7, <2>1, <1>a, Locking
  <2> QED
    BY <2>4, <2>5
<1> QED
  BY <1>1, <1>2, <1>3, <1>4, <1>5, <1>6, <1>7, <1>8, <1>9 DEF RetryLoop

\* stop() returns: to start(), to apply's reconnect, or to a caller that unlocks.
LEMMA StopReturnStep ==
  ASSUME IInv, NEW t \in Threads, th[t].pc \in StopPcs, StopReturn(t),
         state' \in States, lock' \in {"free", "me", "other"},
         UNCHANGED <<targets, assigned, live, open, rlive, used, wanted>>
  PROVE  IInv'
<1> DEFINE o == th[t].mt
           p == AfterStop(t)
<1> USE DEF Busy, StartPcs, StopPcs, AttemptPcs
<1>a. p \in {"err", "start", "delete", "fail", "idle", "done"}
  BY DEF AfterStop, Rest
<1>b. th' = [th EXCEPT ![t].pc = p, ![t].inStart = FALSE]
  BY DEF StopReturn
<1>c. th' \in [Threads -> Thread]
  <2>1. p \in Pcs
    BY <1>a DEF Pcs
  <2> DEFINE g == [th EXCEPT ![t].pc = p]
  <2> HIDE DEF p
  <2>2. g \in [Threads -> Thread]
    BY <2>1 DEF IInv, TypeOK, Thread
  <2>3. th' = [g EXCEPT ![t].inStart = FALSE]
    BY <1>b
  <2> HIDE DEF g
  <2> QED
    BY <2>2, <2>3 DEF Thread
<1>d. th'[t].pc = p /\ th'[t].mt = o /\ th'[t].op = th[t].op /\ th'[t].inStart = FALSE
  BY <1>b DEF IInv, TypeOK, Thread
<1>e. \A u \in Callers : u # t => th'[u] = th[u]
  BY <1>b, ThreadFacts DEF IInv, TypeOK
<1>1. CASE t \notin Callers
  BY <1>1, <1>c, <1>e, QuietFrame DEF StopReturn
<1>2. CASE t \in Callers /\ th[t].inStart
  <2>1. p = "err" /\ ob' = ob
    BY <1>2 DEF AfterStop, StopReturn
  <2>2. t \in {Loop, Api} => th[t].op \notin {"retry", "end"}
    BY DEF IInv, CallerOps
  <2>3. \A r \in Retries : t = Retry(r) => th[t].op = "retry"
    BY DEF IInv, RetryThreads
  <2>4. QuietMove(t)
    BY <1>2, <2>1, <2>2, <2>3, <1>d DEF QuietMove, RetryPcs, Starting
  <2> QED
    BY <2>1, <2>4, <1>c, <1>e, QuietFrame
<1>3. CASE t \in Callers /\ ~th[t].inStart
  <2>1. t \in {Loop, Api}
    BY <1>3, ThreadFacts DEF IInv, RetryThreads
  <2>2. \A r \in Retries : t # Retry(r)
    BY <2>1, ThreadFacts
  <2>3. o \in 1 .. nobj /\ ob[o].owner = t /\ th[t].op \notin {"retry", "end"}
    BY <1>3, <2>1 DEF IInv, LockDiscipline, CallerOps
  <2>4. o \in Objs
    BY <2>3, ObjFact DEF IInv
  <2>5. CASE th[t].op = "reconnect"
    <3>1. ob' = [ob EXCEPT ![o].cfg = th[t].cfg] /\ p = "start"
      BY <1>3, <2>5 DEF StopReturn, AfterStop
    <3>2. ob' \in [Objs -> ManagedTarget]
      <4>1. th[t].cfg \in Cfgs
        BY DEF IInv, TypeOK, Thread
      <4> QED
        BY <3>1, <4>1, <2>4, SetCfg DEF IInv, TypeOK
    <3>3. \A q \in Objs : ob'[q].retry = ob[q].retry /\ ob'[q].owner = ob[q].owner
      BY <3>1 DEF IInv, TypeOK, ManagedTarget
    <3>4. QuietMove(t)
      BY <1>d, <2>2, <2>3, <2>5, <3>1 DEF QuietMove, Starting
    <3>5. TypeOK'
      BY <1>c, <3>2 DEF IInv, TypeOK, used
    <3> QED
      BY <1>e, <3>3, <3>4, <3>5, Quiet DEF used
  <2>6. CASE th[t].op # "reconnect"
    <3>1. ob' = [ob EXCEPT ![o].owner = NoThread] /\ p \in {"delete", "fail", "idle"}
      BY <1>3, <2>1, <2>6 DEF StopReturn, AfterStop, Rest
    <3>2. ob' \in [Objs -> ManagedTarget]
      BY <3>1, <2>4, SetOwner DEF IInv, TypeOK
    <3>3. /\ ob'[o].retry = ob[o].retry /\ ob'[o].owner = NoThread
          /\ \A q \in Objs : q # o => ob'[q] = ob[q]
      BY <3>1, <2>4 DEF IInv, TypeOK, ManagedTarget
    <3>4. LockMove(t, o)
      BY <1>d, <2>2, <2>3, <3>1, <3>3 DEF LockMove, Starting
    <3>5. TypeOK'
      BY <1>c, <3>2 DEF IInv, TypeOK, used
    <3> QED
      BY <1>3, <1>e, <2>3, <3>3, <3>4, <3>5, Locking DEF used
  <2> QED
    BY <2>5, <2>6
<1> QED
  BY <1>1, <1>2, <1>3

\* stop(), by a caller or by the lock keeper.
LEMMA StopStep ==
  ASSUME IInv, NEW t \in Threads, Stop(t) PROVE IInv'
<1> USE DEF Busy, StartPcs, StopPcs, AttemptPcs
<1>a. state \in States /\ lock \in {"free", "me", "other"} /\ {"stopping", "stopped"} \subseteq States
  BY DEF IInv, TypeOK, States
<1>b. ASSUME NEW p \in StopPcs, th[t].pc \in StopPcs, th' = [th EXCEPT ![t].pc = p]
      PROVE  /\ th' \in [Threads -> Thread]
             /\ \A u \in Callers : u # t => th'[u] = th[u]
             /\ t \in Callers => QuietMove(t)
  <2>1. th' \in [Threads -> Thread] /\ OnlyMoves(t, p) /\ th'[t].op = th[t].op
    BY <1>b, MovePc DEF IInv, TypeOK, Pcs
  <2>2. t \in {Loop, Api} => th[t].op \notin {"retry", "end"}
    BY DEF IInv, CallerOps
  <2>3. \A r \in Retries : t = Retry(r) => th[t].op = "retry" /\ th[t].inStart
    BY <1>b DEF IInv, RetryThreads
  <2> QED
    BY <1>b, <2>1, <2>2, <2>3 DEF QuietMove, Starting, OnlyMoves, RetryPcs
<1>1. CASE StopBegin(t)
  <2>1. CASE state = "stopped"
    BY <1>1, <2>1, <1>a, StopReturnStep DEF StopBegin, At
  <2>2. CASE state # "stopped"
    BY <1>1, <2>2, <1>a, <1>b, QuietFrame DEF StopBegin, At, Goto
  <2> QED
    BY <2>1, <2>2
<1>2. CASE StopClose(t)
  <2>1. th' = [th EXCEPT ![t].pc = "setStopped"] /\ th[t].pc = "close"
    BY <1>2 DEF StopClose, Goto, At
  <2>2. TypeOK'
    BY <1>2, <2>1, <1>b DEF IInv, TypeOK, StopClose, CloseClient, used
  <2> QED
    BY <1>2, <2>1, <2>2, <1>b, Quiet DEF StopClose, used
<1>3. CASE SetStopped(t)
  <2>1. CASE InCluster
    BY <1>3, <2>1, <1>a, <1>b, QuietFrame DEF SetStopped, At, Goto
  <2>2. CASE ~InCluster
    BY <1>3, <2>2, <1>a, StopReturnStep DEF SetStopped, At
  <2> QED
    BY <2>1, <2>2
<1>4. CASE Unlock(t)
  BY <1>4, <1>a, StopReturnStep DEF Unlock, At
<1> QED
  BY <1>1, <1>2, <1>3, <1>4 DEF Stop

\* The lock keeper, watchConnState and the reader own no lock and no retry.
LEMMA GoroutineStep ==
  ASSUME IInv, NEW a \in Attempts, Goroutines(a) PROVE IInv'
<1>a. {Keep(a), Watch(a), Read(a)} \subseteq Threads \ Callers
  BY ThreadFacts
<1>b. /\ state \in States /\ lock \in {"free", "me", "other"}
      /\ {"failed", "running", ""} \subseteq States
  BY DEF IInv, TypeOK, States
<1>c. ASSUME NEW t \in Threads \ Callers, NEW p \in Pcs, th' = [th EXCEPT ![t].pc = p]
      PROVE  th' \in [Threads -> Thread] /\ \A u \in Callers : u # t => th'[u] = th[u]
  BY <1>c, MovePc DEF IInv, TypeOK, OnlyMoves
<1>d. ASSUME NEW t \in Threads \ Callers, NEW p \in Pcs, NEW q \in Ops,
             th' = [th EXCEPT ![t].pc = p, ![t].op = q]
      PROVE  th' \in [Threads -> Thread] /\ \A u \in Callers : u # t => th'[u] = th[u]
  BY <1>d, MovePcOp DEF IInv, TypeOK, OnlyMoves
<1>e. ASSUME NEW t \in Threads \ Callers, NEW p \in Pcs, NEW x \in States,
             th' = [th EXCEPT ![t].pc = p, ![t].saved = x]
      PROVE  th' \in [Threads -> Thread] /\ \A u \in Callers : u # t => th'[u] = th[u]
  <2>0. th[t] \in Thread /\ [th[t] EXCEPT !.pc = p, !.saved = x] \in Thread
    BY <1>e DEF IInv, TypeOK, Thread
  <2>1. th' \in [Threads -> Thread]
    BY <1>e, <2>0 DEF IInv, TypeOK
  <2> QED
    BY <1>e, <2>1, ThreadFacts DEF IInv, TypeOK
<1>f. ASSUME NEW t \in Threads \ Callers, NEW p \in Pcs, RefreshRead(t, p) PROVE IInv'
  <2>1. th' \in [Threads -> Thread] /\ \A u \in Callers : u # t => th'[u] = th[u]
    <3>1. \E x \in Pcs : th' = [th EXCEPT ![t].pc = x, ![t].saved = state]
      BY <1>f DEF RefreshRead, Pcs
    <3> QED
      BY <3>1, <1>b, <1>e
  <2>2. TypeOK'
    <3>0. nrefresh' = nrefresh + 1
      BY <1>f DEF RefreshRead
    <3>1. nrefresh' \in Nat
      BY <3>0 DEF IInv, TypeOK
    <3>2. UNCHANGED <<targets, assigned, ob, state, live, open, rlive, nobj, natt, nretry, nops,
                      lock, wanted>>
      BY <1>f DEF RefreshRead
    <3> QED
      BY <2>1, <3>1, <3>2 DEF IInv, TypeOK
  <2> QED
    BY <1>f, <2>1, <2>2, Quiet DEF RefreshRead, used
<1>g. ASSUME NEW t \in Threads \ Callers, NEW p \in Pcs, RefreshWrite(t, p) PROVE IInv'
  <2>1. th[t].saved \in States
    BY DEF IInv, TypeOK, Thread
  <2> QED
    BY <1>g, <2>1, <1>b, <1>e, QuietFrame DEF RefreshWrite
<1>1. CASE KeepDone(a)
  <2>1. th' \in [Threads -> Thread] /\ \A u \in Callers : u # Keep(a) => th'[u] = th[u]
    <3>1. \/ th' = [th EXCEPT ![Keep(a)].pc = "done"]
          \/ th' = [th EXCEPT ![Keep(a)].pc = "stop", ![Keep(a)].op = "keepDone"]
      BY <1>1 DEF KeepDone, Goto
    <3>2. {"done", "stop"} \subseteq Pcs /\ "keepDone" \in Ops
      BY DEF Pcs, StopPcs, Ops
    <3> QED
      BY <3>1, <3>2, <1>a, <1>c, <1>d
  <2> QED
    BY <1>1, <2>1, <1>a, <1>b, QuietFrame DEF KeepDone
<1>2. CASE KeepErr(a)
  BY <1>2, <1>a, <1>b, <1>d, QuietFrame DEF KeepErr, Pcs, StopPcs, Ops
<1>3. CASE KeepFail(a)
  BY <1>3, <1>a, <1>b, <1>c, QuietFrame DEF KeepFail, Goto, Pcs
<1>4. CASE WatchRead(a)
  BY <1>4, <1>a, <1>f DEF WatchRead, Pcs
<1>5. CASE WatchWrite(a)
  BY <1>5, <1>a, <1>g DEF WatchWrite, Pcs
<1>6. CASE WatchExit(a)
  BY <1>6, <1>a, <1>b, <1>c, QuietFrame DEF WatchExit, Goto, Pcs
<1>7. CASE FirstResponse(a)
  BY <1>7, <1>a, <1>b, <1>c, QuietFrame DEF FirstResponse, Goto, Pcs
<1>8. CASE ReadErr(a)
  BY <1>8, <1>a, <1>f DEF ReadErr, Pcs
<1>9. CASE ReadErrWrite(a)
  BY <1>9, <1>a, <1>g DEF ReadErrWrite, Pcs
<1>10. CASE ReadEnd(a)
  <2>1. \E x \in Pcs : th' = [th EXCEPT ![Read(a)].pc = x, ![Read(a)].saved = state]
    BY <1>10 DEF ReadEnd, Pcs
  <2>2. th' \in [Threads -> Thread] /\ \A u \in Callers : u # Read(a) => th'[u] = th[u]
    <3>1. PICK x \in Pcs : th' = [th EXCEPT ![Read(a)].pc = x, ![Read(a)].saved = state]
      BY <2>1
    <3> QED
      BY <3>1, <1>a, <1>b, <1>e
  <2> QED
    BY <1>10, <2>2, <1>a, <1>b, QuietFrame DEF ReadEnd
<1>11. CASE ReadEndWrite(a)
  <2>1. th[Read(a)].saved \in States
    BY <1>a DEF IInv, TypeOK, Thread
  <2> QED
    BY <1>11, <2>1, <1>a, <1>b, <1>e, QuietFrame DEF ReadEndWrite, Pcs
<1> QED
  BY <1>1, <1>2, <1>3, <1>4, <1>5, <1>6, <1>7, <1>8, <1>9, <1>10, <1>11 DEF Goroutines

\* start(), called with mt.Lock held.
LEMMA StartStep ==
  ASSUME IInv, NEW t \in Callers, Start(t) \/ LockError(t) PROVE IInv'
<1> DEFINE o == th[t].mt
           a == th[t].att
<1> USE DEF Busy, StartPcs, StopPcs, AttemptPcs
<1>a. t \in Threads
  BY ThreadFacts
<1>b. /\ state \in States /\ lock \in {"free", "me", "other"}
      /\ {"starting", "running", "failed"} \subseteq States
  BY DEF IInv, TypeOK, States
<1>c. th \in [Threads -> Thread] /\ ob \in [Objs -> ManagedTarget] /\ th[t] \in Thread
      /\ a \in Attempts \cup {0} /\ o \in Objs \cup {0}
  BY <1>a DEF IInv, TypeOK, Thread
<1>d. /\ t \in {Loop, Api} => th[t].op \notin {"retry", "end"}
      /\ th[t].pc \in StartPcs => \A r \in Retries : t = Retry(r) => r \in rlive /\ th[t].op = "retry"
      /\ th[t].pc \in StartPcs => o \in 1 .. nobj /\ o \in Objs /\ ob[o].owner = t
      /\ th[t].pc \in AttemptPcs => a \in Attempts
      /\ th[t].pc \in StartPcs => ~th[t].inStart /\ wanted[o]
  BY ObjFact DEF IInv, CallerOps, RetryThreads, LockDiscipline, Intent, Starting
<1>e. ASSUME NEW p \in StartPcs, th[t].pc \in StartPcs, th' \in [Threads -> Thread],
             th'[t].pc = p, th'[t].mt = o, th'[t].op = th[t].op,
             th'[t].inStart = th[t].inStart,
             p \in AttemptPcs => th'[t].att \in Attempts
      PROVE  QuietMove(t)
  BY <1>d, <1>e DEF QuietMove, Starting, RetryPcs
<1>f. ASSUME NEW p \in StartPcs, th[t].pc \in StartPcs, th' = [th EXCEPT ![t].pc = p],
             p \in AttemptPcs => a \in Attempts
      PROVE  /\ th' \in [Threads -> Thread] /\ QuietMove(t)
             /\ \A u \in Callers : u # t => th'[u] = th[u]
  <2>1. th' \in [Threads -> Thread] /\ OnlyMoves(t, p) /\ th'[t].op = th[t].op
    BY <1>f, <1>a, <1>c, MovePc DEF Pcs
  <2> QED
    BY <2>1, <1>e, <1>f DEF OnlyMoves
<1>g. ASSUME NEW p \in StartPcs, th[t].pc \in StartPcs, NEW k \in Threads \ Callers,
             NEW x \in Thread, th' = [th EXCEPT ![t].pc = p, ![k] = x],
             p \in AttemptPcs => a \in Attempts
      PROVE  /\ th' \in [Threads -> Thread] /\ QuietMove(t)
             /\ \A u \in Callers : u # t => th'[u] = th[u]
  <2> DEFINE g == [th EXCEPT ![t].pc = p]
  <2>0. p \in Pcs
    BY DEF Pcs
  <2>1. g \in [Threads -> Thread]
    BY <2>0, <1>c DEF Thread
  <2>2. /\ g[t].pc = p /\ g[t].mt = o /\ g[t].op = th[t].op /\ g[t].att = a
        /\ g[t].inStart = th[t].inStart
        /\ \A u \in Callers : u # t => g[u] = th[u]
    BY <1>a, <1>c, ThreadFacts DEF Thread
  <2>3. th' = [g EXCEPT ![k] = x]
    BY <1>g
  <2> HIDE DEF g
  <2>4. th' \in [Threads -> Thread] /\ \A u \in Callers : th'[u] = g[u]
    BY <2>1, <2>3, ThreadFacts
  <2> QED
    BY <2>2, <2>4, <1>e, <1>g
<1>h. \A p \in {"wait", "first"} : NewThread(p, o, a) \in Thread
  BY <1>c, CfgFact DEF NewThread, Thread, Pcs, Ops, States
<1>1. CASE StartBegin(t)
  <2>0. th[t].pc = "start" /\ UNCHANGED <<targets, assigned, open, rlive, nobj, nretry, nops,
                                         nrefresh, lock, wanted>>
    BY <1>1 DEF StartBegin, At
  <2>1. CASE state = "running"
    <3>1. th' = [th EXCEPT ![t].pc = "ok"] /\ UNCHANGED <<ob, state, live, natt>>
      BY <1>1, <2>1 DEF StartBegin, Goto
    <3> QED
      BY <2>0, <3>1, <1>a, <1>b, <1>f, QuietFrame DEF used
  <2>2. CASE state # "running"
    <3> DEFINE n == natt + 1
    <3>1. /\ n <= MaxAttempt
          /\ state' = "starting" /\ natt' = n /\ live' = live \cup {n}
          /\ ob' = [ob EXCEPT ![o].cfn = n]
          /\ th' = [th EXCEPT ![t].pc = "dial", ![t].att = n]
      BY <1>1, <2>2 DEF StartBegin
    <3>2. natt \in Nat
      BY BoundsAssumption DEF IInv, TypeOK
    <3>3. n \in Attempts /\ n \in 0 .. MaxAttempt
      BY <3>1, <3>2, BoundsAssumption DEF Attempts
    <3> HIDE DEF n
    <3>4. ob' \in [Objs -> ManagedTarget]
      BY <2>0, <3>1, <3>3, <1>c, <1>d, SetCfn
    <3>5. \A q \in Objs : ob'[q].retry = ob[q].retry /\ ob'[q].owner = ob[q].owner
      BY <3>1, <1>c DEF ManagedTarget
    <3>6. th' \in [Threads -> Thread]
      BY <3>1, <3>3, <1>c DEF Thread, Pcs
    <3>7. th'[t].pc = "dial" /\ th'[t].mt = o /\ th'[t].op = th[t].op /\ th'[t].att = n
          /\ th'[t].inStart = th[t].inStart
      BY <3>1, <1>a, <1>c DEF Thread
    <3>8. \A u \in Callers : u # t => th'[u] = th[u]
      BY <3>1, <1>c, ThreadFacts
    <3>9. QuietMove(t)
      BY <2>0, <3>3, <3>6, <3>7, <1>e
    <3>10. TypeOK'
      BY <2>0, <3>1, <3>3, <3>4, <3>6, <1>b DEF IInv, TypeOK
    <3> QED
      BY <2>0, <3>5, <3>8, <3>9, <3>10, <1>a, Quiet
  <2> QED
    BY <2>1, <2>2
<1>2. CASE Dial(t)
  <2>0. th[t].pc = "dial"
    BY <1>2 DEF Dial, At
  <2>1. CASE state' = "failed" /\ th' = [th EXCEPT ![t].pc = "err"] /\ UNCHANGED <<ob, open>>
    BY <1>2, <2>0, <2>1, <1>a, <1>b, <1>f, QuietFrame DEF Dial
  <2>2. CASE /\ ob' = [ob EXCEPT ![o].conn = a]
             /\ open' = open \cup {a}
             /\ th' = [th EXCEPT ![t].pc = IF InCluster THEN "lock" ELSE "watch"]
             /\ state' = state
    <3>1. /\ th' \in [Threads -> Thread] /\ QuietMove(t)
          /\ \A u \in Callers : u # t => th'[u] = th[u]
      <4>1. \E p \in StartPcs : th' = [th EXCEPT ![t].pc = p]
        BY <2>2
      <4> QED
        BY <4>1, <2>0, <1>d, <1>f
    <3>2. ob' \in [Objs -> ManagedTarget]
      BY <2>2, <1>c DEF ManagedTarget
    <3>3. \A q \in Objs : ob'[q].retry = ob[q].retry /\ ob'[q].owner = ob[q].owner
      BY <2>2, <1>c DEF ManagedTarget
    <3>4. UNCHANGED <<targets, assigned, live, rlive, used, lock, wanted>>
      BY <1>2 DEF Dial
    <3>5. open' \subseteq Attempts
      BY <2>0, <2>2, <1>d DEF IInv, TypeOK
    <3>6. TypeOK'
      BY <2>2, <3>1, <3>2, <3>4, <3>5 DEF IInv, TypeOK, used
    <3> QED
      BY <3>1, <3>3, <3>4, <3>6, <1>a, Quiet DEF used
  <2> QED
    BY <1>2, <2>1, <2>2 DEF Dial, Goto
<1>3. CASE AcquireLock(t) \/ LockError(t)
  <2>0. th[t].pc = "lock" /\ UNCHANGED <<targets, assigned, ob, live, open, rlive, used, wanted>>
    BY <1>3 DEF AcquireLock, LockError, LockTaken, LockFailed, At
  <2>1. CASE /\ lock' = "me" /\ state' = state
             /\ th' = [th EXCEPT ![t].pc = "watch", ![Keep(a)] = NewThread("wait", o, a)]
    <3>1. Keep(a) \in Threads \ Callers /\ NewThread("wait", o, a) \in Thread
      BY <2>0, <1>d, <1>h, ThreadFacts
    <3> QED
      BY <2>0, <2>1, <3>1, <1>a, <1>b, <1>d, <1>g, QuietFrame
  <2>2. CASE /\ state' = "failed" /\ lock' = lock
             /\ th' = [th EXCEPT ![t].pc = "stop", ![t].inStart = TRUE]
    <3>1. th' \in [Threads -> Thread]
      BY <2>2, <1>c DEF Thread, Pcs
    <3>2. th'[t].pc = "stop" /\ th'[t].inStart /\ th'[t].mt = o /\ th'[t].op = th[t].op
      BY <2>2, <1>a, <1>c DEF Thread
    <3>3. \A u \in Callers : u # t => th'[u] = th[u]
      BY <2>2, <1>c, ThreadFacts
    <3>4. QuietMove(t)
      BY <2>0, <3>2, <1>d DEF QuietMove, Starting, RetryPcs
    <3> QED
      BY <2>0, <2>2, <3>1, <3>3, <3>4, <1>a, <1>b, QuietFrame
  <2> QED
    BY <1>3, <2>1, <2>2 DEF AcquireLock, LockError, LockTaken, LockFailed
<1>4. CASE WatchConnState(t)
  <2>1. /\ th[t].pc = "watch"
        /\ th' = [th EXCEPT ![t].pc = "caps", ![Watch(a)] = NewThread("wait", o, a)]
        /\ UNCHANGED <<targets, assigned, ob, state, live, open, rlive, used, lock, wanted>>
    BY <1>4 DEF WatchConnState, At
  <2>2. Watch(a) \in Threads \ Callers /\ NewThread("wait", o, a) \in Thread
    BY <2>1, <1>d, <1>h, ThreadFacts
  <2> QED
    BY <2>1, <2>2, <1>a, <1>b, <1>d, <1>g, QuietFrame
<1>5. CASE Capabilities(t)
  <2>1. /\ th[t].pc = "caps"
        /\ UNCHANGED <<targets, assigned, ob, live, open, rlive, used, lock, wanted>>
        /\ state' \in {"running", "failed"}
        /\ \E p \in {"subs", "err"} : th' = [th EXCEPT ![t].pc = p]
    BY <1>5 DEF Capabilities, At, Goto
  <2>2. PICK p \in {"subs", "err"} : th' = [th EXCEPT ![t].pc = p]
    BY <2>1
  <2>3. /\ th' \in [Threads -> Thread] /\ QuietMove(t)
        /\ \A u \in Callers : u # t => th'[u] = th[u]
    BY <2>1, <2>2, <1>d, <1>f
  <2> QED
    BY <2>1, <2>3, <1>a, <1>b, QuietFrame
<1>6. CASE StartSubscriptions(t)
  <2>1. /\ th[t].pc = "subs"
        /\ th' = [th EXCEPT ![t].pc = "ok", ![Read(a)] = NewThread("first", o, a)]
        /\ state' = "running"
        /\ UNCHANGED <<targets, assigned, ob, live, open, rlive, used, lock, wanted>>
    BY <1>6 DEF StartSubscriptions, At
  <2>2. Read(a) \in Threads \ Callers /\ NewThread("first", o, a) \in Thread
    BY <2>1, <1>d, <1>h, ThreadFacts
  <2> QED
    BY <2>1, <2>2, <1>a, <1>b, <1>g, QuietFrame
<1>7. CASE StartOk(t)
  <2>0. /\ th[t].pc = "ok" /\ state' \in States
        /\ th' = [th EXCEPT ![t].pc = Rest(t)]
        /\ ob' = [ob EXCEPT ![o].owner = NoThread,
                            ![o].retry = IF th[t].op = "retry" THEN 0 ELSE ob[o].retry]
        /\ rlive' = IF th[t].op = "retry" THEN rlive \ {ob[o].retry} ELSE rlive
        /\ UNCHANGED <<targets, assigned, live, open, used, lock, wanted>>
    BY <1>7, <1>b DEF StartOk, At, Goto
  <2>1. Rest(t) \in {"idle", "done"} /\ (t \in {Loop, Api} => Rest(t) = "idle")
    BY DEF Rest
  <2>2. /\ th' \in [Threads -> Thread] /\ OnlyMoves(t, Rest(t)) /\ th'[t].op = th[t].op
    BY <2>0, <2>1, <1>a, <1>c, MovePc DEF Pcs
  <2> DEFINE n == IF th[t].op = "retry" THEN 0 ELSE ob[o].retry
  <2>3. n \in Retries \cup {0}
    BY <2>0, <1>c, <1>d DEF ManagedTarget
  <2>4. ob' = [ob EXCEPT ![o].owner = NoThread, ![o].retry = n]
    BY <2>0
  <2>a. rlive' = IF th[t].op = "retry" THEN rlive \ {ob[o].retry} ELSE rlive
    BY <2>0
  <2>5. \/ n = 0 /\ rlive' = rlive \ {ob[o].retry}
        \/ n = ob[o].retry /\ rlive' = rlive
    BY <2>a
  <2>6. \A r \in Retries : t = Retry(r) => r \notin rlive'
    BY <2>0, <1>d DEF IInv, RetryOwnership
  <2> HIDE DEF n
  <2>7. ob' \in [Objs -> ManagedTarget]
    <3>1. o \in Objs
      BY <2>0, <1>d
    <3> QED
      BY <2>3, <2>4, <3>1, <1>c, SetOwnerRetry
  <2>8. ob'[o].retry = n /\ ob'[o].owner = NoThread /\ \A q \in Objs : q # o => ob'[q] = ob[q]
    BY <2>0, <2>4, <1>c, <1>d DEF ManagedTarget
  <2>9. TypeOK'
    BY <2>0, <2>2, <2>5, <2>7 DEF IInv, TypeOK, used
  <2>b. th[t].pc = "ok" /\ wanted' = wanted
    BY <2>0
  <2>10. LockMove(t, o)
    <3>1. /\ th'[t].pc \in {"idle", "done"} /\ th'[t].mt = o /\ th'[t].inStart = th[t].inStart
          /\ th'[t].pc = Rest(t)
      BY <2>1, <2>2 DEF OnlyMoves
    <3>2. \A r \in Retries : t = Retry(r) => th'[t].pc = "done"
      BY <3>1, ThreadFacts DEF Rest
    <3> QED
      BY <2>b, <2>2, <2>5, <2>6, <2>8, <3>1, <3>2, <1>d DEF LockMove, Starting, RetryPcs
  <2>11. /\ nretry' = nretry /\ nobj' = nobj /\ targets' = targets /\ wanted' = wanted
         /\ \A u \in Callers : u # t => th'[u] = th[u]
    BY <2>0, <2>2 DEF used, OnlyMoves
  <2>12. o \in 1 .. nobj
    BY <2>0, <1>d
  <2>13. \A q \in Objs : q # o => /\ ob'[q].retry = ob[q].retry /\ ob'[q].owner = ob[q].owner
                                  /\ wanted'[q] = wanted[q]
    BY <2>8, <2>11
  <2> QED
    BY <2>9, <2>10, <2>11, <2>12, <2>13, Locking
<1>8. CASE RetryErr(t)
  <2>0. /\ th[t].pc = "err" /\ th[t].op = "retry" /\ state' = "failed"
        /\ th' = [th EXCEPT ![t].pc = "delay"]
        /\ ob' = [ob EXCEPT ![o].owner = NoThread]
        /\ UNCHANGED <<targets, assigned, live, open, rlive, used, lock, wanted>>
    BY <1>8 DEF RetryErr, At, Goto
  <2>1. th' \in [Threads -> Thread] /\ OnlyMoves(t, "delay") /\ th'[t].op = th[t].op
    BY <2>0, <1>a, <1>c, MovePc DEF Pcs
  <2>2. ob' \in [Objs -> ManagedTarget]
    BY <2>0, <1>c DEF ManagedTarget
  <2>3. /\ ob'[o].retry = ob[o].retry /\ ob'[o].owner = NoThread
        /\ \A q \in Objs : q # o => ob'[q] = ob[q]
    BY <2>0, <1>c, <1>d DEF ManagedTarget
  <2>4. TypeOK'
    BY <2>0, <2>1, <2>2, <1>b DEF IInv, TypeOK, used
  <2>5. LockMove(t, o)
    BY <2>0, <2>1, <2>3, <1>d DEF LockMove, Starting, OnlyMoves, RetryPcs
  <2> QED
    BY <2>0, <2>1, <2>3, <2>4, <2>5, <1>d, Locking DEF used, OnlyMoves
<1>9. CASE StartErr(t)
  <2>0. /\ th[t].pc = "err" /\ th[t].op # "retry"
        /\ UNCHANGED <<targets, assigned, live, open, nobj, natt, nops, nrefresh, lock, wanted>>
    BY <1>9 DEF StartErr, At
  <2>1. state' \in States
    BY <1>9, <1>b DEF StartErr
  <2>2. t \in {Loop, Api} /\ \A r \in Retries : t # Retry(r)
    BY <2>0, <1>d, ThreadFacts
  <2>3. CASE ob[o].retry # 0
    <3>0. /\ ob' = [ob EXCEPT ![o].owner = NoThread]
          /\ th' = [th EXCEPT ![t].pc = "idle"]
          /\ rlive' = rlive /\ nretry' = nretry
      BY <1>9, <2>3 DEF StartErr
    <3>1. th' \in [Threads -> Thread] /\ OnlyMoves(t, "idle") /\ th'[t].op = th[t].op
      BY <3>0, <1>a, <1>c, MovePc DEF Pcs
    <3>2. ob' \in [Objs -> ManagedTarget]
      BY <3>0, <1>c DEF ManagedTarget
    <3>3. /\ ob'[o].retry = ob[o].retry /\ ob'[o].owner = NoThread
          /\ \A q \in Objs : q # o => ob'[q] = ob[q]
      BY <2>0, <3>0, <1>c, <1>d DEF ManagedTarget
    <3>4. TypeOK'
      BY <2>0, <2>1, <3>0, <3>1, <3>2 DEF IInv, TypeOK
    <3>5. LockMove(t, o)
      BY <2>0, <2>2, <3>0, <3>1, <3>3, <1>d DEF LockMove, Starting, OnlyMoves, RetryPcs
    <3> QED
      BY <2>0, <3>0, <3>1, <3>3, <3>4, <3>5, <1>d, Locking DEF OnlyMoves
  <2>4. CASE ob[o].retry = 0
    <3> DEFINE r == nretry + 1
    <3>0. /\ r <= MaxRetry /\ nretry' = r /\ rlive' = rlive \cup {r}
          /\ ob' = [ob EXCEPT ![o].owner = NoThread, ![o].retry = r]
          /\ th' = [th EXCEPT ![t].pc = "idle", ![Retry(r)] = NewThread("delay", o, 0)]
      BY <1>9, <2>4 DEF StartErr
    <3>1. nretry \in Nat
      BY BoundsAssumption DEF IInv, TypeOK
    <3>2. r \in Retries /\ r \in 0 .. MaxRetry /\ r # 0 /\ ~(r <= nretry)
      BY <3>0, <3>1, BoundsAssumption DEF Retries
    <3>a. \A s \in Retries : s <= nretry => s <= r
      BY <3>1 DEF Retries
    <3> HIDE DEF r
    <3>3. th[Retry(r)].pc = "off" /\ r \notin rlive
      BY <3>2 DEF IInv, RetryThreads, RetryOwnership
    <3>4. Retry(r) \in Callers /\ Retry(r) \in Threads /\ Retry(r) # t
      BY <2>2, <3>2, ThreadFacts
    <3>5. NewThread("delay", o, 0) \in Thread
      BY <1>c, CfgFact DEF NewThread, Thread, Pcs, Ops, States
    <3>6. th' \in [Threads -> Thread]
      <4> DEFINE g == [th EXCEPT ![t].pc = "idle"]
      <4>1. g \in [Threads -> Thread]
        BY <1>c DEF Thread, Pcs
      <4>2. th' = [g EXCEPT ![Retry(r)] = NewThread("delay", o, 0)]
        BY <3>0
      <4> HIDE DEF g
      <4> QED
        BY <4>1, <4>2, <3>5
    <3>7. th'[t].pc = "idle" /\ th'[t].op = th[t].op /\ th'[t].inStart = th[t].inStart
      BY <3>0, <3>4, <1>a, <1>c DEF Thread
    <3>8. /\ th'[Retry(r)].pc = "delay" /\ th'[Retry(r)].mt = o
          /\ th'[Retry(r)].inStart = FALSE
      BY <3>0, <3>4, <1>c DEF NewThread
    <3>9. \A u \in Callers : u # t /\ u # Retry(r) => th'[u] = th[u]
      BY <3>0, <1>c, ThreadFacts
    <3>10. ob' \in [Objs -> ManagedTarget]
      BY <2>0, <3>0, <3>2, <1>c, <1>d, SetOwnerRetry
    <3>11. /\ ob'[o].retry = r /\ ob'[o].owner = NoThread
           /\ \A q \in Objs : q # o => ob'[q] = ob[q]
      BY <2>0, <3>0, <1>c, <1>d DEF ManagedTarget
    <3>12. TypeOK'
      BY <2>0, <2>1, <3>0, <3>2, <3>6, <3>10 DEF IInv, TypeOK
    <3>13. \A s \in Retries : s # r => th'[Retry(s)] = th[Retry(s)]
      BY <2>2, <3>2, <3>9, ThreadFacts
    <3>14. \A s \in rlive : s \in Retries /\ s # r /\ th[Retry(s)].mt \in Objs /\ th[Retry(s)].mt # o
      BY <2>4, <3>2, <3>3, ObjFact, BoundsAssumption DEF IInv, TypeOK, RetryOwnership, RetryThreads, Retries
    <3>15. o \in Objs /\ o # 0 /\ o \in 1 .. nobj /\ wanted[o]
      BY <2>0, <1>d, ObjFact DEF IInv
    <3>16. RetryOwnership'
      <4>1. \A s \in rlive' : /\ th'[Retry(s)].pc \notin {"off", "done"}
                              /\ th'[Retry(s)].mt # 0
                              /\ ob'[th'[Retry(s)].mt].retry = s
        <5> SUFFICES ASSUME NEW s \in rlive'
                     PROVE  /\ th'[Retry(s)].pc \notin {"off", "done"}
                            /\ th'[Retry(s)].mt # 0
                            /\ ob'[th'[Retry(s)].mt].retry = s
          OBVIOUS
        <5>1. CASE s = r
          BY <5>1, <3>8, <3>11, <3>15
        <5>2. CASE s \in rlive
          BY <5>2, <3>11, <3>13, <3>14 DEF IInv, RetryOwnership
        <5> QED
          BY <5>1, <5>2, <3>0
      <4>2. \A q \in Objs : ob'[q].retry # 0 => /\ ob'[q].retry \in rlive'
                                               /\ th'[Retry(ob'[q].retry)].mt = q
        <5> SUFFICES ASSUME NEW q \in Objs, ob'[q].retry # 0
                     PROVE  ob'[q].retry \in rlive' /\ th'[Retry(ob'[q].retry)].mt = q
          OBVIOUS
        <5>1. CASE q = o
          BY <5>1, <3>0, <3>8, <3>11
        <5>2. CASE q # o
          <6>1. ob[q].retry \in rlive /\ th[Retry(ob[q].retry)].mt = q /\ ob'[q] = ob[q]
            BY <5>2, <3>11 DEF IInv, RetryOwnership
          <6>2. rlive \subseteq rlive'
            BY <3>0
          <6> QED
            BY <6>1, <6>2, <3>13, <3>14
        <5> QED
          BY <5>1, <5>2
      <4> QED
        BY <4>1, <4>2 DEF RetryOwnership
    <3>17. LockDiscipline'
      <4> SUFFICES ASSUME NEW u \in Callers
                   PROVE  /\ th'[u].pc \in Busy => th'[u].mt \in 1 .. nobj /\ ob'[th'[u].mt].owner = u
                          /\ th'[u].pc = "acquire" => th'[u].mt \in 1 .. nobj
                          /\ th'[u].pc \in AttemptPcs => th'[u].att \in Attempts
        BY <2>0 DEF LockDiscipline
      <4>1. CASE u = t \/ u = Retry(r)
        BY <4>1, <3>7, <3>8
      <4>2. CASE u # t /\ u # Retry(r)
        <5>1. th'[u] = th[u]
          BY <4>2, <3>9
        <5>2. th[u].pc \in Busy => th[u].mt # o /\ th[u].mt \in Objs
          BY <4>2, <2>0, <1>d, ObjFact DEF IInv, LockDiscipline
        <5> QED
          BY <5>1, <5>2, <3>11 DEF IInv, LockDiscipline
      <4> QED
        BY <4>1, <4>2
    <3>18. RetryThreads'
      <4> SUFFICES ASSUME NEW s \in Retries
                   PROVE  /\ th'[Retry(s)].pc # "off" => th'[Retry(s)].mt \in 1 .. nobj /\ s <= nretry'
                          /\ th'[Retry(s)].pc \in Busy => s \in rlive' /\ th'[Retry(s)].op = "retry"
                          /\ th'[Retry(s)].pc \in RetryPcs
                          /\ th'[Retry(s)].pc \in {"probe", "probing"} => th'[Retry(s)].op = "retry"
                          /\ th'[Retry(s)].pc \in StopPcs => th'[Retry(s)].inStart
                          /\ s \in rlive' => wanted'[th'[Retry(s)].mt]
        BY <2>0 DEF RetryThreads
      <4>1. CASE s = r
        <5>1. r <= nretry'
          BY <3>0, <3>2
        <5> QED
          BY <4>1, <5>1, <2>0, <3>8, <3>15 DEF RetryPcs
      <4>2. CASE s # r
        <5>1. th'[Retry(s)] = th[Retry(s)] /\ (s \in rlive' <=> s \in rlive)
          BY <4>2, <3>0, <3>13
        <5> QED
          BY <5>1, <2>0, <3>0, <3>a DEF IInv, RetryThreads
      <4> QED
        BY <4>1, <4>2
    <3>19. FreshObjects'
      <4> SUFFICES ASSUME NEW p \in Objs, p > nobj
                   PROVE  ob'[p].retry = 0 /\ ob'[p].owner = NoThread
        BY <2>0 DEF IInv, FreshObjects
      <4>1. p # o
        BY <3>15, BoundsAssumption DEF IInv, TypeOK, Objs
      <4> QED
        BY <4>1, <3>11 DEF IInv, FreshObjects
    <3>20. CallerOps'
      <4>1. \A u \in {Loop, Api} : u \in Callers /\ u # Retry(r) /\ th'[u].op = th[u].op
        BY <3>2, <3>7, <3>9, ThreadFacts
      <4> QED
        BY <4>1 DEF IInv, CallerOps
    <3>21. Intent'
      <4> SUFFICES ASSUME NEW u \in Callers
                   PROVE  /\ th'[u].inStart => th'[u].pc \in StopPcs
                          /\ Starting(th'[u]) => wanted'[th'[u].mt]
        BY DEF Intent
      <4>1. CASE u = t \/ u = Retry(r)
        BY <4>1, <3>7, <3>8, <2>0, <1>d DEF Starting
      <4>2. CASE u # t /\ u # Retry(r)
        BY <4>2, <3>9, <2>0 DEF IInv, Intent
      <4> QED
        BY <4>1, <4>2
    <3> QED
      BY <3>12, <3>16, <3>17, <3>18, <3>19, <3>20, <3>21 DEF IInv
  <2> QED
    BY <2>3, <2>4
<1> QED
  BY <1>1, <1>2, <1>3, <1>4, <1>5, <1>6, <1>7, <1>8, <1>9 DEF Start

\* Setting fields of a thread to values of their types keeps the threads typed.
LEMMA SetPcOp ==
  ASSUME NEW f \in [Threads -> Thread], NEW t \in Threads, NEW p \in Pcs, NEW q \in Ops
  PROVE  [f EXCEPT ![t].pc = p, ![t].op = q] \in [Threads -> Thread]
BY DEF Thread

\* ... and so does setting its object.
LEMMA SetMt ==
  ASSUME NEW f \in [Threads -> Thread], NEW t \in Threads, NEW m \in Objs \cup {0}
  PROVE  [f EXCEPT ![t].mt = m] \in [Threads -> Thread]
BY DEF Thread

\* Thread t takes up operation q on object m.
LEMMA TakeUp ==
  ASSUME th \in [Threads -> Thread], NEW t \in Threads, NEW p \in Pcs, NEW q \in Ops,
         NEW m \in Objs \cup {0},
         th' = [th EXCEPT ![t].pc = p, ![t].op = q, ![t].mt = m]
  PROVE  /\ th' \in [Threads -> Thread]
         /\ th'[t].pc = p /\ th'[t].op = q /\ th'[t].mt = m
         /\ th'[t].inStart = th[t].inStart
         /\ \A u \in Callers : u # t => th'[u] = th[u]
<1>3. th' \in [Threads -> Thread]
  BY SetPcOp, SetMt
<1>4. th'[t].pc = p /\ th'[t].op = q /\ th'[t].mt = m /\ th'[t].inStart = th[t].inStart
  BY DEF Thread
<1>5. \A u \in Callers : u # t => th'[u] = th[u]
  BY ThreadFacts
<1> QED
  BY <1>3, <1>4, <1>5

\* A caller other than a retry loop gets mt.Lock of its object o: it goes on to
\* start or to stop it, or returns at once.
LEMMA TakeLock ==
  ASSUME IInv, NEW t \in {Loop, Api}, NEW p \in {"start", "stop", "idle"},
         th[t].pc = "acquire", ob[th[t].mt].owner = NoThread,
         th' \in [Threads -> Thread], th'[t].pc = p, th'[t].mt = th[t].mt,
         th'[t].inStart = th[t].inStart, th'[t].op \notin {"retry", "end"},
         \A u \in Callers : u # t => th'[u] = th[u],
         ob' \in [Objs -> ManagedTarget], live' \subseteq Attempts, open' \subseteq Attempts,
         \A q \in Objs : q # th[t].mt => ob'[q] = ob[q] /\ wanted'[q] = wanted[q],
         wanted' \in [Objs -> BOOLEAN],
         p # "idle" => ob'[th[t].mt].owner = t,
         p = "idle" => ob'[th[t].mt].owner = NoThread,
         p = "start" => wanted'[th[t].mt],
         p = "stop" /\ th'[t].op = "reconnect" => wanted'[th[t].mt],
         \/ /\ ob'[th[t].mt].retry = ob[th[t].mt].retry /\ rlive' = rlive
            /\ wanted[th[t].mt] => wanted'[th[t].mt]
         \/ ob'[th[t].mt].retry = 0 /\ rlive' = rlive \ {ob[th[t].mt].retry},
         UNCHANGED <<targets, assigned, state, used, lock>>
  PROVE  IInv'
<1> DEFINE o == th[t].mt
<1>1. t \in Callers /\ \A r \in Retries : t # Retry(r)
  BY ThreadFacts
<1>2. o \in 1 .. nobj /\ ~th[t].inStart
  BY <1>1 DEF IInv, LockDiscipline, Intent, StopPcs
<1>3. TypeOK'
  <2>1. rlive' \subseteq Retries
    BY DEF IInv, TypeOK
  <2> QED
    BY <2>1 DEF IInv, TypeOK, used
<1>4. LockMove(t, o)
  BY <1>1, <1>2 DEF LockMove, Starting, Busy, StartPcs, StopPcs, AttemptPcs
<1>5. nretry' = nretry /\ nobj' = nobj /\ targets' = targets
  BY DEF used
<1> QED
  BY <1>1, <1>2, <1>3, <1>4, <1>5, Locking

\* remove and SetIntendedState(disabled) once they hold mt.Lock.
LEMMA StopLockedStep ==
  ASSUME IInv, NEW t \in {Loop, Api}, NEW p \in Ops, p \notin {"reconnect", "retry", "end"},
         StopLocked(t, p)
  PROVE  IInv'
<1> DEFINE o == th[t].mt
           skip == p = "disable" /\ state \in {"stopped", "stopping"}
           pc == IF skip THEN "idle" ELSE "stop"
           ow == IF skip THEN NoThread ELSE t
<1>a. t \in Callers /\ t \in Threads /\ pc \in {"idle", "stop"} /\ pc \in Pcs
      /\ ow \in Callers \cup {NoThread}
  BY ThreadFacts DEF Pcs, StopPcs
<1>0. /\ th[t].pc = "acquire" /\ th[t].op = p /\ ob[o].owner = NoThread
      /\ ob' = [ob EXCEPT ![o].retry = 0, ![o].owner = ow]
      /\ rlive' = rlive \ {ob[o].retry}
      /\ wanted' = [wanted EXCEPT ![o] = FALSE]
      /\ th' = [th EXCEPT ![t].pc = pc]
      /\ UNCHANGED <<targets, assigned, state, live, open, used, lock>>
  BY DEF StopLocked, CanLock, At, Goto
<1>b. pc = "idle" => ow = NoThread
  OBVIOUS
<1>c. pc # "idle" => ow = t
  OBVIOUS
<1> HIDE DEF pc, ow
<1>1. /\ th \in [Threads -> Thread] /\ ob \in [Objs -> ManagedTarget]
      /\ live \subseteq Attempts /\ open \subseteq Attempts /\ wanted \in [Objs -> BOOLEAN]
  BY DEF IInv, TypeOK
<1>2. o \in 1 .. nobj /\ o \in Objs
  BY <1>0, <1>a, ObjFact DEF IInv, LockDiscipline
<1>3. th' \in [Threads -> Thread] /\ OnlyMoves(t, pc) /\ th'[t].op = p
  BY <1>0, <1>1, <1>a, MovePc
<1>4. ob' \in [Objs -> ManagedTarget]
  <2> DEFINE g == [ob EXCEPT ![o].retry = 0]
  <2>1. g \in [Objs -> ManagedTarget]
    BY <1>1 DEF ManagedTarget
  <2>2. ob' = [g EXCEPT ![o].owner = ow]
    BY <1>0
  <2> HIDE DEF g
  <2>3. ow \in Callers \cup {NoThread}
    BY <1>a
  <2> QED
    BY <2>1, <2>2, <2>3 DEF ManagedTarget
<1>5. /\ ob'[o].retry = 0 /\ ob'[o].owner = ow
      /\ \A q \in Objs : q # o => ob'[q] = ob[q] /\ wanted'[q] = wanted[q]
  BY <1>0, <1>1, <1>2 DEF ManagedTarget
<1>6. wanted' \in [Objs -> BOOLEAN]
  BY <1>0, <1>1
<1>7. live' \subseteq Attempts /\ open' \subseteq Attempts
  BY <1>0, <1>1
<1>8. /\ th'[t].pc = pc /\ th'[t].mt = th[t].mt /\ th'[t].inStart = th[t].inStart
      /\ \A u \in Callers : u # t => th'[u] = th[u]
  BY <1>3 DEF OnlyMoves
<1>9. /\ th'[t].op \notin {"retry", "end"} /\ th'[t].op # "reconnect"
      /\ pc \in {"start", "stop", "idle"} /\ pc # "start"
  BY <1>3, <1>a
<1>10. /\ pc # "idle" => ob'[th[t].mt].owner = t
       /\ pc = "idle" => ob'[th[t].mt].owner = NoThread
  BY <1>5, <1>b, <1>c
<1>11. ob'[th[t].mt].retry = 0 /\ rlive' = rlive \ {ob[th[t].mt].retry}
  BY <1>0, <1>5
<1>12. /\ th[t].pc = "acquire" /\ ob[th[t].mt].owner = NoThread
       /\ UNCHANGED <<targets, assigned, state, used, lock>>
  BY <1>0
<1>13. \A q \in Objs : q # th[t].mt => ob'[q] = ob[q] /\ wanted'[q] = wanted[q]
  BY <1>5
<1> HIDE DEF o, skip
<1> QED
  BY <1>3, <1>4, <1>6, <1>7, <1>8, <1>9, <1>10, <1>11, <1>12, <1>13, TakeLock

\* The event loop: apply and remove.
LEMMA EventLoopStep ==
  ASSUME IInv, EventLoop PROVE IInv'
<1> DEFINE o == th[Loop].mt
<1> USE DEF Busy, StartPcs, StopPcs, AttemptPcs
<1>a. Loop \in Callers /\ Loop \in Threads /\ \A r \in Retries : Loop # Retry(r)
  BY ThreadFacts
<1>b. state \in States /\ lock \in {"free", "me", "other"} /\ "" \in States
  BY DEF IInv, TypeOK, States
<1>c. /\ th \in [Threads -> Thread] /\ ob \in [Objs -> ManagedTarget]
      /\ th[Loop].op \notin {"retry", "end"} /\ (th[Loop].pc \notin StopPcs => ~th[Loop].inStart)
  BY <1>a DEF IInv, TypeOK, CallerOps, Intent
<1>d. ASSUME NEW p \in {"idle", "delete", "acquire"}, th'[Loop].pc = p,
             th[Loop].pc \notin StopPcs, th'[Loop].inStart = th[Loop].inStart,
             th'[Loop].op \notin {"retry", "end"}, p = "acquire" => th'[Loop].mt \in 1 .. nobj
      PROVE  QuietMove(Loop)
  BY <1>a, <1>c, <1>d DEF QuietMove, Starting
<1>e. /\ live \subseteq Attempts /\ open \subseteq Attempts /\ wanted \in [Objs -> BOOLEAN]
      /\ rlive \subseteq Retries /\ natt \in 0 .. MaxAttempt /\ nretry \in 0 .. MaxRetry
      /\ nops \in Nat /\ nrefresh \in Nat /\ targets \in Objs \cup {0} /\ nobj \in 0 .. MaxObj
  BY DEF IInv, TypeOK
<1>1. ASSUME NEW c \in Cfgs, Apply(c) PROVE IInv'
  <2>0. /\ th[Loop].pc = "idle" /\ assigned' = TRUE /\ nops' = nops + 1
        /\ UNCHANGED <<state, live, open, rlive, natt, nretry, nrefresh, lock, wanted>>
    BY <1>1 DEF Apply, At
  <2>a. nops' \in Nat
    BY <2>0, <1>e
  <2>b. assigned' \in BOOLEAN
    BY <2>0
  <2>1. CASE targets # 0
    <3> DEFINE g == [th EXCEPT ![Loop].pc = "acquire", ![Loop].op = "update"]
               h == [g EXCEPT ![Loop].mt = targets]
    <3>0. UNCHANGED <<targets, ob, nobj>> /\ th' = [h EXCEPT ![Loop].cfg = c]
      BY <1>1, <2>1 DEF Apply
    <3>1. targets \in Objs /\ targets \in 1 .. nobj
      BY <2>1, BoundsAssumption DEF IInv, TypeOK, FreshObjects, Objs
    <3>2. /\ g \in [Threads -> Thread] /\ g[Loop].inStart = th[Loop].inStart
          /\ g[Loop].pc = "acquire" /\ g[Loop].op = "update"
          /\ \A u \in Callers : u # Loop => g[u] = th[u]
      <4>1. g \in [Threads -> Thread]
        <5>1. "acquire" \in Pcs /\ "update" \in Ops
          BY DEF Pcs, Ops
        <5> QED
          BY <1>a, <1>c, <5>1, SetPcOp
      <4>2. g[Loop].inStart = th[Loop].inStart /\ g[Loop].pc = "acquire" /\ g[Loop].op = "update"
        BY <1>a, <1>c DEF Thread
      <4> QED
        BY <4>1, <4>2, <1>c, ThreadFacts
    <3> HIDE DEF g
    <3>3. /\ h \in [Threads -> Thread] /\ h[Loop].inStart = th[Loop].inStart
          /\ h[Loop].pc = "acquire" /\ h[Loop].op = "update" /\ h[Loop].mt = targets
          /\ \A u \in Callers : u # Loop => h[u] = th[u]
      <4>1. h \in [Threads -> Thread]
        BY <3>1, <3>2 DEF Thread
      <4>2. /\ h[Loop].inStart = th[Loop].inStart
            /\ h[Loop].pc = "acquire" /\ h[Loop].op = "update" /\ h[Loop].mt = targets
        BY <3>2, <1>a DEF Thread
      <4> QED
        BY <4>1, <4>2, <3>2, ThreadFacts
    <3> HIDE DEF h
    <3>4. th' \in [Threads -> Thread]
      BY <3>0, <3>3 DEF Thread
    <3>5. /\ th'[Loop].inStart = th[Loop].inStart
          /\ th'[Loop].pc = "acquire" /\ th'[Loop].op = "update" /\ th'[Loop].mt = targets
      BY <3>0, <3>3, <1>a DEF Thread
    <3>6. \A u \in Callers : u # Loop => th'[u] = th[u]
      BY <3>0, <3>3, ThreadFacts
    <3>7. TypeOK'
      BY <2>0, <2>a, <2>b, <3>0, <3>4 DEF IInv, TypeOK
    <3>8. QuietMove(Loop)
      BY <2>0, <3>1, <3>5, <1>d
    <3>9. \A q \in Objs : ob'[q].retry = ob[q].retry /\ ob'[q].owner = ob[q].owner
      BY <3>0
    <3> QED
      BY <2>0, <3>0, <3>6, <3>7, <3>8, <3>9, <1>a, Quiet
  <2>2. CASE targets = 0
    <3> DEFINE n == nobj + 1
    <3>0. /\ n <= MaxObj /\ targets' = n /\ nobj' = n
          /\ ob' = [ob EXCEPT ![n] = NewTarget(c)]
          /\ th' = [th EXCEPT ![Loop].pc = "acquire", ![Loop].op = "create", ![Loop].mt = n]
      BY <1>1, <2>2 DEF Apply
    <3>1. n \in Objs /\ n \in 1 .. n /\ nobj \in Nat /\ n > nobj
      BY <3>0, <1>e, BoundsAssumption DEF Objs
    <3>2. \A q \in Objs : q # n => ob'[q] = ob[q]
      BY <3>0, <1>c
    <3>3. ob'[n] = NewTarget(c) /\ NewTarget(c) \in ManagedTarget
          /\ NewTarget(c).retry = 0 /\ NewTarget(c).owner = NoThread
      <4>1. ob'[n] = NewTarget(c)
        BY <3>0, <3>1, <1>c
      <4> QED
        BY <4>1 DEF NewTarget, ManagedTarget
    <3>4. ob' \in [Objs -> ManagedTarget]
      BY <3>0, <3>3, <1>c
    <3>5. ob[n].retry = 0 /\ ob[n].owner = NoThread
      BY <3>1 DEF IInv, FreshObjects
    <3>6. 1 .. nobj \subseteq 1 .. n /\ n \notin 1 .. nobj /\ \A q \in 1 .. nobj : q # n
      BY <3>1
    <3>o. \A q \in Objs : q > n => q > nobj /\ q # n
      BY <3>1, BoundsAssumption DEF Objs
    <3>p. n \in 0 .. MaxObj /\ n \in Objs \cup {0} /\ n <= n
      BY <3>0, <3>1, BoundsAssumption DEF Objs
    <3> HIDE DEF n
    <3>7. /\ th' \in [Threads -> Thread]
          /\ th'[Loop].pc = "acquire" /\ th'[Loop].op = "create" /\ th'[Loop].mt = n
          /\ th'[Loop].inStart = th[Loop].inStart
          /\ \A u \in Callers : u # Loop => th'[u] = th[u]
      <4>1. "acquire" \in Pcs /\ "create" \in Ops /\ n \in Objs \cup {0}
        BY <3>1 DEF Pcs, Ops
      <4>2. /\ th' = [th EXCEPT ![Loop].pc = "acquire", ![Loop].op = "create", ![Loop].mt = n]
            /\ Loop \in Threads /\ th \in [Threads -> Thread]
        BY <3>0, <1>a, <1>c
      <4>3. PICK q \in Ops : q = "create"
        BY <4>1
      <4>4. PICK m \in Objs \cup {0} : m = n
        BY <4>1
      <4>5. th' = [th EXCEPT ![Loop].pc = "acquire", ![Loop].op = q, ![Loop].mt = m]
        BY <4>2, <4>3, <4>4
      <4>6. /\ th' \in [Threads -> Thread]
            /\ th'[Loop].pc = "acquire" /\ th'[Loop].op = q /\ th'[Loop].mt = m
            /\ th'[Loop].inStart = th[Loop].inStart
            /\ \A u \in Callers : u # Loop => th'[u] = th[u]
        <5>1. th' \in [Threads -> Thread]
          <6> DEFINE g == [th EXCEPT ![Loop].pc = "acquire", ![Loop].op = q]
          <6>1. g \in [Threads -> Thread]
            BY <4>1, <4>2, SetPcOp
          <6>2. th' = [g EXCEPT ![Loop].mt = m]
            BY <4>5
          <6> HIDE DEF g
          <6> QED
            BY <6>1, <6>2 DEF Thread
        <5>2. /\ th'[Loop].pc = "acquire" /\ th'[Loop].op = q /\ th'[Loop].mt = m
              /\ th'[Loop].inStart = th[Loop].inStart
          BY <4>2, <4>5 DEF Thread
        <5>3. \A u \in Callers : u # Loop => th'[u] = th[u]
          BY <4>2, <4>5, ThreadFacts
        <5> QED
          BY <5>1, <5>2, <5>3
      <4> QED
        BY <4>3, <4>4, <4>6
    <3>8. \A q \in Objs : ob'[q].retry = ob[q].retry /\ ob'[q].owner = ob[q].owner
      BY <3>2, <3>3, <3>5
    <3>9. \A r \in Retries : th'[Retry(r)] = th[Retry(r)]
      BY <3>7, ThreadFacts
    <3>10. TypeOK'
      BY <2>0, <2>a, <2>b, <3>0, <3>4, <3>7, <3>p DEF IInv, TypeOK
    <3>11. RetryOwnership'
      <4>1. \A r \in rlive : r \in Retries /\ th[Retry(r)].mt \in Objs
        BY <1>e, ObjFact DEF IInv, RetryThreads, RetryOwnership
      <4>2. \A q \in Objs : ob[q].retry # 0 => ob[q].retry \in Retries
        BY <1>e DEF IInv, RetryOwnership
      <4> QED
        BY <4>1, <4>2, <2>0, <3>8, <3>9 DEF IInv, RetryOwnership
    <3>12. LockDiscipline'
      <4> SUFFICES ASSUME NEW u \in Callers
                   PROVE  /\ th'[u].pc \in Busy => th'[u].mt \in 1 .. n /\ ob'[th'[u].mt].owner = u
                          /\ th'[u].pc = "acquire" => th'[u].mt \in 1 .. n
                          /\ th'[u].pc \in AttemptPcs => th'[u].att \in Attempts
        BY <3>0 DEF LockDiscipline
      <4>1. CASE u = Loop
        BY <4>1, <3>7, <3>1
      <4>2. CASE u # Loop
        <5>1. th'[u] = th[u]
          BY <4>2, <3>7
        <5>2. th[u].pc \in Busy => th[u].mt \in 1 .. nobj /\ ob[th[u].mt].owner = u /\ th[u].mt \in Objs
          BY ObjFact DEF IInv, LockDiscipline
        <5>3. th[u].pc = "acquire" => th[u].mt \in 1 .. nobj
          BY DEF IInv, LockDiscipline
        <5>4. th[u].pc \in AttemptPcs => th[u].att \in Attempts
          BY DEF IInv, LockDiscipline
        <5> HIDE DEF Busy, AttemptPcs
        <5> QED
          BY <5>1, <5>2, <5>3, <5>4, <3>6, <3>8
      <4> QED
        BY <4>1, <4>2
    <3>13. RetryThreads'
      BY <2>0, <3>0, <3>6, <3>9 DEF IInv, RetryThreads
    <3>14. FreshObjects'
      <4>1. targets' <= nobj'
        BY <3>0, <3>p
      <4>2. \A q \in Objs : q > n => ob'[q].retry = 0 /\ ob'[q].owner = NoThread
        BY <3>8, <3>o DEF IInv, FreshObjects
      <4> QED
        BY <4>1, <4>2, <3>0 DEF FreshObjects
    <3>15. CallerOps'
      BY <3>7, ThreadFacts DEF IInv, CallerOps
    <3>16. Intent'
      <4>1. ~th[Loop].inStart
        BY <1>c, <2>0
      <4> QED
        BY <4>1, <2>0, <3>7 DEF IInv, Intent, Starting
    <3> QED
      BY <3>10, <3>11, <3>12, <3>13, <3>14, <3>15, <3>16 DEF IInv
  <2> QED
    BY <2>1, <2>2
<1>2. CASE AssignUnknown
  <2>1. UNCHANGED <<targets, ob, state, th, live, open, rlive, used, lock, wanted>>
    BY <1>2 DEF AssignUnknown
  <2>a. assigned' \in BOOLEAN
    BY <1>2 DEF AssignUnknown
  <2>2. TypeOK'
    BY <2>1, <2>a DEF IInv, TypeOK, used
  <2>3. QuietMove(Loop)
    <3>1. th[Loop].pc = "idle"
      BY <1>2 DEF AssignUnknown, At
    <3> QED
      BY <2>1, <3>1, <1>c, <1>d
  <2> QED
    BY <2>1, <2>2, <2>3, <1>a, Quiet DEF used
<1>3. ASSUME NEW a \in BOOLEAN, Remove(a) PROVE IInv'
  <2> DEFINE p == IF targets = 0 THEN "delete" ELSE "acquire"
  <2>0. /\ th[Loop].pc = "idle" /\ nops' = nops + 1 /\ targets' = 0
        /\ th' = [th EXCEPT ![Loop].pc = p, ![Loop].op = "remove", ![Loop].mt = targets]
        /\ UNCHANGED <<ob, state, live, open, rlive, nobj, natt, nretry, nrefresh, lock, wanted>>
    BY <1>3 DEF Remove, At
  <2>a. assigned' \in BOOLEAN
    BY <1>3 DEF Remove
  <2>b. p \in {"idle", "delete", "acquire"} /\ p \in Pcs /\ "remove" \in Ops
    BY DEF Pcs, Ops
  <2>c. p = "acquire" => targets \in 1 .. nobj
    BY <1>e, BoundsAssumption DEF IInv, FreshObjects, Objs
  <2> HIDE DEF p
  <2>1. /\ th' \in [Threads -> Thread]
        /\ th'[Loop].pc = p /\ th'[Loop].op = "remove" /\ th'[Loop].mt = targets
        /\ th'[Loop].inStart = th[Loop].inStart
        /\ \A u \in Callers : u # Loop => th'[u] = th[u]
    <3>1. /\ th' = [th EXCEPT ![Loop].pc = p, ![Loop].op = "remove", ![Loop].mt = targets]
          /\ p \in Pcs /\ "remove" \in Ops /\ targets \in Objs \cup {0}
          /\ Loop \in Threads /\ th \in [Threads -> Thread]
      BY <2>0, <2>b, <1>a, <1>c, <1>e
    <3>2. PICK q \in Ops : q = "remove"
      BY <3>1
    <3>3. PICK x \in Pcs : x = p
      BY <3>1
    <3>4. th' = [th EXCEPT ![Loop].pc = x, ![Loop].op = q, ![Loop].mt = targets]
      BY <3>1, <3>2, <3>3
    <3>5. /\ th' \in [Threads -> Thread]
          /\ th'[Loop].pc = x /\ th'[Loop].op = q /\ th'[Loop].mt = targets
          /\ th'[Loop].inStart = th[Loop].inStart
          /\ \A u \in Callers : u # Loop => th'[u] = th[u]
      <4>1. th' \in [Threads -> Thread]
        <5> DEFINE g == [th EXCEPT ![Loop].pc = x, ![Loop].op = q]
        <5>1. g \in [Threads -> Thread]
          BY <3>1, SetPcOp
        <5>2. th' = [g EXCEPT ![Loop].mt = targets]
          BY <3>4
        <5> HIDE DEF g
        <5>3. PICK m \in Objs \cup {0} : m = targets
          BY <3>1
        <5>4. th' = [g EXCEPT ![Loop].mt = m]
          BY <5>2, <5>3
        <5> QED
          BY <5>1, <5>4 DEF Thread
      <4>2. /\ th'[Loop].pc = x /\ th'[Loop].op = q /\ th'[Loop].mt = targets
            /\ th'[Loop].inStart = th[Loop].inStart
        BY <3>1, <3>4 DEF Thread
      <4>3. \A u \in Callers : u # Loop => th'[u] = th[u]
        BY <3>1, <3>4, ThreadFacts
      <4> QED
        BY <4>1, <4>2, <4>3
    <3> QED
      BY <3>2, <3>3, <3>5
  <2>2. QuietMove(Loop)
    BY <2>0, <2>1, <2>b, <2>c, <1>d
  <2>3. nops' \in Nat
    BY <2>0, <1>e
  <2>4. TypeOK'
    BY <2>0, <2>1, <2>3, <2>a DEF IInv, TypeOK
  <2>5. \A q \in Objs : ob'[q].retry = ob[q].retry /\ ob'[q].owner = ob[q].owner
    BY <2>0
  <2> QED
    BY <2>0, <2>1, <2>2, <2>4, <2>5, <1>a, Quiet
<1>4. CASE CreateLocked
  <2>0. /\ th[Loop].pc = "acquire" /\ ob[o].owner = NoThread
        /\ ob' = [ob EXCEPT ![o].owner = Loop]
        /\ wanted' = [wanted EXCEPT ![o] = TRUE]
        /\ th' = [th EXCEPT ![Loop].pc = "start"]
        /\ UNCHANGED <<targets, assigned, state, live, open, rlive, used, lock>>
    BY <1>4 DEF CreateLocked, CanLock, At, Goto
  <2>1. o \in Objs
    BY <2>0, <1>a, ObjFact DEF IInv, LockDiscipline
  <2>2. th' \in [Threads -> Thread] /\ OnlyMoves(Loop, "start") /\ th'[Loop].op = th[Loop].op
    BY <2>0, <1>a, <1>c, MovePc DEF Pcs
  <2>3. ob' \in [Objs -> ManagedTarget]
    BY <2>0, <2>1, <1>a, <1>c, SetOwner
  <2>4. /\ ob'[o].retry = ob[o].retry /\ ob'[o].owner = Loop
        /\ \A q \in Objs : q # o => ob'[q] = ob[q]
    BY <2>0, <2>1, <1>c DEF ManagedTarget
  <2>5. wanted' \in [Objs -> BOOLEAN] /\ wanted'[o] /\ \A q \in Objs : q # o => wanted'[q] = wanted[q]
    BY <2>0, <2>1, <1>e
  <2>6. live' \subseteq Attempts /\ open' \subseteq Attempts /\ rlive' = rlive
    BY <2>0, <1>e
  <2>7. /\ th'[Loop].pc = "start" /\ th'[Loop].mt = th[Loop].mt
        /\ th'[Loop].inStart = th[Loop].inStart
        /\ \A u \in Callers : u # Loop => th'[u] = th[u]
    BY <2>2 DEF OnlyMoves
  <2> QED
    BY <2>0, <2>2, <2>3, <2>4, <2>5, <2>6, <2>7, <1>c, TakeLock
<1>5. CASE UpdateLocked
  <2>0. /\ th[Loop].pc = "acquire" /\ ob[o].owner = NoThread
        /\ UNCHANGED <<targets, assigned, state, live, open, rlive, used, lock>>
    BY <1>5 DEF UpdateLocked, CanLock, At
  <2>1. CASE ob[o].cfg = th[Loop].cfg
    <3>1. th' = [th EXCEPT ![Loop].pc = "idle"] /\ UNCHANGED <<ob, wanted>>
      BY <1>5, <2>1 DEF UpdateLocked, Goto
    <3>2. th' \in [Threads -> Thread] /\ OnlyMoves(Loop, "idle") /\ th'[Loop].op = th[Loop].op
      BY <3>1, <1>a, <1>c, MovePc DEF Pcs
    <3>3. QuietMove(Loop)
      BY <2>0, <3>2, <1>c, <1>d DEF OnlyMoves
    <3>4. state' \in States /\ lock' \in {"free", "me", "other"}
      BY <2>0, <1>b
    <3> QED
      BY <2>0, <3>1, <3>2, <3>3, <3>4, <1>a, QuietFrame DEF OnlyMoves
  <2>2. CASE ob[o].cfg # th[Loop].cfg
    <3>0. /\ ob' = [ob EXCEPT ![o].owner = Loop]
          /\ wanted' = [wanted EXCEPT ![o] = TRUE]
          /\ th' = [th EXCEPT ![Loop].pc = "stop", ![Loop].op = "reconnect"]
      BY <1>5, <2>2 DEF UpdateLocked
    <3>1. o \in Objs
      BY <2>0, <1>a, ObjFact DEF IInv, LockDiscipline
    <3>2. th' \in [Threads -> Thread] /\ OnlyMoves(Loop, "stop") /\ th'[Loop].op = "reconnect"
      BY <3>0, <1>a, <1>c, MovePcOp DEF Pcs, Ops
    <3>3. ob' \in [Objs -> ManagedTarget]
      BY <3>0, <1>a, <1>c DEF ManagedTarget
    <3>4. /\ ob'[o].retry = ob[o].retry /\ ob'[o].owner = Loop
          /\ \A q \in Objs : q # o => ob'[q] = ob[q]
      BY <3>0, <3>1, <1>c DEF ManagedTarget
    <3>5. wanted' \in [Objs -> BOOLEAN] /\ wanted'[o] /\ \A q \in Objs : q # o => wanted'[q] = wanted[q]
      BY <3>0, <3>1, <1>e
    <3>6. live' \subseteq Attempts /\ open' \subseteq Attempts /\ rlive' = rlive
      BY <2>0, <1>e
    <3>7. /\ th'[Loop].pc = "stop" /\ th'[Loop].mt = th[Loop].mt
          /\ th'[Loop].inStart = th[Loop].inStart
          /\ \A u \in Callers : u # Loop => th'[u] = th[u]
      BY <3>2 DEF OnlyMoves
    <3> QED
      BY <2>0, <3>2, <3>3, <3>4, <3>5, <3>6, <3>7, TakeLock
  <2> QED
    BY <2>1, <2>2
<1>6. CASE StopLocked(Loop, "remove")
  <2>1. "remove" \in Ops
    BY DEF Ops
  <2> QED
    BY <1>6, <2>1, StopLockedStep
<1>7. CASE DeleteState
  <2>1. /\ th[Loop].pc = "delete" /\ th' = [th EXCEPT ![Loop].pc = "idle"] /\ state' = ""
        /\ UNCHANGED <<targets, assigned, ob, live, open, rlive, used, lock, wanted>>
    BY <1>7 DEF DeleteState, At, Goto
  <2>2. th' \in [Threads -> Thread] /\ OnlyMoves(Loop, "idle") /\ th'[Loop].op = th[Loop].op
    BY <2>1, <1>a, <1>c, MovePc DEF Pcs
  <2>3. QuietMove(Loop)
    BY <2>1, <2>2, <1>c, <1>d DEF OnlyMoves
  <2> QED
    BY <2>1, <2>2, <2>3, <1>a, <1>b, QuietFrame DEF OnlyMoves
<1> QED
  BY <1>1, <1>2, <1>3, <1>4, <1>5, <1>6, <1>7 DEF EventLoop

\* A handler of the API server: SetIntendedState.
LEMMA ApiStep ==
  ASSUME IInv, ApiHandler PROVE IInv'
<1> DEFINE o == th[Api].mt
<1> USE DEF Busy, StartPcs, StopPcs, AttemptPcs
<1>a. Api \in Callers /\ Api \in Threads /\ \A r \in Retries : Api # Retry(r)
  BY ThreadFacts
<1>b. state \in States /\ lock \in {"free", "me", "other"}
  BY DEF IInv, TypeOK
<1>c. /\ th \in [Threads -> Thread] /\ ob \in [Objs -> ManagedTarget]
      /\ th[Api].op \notin {"retry", "end"} /\ (th[Api].pc \notin StopPcs => ~th[Api].inStart)
  BY <1>a DEF IInv, TypeOK, CallerOps, Intent
<1>e. /\ live \subseteq Attempts /\ open \subseteq Attempts /\ wanted \in [Objs -> BOOLEAN]
      /\ rlive \subseteq Retries /\ nops \in Nat /\ targets \in Objs \cup {0}
      /\ nobj \in 0 .. MaxObj
  BY DEF IInv, TypeOK
<1>1. ASSUME NEW p \in ApiOps, SetIntendedState(p) PROVE IInv'
  <2>0. /\ th[Api].pc = "idle" /\ nops' = nops + 1 /\ targets # 0
        /\ th' = [th EXCEPT ![Api].pc = "acquire", ![Api].op = p, ![Api].mt = targets]
        /\ UNCHANGED <<targets, assigned, ob, state, live, open, rlive, nobj, natt, nretry,
                       nrefresh, lock, wanted>>
    BY <1>1 DEF SetIntendedState, At
  <2>b. "acquire" \in Pcs /\ p \in Ops /\ p \notin {"retry", "end"}
    BY ConstantsAssumption DEF Pcs, Ops
  <2>c. targets \in 1 .. nobj
    BY <2>0, <1>e, BoundsAssumption DEF IInv, FreshObjects, Objs
  <2>1. /\ th' \in [Threads -> Thread]
        /\ th'[Api].pc = "acquire" /\ th'[Api].op = p /\ th'[Api].mt = targets
        /\ th'[Api].inStart = th[Api].inStart
        /\ \A u \in Callers : u # Api => th'[u] = th[u]
    BY <2>0, <2>b, <1>a, <1>c, <1>e, TakeUp
  <2>2. QuietMove(Api)
    BY <2>0, <2>1, <2>b, <2>c, <1>a, <1>c DEF QuietMove, Starting
  <2>3. nops' \in Nat
    BY <2>0, <1>e
  <2>4. TypeOK'
    BY <2>0, <2>1, <2>3 DEF IInv, TypeOK
  <2> QED
    BY <2>0, <2>1, <2>2, <2>4, <1>a, Quiet
<1>2. CASE EnableLocked
  <2>0. /\ th[Api].pc = "acquire" /\ ob[o].owner = NoThread
        /\ UNCHANGED <<targets, assigned, state, used, lock>>
    BY <1>2 DEF EnableLocked, CanLock, At
  <2>1. CASE state \in {"running", "starting"}
    <3>1. th' = [th EXCEPT ![Api].pc = "idle"] /\ UNCHANGED <<ob, live, open, rlive, wanted>>
      BY <1>2, <2>1 DEF EnableLocked, Goto
    <3>2. th' \in [Threads -> Thread] /\ OnlyMoves(Api, "idle") /\ th'[Api].op = th[Api].op
      BY <3>1, <1>a, <1>c, MovePc DEF Pcs
    <3>3. QuietMove(Api)
      BY <2>0, <3>2, <1>a, <1>c DEF OnlyMoves, QuietMove, Starting
    <3>4. state' \in States /\ lock' \in {"free", "me", "other"}
      BY <2>0, <1>b
    <3> QED
      BY <2>0, <3>1, <3>2, <3>3, <3>4, <1>a, QuietFrame DEF OnlyMoves
  <2>2. CASE state \notin {"running", "starting"}
    <3>0. /\ wanted' = [wanted EXCEPT ![o] = TRUE]
          /\ th' = [th EXCEPT ![Api].pc = "start"]
      BY <1>2, <2>2 DEF EnableLocked, Goto
    <3>1. o \in Objs
      BY <2>0, <1>a, ObjFact DEF IInv, LockDiscipline
    <3>2. th' \in [Threads -> Thread] /\ OnlyMoves(Api, "start") /\ th'[Api].op = th[Api].op
      BY <3>0, <1>a, <1>c, MovePc DEF Pcs
    <3>5. wanted' \in [Objs -> BOOLEAN] /\ wanted'[o] /\ \A q \in Objs : q # o => wanted'[q] = wanted[q]
      BY <3>0, <3>1, <1>e
    <3>7. /\ th'[Api].pc = "start" /\ th'[Api].mt = th[Api].mt
          /\ th'[Api].inStart = th[Api].inStart
          /\ \A u \in Callers : u # Api => th'[u] = th[u]
      BY <3>2 DEF OnlyMoves
    <3>8. /\ ob' \in [Objs -> ManagedTarget] /\ ob'[o].owner = Api
          /\ live' \subseteq Attempts /\ open' \subseteq Attempts
          /\ \A q \in Objs : q # o => ob'[q] = ob[q]
          /\ \/ ob'[o].retry = ob[o].retry /\ rlive' = rlive
             \/ ob'[o].retry = 0 /\ rlive' = rlive \ {ob[o].retry}
      <4>1. CASE state = "failed"
        <5>1. /\ ob' = [ob EXCEPT ![o].owner = Api, ![o].retry = 0]
              /\ rlive' = rlive \ {ob[o].retry}
              /\ live' \subseteq live /\ open' \subseteq open
          BY <1>2, <2>2, <4>1 DEF EnableLocked, CloseClient
        <5>2. ob' \in [Objs -> ManagedTarget]
          BY <5>1, <1>a, <1>c, <3>1, SetOwnerRetry
        <5>3. /\ ob'[o].retry = 0 /\ ob'[o].owner = Api
              /\ \A q \in Objs : q # o => ob'[q] = ob[q]
          BY <5>1, <3>1, <1>c DEF ManagedTarget
        <5> QED
          BY <5>1, <5>2, <5>3, <1>e
      <4>2. CASE state # "failed"
        <5>1. /\ ob' = [ob EXCEPT ![o].owner = Api]
              /\ rlive' = rlive /\ live' = live /\ open' = open
          BY <1>2, <2>2, <4>2 DEF EnableLocked
        <5>2. ob' \in [Objs -> ManagedTarget]
          BY <5>1, <1>a, <1>c, <3>1, SetOwner
        <5>3. /\ ob'[o].retry = ob[o].retry /\ ob'[o].owner = Api
              /\ \A q \in Objs : q # o => ob'[q] = ob[q]
          BY <5>1, <3>1, <1>c DEF ManagedTarget
        <5> QED
          BY <5>1, <5>2, <5>3, <1>e
      <4> QED
        BY <4>1, <4>2
    <3> QED
      BY <2>0, <3>2, <3>5, <3>7, <3>8, <1>c, TakeLock
  <2> QED
    BY <2>1, <2>2
<1>3. CASE StopLocked(Api, "disable")
  <2>1. "disable" \in Ops
    BY DEF Ops
  <2> QED
    BY <1>3, <2>1, StopLockedStep
<1> QED
  BY <1>1, <1>2, <1>3 DEF ApiHandler

\* Every step of the system preserves the inductive invariant.
THEOREM NextIInv == IInv /\ [Next]_vars => IInv'
<1> SUFFICES ASSUME IInv, [Next]_vars PROVE IInv'
  OBVIOUS
<1>1. CASE EventLoop
  BY <1>1, EventLoopStep
<1>2. CASE ApiHandler
  BY <1>2, ApiStep
<1>3. ASSUME NEW t \in Callers, Start(t) \/ LockError(t) PROVE IInv'
  BY <1>3, StartStep
<1>4. ASSUME NEW t \in Threads, Stop(t) PROVE IInv'
  BY <1>4, StopStep
<1>5. ASSUME NEW r \in Retries, RetryLoop(r) PROVE IInv'
  BY <1>5, RetryLoopStep
<1>6. ASSUME NEW a \in Attempts, Goroutines(a) PROVE IInv'
  BY <1>6, GoroutineStep
<1>7. CASE OtherLock
  <2>1. /\ lock' \in {"free", "me", "other"}
        /\ UNCHANGED <<targets, assigned, ob, state, th, live, open, rlive, used, wanted>>
    BY <1>7 DEF OtherLock
  <2>2. TypeOK'
    BY <2>1 DEF IInv, TypeOK, used
  <2> QED
    BY <2>1, <2>2 DEF IInv, RetryOwnership, LockDiscipline, RetryThreads, FreshObjects,
                      CallerOps, Intent, used
<1>8. CASE UNCHANGED vars
  BY <1>8 DEF IInv, TypeOK, RetryOwnership, LockDiscipline, RetryThreads, FreshObjects,
              CallerOps, Intent, used, vars
<1> QED
  BY <1>1, <1>2, <1>3, <1>4, <1>5, <1>6, <1>7, <1>8 DEF Next

\* The inductive invariant holds in every behaviour of the manager.
THEOREM Invariance == Spec => []IInv
BY InitIInv, NextIInv, PTL DEF Spec

\* The types of the state hold in every behaviour of the manager: no interleaving
\* of the event loop, the API and the goroutines leaves the store, the objects or
\* a thread in a state the code does not have.
THEOREM TypeCorrect == Spec => []TypeOK
<1>1. IInv => TypeOK
  BY DEF IInv
<1> QED
  BY Invariance, <1>1, PTL

\* mt.retryCancel and the retry loops agree in every behaviour: at most one loop of
\* an object is alive, it is the one retryCancel cancels, and retryCancel never
\* belongs to a loop that has returned.
THEOREM RetryOwned == Spec => []RetryOwnership
<1>1. IInv => RetryOwnership
  BY DEF IInv
<1> QED
  BY Invariance, <1>1, PTL

\* No retry loop calls start() on a target that remove or SetIntendedState(disabled)
\* decided about last, whatever the loop was doing when they took mt.Lock.
THEOREM RetryIntent == Spec => []RetryRespectsIntent
<1>1. IInv => RetryRespectsIntent
  BY ThreadFacts DEF IInv, Intent, Starting, RetryRespectsIntent
<1> QED
  BY Invariance, <1>1, PTL

-----------------------------------------------------------------------------
(* The lock of a target (Lockers), for any members, calls and subset of    *)
(* the backends.  TypeOK is not inductive by itself: Unlock closes the     *)
(* channel of an attempt, so a member that is past idle has made one.      *)

CONSTANTS Members, Nobody, Backends, MaxLock, Stops
VARIABLES backend, rec, fresh, pc, was, tok, att, acq, shut

Lk == INSTANCE Lockers

\* Whoever is inside a call has made an attempt.
Attempted == \A m \in Members : pc[m] # "idle" => tok[m] # 0

LkInv == Lk!TypeOK /\ Attempted

-----------------------------------------------------------------------------
\* What the key may hold: nobody's record, or a member's with one of its attempts.
LEMMA RecFacts ==
  ASSUME MaxLock \in Nat
  PROVE  /\ Lk!Free \in [who : Members \cup {Nobody}, tok : 0 .. MaxLock]
         /\ Lk!TypeOK => \A m \in Members : Lk!Mine(m) \in [who : Members \cup {Nobody}, tok : 0 .. MaxLock]
BY DEF Lk!Free, Lk!Mine, Lk!TypeOK

\* The initial state satisfies the invariant.
LEMMA LkInit ==
  ASSUME MaxLock \in Nat
  PROVE  Lk!Init => LkInv
<1> SUFFICES ASSUME Lk!Init PROVE LkInv
  OBVIOUS
<1>1. rec \in [who : Members \cup {Nobody}, tok : 0 .. MaxLock]
  BY RecFacts DEF Lk!Init
<1>2. shut \subseteq Members \X (1 .. MaxLock)
  BY DEF Lk!Init
<1>3. tok = [m \in Members |-> 0] /\ 0 \in 0 .. MaxLock
  BY DEF Lk!Init
<1> QED BY <1>1, <1>2, <1>3 DEF Lk!Init, LkInv, Lk!TypeOK, Attempted

\* A Lock preserves the invariant.
LEMMA LockInv ==
  ASSUME MaxLock \in Nat, LkInv, NEW m \in Members,
         Lk!LockBegin(m) \/ Lk!LockAcquire(m) \/ Lk!LockReturn(m) \/ Lk!LockFail(m)
  PROVE  LkInv'
<1> USE DEF LkInv, Lk!TypeOK, Attempted
<1>1. CASE Lk!LockBegin(m)
  BY <1>1 DEF Lk!LockBegin
<1>2. CASE Lk!LockAcquire(m)
  BY <1>2, RecFacts DEF Lk!LockAcquire, Lk!LockConsul, Lk!LockRedis, Lk!LockK8s, Lk!Take
<1>3. CASE Lk!LockReturn(m)
  BY <1>3 DEF Lk!LockReturn
<1>4. CASE Lk!LockFail(m)
  BY <1>4 DEF Lk!LockFail
<1> QED BY <1>1, <1>2, <1>3, <1>4

\* A renewal or the loss of a lock preserves the invariant.
LEMMA KeepInv ==
  ASSUME MaxLock \in Nat, LkInv, NEW m \in Members, Lk!Keep(m)
  PROVE  LkInv'
<1> USE DEF LkInv, Lk!TypeOK, Attempted
<1>1. CASE Lk!KeepRenew(m)
  BY <1>1, RecFacts DEF Lk!KeepRenew
<1>2. CASE Lk!KeepLost(m)
  BY <1>2 DEF Lk!KeepLost
<1> QED BY <1>1, <1>2 DEF Lk!Keep

\* An Unlock and a Stop preserve the invariant.
LEMMA UnlockInv ==
  ASSUME MaxLock \in Nat, LkInv, NEW m \in Members,
         Lk!UnlockCall(m) \/ Lk!StopCall(m) \/ Lk!Unlock(m) \/ Lk!Stop(m)
  PROVE  LkInv'
<1> USE DEF LkInv, Lk!TypeOK, Attempted
<1>1. CASE Lk!UnlockCall(m)
  BY <1>1 DEF Lk!UnlockCall
<1>2. CASE Lk!StopCall(m)
  BY <1>2 DEF Lk!StopCall
<1>3. ASSUME pc[m] \in {"unlock", "stop"}, UNCHANGED <<backend, was, tok>>,
             Lk!UnlockConsul(m) \/ Lk!UnlockRedis(m) \/ Lk!UnlockK8s(m)
      PROVE  LkInv'
  <2>1. Lk!Free \in [who : Members \cup {Nobody}, tok : 0 .. MaxLock]
    BY RecFacts
  <2>2. tok[m] \in 1 .. MaxLock /\ (acq[m] # 0 => acq[m] \in 1 .. MaxLock)
    BY <1>3
  <2>3. Lk!Resume(m) \in {"idle", "try", "got"}
    BY DEF Lk!Resume
  <2>4. CASE Lk!UnlockConsul(m)
    <3>1. rec' \in [who : Members \cup {Nobody}, tok : 0 .. MaxLock] /\ fresh' \in BOOLEAN
      BY <2>1, <2>4 DEF Lk!UnlockConsul, Lk!Delete
    <3>2. pc' = [pc EXCEPT ![m] = "panic"] \/ pc' = [pc EXCEPT ![m] = Lk!Resume(m)]
      BY <2>4 DEF Lk!UnlockConsul
    <3>3. /\ acq' = acq \/ acq' = [acq EXCEPT ![m] = 0]
          /\ att' = att \/ att' = [att EXCEPT ![m] = "closed"]
      BY <2>4 DEF Lk!UnlockConsul
    <3>4. shut' \subseteq Members \X (1 .. MaxLock)
      BY <2>2, <2>4 DEF Lk!UnlockConsul
    <3>5. Attempted'
      BY <1>3, <2>3, <3>2
    <3>6. Lk!TypeOK'
      BY <1>3, <2>3, <3>1, <3>2, <3>3, <3>4
    <3> QED BY <3>5, <3>6
  <2>5. CASE Lk!UnlockRedis(m)
    <3>1. rec' \in [who : Members \cup {Nobody}, tok : 0 .. MaxLock] /\ fresh' \in BOOLEAN
      BY <2>1, <2>5 DEF Lk!UnlockRedis, Lk!Delete
    <3>2. pc' = [pc EXCEPT ![m] = Lk!Resume(m)] /\ shut' = shut
      BY <2>5 DEF Lk!UnlockRedis
    <3>3. acq' = [acq EXCEPT ![m] = 0] /\ att' = [att EXCEPT ![m] = "none"]
      BY <2>5 DEF Lk!UnlockRedis
    <3>4. Attempted'
      BY <1>3, <2>3, <3>2
    <3>5. Lk!TypeOK'
      BY <1>3, <2>3, <3>1, <3>2, <3>3
    <3> QED BY <3>4, <3>5
  <2>6. CASE Lk!UnlockK8s(m)
    <3>1. rec' \in [who : Members \cup {Nobody}, tok : 0 .. MaxLock] /\ fresh' \in BOOLEAN
      BY <2>1, <2>6 DEF Lk!UnlockK8s, Lk!Delete
    <3>2. pc' = [pc EXCEPT ![m] = Lk!Resume(m)]
      BY <2>6 DEF Lk!UnlockK8s
    <3>3. /\ acq' = acq \/ acq' = [acq EXCEPT ![m] = 0]
          /\ att' = att \/ att' = [att EXCEPT ![m] = "none"]
      BY <2>6 DEF Lk!UnlockK8s
    <3>4. shut' \subseteq Members \X (1 .. MaxLock)
      BY <2>2, <2>6 DEF Lk!UnlockK8s
    <3>5. Attempted'
      BY <1>3, <2>3, <3>2
    <3>6. Lk!TypeOK'
      BY <1>3, <2>3, <3>1, <3>2, <3>3, <3>4
    <3> QED BY <3>5, <3>6
  <2> QED BY <1>3, <2>4, <2>5, <2>6
<1>4. CASE Lk!Unlock(m)
  BY <1>3, <1>4 DEF Lk!Unlock
<1>5. CASE Lk!Stop(m)
  <2>1. CASE Lk!StopConsul(m)
    BY <1>5, <2>1 DEF Lk!Stop, Lk!StopConsul
  <2> QED BY <1>3, <1>5, <2>1 DEF Lk!Stop, Lk!StopRedis, Lk!StopK8s
<1> QED BY <1>1, <1>2, <1>4, <1>5

\* Every step preserves the invariant.
LEMMA LkNext ==
  ASSUME MaxLock \in Nat, LkInv, [Lk!Next]_Lk!vars
  PROVE  LkInv'
<1>1. CASE UNCHANGED Lk!vars
  BY <1>1 DEF Lk!vars, LkInv, Lk!TypeOK, Attempted
<1>2. CASE Lk!Lapse
  BY <1>2 DEF Lk!Lapse, LkInv, Lk!TypeOK, Attempted
<1>3. ASSUME NEW m \in Members, Lk!Locker(m) \/ Lk!Caller(m)
      PROVE  LkInv'
  BY <1>3, LockInv, KeepInv, UnlockInv DEF Lk!Locker, Lk!Caller
<1> QED BY <1>1, <1>2, <1>3 DEF Lk!Next

\* No interleaving of calls, renewals, expiries and failures takes the lockers and the
\* record of the key out of their types (Lock, KeepLock, Unlock and Stop).
THEOREM LockerTypes ==
  ASSUME MaxLock \in Nat
  PROVE  Lk!Spec => []Lk!TypeOK
<1>1. LkInv => Lk!TypeOK
  BY DEF LkInv
<1> QED BY <1>1, LkInit, LkNext, PTL DEF Lk!Spec

-----------------------------------------------------------------------------
\* What the refinement needs of the state: whether the lease is fresh is known.
FreshKnown == fresh \in BOOLEAN

LEMMA FreshInv == FreshKnown /\ [Lk!Next]_Lk!vars => FreshKnown'
<1> USE DEF FreshKnown
<1>1. ASSUME FreshKnown, NEW m \in Members, Lk!Locker(m)
      PROVE  FreshKnown'
  BY <1>1 DEF Lk!Locker, Lk!LockAcquire, Lk!LockConsul, Lk!LockRedis, Lk!LockK8s, Lk!Take, Lk!LockReturn, Lk!Keep,
       Lk!KeepRenew, Lk!KeepLost, Lk!Unlock, Lk!UnlockConsul, Lk!UnlockRedis, Lk!UnlockK8s, Lk!Delete, Lk!Stop,
       Lk!StopConsul, Lk!StopRedis, Lk!StopK8s
<1>2. ASSUME FreshKnown, NEW m \in Members, Lk!Caller(m)
      PROVE  FreshKnown'
  BY <1>2 DEF Lk!Caller, Lk!LockBegin, Lk!LockFail, Lk!UnlockCall, Lk!StopCall
<1>3. ASSUME FreshKnown, Lk!Lapse \/ UNCHANGED Lk!vars
      PROVE  FreshKnown'
  BY <1>3 DEF Lk!Lapse, Lk!vars
<1> QED BY <1>1, <1>2, <1>3 DEF Lk!Next

\* Lock: whoever gets the key acquires a vacant lease, or renews its own (Kubernetes).
LEMMA LockTakes ==
  ASSUME NEW m \in Members, Lk!LockAcquire(m)
  PROVE  Lk!L!Acquire(m) \/ Lk!L!Renew(m)
<1>1. rec' = Lk!Mine(m) /\ fresh' = TRUE
  BY DEF Lk!LockAcquire, Lk!LockConsul, Lk!LockRedis, Lk!LockK8s, Lk!Take
<1>2. rec.who = m \/ rec.who = Nobody \/ ~fresh
  BY DEF Lk!LockAcquire, Lk!LockConsul, Lk!LockRedis, Lk!LockK8s, Lk!Vacant, Lk!Free
<1> QED BY <1>1, <1>2 DEF Lk!L!Acquire, Lk!L!Renew, Lk!Mine

\* KeepLock: a renewal renews or takes over an expired lease, or finds nothing to renew.
LEMMA KeepRenews ==
  ASSUME FreshKnown, NEW m \in Members, Lk!KeepRenew(m)
  PROVE  Lk!L!Acquire(m) \/ Lk!L!Renew(m) \/ UNCHANGED <<rec, fresh>>
<1> USE DEF FreshKnown
<1>1. CASE backend = "k8s"
  <2>1. rec' = Lk!Mine(m) /\ fresh' = TRUE /\ (rec.who = m \/ ~fresh)
    BY <1>1 DEF Lk!KeepRenew, Lk!Renewable, Lk!RenewsConsul, Lk!RenewsRedis, Lk!RenewsK8s
  <2> QED BY <2>1 DEF Lk!L!Acquire, Lk!L!Renew, Lk!Mine
<1>2. CASE backend # "k8s"
  <2>1. UNCHANGED rec /\ fresh' = (fresh \/ rec = Lk!Mine(m))
    BY <1>2 DEF Lk!KeepRenew
  <2>2. CASE rec = Lk!Mine(m)
    BY <2>1, <2>2 DEF Lk!L!Renew, Lk!Mine
  <2>3. CASE rec # Lk!Mine(m)
    BY <2>1, <2>3
  <2> QED BY <2>2, <2>3
<1> QED BY <1>1, <1>2

\* Unlock and Stop release the lease, with redis only the caller's, or leave it.
LEMMA UnlockReleases ==
  ASSUME NEW m \in Members, Lk!Unlock(m) \/ Lk!Stop(m)
  PROVE  Lk!L!Release(m) \/ UNCHANGED <<rec, fresh>>
<1>1. pc[m] \in {"unlock", "stop"}
  BY DEF Lk!Unlock, Lk!Stop
<1>2. CASE UNCHANGED <<rec, fresh>>
  BY <1>2
<1>3. CASE rec' = Lk!Free /\ fresh' = FALSE /\ (backend # "redis" \/ rec = Lk!Mine(m))
  BY <1>1, <1>3 DEF Lk!L!Release, Lk!Free, Lk!Mine
<1>4. Lk!UnlockConsul(m) \/ Lk!UnlockRedis(m) \/ Lk!UnlockK8s(m) \/ Lk!StopConsul(m)
  BY DEF Lk!Unlock, Lk!Stop, Lk!StopRedis, Lk!StopK8s
<1>5. UNCHANGED <<rec, fresh>>
        \/ (rec' = Lk!Free /\ fresh' = FALSE /\ (backend # "redis" \/ rec = Lk!Mine(m)))
  BY <1>4 DEF Lk!UnlockConsul, Lk!UnlockRedis, Lk!UnlockK8s, Lk!StopConsul, Lk!Delete
<1> QED BY <1>2, <1>3, <1>5

\* Every step of the lockers is a step of the lease or leaves it alone.
LEMMA StepRefines ==
  ASSUME FreshKnown, [Lk!Next]_Lk!vars
  PROVE  [Lk!L!Next]_(Lk!L!vars)
<1> DEFINE Moved == \E m \in Members : Lk!L!Acquire(m) \/ Lk!L!Renew(m) \/ Lk!L!Release(m)
<1>1. CASE UNCHANGED Lk!vars
  BY <1>1 DEF Lk!vars, Lk!L!vars
<1>2. UNCHANGED backend \/ UNCHANGED Lk!vars
  BY DEF Lk!Next, Lk!Lapse, Lk!Locker, Lk!Caller, Lk!LockBegin, Lk!LockFail, Lk!UnlockCall, Lk!StopCall, Lk!LockAcquire,
         Lk!LockReturn, Lk!Keep, Lk!KeepRenew, Lk!KeepLost, Lk!Unlock, Lk!Stop
<1>3. ASSUME UNCHANGED backend, Moved \/ Lk!L!Lapse \/ UNCHANGED <<rec, fresh>>
      PROVE  Lk!L!Next
  <2>1. UNCHANGED (backend = "redis") /\ {m \in Members : pc'[m] \in {"unlock", "stop"}} \in SUBSET Members
    BY <1>3
  <2> QED BY <1>3, <2>1 DEF Lk!L!Next
<1>4. ASSUME Lk!Lapse
      PROVE  Lk!L!Lapse
  BY <1>4 DEF Lk!Lapse, Lk!L!Lapse
<1>5. ASSUME NEW m \in Members, Lk!Locker(m) \/ Lk!Caller(m)
      PROVE  Moved \/ UNCHANGED <<rec, fresh>>
  <2>1. CASE Lk!LockAcquire(m)
    BY <2>1, LockTakes
  <2>2. CASE Lk!KeepRenew(m)
    BY <2>2, KeepRenews
  <2>3. CASE Lk!Unlock(m) \/ Lk!Stop(m)
    BY <2>3, UnlockReleases
  <2>4. CASE Lk!LockReturn(m) \/ Lk!KeepLost(m) \/ Lk!Caller(m)
    BY <2>4 DEF Lk!LockReturn, Lk!KeepLost, Lk!Caller, Lk!LockBegin, Lk!LockFail, Lk!UnlockCall, Lk!StopCall
  <2> QED BY <1>5, <2>1, <2>2, <2>3, <2>4 DEF Lk!Locker, Lk!Keep
<1> QED BY <1>1, <1>2, <1>3, <1>4, <1>5 DEF Lk!Next

\* In the beginning nobody holds the lease, and nobody is unlocking.
LEMMA InitRefines == Lk!Init => Lk!L!Init /\ FreshKnown
<1> SUFFICES ASSUME Lk!Init PROVE Lk!L!Init /\ FreshKnown
  OBVIOUS
<1>1. \A m \in Members : pc[m] = "idle"
  BY DEF Lk!Init
<1>2. {m \in Members : pc[m] \in {"unlock", "stop"}} = {}
  BY <1>1
<1>3. rec.who = Nobody /\ fresh = FALSE /\ (backend = "redis") \in BOOLEAN
  BY DEF Lk!Init, Lk!Free
<1> QED BY <1>2, <1>3 DEF Lk!L!Init, FreshKnown

\* The lockers implement the lease: whatever calls, expiries and failed requests interleave,
\* nobody takes a lease that is fresh, and a fresh lease ends only when a member that is
\* unlocking releases it, with redis only its own (the value redis compares).
THEOREM Implements == Lk!Spec => Lk!ImplementsLease
<1>1. FreshKnown /\ [Lk!Next]_Lk!vars => [Lk!L!Next]_(Lk!L!vars)
  BY StepRefines
<1> QED BY <1>1, InitRefines, FreshInv, PTL DEF Lk!Spec, Lk!ImplementsLease, Lk!L!Spec
=============================================================================
