------------------------------- MODULE Cluster -------------------------------
(***************************************************************************)
(* The leader's duties: it learns the members, reconciles the assignment   *)
(* of targets on a timer, assigns new targets, drains a member and         *)
(* rebalances on request.  Assignments are pushed one call at a time to    *)
(* the members, which take and release the targets' locks.  Members crash  *)
(* and restart, calls fail.                                                *)
(***************************************************************************)
EXTENDS Integers, Sequences, FiniteSets, FiniteSetsExt, TLC, Functions

CONSTANTS N,          \* instances 1 .. N, in the order of their names
          Targets,
          MaxFaults,  \* bound: crashes and failed calls
          MaxOps      \* bound: drains and rebalances

Members == 1 .. N
None == 0

VARIABLES
  alive,    \* instances that run and are registered
  asg,      \* an instance's store, "assignments"
  lock,     \* holders of the targets' locks
  known,    \* c.members at the leader
  tgts,     \* targets in the leader's config store
  created,  \* the leader's watch channel: targets created
  job,      \* assignments being pushed by runLeader: target -> member
  api,      \* the goroutine of a drain or a rebalance
  faults, ops

vars == <<alive, asg, lock, known, tgts, created, job, api, faults, ops>>

Rb == INSTANCE Rebalance WITH owner <- lock, donors <- <<>>, pool <- <<>>, receivers <- <<>>,
                              moves <- {}, done <- TRUE
Drop(f, ks) == Restrict(f, DOMAIN f \ ks)
Idle == [pc |-> "idle"]

Init ==
  /\ alive = Members /\ known = {}
  /\ asg = [m \in Members |-> {}]
  /\ lock = [t \in Targets |-> None]
  /\ tgts = {} /\ created = {} /\ job = <<>> /\ api = Idle /\ faults = 0 /\ ops = 0

-----------------------------------------------------------------------------
(* Members. *)

Held(m) == {t \in Targets : lock[t] = m}
LockCount == [m \in Members |-> Cardinality(Held(m))]

\* The targets manager of an instance: start takes the lock of an assigned target, an
\* unassigned one is stopped.
TakeLock(m, t) ==
  /\ m \in alive /\ t \in asg[m] /\ lock[t] = None
  /\ lock' = [lock EXCEPT ![t] = m]
  /\ UNCHANGED <<alive, asg, known, tgts, created, job, api, faults, ops>>

ReleaseLock(m, t) ==
  /\ m \in alive /\ t \notin asg[m] /\ lock[t] = m
  /\ lock' = [lock EXCEPT ![t] = None]
  /\ UNCHANGED <<alive, asg, known, tgts, created, job, api, faults, ops>>

ExpireLock(t) ==
  /\ lock[t] # None /\ lock[t] \notin alive
  /\ lock' = [lock EXCEPT ![t] = None]
  /\ UNCHANGED <<alive, asg, known, tgts, created, job, api, faults, ops>>

Crash(m) ==
  /\ faults < MaxFaults /\ alive # {m} /\ m \in alive
  /\ alive' = alive \ {m} /\ faults' = faults + 1
  /\ asg' = [asg EXCEPT ![m] = {}]
  /\ UNCHANGED <<lock, known, tgts, created, job, api, ops>>

Restart(m) ==
  /\ m \notin alive /\ alive' = alive \cup {m}
  /\ UNCHANGED <<asg, lock, known, tgts, created, job, api, faults, ops>>

CreateTarget ==
  /\ \E t \in Targets \ tgts : tgts' = tgts \cup {t} /\ created' = created \cup {t}
  /\ UNCHANGED <<alive, asg, lock, known, job, api, faults, ops>>

-----------------------------------------------------------------------------
(* The leader. *)

\* Mutant: a member that is gone stays a candidate.
WatchJoins ==
  /\ known # known \cup alive /\ job = <<>>
  /\ known' = known \cup alive
  /\ UNCHANGED <<alive, asg, lock, tgts, created, job, api, faults, ops>>

\* membership.GetMembers and the watch of the services.
WatchMembers ==
  /\ known # alive /\ job = <<>>
  /\ known' = alive
  /\ UNCHANGED <<alive, asg, lock, tgts, created, job, api, faults, ops>>

\* pickAssignee: the member with the most of its quota left.
PickAssignee(quota, load) ==
  CHOOSE m \in known : \A x \in known : quota[x] - load[x] =< quota[m] - load[m]

\* reconcileAssignments: a target stays with a holder the leader knows; the others are
\* placed one after the other, each counted before the next.
Plan ==
  LET quota == Rb!Quota(known, Cardinality(tgts))
      kept == {t \in tgts : lock[t] \in known}
      place(t, acc) == LET m == PickAssignee(quota, acc.load) IN
                       [load |-> [acc.load EXCEPT ![m] = @ + 1], to |-> (t :> m) @@ acc.to]
  IN FoldSet(place, [load |-> LockCount, to |-> [t \in kept |-> lock[t]]], tgts \ kept)

Reconcile ==
  /\ job = <<>> /\ known # {} /\ tgts # {}
  /\ job' = Plan.to
  /\ UNCHANGED <<alive, asg, lock, known, tgts, created, api, faults, ops>>

LeastLoaded(load, ms) == {m \in ms : \A x \in ms : load[m] =< load[x]}

HandleCreate ==
  /\ job = <<>> /\ known # {}
  /\ \E t \in created, m \in LeastLoaded(LockCount, known) :
       created' = created \ {t} /\ job' = (t :> m)
  /\ UNCHANGED <<alive, asg, lock, known, tgts, api, faults, ops>>

\* One POST of Assign; the first error ends the batch.
Push ==
  /\ \E t \in DOMAIN job :
       \/ /\ job[t] \in alive
          /\ asg' = [asg EXCEPT ![job[t]] = @ \cup {t}]
          /\ job' = Drop(job, {t})
          /\ UNCHANGED faults
       \/ /\ job[t] \in alive /\ faults < MaxFaults /\ faults' = faults + 1
          /\ job' = <<>> /\ UNCHANGED asg
       \/ /\ job[t] \notin alive
          /\ job' = <<>> /\ UNCHANGED <<asg, faults>>
  /\ UNCHANGED <<alive, lock, known, tgts, created, api, ops>>

-----------------------------------------------------------------------------
(* Requests to the leader's API, each on a goroutine of its own. *)

\* DrainMember: one call unassigns what the member holds, then every target is pushed to
\* the member that is then the least loaded; errors of these pushes are ignored.
Drain(m) ==
  /\ api = Idle /\ ops < MaxOps /\ ops' = ops + 1
  /\ m \in known \cap alive /\ Held(m) # {}
  /\ asg' = [asg EXCEPT ![m] = @ \ Held(m)]
  /\ api' = [pc |-> "drain", todo |-> Held(m), load |-> LockCount, ms |-> known \ {m}]
  /\ UNCHANGED <<alive, lock, known, tgts, created, job, faults>>

DrainPush ==
  /\ api.pc = "drain" /\ api.todo # {}
  /\ \E t \in api.todo :
       \/ \E m \in LeastLoaded(api.load, api.ms) \cap alive :
            /\ asg' = [asg EXCEPT ![m] = @ \cup {t}]
            /\ api' = [api EXCEPT !.todo = @ \ {t}, !.load[m] = @ + 1]
            /\ UNCHANGED faults
       \/ /\ api' = [api EXCEPT !.todo = @ \ {t}]
          /\ UNCHANGED asg
          /\ \/ LeastLoaded(api.load, api.ms) \cap alive = {} /\ UNCHANGED faults
             \/ faults < MaxFaults /\ faults' = faults + 1
  /\ UNCHANGED <<alive, lock, known, tgts, created, job, ops>>

\* RebalanceTargetsV2 with any plan that brings the known members to their quotas: all
\* removals first, then all additions; a member that does not answer is skipped.
RebalanceBegin ==
  /\ api = Idle /\ ops < MaxOps /\ known # {}
  /\ LET held == {t \in Targets : lock[t] \in known}
         q == Rb!Quota(known, Cardinality(held))
     IN \E to \in [held -> known] :
          /\ \A m \in known : Cardinality({t \in held : to[t] = m}) = q[m]
          /\ \A t \in held : to[t] # lock[t] => LockCount[lock[t]] > q[lock[t]] /\ LockCount[to[t]] < q[to[t]]
          /\ LET mv == {t \in held : to[t] # lock[t]} IN
             /\ mv # {}
             /\ api' = [pc |-> "remove", src |-> [t \in mv |-> lock[t]], dst |-> [t \in mv |-> to[t]]]
  /\ ops' = ops + 1
  /\ UNCHANGED <<alive, asg, lock, known, tgts, created, job, faults>>

RebalanceRemove ==
  /\ api.pc = "remove" /\ api.src # <<>>
  /\ \E m \in Range(api.src) :
       LET ts == {t \in DOMAIN api.src : api.src[t] = m} IN
       /\ asg' = [asg EXCEPT ![m] = @ \ ts]
       /\ api' = [api EXCEPT !.src = Drop(@, ts)]
  /\ UNCHANGED <<alive, lock, known, tgts, created, job, faults, ops>>

RebalanceAdd ==
  /\ api.pc = "remove" /\ api.src = <<>> /\ api.dst # <<>>
  /\ \E t \in DOMAIN api.dst :
       \/ /\ api.dst[t] \in alive
          /\ asg' = [asg EXCEPT ![api.dst[t]] = @ \cup {t}]
          /\ api' = [api EXCEPT !.dst = Drop(@, {t})]
       \/ /\ api.dst[t] \notin alive
          /\ api' = [api EXCEPT !.dst = Drop(@, {u \in DOMAIN @ : @[u] = @[t]})]
          /\ UNCHANGED asg
  /\ UNCHANGED <<alive, lock, known, tgts, created, job, faults, ops>>

ApiReturn ==
  /\ (api.pc = "drain" /\ api.todo = {}) \/ (api.pc = "remove" /\ api.src = <<>> /\ api.dst = <<>>)
  /\ api' = Idle
  /\ UNCHANGED <<alive, asg, lock, known, tgts, created, job, faults, ops>>

Leader == WatchMembers \/ Reconcile \/ HandleCreate \/ Push
Api == DrainPush \/ RebalanceRemove \/ RebalanceAdd \/ ApiReturn
Next ==
  \/ Leader \/ Api \/ RebalanceBegin \/ CreateTarget
  \/ \E m \in Members : Crash(m) \/ Restart(m) \/ Drain(m) \/ \E t \in Targets : TakeLock(m, t) \/ ReleaseLock(m, t)
  \/ \E t \in Targets : ExpireLock(t)

\* The leader's select is fair to its timer and its channels, instances work through
\* their assignments, and leases expire.
Fairness ==
  /\ WF_vars(Push) /\ SF_vars(WatchMembers) /\ SF_vars(Reconcile) /\ WF_vars(Api)
  /\ \A t \in Targets : WF_vars(ExpireLock(t)) /\ WF_vars(\E m \in Members : TakeLock(m, t))
  /\ \A m \in Members, t \in Targets : WF_vars(ReleaseLock(m, t))

Spec == Init /\ [][Next]_vars /\ Fairness

-----------------------------------------------------------------------------
\* Once crashes, failed calls and requests end, every target is and stays collected by a
\* running instance, whatever a drain or rebalance left half done.
Collected == \A t \in tgts : lock[t] \in alive
AllCollected == <>[]Collected
=============================================================================
