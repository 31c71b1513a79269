----------------------------- MODULE Registration -----------------------------
(***************************************************************************)
(* Service registration and discovery: every instance keeps its API        *)
(* service registered in the backend of the locker, and the leader watches *)
(* the services to learn the members of the cluster.  A list of services   *)
(* passes from WatchServices to the goroutine of membership.Watch, and     *)
(* from there to the leader, over two unbuffered channels.                 *)
(*                                                                         *)
(* With consul and redis an instance registers and renews a TTL; in        *)
(* Kubernetes Register does nothing, and the endpoints follow the pods.    *)
(* The model covers one term of one leader, which stays up.                *)
(***************************************************************************)
EXTENDS Naturals, FiniteSets

CONSTANTS Instances,
          Watcher,    \* the instance that leads
          RegKinds,   \* of "consul", "redis", "k8s": the backends checked
          MaxFaults   \* bound: crashes, failed calls and late renewals

VARIABLES
  kind,
  up,       \* the instances that run
  caller,   \* an instance's registration goroutine: idle, in, failed
  svc,      \* the services the backend reports as alive
  idx,      \* the backend's modification index of the service (consul)
  wait,     \* WaitIndex of the leader's blocking query (consul)
  cached,   \* the informer's store (Kubernetes)
  changes,  \* the informer's channel of one notification (Kubernetes)
  prev,     \* the last list sent (Kubernetes)
  watch,    \* WatchServices: query, send or sleep
  snap,     \* the list WatchServices is sending
  relay,    \* the lists membership.Watch holds: none, or the one it sends on
  members,  \* the members the leader works with
  faults

vars == <<kind, up, caller, svc, idx, wait, cached, changes, prev, watch, snap,
          relay, members, faults>>
backendVars == <<svc, idx>>
watchVars == <<wait, cached, changes, prev, watch, snap, relay, members>>

None == {"none"}
MaxIdx == 2 * Cardinality(Instances) + 2 * MaxFaults + 3

RegTypeOK ==
  /\ kind \in RegKinds /\ up \subseteq Instances /\ svc \subseteq Instances
  /\ caller \in [Instances -> {"idle", "in", "failed"}]
  /\ idx \in 2 .. MaxIdx /\ wait \in 0 .. MaxIdx
  /\ changes \in BOOLEAN /\ watch \in {"query", "send", "sleep"}
  /\ {snap, cached, members} \subseteq SUBSET Instances
  /\ {relay, prev} \subseteq SUBSET Instances \cup {None}
  /\ faults \in 0 .. MaxFaults

Init ==
  /\ kind \in RegKinds
  /\ up = Instances /\ svc = {} /\ idx = 2 /\ faults = 0
  /\ caller = [i \in Instances |-> "idle"]
  /\ wait = 0 /\ cached = {} /\ changes = FALSE /\ prev = None
  /\ watch = "query" /\ snap = {} /\ relay = None /\ members = {}

Change(s) ==
  /\ svc' = s
  /\ idx' = IF s = svc THEN idx ELSE idx + 1

Fault == faults < MaxFaults /\ faults' = faults + 1

-----------------------------------------------------------------------------
(* Register and Deregister. *)

\* ServiceRegister and the first UpdateTTL replace what is there.
RegisterConsul(i) == kind = "consul" /\ Change(svc \cup {i})
\* The redlock mutex is not taken while an earlier run's key lives on.
RegisterRedis(i) == kind = "redis" /\ i \notin svc /\ Change(svc \cup {i})

RegistersOnce(i) ==
  /\ i \in up /\ caller[i] = "idle"
  /\ RegisterConsul(i) \/ RegisterRedis(i)
  /\ caller' = [caller EXCEPT ![i] = "in"]
  /\ UNCHANGED <<kind, up, faults>> /\ UNCHANGED watchVars

\* The loop of the cluster manager: it comes back after a backoff.
StartRegistration(i) ==
  /\ i \in up /\ caller[i] \in {"idle", "failed"}
  /\ RegisterConsul(i) \/ RegisterRedis(i)
  /\ caller' = [caller EXCEPT ![i] = "in"]
  /\ UNCHANGED <<kind, up, faults>> /\ UNCHANGED watchVars

\* A late renewal of a service that is still known makes it pass again.
RenewConsul(i) ==
  /\ kind = "consul" /\ i \in up /\ caller[i] = "in" /\ i \notin svc
  /\ Change(svc \cup {i})
  /\ UNCHANGED <<kind, up, caller, faults>> /\ UNCHANGED watchVars

\* A key that expired cannot be extended: Register returns an error.
ExtendFails(i) ==
  /\ kind = "redis" /\ i \in up /\ caller[i] = "in" /\ i \notin svc
  /\ caller' = [caller EXCEPT ![i] = "failed"]
  /\ UNCHANGED <<kind, up, faults>> /\ UNCHANGED <<backendVars, watchVars>>

\* A call fails: Register returns and the deferred Deregister runs.  Consul
\* forgets the service; the redis key, which nobody unlocks, lives on.
DeregisterConsul(i) == kind = "consul" /\ Change(svc \ {i})
DeregisterRedis(i) == kind = "redis" /\ UNCHANGED backendVars

RegisterFails(i) ==
  /\ i \in up /\ caller[i] = "in" /\ Fault
  /\ DeregisterConsul(i) \/ DeregisterRedis(i)
  /\ caller' = [caller EXCEPT ![i] = "failed"]
  /\ UNCHANGED <<kind, up>> /\ UNCHANGED watchVars

\* The TTL of a service that nobody renews runs out.
Expire(i) ==
  /\ kind # "k8s" /\ i \in svc /\ (i \notin up \/ caller[i] # "in")
  /\ Change(svc \ {i})
  /\ UNCHANGED <<kind, up, caller, faults>> /\ UNCHANGED watchVars

\* Or that of one which is renewed too late.
RenewsLate(i) ==
  /\ kind # "k8s" /\ i \in svc /\ i \in up /\ caller[i] = "in" /\ Fault
  /\ Change(svc \ {i})
  /\ UNCHANGED <<kind, up, caller>> /\ UNCHANGED watchVars

\* The endpoint slices follow the pods.
EndpointSlices ==
  /\ kind = "k8s" /\ svc # up /\ Change(up)
  /\ UNCHANGED <<kind, up, caller, faults>> /\ UNCHANGED watchVars

Crash(i) ==
  /\ i # Watcher /\ i \in up /\ Fault
  /\ up' = up \ {i} /\ caller' = [caller EXCEPT ![i] = "idle"]
  /\ UNCHANGED kind /\ UNCHANGED <<backendVars, watchVars>>

Restart(i) ==
  /\ i \notin up /\ up' = up \cup {i}
  /\ UNCHANGED <<kind, caller, faults>> /\ UNCHANGED <<backendVars, watchVars>>

-----------------------------------------------------------------------------
(* WatchServices. *)

\* The next WaitIndex from the index a watch returned: 1 is kept for an empty
\* list, and an index that went back starts the watch over.
NextIndex(returned) ==
  IF returned = 1 \/ returned > wait THEN returned
  ELSE IF returned < wait THEN 0 ELSE wait

\* An empty list is not reported, and polled again.
WatchConsul ==
  /\ kind = "consul" /\ watch = "query" /\ idx # wait
  /\ IF svc = {}
       THEN wait' = NextIndex(1) /\ UNCHANGED <<snap, watch>>
       ELSE wait' = NextIndex(idx) /\ snap' = svc /\ watch' = "send"
  /\ UNCHANGED <<kind, up, caller, cached, changes, prev, relay, members, faults>>
  /\ UNCHANGED backendVars

WatchConsulFails ==
  /\ kind = "consul" /\ watch = "query" /\ Fault
  /\ wait' = NextIndex(0)
  /\ UNCHANGED <<kind, up, caller, cached, changes, prev, watch, snap, relay, members>>
  /\ UNCHANGED backendVars

\* A scan of the keys, once per PollTimer, reported whether it changed or not.
\* A list that is what the leader already has changes nothing and is left out.
WatchRedis ==
  /\ kind = "redis" /\ watch = "query" /\ svc # members
  /\ snap' = svc /\ watch' = "send"
  /\ UNCHANGED <<kind, up, caller, wait, cached, changes, prev, relay, members, faults>>
  /\ UNCHANGED backendVars

Informer ==
  /\ kind = "k8s" /\ cached # svc
  /\ cached' = svc /\ changes' = TRUE
  /\ UNCHANGED <<kind, up, caller, wait, prev, watch, snap, relay, members, faults>>
  /\ UNCHANGED backendVars

\* Only a list that differs from the last one is sent.
WatchK8s ==
  /\ kind = "k8s"
  /\ \/ watch = "query" /\ UNCHANGED changes
     \/ watch = "sleep" /\ changes /\ changes' = FALSE
  /\ IF prev = None \/ prev # cached
       THEN snap' = cached /\ watch' = "send"
       ELSE watch' = "sleep" /\ UNCHANGED snap
  /\ UNCHANGED <<kind, up, caller, wait, cached, prev, relay, members, faults>>
  /\ UNCHANGED backendVars

\* sChan <- services: membership.Watch receives.
Handover ==
  /\ watch = "send" /\ relay = None
  /\ relay' = snap
  /\ watch' = IF kind = "k8s" THEN "sleep" ELSE "query"
  /\ prev' = IF kind = "k8s" THEN snap ELSE prev
  /\ UNCHANGED <<kind, up, caller, wait, cached, changes, snap, members, faults>>
  /\ UNCHANGED backendVars

\* ch <- members: the leader receives.
Receive ==
  /\ relay # None
  /\ members' = relay /\ relay' = None
  /\ UNCHANGED <<kind, up, caller, wait, cached, changes, prev, watch, snap, faults>>
  /\ UNCHANGED backendVars

-----------------------------------------------------------------------------

Registrar(i) == StartRegistration(i) \/ RenewConsul(i) \/ ExtendFails(i)
Watching == WatchConsul \/ WatchRedis \/ WatchK8s \/ Handover \/ Receive

Next ==
  \/ \E i \in Instances :
       Registrar(i) \/ RegisterFails(i) \/ Expire(i) \/ RenewsLate(i) \/ Crash(i) \/ Restart(i)
  \/ EndpointSlices \/ Informer \/ Watching \/ WatchConsulFails

Spec == Init /\ [][Next]_vars
\* The loops of the instances and the leader's goroutines run, TTLs run out and
\* the Kubernetes controllers and informers keep up.
FairSpec ==
  /\ Spec
  /\ \A i \in Instances : WF_vars(Registrar(i)) /\ WF_vars(Expire(i))
  /\ WF_vars(EndpointSlices) /\ WF_vars(Informer) /\ WF_vars(Watching)

-----------------------------------------------------------------------------

\* However registrations fail, expire, crash and come back, and whatever lists
\* are under way when they do, the leader ends up with exactly the instances
\* that run as its members (WatchServices, membership.Watch, startRegistration).
Current == members = up
MembersConverge == <>[]Current
=============================================================================
