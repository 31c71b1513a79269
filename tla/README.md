# TLA+ models and proofs of gnmic

gnmic subscribes to network devices over gNMI and hands what it receives to outputs. Its
collector (`src/pkg/collector`) is a long-running process: an API writes targets,
subscriptions, outputs and inputs into an in-memory config store, managers watch the
store and start, stop and replace goroutines to match it, and several collectors share
the targets between them through a locker. The classic app (`src/pkg/app`) does much the
same from the command line, with a clustering of its own. This project models the parts
whose correctness depends on interleavings, failures and timing, and the conversions
whose result is easily wrong; it checks them with TLC and proves the central invariants
with TLAPS.

## The system

| part | state it keeps | operations | hard behaviour |
|---|---|---|---|
| targets manager, lifecycle (`managers/targets`) | `tm.targets`, per target its lock, client, `retryCancel`, an entry of the state store | `apply`, `remove`, `start`, `stop`, `retryLoop`, `SetIntendedState`, assignment events | event loop, handlers, retry loops, lock keepers, watchers and readers all write the state store; only some hold `mt.Lock` |
| targets manager, subscriptions | `readersCfn`, `readersDone`, `appliedSubscriptions` | start, stop and replace a subscription | a replaced stream unwinds while its replacement starts; waits under locks the awaited goroutine needs |
| gNMI target client (`api/target`) | `subscribeCancelFn`, `SubscribeClients` by name | `SubscribeChan`, `Subscribe`, `StopSubscription` | retries, cancellation told apart from failure |
| cluster manager (`managers/cluster`) | leadership, members, assignments | campaign, reconcile, assign, drain, rebalance | leadership lost while acting on it, members that come and go, calls that fail half way |
| lockers, registration (`lockers`) | keys held or attempted, registered services | `Lock`, `KeepLock`, `Unlock`, `Register`, `WatchServices` | expiry against renewal, release by a former holder, watches that fail |
| outputs and inputs managers | what runs by name, the index of processors in use | create, update, delete, write, apply | handlers between the steps of the event loop, delete followed by create |
| outputs, inputs | channels, worker generations, wait groups | `Init`/`Start`, `Write`, `Update`, `Close`, workers | channels swapped under a writer, peers that are down, waits for workers |
| loaders, tunnel server | targets seen last, connected targets | diff, add and delete targets, reconcile | differences against a stale set, changes that are both an add and a delete |
| gNMI servers, cache, proxy | cached leaves, matching clients, queues | Subscribe in four modes, Get, Set, Write | slow and vanished clients, updates during set-up, answers assembled from workers |
| event processors | rate limiter's and trigger's memory | `Apply` on events | events shared between outputs, late events |
| classic app | leader key, services, dispatch lock, workers; errCh | dispatch, drain, rebalance, commands | lock time-outs, denied services, channels of fixed capacity |
| message options (`api`) | the message being built | options | options that undo one another |

What makes each part correct, in short: a target that should be collected is started and
retried until it is, and one that should not be is left alone; a subscription has one
open stream, comes back after errors and is replaced without loss of its successor; one
member at a time leads and every target ends up with one that runs; a rebalance moves no
more than it must; what runs is what the managers know and can close, and it runs what is
configured; Update and Close return; what was taken in is passed on, whole and once the
stream is synced up to date.

## Modules

| module | models | source (under `src/pkg`) |
|---|---|---|
| `TargetsManager`, `TargetsManagerProofs` | the lifecycle of one target name, and theorems | `collector/managers/targets` |
| `Subscription`, `SubscriptionProofs` | one subscription of one target: its loops, readers, locks and waits, and theorems | `targets_manager.go`, `api/target/subscribe.go` |
| `TargetSubscriptions` | which subscriptions a target runs as lists and subscriptions change | `targets_manager.go`, `collector/api/server` |
| `Tunnel` | targets that dial in, rules and their reconciliation | `tunnel_server.go`, `app/tunnel.go` |
| `Loaders` | file, HTTP, Docker and Consul loaders and the two processes that take their operations | `loaders`, `app/loaders.go`, `targets/loader.go` |
| `Election`, `ElectionProofs` | the leader election of the members, and theorems | `managers/cluster/election.go` |
| `Rebalance`, `RebalanceProofs` | quotas and the plan of a rebalance, and a theorem | `managers/cluster/rebalance.go` |
| `Cluster` | the leader's duties and the members' locks (uses `Rebalance!Quota`) | `managers/cluster/cluster_manager.go`, `placement.go`, `assigner.go` |
| `Registration` | registered services and the leader's watch of them | `lockers/*_registration.go`, `membership.go` |
| `Lease`, `Lockers` | what a locker promises; the consul, redis and Kubernetes lockers, proved to refine it in `TargetsManagerProofs` | `lockers` |
| `OutputsManager`, `InputsManager`, `ManagersProofs` | the managers, the store's events and the API handlers; theorems about them, `TargetSubscriptions` and `Tunnel` | `managers/outputs`, `managers/inputs`, `collector/api/server` |
| `OutputPool`, `OutputPoolProofs` | the eleven outputs that drain a channel with workers, and theorems | `outputs/*` |
| `RemoteWrite`, `PromTable` | the remote write output; the table of the Prometheus output | `outputs/prometheus_output` |
| `InputPool` | the nats, JetStream and Kafka inputs | `inputs` |
| `EventProcessors`, `EventPipeline`, `EventCases` | every processor as an operator; the writer and the outputs' chains; inputs for them | `formatters`, `outputs_manager.go` |
| `GnmiServer` | Subscribe of the gNMI server and of the gNMI output, over their caches | `gnmiserver`, `cache/oc_cache.go`, `outputs/gnmi_output` |
| `Relay` | RPCs relayed to several targets | `app/proxy.go`, `gnmiserver/unary.go`, `outputs/gnmi_output` |
| `ServingProofs` | theorems about `Relay`, `PromTable`, `Requests` and `EventPipeline` | |
| `RemoteCache` | the nats, redis and JetStream caches | `cache` |
| `AppCluster` | clustering of the classic app | `app/clustering.go`, `app/target.go` |
| `AppListener` | the app's listener of a target and its subscriptions | `app/subscribe.go`, `api/target/subscribe.go` |
| `Commands` | the one-shot commands: goroutines, stages and errCh | `app/get.go`, `set.go`, `diff.go`, ... |
| `GnmiOptions`, `Requests`, `RequestCases` | options of messages; the requests made of configurations, flags and files; inputs for them | `api/gnmi_msgs.go`, `utils/gnmi.go`, `config` |
| `MCTargets` | `TargetsManager` alone and in a cluster | |
| `MCSafety`, `MCProgress`, `MCStrong` | a component and small instances of others, side by side | |
| `SafetyProofs` | theorems about the systems of `MCSafety`, as the run checks them | |
| `MCApply`, `MCEvents` | instances for two of the findings | |

### TargetsManager

One target name is enough: the manager keeps no state across names. A remove followed by
an add makes a new `ManagedTarget`, so `ob` holds several objects, of which `targets` is
the current one. Each `start()` that gets past its guard is an *attempt* with a context
(`live`), a connection (`open`) and up to three goroutines: the lock keeper, the watcher
and a reader. Threads are the event loop, one API handler, the retry loops and those
goroutines; `th` gives each its program counter and locals. A step is the code between
two points where another goroutine can change what is read: a `Get` or `Set` of the state
store, an acquisition of `mt.Lock`, a network or locker call. `wanted` is the only history
variable: what the last caller that took `mt.Lock` decided.

`Locker` is the cluster's: Lock of consul and Kubernetes keeps trying while another member
holds the target's key and returns only when its context is cancelled (or on an error of
the backend); redis' returns at once. start() calls it with `mt.Lock` held, so everybody
else who needs that lock waits as long: SetIntendedState, a retry loop, and the event loop,
whose remove and apply then hold up all targets. CancelledRetryEnds therefore excepts a
retry loop that a start() waiting for the key keeps from `mt.Lock` for good
(`WaitsForKey`); no cancellation of the retry loop reaches that start().

Nondeterministic: whether a dial, the lock, the Capabilities RPC and a probe succeed; when
the locker reports an error; which member holds the lock otherwise; when connectivity
changes, responses and stream errors arrive. `MCTargets` runs the module alone and in a
cluster with consul's locker: another member holds the key up to the second start() and
may release it and take it again from then on; a retry is cancelled by a second
operation. (In the system `targets` of `MCSafety` the locker is redis'.)

### Subscription

`pc[g]` follows the g-th SubscribeChan goroutine, `rd[g]` its reader. `sctx` and `nctx` are
the contexts of a loop and of its current attempt, `reg` the entry of `subscribeCancelFn`
and `SubscribeClients`, `cur` the entry of `readersCfn` and `readersDone`. `respCh` and
`errCh` hold at most one item of each kind. `tm.mu` is a Go `RWMutex`: a waiting writer
keeps new readers out, which is why the API's wait for it is a state of its own (`api.pc =
"mu"`). `Slow` lets the wait for the old reader end by its 5 s timer at any time;
without it the timer fires only when the reader is blocked on a lock, the case where it
must. `Cancels` lets the device end a stream with the status Canceled.

### TargetSubscriptions

The store and the two watch channels, the manager's copy of the target's config, its
`appliedSubscriptions` and the set of subscriptions that run. The event loop takes the
head of either channel. `Reconnect` stands for the restart that other config changes cause:
closeClient ends neither a loop that waits out its retry delay nor its entry in
`readersCfn`, so any of the loops that ran may go on (`survived`), and one that goes on
beside the loop start() makes for it is `doubled`: nobody stops both. `aliased` says that
`mt.T.Config` is the very object in the store, which a PATCH of the subscriptions changes
in place: the manager's copy changes with it (`patched`), and apply may then find nothing
changed. RunsWhatItLists leaves those cases out by name.

### Election

The leader key is held under a lease `<<member, term>>`, one term per call of `Campaign`.
`kept` are the leases KeepLock renews; a lease outside it may expire. The fields of
`election` that its goroutines share (`release`, `kaCancel`, `held`, `once`) are per
member, not per term, exactly as in the code: a goroutine of an old term uses whatever the
latest term put there. `camp` follows runCampaign and Campaign, `ka` the keepalive
goroutine of each term with signalLoss, `wd` a withdrawal. `DeleteAny` chooses the kind of
locker: TRUE for one whose Unlock deletes the key by its name (consul, k8s), FALSE for one
that compares the value first (redis). `Late` lets a goroutine of a lost term outlast the
backoff (1 s) and the cooldown after a withdrawal (30 s). A stop of the process releases
nothing and is the same action as a crash. The nil call of `cancelKeepAlive` that
signalLoss's unlocked double read allows is a restart (`LossPanics`).

### The cluster: Rebalance, Cluster, Registration, Lockers

`Rebalance` follows the plan turn by turn for every distribution of targets. Donors and
receivers are listed in the order of the members' names (`Listings` holds the one such
sequence of a set); the shuffle makes the targets that move arbitrary. `Cluster` has one leader (losing it is
Election's subject): `known` is what the watch told it, `job` the assignments it still has
to push, one POST at a time, `api` a drain or rebalance on a goroutine of its own. Members
take and release the targets' locks; crashes, failed calls and expiring locks come at any
time. `Registration` has the two unbuffered channels between WatchServices and the leader.
`Lockers` has the backend's record of one key and the locker's own tables; a Lock is two
steps, so that an Unlock meets it half way.

`Lease` is the abstract specification: nobody takes a fresh lease, and a fresh one ends
only by a member that is unlocking, with redis only its own. `Lockers` implements it with
`holder <- rec.who`, `fenced <- (backend = "redis")` and the members inside Unlock or Stop
as `unlocking` (ImplementsLease).

### Outputs, inputs and their managers

In `OutputsManager` a step of the event loop ends where it releases `mgr.mu` or calls the
output, since handlers run in between; `conf` and `proc` are the store, `evq` and `pq` its
watch channels. An output is what the manager believes of it (`cfg`) and what it runs
(`use`, `seen`): Impl.Update rebuilds the processors of an output when the list of their
names changed, and some types do only then (`UpdateKeeps`), so that it may go on with
versions it read before; an Update that fails may have installed the new ones already, as
prometheus' may (`half`), and the manager then leaves its index as it was; a processor that
cannot be built stays the old one (`missed`). UsedIsTracked speaks of the outputs that are
not `half`, and in one direction: the index may name more outputs than run the processor. It
does not say that a processor in use cannot be deleted: the API asks the index and deletes in
two steps (`CheckProcessor`, `DeleteProcessor`). `InputsManager` needs one step per event: only its loop changes inputs.
`OutputPool` and `InputPool` have a `kind`; what the types share is shared, and each type
has its own Init, Write, Worker, Update and Close, mapped to its own file. snmp's worker
connects first, in a loop that looks at no context (`SnmpConnect`): Update and Close wait for
it while the address cannot be connected, which OutputReturns excepts (`Connecting`). A message's
`fate` tells a counted loss from one nobody notices. Generations of workers, their
contexts and wait groups are explicit: the channel pointer is loaded before the send, and
an Update may come in between. `RemoteWrite` has one worker and one writer per generation
and the metadata writer that holds their mutex. `PromTable` is the table that workers
store into and scrapes read.

### Events and messages

An event is its name, timestamp, tags, values and deletes; a regular expression is the set
of strings it matches, a jq condition the name of the value it asks for. The processors
are operators on sequences of events. `EventPipeline` runs them: `obj` is what the
pointers of an input's message point to, so that what one output's processors do is seen
by the next. `place` says where an output runs its chain on a target's responses. In the
collector's single writer: file, influxdb and clickhouse. In workers, several at once and
beside the writer, on the same processors: prometheus and prometheus_write (events of an
input they process in the writer) and nats (whose workers take both). There a
step of a worker is an Apply, but of the rate limiter, whose Get and Add are two; two events
within 1/limit may both pass between them, so RateLimitSpacing is stated for the writer
only. Kafka, JetStream, tcp, udp, snmp, asciigraph and gnmi write no events of inputs, otlp
writes them unprocessed. A `bare` event is one whose tags are nil, as an input's JSON event
may be: group by leaves it out with all its values, which MergeConserves excepts (NamesOf).
Left out: the time-out of a write to a worker, a race in the trigger's occurrences,
and the panic of value tag on a bare event (no such message arrives). In `GnmiOptions` a message is its kind and fields, each field the sequence of
what was put there; `Requests` lets every caller in the repository, and a user with up to
`MaxOptions` options, build messages.

### gNMI servers and caches

`GnmiServer` has writers, queries and clients over one cache; a leaf's value is the
timestamp stored in it. The two implementations differ in how updates reach a client: an
unbuffered channel that writers send on, or a coalescing queue. In the server a query
walks the cache with the read locks of its tree and sends on a channel from inside
(`Walking`). When the client's reader is gone the walk is an orphan that waits for good, and
a writer that needs one of those locks waits with it (`MayWait`), and every later walk behind
the writer (`KeptOut`). Which locks a store needs depends on the leaves, so that its step is
possible and not sure to happen; StreamEnds excepts a cache that such an orphan wedges
(`Wedged`). `Relay` has the shape the
relaying handlers share: workers, a collector goroutine, and who waits for whom.
`RemoteCache` has names that instances follow from their first write or an announcement.

### The classic app

`AppCluster` has instances with their leader key, services and dispatch lock, up to two
TargetSubscribeStream goroutines per target and node, and requests; `Cut` and `Bad` are
calls and targets that always fail. A drain reads the instance's targets before it waits for
the dispatch lock. In the runs tags do not steer the choice. The systems are: `app`, a
target, a drain and a fault; `appCut`, an instance whose calls never get through, and a
rebalance, a leader that yields or a new subscription; `appLoader`, a loader whose source
drops its target; `appMoves`, two targets that one instance holds, and a drain or a rebalance
that moves one; `appBad`, a leader that fails to initialise the target it is handed. The last
is where dispatching may not end: the assignment times out, the service is not denied
(clustering.go:365), and a drain or a rebalance, whose context has no deadline, selects it
again for good. DispatchReturns excepts exactly that (`Reselects`), and NeverStranded
speaks of the other four systems.

`AppListener` counts ONCE subscriptions as the listener does. A response that
DecodeProtoBytes cannot decode is dropped with an error (api/target/subscribe.go:270) and
ends nothing; the module leaves it out. `Commands` walks a goroutine per target through
the stages of its command. Two kinds of stage may last for ever and are not fair
(`Awaits`): subscribe once dials again until the target answers, without a look at its
context, and a once stream has no time-out. CommandReturns excepts them, and an errCh that
is full in the commands that can have more errors than it holds (`Overflows`: set with more
than two requests, or with two and getset when messages cannot be printed either).

The app's half of `Tunnel` runs beside the collector's in the run, but no property speaks of
it.

## Runs

| run | module | expectation | what it shows |
|---|---|---|---|
| `targets_api` | MCTargets | pass | retries have one owner, respect a remove or a disable, and end when cancelled |
| `election_terms` | Election | pass | locks are not abandoned, a renewed key stays, a deposed leader steps down, one leader in the end |
| `safety` | MCSafety | pass | invariants and action properties of thirteen small systems |
| `progress` | MCProgress | pass | UpdateTakesEffect of the outputs; progress of nine systems that rests on goroutines that run |
| `strong` | MCStrong | pass | rebalance plans; progress of ten systems that also rests on timers and fair selects |
| `targets_stale` | TargetsManager | violation | a watcher's write-back hides a failed start from the retry loop |
| `subscription_close` | Subscription | violation | a loop in its retry delay survives a disable |
| `lists_config` | TargetSubscriptions | violation | the manager ignores some changes of the list |
| `election_release` | Election | violation | with consul or k8s a former leader deletes its successor's key |
| `outputs_apply` | MCApply | violation | a queued deletion takes the new configuration with it |
| `event_sharing` | MCEvents | violation | an output writes what another output's processors made |
| `loader_change` | Loaders | violation | the collector loses a target whose configuration changed |

The three modules `MCSafety`, `MCProgress` and `MCStrong` check many small systems in one
run. Each EXTENDS one component (`Subscription`, `OutputPool`, `Rebalance`), whose
properties it checks as they stand in that module, as the theorems state them, and
instantiates others. What `MCSafety` instantiates are the modules that hold the theorems, so
that `SafetyProofs` can apply these to the systems of the run; TLC evaluates the hypotheses
they have about inputs (`InputsAssumption`) before it starts. The variable `sys` names the system a behaviour is of; `x1`, `x2`, ...
are the variables of an instance, in the order of its module. While one system runs the
others rest, and a property of an instance speaks of its own system only.

| system | properties |
|---|---|
| subscription (MCSafety), subConn, subSlow | NoOverlap and CurrentLoopLives with an accurate wait; SingleStreams with reconnects, time-outs and devices that cancel |
| lockers | ImplementsLease: the refinement of `Lease` |
| manager | UsedIsTracked, OutputsSettle: index, outputs, states and configuration agree once the events are handled |
| inputs | InputsTracked: index, inputs and configuration agree |
| targets | RetryOwnership in a cluster, with the lock, its keeper and unassignment |
| lists | RunsWhatItLists |
| tunnel | NoOrphanTarget |
| events, requests | MergeConserves, RateLimitSpacing; OptionsKept |
| relay, prom | AnswerComplete; ScrapesMoveForward |
| registration, loaders | MembersConverge; LoaderConverges |
| commands | CommandReturns |
| outputs (MCProgress), pool | UpdateTakesEffect and OutputReturns of the outputs, InputReturns of the inputs |
| cache, gnmiOutput | CacheSpreads; OutputConverges |
| gnmi, gnmiWalks | StreamEnds: clients of all modes; two ONCE clients of three leaves, one after the other |
| rebalance (MCStrong) | PlanCorrect: every member at its quota, the fewest moves, none twice |
| cluster, clusterFault | AllCollected |
| app, appCut, appLoader, appMoves | DispatchReturns, NeverStranded |
| appBad | DispatchReturns |
| write, listener, subscription (MCStrong) | Delivered; StreamExported; Resubscribes |

A property that names kinds it does not hold for says what the code does: UsedIsTracked,
OutputsSettle, RunsWhatItLists, UpdateTakesEffect, OutputReturns, InputReturns,
CommandReturns, DispatchReturns, StreamEnds, LoaderConverges and CacheSpreads list such exceptions, and
the section on findings collects them. Every property of a passing run has a mutant in
`PROJECT.json`: a variant of one definition, kept beside it and commented *Mutant*, under
which TLC finds the property violated.

### Bounds

| bound | value | why it is enough |
|---|---|---|
| `MaxObj`, `MaxAttempt`, `MaxRetry` | 2 (1 for the system targets) | an object, attempt or retry loop that has not ended beside its successor |
| `MaxOps` | 1 to 4 | a change, what undoes it, and a third that meets the handling of either |
| `MaxRefresh` | 0 or 1 | one write-back of a stale state is what hides a failure |
| `MaxLoops` | 2 or 3 | the loop replaced and its replacements |
| `MaxWrites` | 3 or 4 | an event of each channel pending while another is written |
| `MaxTerm`, `MaxFaults` (Election) | 4, 3 | one term more than faults, so that the bound never ends the last campaign |
| app, appBad: the first instance leads until there is a fault, and only an instance that has the target is drained; appMoves: its fault is a crash of the second instance before there is a leader | | the instances are alike; a drain of nothing does nothing; the crash is what leaves one instance with both targets |
| `MaxFaults`, `MaxFails` | 1 or 2 | a failure, and one more while it is being repaired |
| targets, members | 5 over 3 in Rebalance, 1 or 2 over 2 elsewhere | an uneven remainder; a member that gives and one that takes |
| `MaxGen`, `MaxWorkers` | 2 | a generation of workers and the one that replaces it; a second worker of the same channel |
| `MaxMsgs`, `MaxSeries`, `MaxEvMsgs` | 1 or 2 | a message in the old channel or in a worker's hands and one on its way |
| `MaxTime` | 4 | two updates of two metrics, with one expired |
| `MaxOptions` | 3 | an option, one that undoes it, and one to create what both change |
| `MaxTs`, `MaxAsks` | 1 or 2, 1 | an update before and one during the set-up of a stream; a poll or tick |

The theorems hold for every value of the bounds of their modules. CHECK_DEADLOCK is FALSE
because a bound is what stops these systems, or because a system with nothing to do rests.

### Fairness

Steps of the goroutines a property depends on are fair: Go's scheduler is preemptive,
timers and tickers fire, and calls to the network have time-outs or end with the
connection. Weak fairness is enough for a step that stays possible. Strong fairness is
assumed in three cases. A step needs a lock that others take and give back (`RetryLoop`,
`Reader`, RemoteWrite's `HandleEvent`): Go's mutexes hand the lock to a waiter that
starves for 1 ms. A select finds two channels ready again and again (the leader's
`WatchMembers` and `Reconcile`, the listener's two channels): Go chooses at random. And the
world outside: a device that is tried again and again accepts an attempt some time
(`AttemptOk`, `SendOk`), and `Lock` of a key that is free again and again succeeds (`WLock`
of the app). Calls end with the target's time-out, but for the two stages of `Commands` that have
none. A lease or registration nobody renews expires, by weak fairness. Nothing
obliges an error, a crash, a config event or a request to happen, and nothing obliges a
peer to accept a connection in `OutputPool`, another member to release a target's key, a
locked cache to let a writer in. In `MCProgress` and `MCStrong` a fairness condition is the
disjunction of one action of each system, which is the same as one each, since a behaviour
is of one system only. (The reader of the system `subscription` needs weak fairness only:
nobody takes its locks there again and again.)

## What is proved

Every theorem holds for all values of the constants: any number of members, targets,
names, loops, operations and faults. Hypotheses, where there are any, are stated in the
theorem. None of the properties is inductive by itself; each module names the facts that
make it so.

`TargetsManagerProofs`: `Spec => []TypeOK` (TypeCorrect), `Spec => []RetryOwnership`
(RetryOwned) and `Spec => []RetryRespectsIntent` (RetryIntent), from the two named
assumptions of `TargetsManager` only. The inductive invariant `IInv` adds to them

  - `LockDiscipline`: a caller inside start() or stop() works on an object that exists
    and owns its `mt.Lock`;
  - `RetryThreads`: where a retry loop can be, that one inside start() is not cancelled,
    and that a loop which is not cancelled works on an object that is wanted;
  - `FreshObjects`: an object that was not created yet has no retry and no lock holder;
  - `CallerOps`: the event loop and the API never run an operation of the retry loop;
  - `Intent`: a caller inside start(), or in a stop() that a start() follows, works on an
    object that is wanted.

The goroutines of an attempt change only the state store and their own threads, so the
lemma `Quiet` deals with them at once; the acquisitions of `mt.Lock` share `Locking`; the
steps of start() and stop() and of the retry loop have a lemma each.

`ElectionProofs`: `Spec => []TypeOK` (ElectionTypes), which needs that whatever signals a
loss belongs to a term (`Started`); KeptLockStays for lockers that release only the
caller's lock (LockStays), without any assumption on timing; and NoAbandonedLock
(NoLockAbandoned) for either kind of locker, where no goroutine of a lost term outlasts the
backoff (`~Late`). Its invariant `Orderly` says, for each member, that all goroutines
and renewals at work are of the latest term (`OfTerm`), that nothing is lost or withdrawn
before the key is held (`NotYet`), and that the release of a key that is renewed is still to
be done by exactly one of the goroutines that may take it (`Pending`).

In the same module, about `Lockers` (`Lk`): types (LockerTypes) and the refinement, of the
initial states and of every step: a step of the three lockers is a step of `Lease` or leaves
it alone (Implements). It is proved action by action; the fact about the state it needs is
that freshness is known.

`SubscriptionProofs`: types (SubscriptionTypes); never two open Subscribe RPCs, whatever the
event loop, API, timers and device do (OneStream: the attempt that is registered is the
only one alive past its registration); and NoOverlap and CurrentLoopLives
(LoopsDoNotOverlap, CurrentLoopIsAlive) for a target that stays connected (`Connected`: no
reconnect, no disable) and readers that end within the wait for them (`~Slow`), the second
for devices that do not cancel (`~Cancels`). These are hypotheses on what the environment
does, not on the code: without them the properties are false, as subscription_close and
the constants' comments say. The invariants `Unwound` and `Lives` follow the replacement
of a loop step by step: loops are used in order, only the last one may be alive, and the
manager believes in it or waits for it.

`ManagersProofs`: UsedIsTracked and OutputsSettle of `OutputsManager`
(UsedIsTrackedAlways, OutputsSettleAlways) for requests that name outputs and processors
that exist (`Bodies`), with Updates that fail before and after they install processors and
processors that cannot be built, and InputsTracked of `InputsManager`. What the managers will do with
the events in their watch channels is part of the invariants: `Absent` says that the last event about
a name, if any, deletes it, `LastCurrent` that the last event about a processor carries the
stored version. Lemmas on appending to a channel and taking its head serve both managers.
In the same module, NoOrphanTarget of `Tunnel` (NoTargetOrphaned; handlers and the
reconciliation hold what they will store only for connected targets) and RunsWhatItLists of
`TargetSubscriptions` (RunsAsListed; an event that is out of date is followed by one that is
not, what runs and should not has a removal to come, and what outlived a reconnect is
accounted for in `survived` and `doubled`).

`OutputPoolProofs`: types (OutputPoolTypes) and UpdateTakesEffect (UpdatesTakeEffect) for all
eleven kinds of output, any configurations of at least one worker, any messages and any
number of Updates (`Configured`). `Updating` says where an Update can be and that the newest
workers are cancelled only between the two halves of an Update that stops the old ones
first; `Newest` what those workers are and serve; `Older` that earlier workers are gone but
for those an Update waits for; `Channels` which outputs' Write cannot be overtaken by the
swap of the channel.

`ServingProofs`: AnswerComplete of `Relay` (AnswersComplete) for requests that name targets
or all of them: every result is still to be sent, in the collector's hand or in the answer
(`Counted`, `Handed`), nothing else is in the answer (`OnlyResults`), and an answer waits for
the workers and the collector (`Waited`). And ScrapesMoveForward of `PromTable`
(ScrapesForward) for any expiration: what was exported of a metric is no later than its
entry or so old that anything that could go back behind it has expired (`Behind`). And
OptionsKept of `Requests` (EveryOptionKept) for any sequence of options of the package of
which no prefix, target or data type is the empty string, which the code takes for none
(`IsOption`): lemmas say which field each of the 37 options writes, and that it takes away only
what it overrides (`OptionEffect`). And RateLimitSpacing of `EventPipeline` (SpacingKept): for
any events and batches, any limits, and any number of outputs that run their chain in the writer
(`place`; of several workers it is false), in any order. What left an output
behind a limiter and what is in its queue are the events that passed, in order; the index
recalls the last of them for every set of tags (`Passed`), since entries have different tags
and the cache has room for all (`MostRecentKeeps`, by the pigeonhole principle), and an event
that passes was compared with that one. Assumed: the events are of a finite number of sets of
tags and a limiter's cache is as large (`RateLimited`); every output is a rate limiter, or
everything arrives from targets, or there is one output only (`Undisturbed`), because other
outputs' processors change the events of an input where they wait, which is the finding of
`event_sharing`. The limiter is a fold, a
recursion over the positions of the events of a call: `FoldExists` and `FoldKeeps` prove by
induction that it has a value and keeps what its steps keep, the induction being the existence
of a least element (`SetInduction`), which needs no operator as a parameter.
And MergeConserves of `EventPipeline` (NothingLost), in the writer and in workers, of the events
that have tags. A lemma per processor says that the names
of what it returns include those of what it was given and that it makes no more of one event
or none (`MergeKeeps`, `GroupByKeeps`, `ApplyKeeps`, and `StepKeeps` for a combine and its
sort); `FoldKeeps` carries that through a chain
(`ChainKeeps`, and event by event `PointerKeeps`). Then what a message names is, for
every output that was given it, in what the output wrote or in an entry of its queue
(`Accounted`); an entry of an input's event holds what that event is by now, which names at
least what it did when it arrived (`Kept`, `Held`). Assumed: events have a name, a time, tags,
values and deletes (`WellFormed`), the processors of a conserving chain have the parameters of
their kind (`Configured`), and no other output's processors take from an input's event while it
waits: every output conserves, or there is one output only, or everything arrives from targets
(`Unrobbed`), again for the finding of `event_sharing`.

`RebalanceProofs`: PlanCorrect (PlanIsCorrect) for any number of members, at least one, and any finite
set of targets. The proof counts with functions instead of sums: the quotas are the sizes
of the fibres of a function of the targets (`Dealt`), the loads after the plan those of
another, and two such functions of which one is nowhere larger have equal fibres
(`Dominated`). `PlanInv` relates donors' surplus and receivers' need to what was moved.

`SafetyProofs`: what the run `safety` checks of the instances, as theorems of its
specification: a behaviour of `SysSpec` that begins as one system stays it (a lemma per
system, as `TunnelRun`), so it is a behaviour of that instance's specification, and the
instance's theorem says the rest. These theorems hold for every value of the constants that
remain in `MCSafety` (bodies of apply, chains, batches, responses and events, options) for
which `InputsAssumption` holds.

Only model-checked: every liveness property, which is outside the prover's reach, and the
violations. TypeOK of the modules not
named above is checked only where a run lists it.

## Findings

Each is the counterexample of a violation run and is quoted in `PROJECT.json`.

  - `targets_stale`: watchConnState reads a state and writes it back without the lock; a
    start that failed in between is no longer retried.
  - `subscription_close`: a subscription loop that waits out its retry delay survives the
    disabling of its target and runs on beside its successor.
  - `lists_config`: some changes of a target's list of subscriptions are not applied.
  - `election_release`: the release of a lost leader key deletes the key of the new leader,
    which then loses it as well; with two members that can go on.
  - `outputs_apply`: the handling of an output's deletion deletes the configuration that a
    later request set.
  - `event_sharing`: the outputs share an input's events, and their processors change them
    in place.
  - `loader_change`: the collector applies a loader's adds before its deletes, so a changed
    target is deleted.

Behaviour the models contain and that properties leave out by an exception or do not speak
of:

  - *targets*: a handler that looked its object up before a remove starts an object nothing
    will stop; the lock keeper stops a target without `mt.Lock`; a response received before
    a stop publishes Running after it; a start() that waits for a key in consul's or
    Kubernetes' Lock keeps `mt.Lock`, and with it the event loop; a subscription's loop may
    survive a reconnect, and a PATCH may change the list under the manager; a device that ends a stream with Canceled ends the
    subscription for good.
  - *lockers*: consul's Stop waits for a mutex it holds; a consul Unlock that fails and is
    called again closes a closed channel.
  - *outputs*: nats and udp workers inherit the context of their first generation, so an
    Update leaves them without a live worker; an Update that fails half way leaves an output
    with processors the manager's index does not name; snmp's Close and Update wait while its
    address cannot be connected; behind several workers the rate limiter lets events closer
    than its rate pass; group by drops an event without tags; Kafka, nats and JetStream start as many
    workers as the configuration before asked for; a message whose Write loaded the old
    channel stays in it; Kafka's sync producer dials on after Close; a Prometheus Update
    that cannot bind leaves workers nothing cancels; turning the export of timestamps on
    makes the table dereference a nil time (`panic` of PromTable); TCP keeps the old
    address. The remote write's metadata writer leaves out the entry that finds a batch
    full.
  - *inputs*: a worker scheduled after an Update signs off from the wrong wait group; a
    claimed Kafka message may have no one to take it.
  - *loaders*: the Consul loader never reports a service without instances and does not
    repeat failed actions; a run of failing actions can hang a loader (`pc = "hung"`).
  - *gNMI server*: an update written between a stream's initial walk and the registration of
    its on-change query is missed; a query whose client left stays in its walk of the cache
    and may block the writers of the cache.
  - *caches*: the JetStream cache announces a name once.
  - *commands*: more than two failing requests per target block `set` on errCh; subscribe
    once does not return while a target cannot be reached or does not end its stream.
  - *classic app*: a drain of the leader removes the target from its own configuration; a
    drain or a rebalance that hands a target to an instance which fails to initialise it
    holds the dispatch lock for good.

## What is left

  1. Composition: `Cluster` with several leaders in succession (`Election`), `Subscription`
     under the lists of `TargetSubscriptions`.
  2. `AppCluster` with two targets and faults while one of them moves, and with tags.
  3. POLL subscriptions of the client, expiry in the caches, the rest of apply.

## Not modelled

Encodings, templates, TLS and metrics of outputs and inputs, sources of loaders (SFTP, S3,
templates), actions, starlark and plugin processors, reading and merging of configuration
files, environment and flags, YANG schemas, the prompt, the path and generate commands,
logging: they are I/O or formatting without state that several goroutines share, and most
of the repository's lines are of that kind. The config and state stores are a library
outside the repository and are modelled by their use: `Get`, `Set` and `Delete` are atomic,
`Watch` delivers the events of a kind in order. So are the tunnel server's registrations,
the coalescing queue and the brokers' delivery, which the map marks external.
