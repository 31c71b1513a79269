------------------------------ MODULE MCSafety ------------------------------
(***************************************************************************)
(* Subscription, and small instances of the other components whose         *)
(* properties are safety properties.  A behaviour is one of one of them    *)
(* (sys), so that one run of TLC checks them all: of Subscription with the *)
(* events and requests of a connected target, or of an instance, whose     *)
(* variables are x1, x2, ..., while Subscription rests.                    *)
(*                                                                         *)
(* What is instantiated are the modules that hold the theorems about the   *)
(* components (and, as Lk, In, Tun, Lists, Prom, Req and Pipe, those       *)
(* components that share such a module with another one), so that the      *)
(* theorems speak of the systems of this run: see SafetyProofs.            *)
(***************************************************************************)
EXTENDS Subscription, TLC

CONSTANTS
  Applies,      \* bodies of apply
  EvChains, EvBatches, EvResponses,  \* the chains, batches and responses of EventPipeline
  EvArrivals,   \* the events that arrive in them
  MsgOptions    \* the options of a gNMI message of a user

VARIABLES
  sys,  \* the system this behaviour is of
  x1, x2, x3, x4, x5, x6, x7, x8, x9, x10, x11, x12, x13, x14, x15, x16, x17, x18  \* its variables

others == <<x1, x2, x3, x4, x5, x6, x7, x8, x9, x10, x11, x12, x13, x14, x15, x16, x17, x18>>
sysVars == <<sys, vars, others>>

(* The variables beyond the first n: a system of n variables does not use them. *)

After15 == <<x16, x17, x18>>
No15 == x16 = <<>> /\ x17 = <<>> /\ x18 = <<>>
After13 == <<x14, x15, After15>>
No13 == x14 = <<>> /\ x15 = <<>> /\ No15
After12 == <<x13, After13>>
No12 == x13 = <<>> /\ No13
After10 == <<x11, x12, After12>>
No10 == x11 = <<>> /\ x12 = <<>> /\ No12
After9 == <<x10, After10>>
No9 == x10 = <<>> /\ No10
After8 == <<x9, After9>>
No8 == x9 = <<>> /\ No9
After7 == <<x8, After8>>
No7 == x8 = <<>> /\ No8
After4 == <<x5, x6, x7, After7>>
No4 == x5 = <<>> /\ x6 = <<>> /\ x7 = <<>> /\ No7
No0 == x1 = <<>> /\ x2 = <<>> /\ x3 = <<>> /\ x4 = <<>> /\ No4

-----------------------------------------------------------------------------
(* Values of the constants. *)

EvCases == INSTANCE EventCases
Cases == INSTANCE RequestCases

\* An output with its processor, no output, an output without its processor.
CaseApplies ==
  {[outs |-> ("o1" :> {"p1"}), procs |-> {"p1"}], [outs |-> <<>>, procs |-> {"p1"}],
   [outs |-> ("o1" :> {"p1"}), procs |-> {}]}
CaseChains == EvCases!Chains
CaseBatches == EvCases!Batches
CaseResponses == EvCases!Responses
CaseArriving == EvCases!Arriving
CaseOptions == Cases!UserOptions

-----------------------------------------------------------------------------
\* A target in a cluster: its lock may be taken or lost, its start may fail.  And (Lk) two
\* members that contend for a key, each twice; one of them stops its locker.
Managed == INSTANCE TargetsManagerProofs WITH
  Locker <- "redis", Cfgs <- {"c1"}, ApiOps <- {"enable"}, MaxObj <- 1, MaxAttempt <- 1,
  MaxRetry <- 1, MaxOps <- 3, MaxRefresh <- 0,
  targets <- x1, assigned <- x2, ob <- x3, state <- x4, th <- x5, live <- x6, open <- x7,
  rlive <- x8, nobj <- x9, natt <- x10, nretry <- x11, nops <- x12, nrefresh <- x13,
  lock <- x14, wanted <- x15,
  Members <- {"m1", "m2"}, Nobody <- "nobody", Backends <- {"consul", "redis", "k8s"},
  MaxLock <- 2, Stops <- {"m1"},
  backend <- x1, rec <- x2, fresh <- x3, pc <- x4, was <- x5, tok <- x6, att <- x7, acq <- x8,
  shut <- x9

\* The outputs manager and (In) two inputs that share a processor; (Lists) two subscriptions
\* and three writes to the store; (Tun) two targets that come and go, two rules that change.
Store == INSTANCE ManagersProofs WITH
  Outs <- {"o1"}, Procs <- {"p1"}, Requests <- Applies, ApiOps <- {"output", "processor", "apply"},
  MaxOps <- 3, CloseFails <- TRUE,
  conf <- x1, evq <- x2, inUse <- x3, state <- x4, ops <- x5, stuck <- x6, proc <- x7, pq <- x8,
  outs <- x9, loop <- x10, api <- x11, want <- x12,
  Ins <- {"i1", "i2"}, ins <- x7, open <- x8,
  Subs <- {"s1", "s2"}, MaxWrites <- 3,
  store <- x1, config <- x2, subEvents <- x3, tgtEvents <- x4, known <- x5, list <- x6,
  aliased <- x7, applied <- x8, running <- x9, writes <- x10, survived <- x11, doubled <- x12,
  patched <- x13,
  TunTargets <- {"a", "b"}, Rules <- {1, 2}, Covers <- (1 :> {"a", "b"}) @@ (2 :> {"a"}),
  TunKinds <- {"collector", "app"}, MaxVer <- 2, MaxRuleOps <- 2, MaxSessions <- 3,
  kind <- x1, rules <- x2, sess <- x3, h <- x4, connected <- x5, cfgs <- x6, evs <- x7,
  rec <- x8, g <- x9, cfn <- x10, nops <- x11, nsess <- x12

\* A subscription across reconnects, of a device that may end a stream with Canceled.
SubConn == INSTANCE SubscriptionProofs WITH
  EvOps <- {"reconnect"}, ApiOps <- {"enable", "disable"},
  MaxOps <- 2, MaxLoops <- 2, Slow <- FALSE, Cancels <- TRUE,
  conn <- x1, reg <- x2, cur <- x3, pc <- x4, strm <- x5, retry <- x6, sctx <- x7, nctx <- x8,
  chan <- x9, rd <- x10, first <- x11, ev <- x12, api <- x13, mt <- x14, listed <- x15,
  known <- x16, nloop <- x17, nops <- x18

\* A subscription whose reader outlasts the wait for it.
SubSlow == INSTANCE SubscriptionProofs WITH
  EvOps <- {"apply"}, ApiOps <- {"disable"},
  MaxOps <- 2, MaxLoops <- 2, Slow <- TRUE, Cancels <- TRUE,
  conn <- x1, reg <- x2, cur <- x3, pc <- x4, strm <- x5, retry <- x6, sctx <- x7, nctx <- x8,
  chan <- x9, rd <- x10, first <- x11, ev <- x12, api <- x13, mt <- x14, listed <- x15,
  known <- x16, nloop <- x17, nops <- x18

\* A request to two targets, of which one may fail; (Prom) two workers that store two metrics,
\* an Update, and scrapes; (Req) requests from configurations, flags and files, and messages of
\* a user with three options; (Pipe) an output behind every kind of processor, two messages.
Serving == INSTANCE ServingProofs WITH
  RelayTargets <- {"a", "b"}, RpcKinds <- {"get", "once", "stream"}, Selectors <- {"app", "collector"},
  Asks <- {<<"*">>, <<"a">>, <<"b", "a">>, <<"a", "b">>}, MaxResults <- 2, MaxRpcs <- 1,
  MaxFails <- 1, MayCancel <- TRUE,
  who <- x1, created <- x2, rpcs <- x3, kind <- x4, hpc <- x5, sel <- x6, temp <- x7, wpc <- x8,
  left <- x9, got <- x10, item <- x11, synced <- x12, coll <- x13, gone <- x14, stop <- x15,
  errs <- x16, out <- x17, fails <- x18,
  Keys <- {"k1", "k2"}, Workers <- {"w1", "w2"}, MaxTime <- 4, Expiration <- 1, MaxUpdates <- 1,
  export <- x1, now <- x2, hold <- x3, entries <- x4, updates <- x5, panic <- x6, seen <- x7,
  BadPath <- "bad", SubConfigs <- Cases!SubConfigs, GetFlags <- Cases!GetFlags,
  SetFlags <- Cases!SetFlags, SetFiles <- Cases!SetFiles,
  UserKinds <- {"CapRsp", "GetReq", "SetReq", "SubReq", "SetRsp", "GetRsp", "SubRsp"},
  UserOptions <- MsgOptions, MaxOptions <- 3, job <- x1, opts <- x2, msg <- x3, used <- x4,
  IntWidth <- 4, OneSecond <- 2, EvOuts <- {"o1"}, MaxEvMsgs <- 2,
  Events <- EvArrivals, Tags <- {e.tags : e \in EvArrivals},
  EvPlaces <- {"writer", "workers"}, EvWorkers <- {"w1", "w2"},
  chain <- x1, msgs <- x2, obj <- x3, todo <- x4, queue <- x5, wrote <- x6, mem <- x7, place <- x8,
  raw <- x9, work <- x10

\* What the theorems about these systems ask of their inputs.
ASSUME InputsAssumption ==
  /\ Store!Bodies
  /\ Serving!Arriving /\ Serving!Arrivals /\ Serving!RateLimited /\ Serving!Undisturbed
  /\ Serving!WellFormed /\ Serving!Configured /\ Serving!Unrobbed
  /\ \A i \in DOMAIN MsgOptions : Serving!IsOption(MsgOptions[i])

-----------------------------------------------------------------------------

SysInit ==
  /\ Init
  /\ \/ sys = "subscription" /\ No0
     \/ sys = "lockers" /\ Managed!Lk!Init /\ No9
     \/ sys = "manager" /\ Store!Init /\ No12
     \/ sys = "inputs" /\ Store!In!Init /\ No8
     \/ sys = "targets" /\ Managed!Init /\ No15
     \/ sys = "lists" /\ Store!Lists!Init /\ No13
     \/ sys = "subConn" /\ SubConn!Init
     \/ sys = "subSlow" /\ SubSlow!Init
     \/ sys = "tunnel" /\ Store!Tun!Init /\ No12
     \/ sys = "events" /\ Serving!Pipe!Init /\ No10
     \/ sys = "requests" /\ Serving!Req!Init /\ No4
     \/ sys = "relay" /\ Serving!Init
     \/ sys = "prom" /\ Serving!Prom!Init /\ No7

OthersNext ==
  \/ sys = "lockers" /\ Managed!Lk!Next /\ UNCHANGED After9
  \/ sys = "manager" /\ Store!Next /\ UNCHANGED After12
  \/ sys = "inputs" /\ Store!In!Next /\ UNCHANGED After8
  \/ sys = "targets" /\ Managed!Next /\ UNCHANGED After15
  \/ sys = "lists" /\ Store!Lists!Next /\ UNCHANGED After13
  \/ sys = "subConn" /\ SubConn!Next
  \/ sys = "subSlow" /\ SubSlow!Next
  \/ sys = "tunnel" /\ Store!Tun!Next /\ UNCHANGED After12
  \/ sys = "events" /\ Serving!Pipe!Next /\ UNCHANGED After10
  \/ sys = "requests" /\ Serving!Req!Next /\ UNCHANGED After4
  \/ sys = "relay" /\ Serving!Next
  \/ sys = "prom" /\ Serving!Prom!Next /\ UNCHANGED After7

SysNext ==
  /\ UNCHANGED sys
  /\ \/ sys = "subscription" /\ Next /\ UNCHANGED others
     \/ OthersNext /\ UNCHANGED vars

SysSpec == SysInit /\ [][SysNext]_sysVars

-----------------------------------------------------------------------------
\* What the lockers promise (Lease): nobody takes a lease that is fresh, and a fresh lease
\* ends only when a member that is unlocking releases it, with redis only its own.
ImplementsLease ==
  /\ sys = "lockers" => Managed!Lk!L!Init
  /\ [][sys = "lockers" => Managed!Lk!L!Next \/ UNCHANGED Managed!Lk!L!vars]_sysVars

\* processorsInUse names an output under every processor it runs, whatever deletes, failed
\* closes and updates came between, but for an Update that failed half way.  (The API asks
\* the index before it deletes a processor, in a step of its own: an output may begin to
\* use it in between.)
UsedIsTracked == sys = "manager" => Store!UsedIsTracked

\* Once the queued events are handled, an output runs the stored versions of its processors
\* that could be built, and one that is not configured is neither run nor reported.
OutputsSettle == sys = "manager" => Store!OutputsSettle

\* No started input is lost: what runs and can still write to the pipeline is what the
\* inputs manager knows and can close, and its index names it for exactly the processors of
\* its config, unless a Close failed.
InputsTracked == sys = "inputs" => Store!In!InputsTracked

\* A retry loop and the target that owns it belong together, also when the target's lock is
\* taken or lost while its start is retried: no loop runs on without an owner.
RetryOwnership == sys = "targets" => Managed!RetryOwnership

\* Once the queued events are handled no deleted subscription runs, and a target runs what
\* its list names, but for a list that a PATCH changed under the manager, loops that waited to
\* try again through a reconnect, and a subscription started beside a loop of its own.
RunsWhatItLists == sys = "lists" => Store!Lists!RunsWhatItLists

\* At most one Subscribe RPC of the subscription is open: a loop that is being replaced,
\* also by a reconnect, is out of its stream before the next one is in.
SingleStreams ==
  (sys = "subConn" => SubConn!SingleStream) /\ (sys = "subSlow" => SubSlow!SingleStream)

\* The store holds no configuration of a target that has left the collector's tunnel: no
\* reconciliation writes it back (tunnel_server.go).
NoOrphanTarget == sys = "tunnel" => Store!Tun!NoOrphanTarget

\* What an output behind merge, group-by, add-tag and combine writes of a message names every
\* value and every delete of the message's events that have tags, also when several workers
\* of the output convert the messages.
MergeConserves == sys = "events" => Serving!Pipe!MergeConserves

\* Behind a rate limiter that runs in the writer (file, influxdb, clickhouse) two events with
\* the same tags that follow one another have the same timestamp or are 1/limit seconds
\* apart, however late events arrive.
RateLimitSpacing == sys = "events" => Serving!Pipe!RateLimitSpacing

\* An option of a gNMI message is not undone by another option after it (gnmi_msgs.go).
OptionsKept == sys = "requests" => Serving!Req!OptionsKept

\* A Get, Set or ONCE that the server or the proxy answers without error carries every
\* result of every selected target: none is still on its way to the collector goroutine.
AnswerComplete == sys = "relay" => Serving!AnswerComplete

\* Scrapes move forward: a series of the Prometheus output never goes back to an older
\* sample while it is exported, whichever worker stores it.
ScrapesMoveForward == [][sys = "prom" => Serving!Prom!NoScrapeBack]_sysVars
=============================================================================
