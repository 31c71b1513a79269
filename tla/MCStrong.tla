------------------------------ MODULE MCStrong ------------------------------
(***************************************************************************)
(* Rebalance, and small instances of the components whose progress rests   *)
(* on time as well: what is possible again and again is done in the end    *)
(* (strong fairness).  A behaviour is one of one of them (sys), so that    *)
(* one run of TLC checks them all: of Rebalance (the constants are its),   *)
(* or of an instance, whose variables are x1, x2, ... in the order of its  *)
(* module, while Rebalance rests.                                          *)
(***************************************************************************)
EXTENDS Rebalance

VARIABLES
  sys,  \* the system this behaviour is of
  x1, x2, x3, x4, x5, x6, x7, x8, x9, x10, x11, x12, x13, x14, x15, x16, x17, x18  \* its variables

others == <<x1, x2, x3, x4, x5, x6, x7, x8, x9, x10, x11, x12, x13, x14, x15, x16, x17, x18>>
sysVars == <<sys, vars, others>>

(* The variables beyond the first n: a system of n variables does not use them. *)

After14 == <<x15, x16, x17, x18>>
No14 == x15 = <<>> /\ x16 = <<>> /\ x17 = <<>> /\ x18 = <<>>
After10 == <<x11, x12, x13, x14, After14>>
No10 == x11 = <<>> /\ x12 = <<>> /\ x13 = <<>> /\ x14 = <<>> /\ No14
No0 == /\ x1 = <<>> /\ x2 = <<>> /\ x3 = <<>> /\ x4 = <<>> /\ x5 = <<>> /\ x6 = <<>> /\ x7 = <<>> /\ x8 = <<>>
       /\ x9 = <<>> /\ x10 = <<>> /\ No10

-----------------------------------------------------------------------------
\* No target has tags that a service shares.
NoTags(nodes) == [t \in {1, 2} |-> [n \in nodes |-> 0]]

-----------------------------------------------------------------------------
\* Two instances and two targets, with a drain or a rebalance.
Cluster == INSTANCE Cluster WITH
  N <- 2, Targets <- {1, 2}, MaxFaults <- 0, MaxOps <- 1,
  alive <- x1, asg <- x2, lock <- x3, known <- x4, tgts <- x5, created <- x6, job <- x7,
  api <- x8, faults <- x9, ops <- x10

\* Two instances and a target, with two crashes or failed calls beside the request.
Faulty == INSTANCE Cluster WITH
  N <- 2, Targets <- {1}, MaxFaults <- 2, MaxOps <- 1,
  alive <- x1, asg <- x2, lock <- x3, known <- x4, tgts <- x5, created <- x6, job <- x7,
  api <- x8, faults <- x9, ops <- x10

\* Two instances of the app, a fault and a drain.
App == INSTANCE AppCluster WITH
  Nodes <- {1, 2}, Targets <- {1}, TagMatch <- NoTags({1, 2}), HasLoader <- FALSE, Cut <- {}, Bad <- {},
  AppOps <- {"drain"}, MaxFaults <- 1, MaxOps <- 1,
  alive <- x1, reg <- x2, key <- x3, view <- x4, cfg <- x5, oper <- x6, w <- x7, fn <- x8,
  lock <- x9, d <- x10, want <- x11, ladd <- x12, faults <- x13, ops <- x14

\* An instance that never reaches the other, and a request.
AppCut == INSTANCE AppCluster WITH
  Nodes <- {1, 2}, Targets <- {1}, TagMatch <- NoTags({1, 2}), HasLoader <- FALSE, Cut <- {<<1, 2>>}, Bad <- {},
  AppOps <- {"rebalance", "yield", "resub"}, MaxFaults <- 0, MaxOps <- 1,
  alive <- x1, reg <- x2, key <- x3, view <- x4, cfg <- x5, oper <- x6, w <- x7, fn <- x8,
  lock <- x9, d <- x10, want <- x11, ladd <- x12, faults <- x13, ops <- x14

\* One instance with a loader, whose source drops the target.
AppLoader == INSTANCE AppCluster WITH
  Nodes <- {1}, Targets <- {1}, TagMatch <- NoTags({1}), HasLoader <- TRUE, Cut <- {}, Bad <- {},
  AppOps <- {"delete", "yield"}, MaxFaults <- 0, MaxOps <- 1,
  alive <- x1, reg <- x2, key <- x3, view <- x4, cfg <- x5, oper <- x6, w <- x7, fn <- x8,
  lock <- x9, d <- x10, want <- x11, ladd <- x12, faults <- x13, ops <- x14

\* The leader fails to initialise the target, and drains the other instance of it.
AppBad == INSTANCE AppCluster WITH
  Nodes <- {1, 2}, Targets <- {1}, TagMatch <- NoTags({1, 2}), HasLoader <- FALSE, Cut <- {}, Bad <- {<<1, 1>>},
  AppOps <- {"drain"}, MaxFaults <- 0, MaxOps <- 1,
  alive <- x1, reg <- x2, key <- x3, view <- x4, cfg <- x5, oper <- x6, w <- x7, fn <- x8,
  lock <- x9, d <- x10, want <- x11, ladd <- x12, faults <- x13, ops <- x14

\* Two targets, which the first instance holds both when the second comes back from a crash
\* before there was a leader: a drain, or a rebalance that moves one of them.
AppMoves == INSTANCE AppCluster WITH
  Nodes <- {1, 2}, Targets <- {1, 2}, TagMatch <- NoTags({1, 2}), HasLoader <- FALSE, Cut <- {}, Bad <- {},
  AppOps <- {"drain", "rebalance"}, MaxFaults <- 1, MaxOps <- 1,
  alive <- x1, reg <- x2, key <- x3, view <- x4, cfg <- x5, oper <- x6, w <- x7, fn <- x8,
  lock <- x9, d <- x10, want <- x11, ladd <- x12, faults <- x13, ops <- x14

\* A remote write output with two series, an Update to a larger buffer and a failure.
Write == INSTANCE RemoteWrite WITH
  MaxSeries <- 2, InBuf <- 1, Caps <- <<1, 2>>, Chunk <- 1, MaxMeta <- 1, MaxFails <- 1,
  nxt <- x1, wr <- x2, inq <- x3, ts <- x4, gen <- x5, drain <- x6, wk <- x7, wt <- x8,
  meta <- x9, mw <- x10, upd <- x11, life <- x12, fails <- x13, ended <- x14

\* Two subscriptions, ONCE or STREAM, and a failure.
Listener == INSTANCE AppListener WITH
  Subs <- {"a", "b"}, BufferSize <- 1, MaxFails <- 1,
  mode <- x1, pc <- x2, sent <- x3, resp <- x4, errs <- x5, lis <- x6, rem <- x7, stopped <- x8,
  got <- x9, fails <- x10

\* A subscription whose stream breaks, and which is applied or dropped.
Sub == INSTANCE Subscription WITH
  EvOps <- {"apply", "drop"}, ApiOps <- {}, MaxOps <- 1, MaxLoops <- 2, Slow <- FALSE, Cancels <- FALSE,
  conn <- x1, reg <- x2, cur <- x3, pc <- x4, strm <- x5, retry <- x6, sctx <- x7, nctx <- x8,
  chan <- x9, rd <- x10, first <- x11, ev <- x12, api <- x13, mt <- x14, listed <- x15,
  known <- x16, nloop <- x17, nops <- x18

-----------------------------------------------------------------------------

OthersInit ==
  \/ sys = "cluster" /\ Cluster!Init /\ No10
  \/ sys = "clusterFault" /\ Faulty!Init /\ No10
  \/ sys = "app" /\ App!Init /\ No14
  \/ sys = "appCut" /\ AppCut!Init /\ No14
  \/ sys = "appLoader" /\ AppLoader!Init /\ No14
  \/ sys = "appBad" /\ AppBad!Init /\ No14
  \/ sys = "appMoves" /\ AppMoves!Init /\ No14
  \/ sys = "write" /\ Write!Init /\ No14
  \/ sys = "listener" /\ Listener!Init /\ No10
  \/ sys = "subscription" /\ Sub!Init

\* A distribution of the targets for a plan nobody makes.
Resting == owner = [t \in Targets |-> 1]

SysInit ==
  /\ Init
  /\ \/ sys = "rebalance" /\ No0
     \/ Resting /\ OthersInit

\* Of app and appBad: the first instance leads until there is a fault (it is the one that
\* fails the target in appBad, and the instances of app are alike), and an instance that
\* is drained has the target.
Drains ==
  /\ x3' = 2 => x13 # 0
  /\ x14' # x14 => \E n \in {1, 2} : x10'[n]["asked"].todo # {}

OthersNext ==
  \/ sys = "cluster" /\ Cluster!Next /\ UNCHANGED After10
  \/ sys = "clusterFault" /\ Faulty!Next /\ UNCHANGED After10
  \/ sys = "app" /\ App!Next /\ Drains /\ UNCHANGED After14
  \/ sys = "appCut" /\ AppCut!Next /\ UNCHANGED After14
  \/ sys = "appLoader" /\ AppLoader!Next /\ UNCHANGED After14
  \/ sys = "appBad" /\ AppBad!Next /\ Drains /\ UNCHANGED After14
  \/ /\ sys = "appMoves" /\ AppMoves!Next /\ UNCHANGED After14
     /\ x13' # x13 => x3 = 0 /\ 2 \in x1 /\ 2 \notin x1'
  \/ sys = "write" /\ Write!Next /\ UNCHANGED After14
  \/ sys = "listener" /\ Listener!Next /\ UNCHANGED After10
  \/ sys = "subscription" /\ Sub!Next

SysNext ==
  /\ UNCHANGED sys
  /\ \/ sys = "rebalance" /\ Next /\ UNCHANGED others
     \/ OthersNext /\ UNCHANGED vars

\* The goroutines of the app and its cluster, as AppCluster!Fairness has them.  A behaviour
\* is of one system, so a condition on the steps of several systems is one on each of them.
AnyApp(a, b, c, e, f) ==
  \/ sys = "app" /\ a
  \/ sys = "appCut" /\ b
  \/ sys = "appLoader" /\ c
  \/ sys = "appBad" /\ e
  \/ sys = "appMoves" /\ f
AppIs(a, b, c, f) ==
  /\ sys = "app" => a
  /\ sys = "appCut" => b
  /\ sys = "appLoader" => c
  /\ sys = "appMoves" => f
AppFairness ==
  /\ WF_(App!vars)(AnyApp(App!KeyExpires, AppCut!KeyExpires, AppLoader!KeyExpires, AppBad!KeyExpires,
                          AppMoves!KeyExpires))
  /\ WF_(App!vars)(AnyApp(App!LockExpires(1), AppCut!LockExpires(1), AppLoader!LockExpires(1),
                          AppBad!LockExpires(1), AppMoves!LockExpires(1)))
  /\ WF_(App!vars)(sys = "appMoves" /\ AppMoves!LockExpires(2))
  /\ \A n \in {1, 2} :
       /\ WF_(App!vars)(AnyApp(App!Register(n), AppCut!Register(n), n = 1 /\ AppLoader!Register(n),
                               AppBad!Register(n), AppMoves!Register(n)))
       /\ WF_(App!vars)(AnyApp(App!ServiceExpires(n), AppCut!ServiceExpires(n), n = 1 /\ AppLoader!ServiceExpires(n),
                               AppBad!ServiceExpires(n), AppMoves!ServiceExpires(n)))
       /\ WF_(App!vars)(AnyApp(App!Restart(n), AppCut!Restart(n), n = 1 /\ AppLoader!Restart(n),
                               AppBad!Restart(n), AppMoves!Restart(n)))
       /\ WF_(App!vars)(AnyApp(App!StartCluster(n), AppCut!StartCluster(n), n = 1 /\ AppLoader!StartCluster(n),
                               AppBad!StartCluster(n), AppMoves!StartCluster(n)))
       /\ WF_(App!vars)(AnyApp(App!UpdateServices(n), AppCut!UpdateServices(n), n = 1 /\ AppLoader!UpdateServices(n),
                               AppBad!UpdateServices(n), AppMoves!UpdateServices(n)))
       /\ WF_(App!vars)(AnyApp(App!PassExpires(n), AppCut!PassExpires(n), n = 1 /\ AppLoader!PassExpires(n),
                               AppBad!PassExpires(n), AppMoves!PassExpires(n)))
       /\ WF_(App!vars)(AnyApp(App!MainThread(n), AppCut!MainThread(n), n = 1 /\ AppLoader!MainThread(n),
                               AppBad!MainThread(n), AppMoves!MainThread(n)))
       /\ WF_(App!vars)(AnyApp(App!Dispatcher(n, "loader") \/ App!LoaderAdd(n),
                               AppCut!Dispatcher(n, "loader") \/ AppCut!LoaderAdd(n),
                               n = 1 /\ (AppLoader!Dispatcher(n, "loader") \/ AppLoader!LoaderAdd(n)),
                               AppBad!Dispatcher(n, "loader") \/ AppBad!LoaderAdd(n),
                               AppMoves!Dispatcher(n, "loader") \/ AppMoves!LoaderAdd(n)))
       /\ \A k \in 1 .. 2 :
            /\ WF_(App!vars)(AnyApp(App!Worker(n, 1, k), AppCut!Worker(n, 1, k), n = 1 /\ AppLoader!Worker(n, 1, k),
                                    AppBad!Worker(n, 1, k), AppMoves!Worker(n, 1, k)))
            /\ WF_(App!vars)(sys = "appMoves" /\ AppMoves!Worker(n, 2, k))

\* Strong fairness is time: Lock of a free key answers within a retry interval of the app;
\* the cluster manager's loop comes to its ticker and its watch; a select that finds two
\* channels ready again and again takes either;
\* a dial that may succeed does in the end.
AppLock(n) ==
  AnyApp(\E k \in 1 .. 2 : App!WLock(n, 1, k), \E k \in 1 .. 2 : AppCut!WLock(n, 1, k),
         n = 1 /\ \E k \in 1 .. 2 : AppLoader!WLock(n, 1, k), \E k \in 1 .. 2 : AppBad!WLock(n, 1, k),
         \E k \in 1 .. 2 : AppMoves!WLock(n, 1, k))

Strong ==
  /\ AppFairness
  /\ SF_(Sub!vars)(\/ AppLock(1) /\ UNCHANGED After14
                   \/ sys = "cluster" /\ Cluster!WatchMembers /\ UNCHANGED After10
                   \/ sys = "clusterFault" /\ Faulty!WatchMembers /\ UNCHANGED After10
                   \/ sys = "write" /\ Write!HandleEvent(1) /\ UNCHANGED After14
                   \/ sys = "listener" /\ Listener!ListenResponse /\ UNCHANGED After10
                   \/ sys = "subscription" /\ (\E g \in 1 .. 2 : Sub!SendOk(g)))
  /\ SF_(Sub!vars)(\/ AppLock(2) /\ UNCHANGED After14
                   \/ sys = "cluster" /\ Cluster!Reconcile /\ UNCHANGED After10
                   \/ sys = "clusterFault" /\ Faulty!Reconcile /\ UNCHANGED After10
                   \/ sys = "write" /\ Write!HandleEvent(2) /\ UNCHANGED After14
                   \/ sys = "listener" /\ Listener!ListenError /\ UNCHANGED After10
                   \/ sys = "subscription" /\ (\E g \in 1 .. 2 : Sub!AttemptOk(g)))

\* The goroutines of the other components, as their modules' Fairness has them.
AnyOther(c, f, o, l, b) ==
  \/ sys = "cluster" /\ c /\ UNCHANGED After10
  \/ sys = "clusterFault" /\ f /\ UNCHANGED After10
  \/ sys = "write" /\ o /\ UNCHANGED After14
  \/ sys = "listener" /\ l /\ UNCHANGED After10
  \/ sys = "subscription" /\ b

SysFairness ==
  /\ WF_(Sub!vars)(AnyOther(Cluster!Push, Faulty!Push, Write!WriteReturn, Listener!ListenStop, Sub!EvStep))
  /\ WF_(Sub!vars)(AnyOther(Cluster!Api, Faulty!Api, Write!MetaWrite, Listener!Subscribe("a"), Sub!ApiStep))
  /\ WF_(Sub!vars)(AnyOther(Cluster!ExpireLock(1), Faulty!ExpireLock(1), Write!UpdateWait,
                            Listener!Subscribe("b"), FALSE))
  /\ WF_(Sub!vars)(AnyOther(Cluster!ExpireLock(2), FALSE, Write!UpdateDrain, FALSE, FALSE))
  /\ WF_(Sub!vars)(AnyOther(FALSE, FALSE, Write!Closing, FALSE, FALSE))
  /\ \A g \in 1 .. 2 :
       /\ WF_(Sub!vars)(AnyOther(\E m \in 1 .. 2 : Cluster!TakeLock(m, g),
                                 g = 1 /\ \E m \in 1 .. 2 : Faulty!TakeLock(m, g),
                                 Write!HandleProto(g), FALSE, Sub!SubscribeChan(g)))
       /\ WF_(Sub!vars)(AnyOther(Cluster!ReleaseLock(1, g), g = 1 /\ Faulty!ReleaseLock(1, g),
                                 Write!Sender(g), FALSE, Sub!Reader(g)))
       /\ WF_(Sub!vars)(AnyOther(Cluster!ReleaseLock(2, g), g = 1 /\ Faulty!ReleaseLock(2, g),
                                 Write!WriterQuit(g), FALSE, FALSE))
       /\ WF_(Sub!vars)(AnyOther(FALSE, FALSE, Write!WorkerQuit(g), FALSE, FALSE))
  /\ Strong

SysSpec == SysInit /\ [][SysNext]_sysVars /\ SysFairness

-----------------------------------------------------------------------------
\* Once crashes, failed calls and requests end, every target is and stays collected by a
\* running instance, whatever a drain or a rebalance left half done (reconcileAssignments).
AllCollected ==
  <>[]((sys = "cluster" => Cluster!Collected) /\ (sys = "clusterFault" => Faulty!Collected))

\* Dispatching, draining and rebalancing release the app's dispatchLock in the end,
\* whichever services refuse a target - but for a drain or a rebalance that hands its target
\* to a service which accepts it and fails to initialise it (appBad): that one is selected
\* again and again.
DispatchReturns ==
  \A n \in {1, 2} :
    []<>(/\ AppIs(App!DispatchIdle(n), AppCut!DispatchIdle(n), n = 1 => AppLoader!DispatchIdle(n),
                  AppMoves!DispatchIdle(n))
         /\ sys = "appBad" => AppBad!DispatchIdle(n))

\* A target that the app's leaders keep in their configuration is never left uncollected
\* for good, whatever faults and requests went before, where every service can start it.
NeverStranded ==
  \/ <>[]AppIs(App!Dropped(1), AppCut!Dropped(1), AppLoader!Dropped(1), AppMoves!Dropped(1))
  \/ []<>AppIs(App!Streamed(1), AppCut!Streamed(1), AppLoader!Streamed(1), AppMoves!Streamed(1))

\* What an open remote write output took in reaches the remote unless the output gave it
\* up: nothing stays behind in a buffer no writer reads, whatever Update came between.
Delivered == \A s \in 1 .. 2 : []<>(sys = "write" => Write!Through(s))

\* A stream that delivers is not left unexported for good, whatever the ONCE subscriptions beside it do and
\* however often either fails, unless the target is stopped (the app's listener).
StreamExported == \A s \in {"a", "b"} : []<>(sys = "listener" => Listener!Exported(s))

\* The subscription of a connected target comes back: its current loop receives, unless it
\* is stopped or the target is; and the event loop never gets stuck on a subscription.
Resubscribes ==
  (\A g \in 1 .. 2 : []<>(sys = "subscription" => Sub!Receives(g))) /\ []<>(sys = "subscription" => Sub!EventLoopIdle)
=============================================================================
