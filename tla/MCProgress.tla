----------------------------- MODULE MCProgress -----------------------------
(***************************************************************************)
(* OutputPool, and small instances of the other components that make       *)
(* progress because their goroutines run (weak fairness).  A behaviour is  *)
(* one of one of them (sys), so that one run of TLC checks them all: of    *)
(* OutputPool (the constants are its: an output of every type, two         *)
(* messages and an Update), or of an instance, whose variables are x1,     *)
(* x2, ... in the order of its module, while OutputPool rests.             *)
(***************************************************************************)
EXTENDS OutputPool, TLC

VARIABLES
  sys,  \* the system this behaviour is of
  x1, x2, x3, x4, x5, x6, x7, x8, x9, x10, x11, x12, x13, x14, x15, x16, x17  \* its variables

others == <<x1, x2, x3, x4, x5, x6, x7, x8, x9, x10, x11, x12, x13, x14, x15, x16, x17>>
sysVars == <<sys, vars, others>>

(* The variables beyond the first n: a system of n variables does not use them. *)

After16 == <<x17>>
No16 == x17 = <<>>
After15 == <<x16, After16>>
No15 == x16 = <<>> /\ No16
After14 == <<x15, After15>>
No14 == x15 = <<>> /\ No15
After12 == <<x13, x14, After14>>
No12 == x13 = <<>> /\ x14 = <<>> /\ No14
After9 == <<x10, x11, x12, After12>>
No9 == x10 = <<>> /\ x11 = <<>> /\ x12 = <<>> /\ No12
After8 == <<x9, After9>>
No8 == x9 = <<>> /\ No9
No0 == x1 = <<>> /\ x2 = <<>> /\ x3 = <<>> /\ x4 = <<>> /\ x5 = <<>> /\ x6 = <<>> /\ x7 = <<>> /\ x8 = <<>> /\ No8

-----------------------------------------------------------------------------
(* Values of the constants. *)

\* Configurations of an output and of an input: another capacity, number of workers, address.
OutConf(cap, workers, addr) == [cap |-> cap, workers |-> workers, addr |-> addr]
InConf(workers, addr, to) == [workers |-> workers, addr |-> addr, outs |-> to]
Run(cmd, reqs, prints) == [cmd |-> cmd, reqs |-> reqs, prints |-> prints]

\* An output's configuration, and those an Update brings.
FirstConf == OutConf(1, 1, "a")
LaterConfs == {OutConf(2, 1, "a"), OutConf(1, 1, "b"), OutConf(1, 2, "a")}

-----------------------------------------------------------------------------
\* Two instances register and the leader watches, with two faults.
Registration == INSTANCE Registration WITH
  Instances <- {"a", "b"}, Watcher <- "a", RegKinds <- {"consul", "redis", "k8s"}, MaxFaults <- 2,
  kind <- x1, up <- x2, caller <- x3, svc <- x4, idx <- x5, wait <- x6, cached <- x7,
  changes <- x8, prev <- x9, watch <- x10, snap <- x11, relay <- x12, members <- x13,
  faults <- x14

\* Two targets whose source changes, with a failure.
Loaders == INSTANCE Loaders WITH
  Names <- {"n1", "n2"}, MaxVer <- 2, LKinds <- {"file", "http", "docker", "consul"},
  Takers <- {"app"}, HasActions <- {TRUE, FALSE}, FailingActs <- {"add"}, MaxChanges <- 1, MaxLFails <- 1,
  lkind <- x1, taker <- x2, hasActs <- x3, src <- x4, idx <- x5, wait <- x6, last <- x7,
  pc <- x8, op <- x9, todo <- x10, res <- x11, expired <- x12, cop <- x13, have <- x14,
  changes <- x15, lfails <- x16

\* Every one-shot command on two targets that may fail.
Commands == INSTANCE Commands WITH
  Targets <- {"a", "b"}, Ref <- "a",
  Runs <- {Run(c, 1, p) : c \in {"capabilities", "get", "get-event", "set", "getset", "diff", "diff-sub"},
                          p \in BOOLEAN}
          \cup {Run("set", r, p) : r \in 2 .. 3, p \in BOOLEAN} \cup {Run("once", 2, FALSE)},
  run <- x1, main <- x2, at <- x3, pend <- x4, slots <- x5, closed <- x6, answers <- x7,
  panic <- x8

\* An input of every type, a message, an Update and a failure.
Inputs == INSTANCE InputPool WITH
  Kinds <- {"nats", "jetstream", "kafka"}, MaxGen <- 2, MaxMsgs <- 1, MaxFails <- 1, PipeCap <- 1,
  InConf0 <- InConf(1, "a", "x"),
  InConfs <- {InConf(1, "a", "x"), InConf(2, "b", "x"), InConf(1, "a", "y")},
  kind <- x1, cfg <- x2, gen <- x3, cancelled <- x4, wg <- x5, w <- x6, extra <- x7, upd <- x8,
  life <- x9, published <- x10, offset <- x11, pipe <- x12, fate <- x13, fails <- x14,
  raced <- x15

\* Two instances that share a cache, a lost announcement and a restart.
Cache == INSTANCE RemoteCache WITH
  RcKinds <- {"nats", "redis", "jetstream"}, Instances <- {"i1", "i2"}, SubNames <- {"s"},
  Collects <- ("i1" :> {"s"}) @@ ("i2" :> {}), NamePrefixes <- {<<"s", "sx">>}, MaxLost <- 1, MaxRestarts <- 1,
  rc <- x1, announced <- x2, inbox <- x3, syncing <- x4, following <- x5, holds <- x6,
  writing <- x7, lost <- x8, restarts <- x9

\* A client of the gNMI output, two leaves.
GnmiOut == INSTANCE GnmiServer WITH
  SrvKinds <- {"output"}, Clients <- {"a"}, Leaves <- {"x", "y"}, MaxTs <- 1,
  SubModes <- {"ONCE", "POLL", "STREAM", "SAMPLE"}, UpdatesOnly <- {FALSE, TRUE}, Slots <- 1, MaxAsks <- 1,
  srv <- x1, wr <- x2, rcvd <- x3, leaf <- x4, pc <- x5, mode <- x6, uo <- x7, gone <- x8,
  todo <- x9, item <- x10, queue <- x11, reg <- x12, view <- x13, synced <- x14, base <- x15,
  orphan <- x16, asks <- x17

\* A client of either server, two updates of a leaf.
Server == INSTANCE GnmiServer WITH
  SrvKinds <- {"server", "output"}, Clients <- {"a"}, Leaves <- {"x"}, MaxTs <- 2,
  SubModes <- {"ONCE", "POLL", "STREAM", "SAMPLE"}, UpdatesOnly <- {FALSE, TRUE}, Slots <- 1, MaxAsks <- 1,
  srv <- x1, wr <- x2, rcvd <- x3, leaf <- x4, pc <- x5, mode <- x6, uo <- x7, gone <- x8,
  todo <- x9, item <- x10, queue <- x11, reg <- x12, view <- x13, synced <- x14, base <- x15,
  orphan <- x16, asks <- x17

\* Two clients of the server, the second when the first has gone away, and a leaf that comes
\* after a reader left.
Walks == INSTANCE GnmiServer WITH
  SrvKinds <- {"server"}, Clients <- {"a", "b"}, Leaves <- {"x", "y", "z"}, MaxTs <- 1,
  SubModes <- {"ONCE"}, UpdatesOnly <- {FALSE}, Slots <- 1, MaxAsks <- 1,
  srv <- x1, wr <- x2, rcvd <- x3, leaf <- x4, pc <- x5, mode <- x6, uo <- x7, gone <- x8,
  todo <- x9, item <- x10, queue <- x11, reg <- x12, view <- x13, synced <- x14, base <- x15,
  orphan <- x16, asks <- x17

-----------------------------------------------------------------------------

SysInit ==
  /\ Init
  /\ \/ sys = "outputs" /\ No0
     \/ sys = "registration" /\ Registration!Init /\ No14
     \/ sys = "loaders" /\ Loaders!Init /\ No16
     \/ sys = "commands" /\ Commands!Init /\ No8
     \/ sys = "pool" /\ Inputs!Init /\ No15
     \/ sys = "cache" /\ Cache!Init /\ No9
     \/ sys = "gnmiOutput" /\ GnmiOut!Init
     \/ sys = "gnmi" /\ Server!Init
     \/ sys = "gnmiWalks" /\ Walks!Init
  /\ sys # "outputs" => kind = CHOOSE k \in Kinds : TRUE

OthersNext ==
  \/ sys = "registration" /\ Registration!Next /\ UNCHANGED After14
  \/ sys = "loaders" /\ Loaders!Next /\ UNCHANGED After16
  \/ sys = "commands" /\ Commands!Next /\ UNCHANGED After8
  \/ sys = "pool" /\ Inputs!Next /\ UNCHANGED After15
  \/ sys = "cache" /\ Cache!Next /\ UNCHANGED After9
  \/ sys = "gnmiOutput" /\ GnmiOut!Next
  \/ sys = "gnmi" /\ Server!Next
  \/ sys = "gnmiWalks" /\ Walks!Next /\ (x5'["b"] # "idle" => x8["a"])

SysNext ==
  /\ UNCHANGED sys
  /\ \/ sys = "outputs" /\ Next /\ UNCHANGED others
     \/ OthersNext /\ UNCHANGED vars

\* The gNMI servers, as GnmiServer!Fairness has them.  A behaviour is of one system, so a
\* condition on the steps of several systems is one on each of them.
AnyServer(a, b, c) == (sys = "gnmiOutput" /\ a) \/ (sys = "gnmi" /\ b) \/ (sys = "gnmiWalks" /\ c)
ServerFairness ==
  /\ WF_(Server!vars)(AnyServer(GnmiOut!Sure("a"), Server!Sure("a"), Walks!Sure("a")))
  /\ WF_(Server!vars)(AnyServer(GnmiOut!WriterOf("x", 1), Server!WriterOf("x", 1), Walks!WriterOf("x", 1)))
  /\ WF_(Server!vars)(AnyServer(GnmiOut!WriterOf("y", 1), Server!WriterOf("x", 2), Walks!WriterOf("y", 1)))
  /\ WF_(Server!vars)(AnyServer(FALSE, FALSE, Walks!WriterOf("z", 1)))
  /\ WF_(Server!vars)(AnyServer(FALSE, FALSE, Walks!Sure("b")))

SysFairness ==
  /\ \A i \in {"a", "b"} : WF_(Registration!vars)(sys = "registration" /\ Registration!Registrar(i))
  /\ \A i \in {"a", "b"} : WF_(Registration!vars)(sys = "registration" /\ Registration!Expire(i))
  /\ WF_(Registration!vars)(sys = "registration" /\ Registration!EndpointSlices)
  /\ WF_(Registration!vars)(sys = "registration" /\ Registration!Informer)
  /\ WF_(Registration!vars)(sys = "registration" /\ Registration!Watching)
  /\ WF_(Loaders!vars)(sys = "loaders" /\ Loaders!LoaderStep)
  /\ WF_(Loaders!vars)(sys = "loaders" /\ Loaders!TakerStep)
  /\ WF_(Commands!vars)(sys = "commands" /\ Commands!Main)
  /\ \A t \in {"a", "b"} : WF_(Commands!vars)(sys = "commands" /\ Commands!Running(t))
  /\ WF_vars(sys = "outputs" /\ AwaitOld)
  /\ WF_vars(sys = "outputs" /\ Drain)
  /\ WF_vars(sys = "outputs" /\ KafkaDrain)
  /\ WF_vars(sys = "outputs" /\ PrometheusDrain)
  /\ WF_vars(sys = "outputs" /\ StartNew)
  /\ WF_vars(sys = "outputs" /\ Closing)
  /\ WF_vars(sys = "outputs" /\ Write)
  /\ \A g \in Gens, i \in Slots : WF_vars(sys = "outputs" /\ Works(g, i))
  /\ \A g \in Gens, i \in Slots : WF_vars(sys = "outputs" /\ GivesUp(g, i))
  /\ WF_(Inputs!vars)(sys = "pool" /\ Inputs!UpdateEnd)
  /\ WF_(Inputs!vars)(sys = "pool" /\ Inputs!CloseEnd)
  /\ \A g \in 1 .. 2, i \in 1 .. 2 : WF_(Inputs!vars)(sys = "pool" /\ Inputs!WorkerStep(g, i))
  /\ \A i \in {"i1", "i2"} : WF_(Cache!vars)(sys = "cache" /\ Cache!ResetAnnounced(i))
  /\ \A i \in {"i1", "i2"} : WF_(Cache!vars)(sys = "cache" /\ Cache!WriteHands(i, "s"))
  /\ \A i \in {"i1", "i2"} : WF_(Cache!vars)(sys = "cache" /\ Cache!WritePublishes(i, "s"))
  /\ \A i \in {"i1", "i2"} : WF_(Cache!vars)(sys = "cache" /\ Cache!Announced(i, "s"))
  /\ \A i \in {"i1", "i2"} : WF_(Cache!vars)(sys = "cache" /\ Cache!Follow(i, "s"))
  /\ ServerFairness

SysSpec == SysInit /\ [][SysNext]_sysVars /\ SysFairness

-----------------------------------------------------------------------------
\* The leader ends up with exactly the instances that run as its members, however
\* registrations fail, expire and come back (WatchServices, membership.Watch).
MembersConverge == <>[](sys = "registration" => Registration!Current)

\* The targets configured become those of the loader's source, whatever reads and on-add
\* actions failed on the way; exempt are a hung loader, and with Consul failed actions and a
\* service without instances.
LoaderConverges == <>[](sys = "loaders" => Loaders!Follows)

\* Whatever fails for whichever targets, a one-shot command comes to its end: no goroutine
\* is stuck on an errCh that is only read after all of them are done.  Exempt are a target
\* that subscribe once cannot reach, a once stream without an end, and a full errCh of the
\* set and getset commands that can have more to report than it holds.
CommandReturns == []<>(sys = "commands" => Commands!Returned)

\* An Update that restarts an input's workers, and its Close, return: unless a worker was
\* not yet scheduled when the wait group was swapped, or a claimed Kafka message has no one
\* left to take it.
InputReturns == []<>(sys = "pool" => Inputs!InputReturned)

\* Whatever announcements are lost and whichever instances restart, every instance ends up
\* holding every subscription some instance collects (nats and redis caches).
CacheSpreads == <>[](sys = "cache" => Cache!SpreadOrOnce)

\* A STREAM client of the gNMI output that has had its sync response ends up with the
\* cache's value of every leaf, whatever updates arrived while it was being set up.
OutputConverges ==
  <>[](/\ sys = "gnmiOutput" => GnmiOut!OutputUpToDate("a")
       /\ sys = "gnmi" => Server!OutputUpToDate("a"))

\* The RPC of a client that went away returns and gives its slot back, and no cache writer
\* stays blocked on a reader that stopped reading - until a reader of the gNMI server that
\* returned in its initial phase has wedged the cache.
StreamEnds ==
  /\ []<>(/\ sys = "gnmiOutput" => GnmiOut!Ended("a")
          /\ sys = "gnmi" => Server!Ended("a")
          /\ sys = "gnmiWalks" => Walks!Ended("a"))
  /\ []<>(sys = "gnmiWalks" => Walks!Ended("b"))
  /\ []<>(/\ sys = "gnmiOutput" => GnmiOut!Written
          /\ sys = "gnmi" => Server!Written
          /\ sys = "gnmiWalks" => Walks!Written)
=============================================================================
