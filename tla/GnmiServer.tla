------------------------------ MODULE GnmiServer ------------------------------
(* The northbound gNMI Subscribe RPC, served from a cache, in its two          *)
(* implementations:                                                            *)
(*   "server"  pkg/gnmiserver over pkg/cache/oc_cache.go (collector and app):  *)
(*             readers take notifications from an unbuffered channel which     *)
(*             the cache's writers and its query goroutines send on;           *)
(*   "output"  pkg/outputs/gnmi_output: writers and queries insert leaves in   *)
(*             a coalescing queue per client, and one sender drains it.        *)
(* A leaf's value is the timestamp of the notification stored in it (0: none). *)
(* A client asks for every leaf with one subscription.                         *)
EXTENDS Integers, FiniteSets, Sequences, SequencesExt

CONSTANTS SrvKinds,   \* subset of {"server", "output"}
          Clients,
          Leaves,
          MaxTs,      \* updates received for each leaf
          SubModes,   \* subset of {"ONCE", "POLL", "STREAM", "SAMPLE"}
          UpdatesOnly,\* subset of BOOLEAN, the requests' updates_only
          Slots,      \* max-subscriptions
          MaxAsks     \* polls or sampling ticks of one client

VARIABLES srv, wr, rcvd, leaf, pc, mode, uo, gone, todo, item, queue, reg,
          view, synced, base, orphan, asks

cacheVars == <<wr, rcvd, leaf>>
vars == <<srv, wr, rcvd, leaf, pc, mode, uo, gone, todo, item, queue, reg,
          view, synced, base, orphan, asks>>

NoItem == [l |-> "none", ts |-> 0]
SyncMarker == "sync"
NoLeaf == [l \in Leaves |-> 0]

Init ==
  /\ srv \in SrvKinds
  /\ wr = {} /\ rcvd = NoLeaf /\ leaf = NoLeaf
  /\ pc = [c \in Clients |-> "idle"]
  /\ mode \in [Clients -> SubModes]
  /\ uo \in [Clients -> UpdatesOnly]
  /\ gone = [c \in Clients |-> FALSE]
  /\ todo = [c \in Clients |-> {}]
  /\ item = [c \in Clients |-> NoItem]
  /\ queue = [c \in Clients |-> <<>>]
  /\ reg = [c \in Clients |-> FALSE]
  /\ view = [c \in Clients |-> NoLeaf]
  /\ synced = [c \in Clients |-> FALSE]
  /\ base = [c \in Clients |-> NoLeaf]
  /\ orphan = {}
  /\ asks = [c \in Clients |-> 0]

Streams(c) == mode[c] \in {"STREAM", "SAMPLE"}

-------------------------------------------------------------------------------
(* The cache: one goroutine per received message. The leaf is stored, then the *)
(* match tree calls every registered client under its read lock.               *)

Receive(l) ==
  /\ rcvd[l] < MaxTs
  /\ rcvd' = [rcvd EXCEPT ![l] = @ + 1]
  /\ wr' = wr \cup {[l |-> l, ts |-> rcvd[l] + 1, ph |-> "write", to |-> {}]}
  /\ UNCHANGED <<srv, leaf, pc, mode, uo, gone, todo, item, queue, reg, view,
                 synced, base, orphan, asks>>

\* The query goroutine of c waits to send on its channel, inside the walk of the cache's tree
\* and so with the tree's read locks (an orphan for ever).
Walking(c) == srv = "server" /\ (item[c] # NoItem \/ c \in orphan)

\* GnmiUpdate refuses a notification older than the leaf's.  While a walk waits, a store may
\* have to wait for a lock of the tree: it depends on the leaves, so Store stays possible
\* and is not sure to happen (Sure).
MayWait(w) == w.ph = "write" /\ \E c \in Clients : Walking(c)
Store(w) ==
  /\ w.ph = "write"
  /\ IF w.ts > leaf[w.l]
       THEN /\ leaf' = [leaf EXCEPT ![w.l] = w.ts]
            /\ wr' = (wr \ {w}) \cup {[w EXCEPT !.ph = "notify"]}
       ELSE /\ wr' = wr \ {w}
            /\ UNCHANGED leaf
  /\ UNCHANGED <<srv, rcvd, pc, mode, uo, gone, todo, item, queue, reg, view,
                 synced, base, orphan, asks>>

\* A goroutine waiting for the tree's write lock keeps new readers out.
LockWanted == \E c \in Clients : pc[c] \in {"register", "removing"}
Matching == \E w \in wr : w.ph = "match"

\* coalesce.Queue.Insert: a leaf already queued is not queued again.
Insert(q, x) == IF x \in Range(q) THEN q ELSE Append(q, x)

\* Mutant: a client still waiting for its sync response is left out.
SyncedClients == {c \in Clients : reg[c] /\ synced[c]}
Matched == {c \in Clients : reg[c]}

Match(w) ==
  LET to == Matched IN
  /\ w.ph = "notify" /\ ~LockWanted
  /\ IF srv = "output" \/ to = {}
       THEN /\ queue' = [c \in Clients |-> IF c \in to THEN Insert(queue[c], w.l) ELSE queue[c]]
            /\ wr' = wr \ {w}
       ELSE /\ wr' = (wr \ {w}) \cup {[w EXCEPT !.ph = "match", !.to = to]}
            /\ UNCHANGED queue
  /\ UNCHANGED <<srv, rcvd, leaf, pc, mode, uo, gone, todo, item, reg, view,
                 synced, base, orphan, asks>>

\* What a client knows of a leaf is the newest value it was sent.
Seen(c, l, ts) == [view EXCEPT ![c][l] = IF ts > @ THEN ts ELSE @]

\* Mutant: the reader stops at the first send that fails.
StopsReading(c) == pc[c] \in {"live", "removing"} /\ ~gone[c]
Reading(c) == pc[c] \in {"live", "removing"}

\* matchClient.Update hands the leaf's value over, and the reader sends it: a
\* send fails once the client is gone, and the reader goes on reading.
Deliver(w, c) ==
  /\ w.ph = "match" /\ c \in w.to
  /\ Reading(c)
  /\ LET left == w.to \ {c} IN
       wr' = (wr \ {w}) \cup (IF left = {} THEN {} ELSE {[w EXCEPT !.to = left]})
  /\ \E ts \in {w.ts, leaf[w.l]} :
       view' = IF gone[c] THEN view ELSE Seen(c, w.l, ts)
  /\ UNCHANGED <<srv, rcvd, leaf, pc, mode, uo, gone, todo, item, queue, reg,
                 synced, base, orphan, asks>>

-------------------------------------------------------------------------------
(* One Subscribe RPC. *)

Connect(c) ==
  /\ pc[c] = "idle"
  /\ pc' = [pc EXCEPT ![c] = "sem"]
  /\ UNCHANGED <<srv, cacheVars, mode, uo, gone, todo, item, queue, reg, view,
                 synced, base, orphan, asks>>

\* The client cancels, or its connection breaks: the stream's context is done.
Cancel(c) ==
  /\ pc[c] \notin {"idle", "ended"} /\ ~gone[c]
  /\ gone' = [gone EXCEPT ![c] = TRUE]
  /\ UNCHANGED <<srv, cacheVars, pc, mode, uo, todo, item, queue, reg, view,
                 synced, base, orphan, asks>>

Holders == {c \in Clients : pc[c] \notin {"idle", "sem", "ended"}}

\* Serves a request for the current state: the query walks the leaves.
StartQuery(c) ==
  /\ todo' = [todo EXCEPT ![c] = Leaves]
  /\ base' = [base EXCEPT ![c] = leaf]
  /\ synced' = [synced EXCEPT ![c] = FALSE]

AcquireServer(c) ==
  /\ srv = "server" /\ pc[c] = "sem"
  /\ IF gone[c]
       THEN pc' = [pc EXCEPT ![c] = "ended"] /\ UNCHANGED <<todo, base, synced>>
       ELSE /\ Cardinality(Holders) < Slots
            /\ IF uo[c] /\ Streams(c)
                 THEN pc' = [pc EXCEPT ![c] = "sync"] /\ UNCHANGED <<todo, base, synced>>
                 ELSE pc' = [pc EXCEPT ![c] = "initial"] /\ StartQuery(c)
  /\ UNCHANGED <<srv, cacheVars, mode, uo, gone, item, queue, reg, view, orphan, asks>>

\* TryAcquire: ResourceExhausted when every slot is taken. A STREAM client is
\* registered in the match tree before its query starts.
AcquireOutput(c) ==
  /\ srv = "output" /\ pc[c] = "sem"
  /\ pc' = [pc EXCEPT ![c] = IF gone[c] \/ Cardinality(Holders) >= Slots THEN "ended"
                             ELSE IF Streams(c) THEN "register" ELSE "serve"]
  /\ IF pc'[c] = "serve"
       THEN StartQuery(c)
       ELSE UNCHANGED <<todo, base, synced>>
  /\ queue' = [queue EXCEPT ![c] = IF pc'[c] = "register" /\ uo[c] THEN <<SyncMarker>> ELSE @]
  /\ UNCHANGED <<srv, cacheVars, mode, uo, gone, item, reg, view, orphan, asks>>

\* AddQuery, under the match tree's write lock; "output" then starts the query.
Register(c) ==
  /\ pc[c] = "register" /\ ~Matching
  /\ reg' = [reg EXCEPT ![c] = TRUE]
  /\ pc' = [pc EXCEPT ![c] = IF srv = "output" THEN "serve" ELSE "live"]
  /\ IF srv = "output" /\ ~uo[c] THEN StartQuery(c) ELSE UNCHANGED <<todo, base, synced>>
  /\ UNCHANGED <<srv, cacheVars, mode, uo, gone, item, queue, view, orphan, asks>>

\* A writer that waits for the tree's lock keeps new readers out.
KeptOut(c) == \E d \in Clients \ {c} : Walking(d) /\ \E w \in wr : MayWait(w)

\* The query goroutine visits a leaf: "server" sends its value on the channel
\* and waits, "output" queues the leaf.
Query(c, l) ==
  /\ l \in todo[c] /\ c \notin orphan
  /\ item[c] = NoItem
  /\ todo' = [todo EXCEPT ![c] = @ \ {l}]
  /\ item' = [item EXCEPT ![c] = IF srv = "server" /\ leaf[l] # 0 THEN [l |-> l, ts |-> leaf[l]] ELSE @]
  /\ queue' = [queue EXCEPT ![c] =
                 LET q == IF leaf[l] # 0 THEN Insert(@, l) ELSE @ IN
                 IF srv = "server" THEN @ ELSE IF todo'[c] = {} THEN Insert(q, SyncMarker) ELSE q]
  /\ UNCHANGED <<srv, cacheVars, pc, mode, uo, gone, reg, view, synced, base, orphan, asks>>

\* The reader of a "server" query takes the item and sends it. A failing send
\* ends the initial phase at once, with the query goroutine left at its channel
\* and with its locks when it had more to send; a live reader goes on.
SendItem(c) ==
  /\ srv = "server" /\ item[c] # NoItem /\ c \notin orphan
  /\ IF gone[c]
       THEN /\ pc' = [pc EXCEPT ![c] = IF @ = "initial" THEN "ended" ELSE @]
            /\ orphan' = IF pc[c] = "initial" /\ \E l \in todo[c] : leaf[l] # 0
                           THEN orphan \cup {c} ELSE orphan
            /\ todo' = [todo EXCEPT ![c] = IF pc[c] = "initial" THEN {} ELSE @]
            /\ UNCHANGED view
       ELSE /\ view' = Seen(c, item[c].l, item[c].ts)
            /\ UNCHANGED <<pc, orphan, todo>>
  /\ item' = [item EXCEPT ![c] = NoItem]
  /\ UNCHANGED <<srv, cacheVars, mode, uo, gone, queue, reg, synced, base, asks>>

\* The query's channel is closed: the sync response. Then ONCE ends, POLL waits
\* for the next poll, STREAM registers for the changes, SAMPLE for its ticks.
Sync(c) ==
  /\ srv = "server"
  /\ \/ pc[c] = "sync"
     \/ pc[c] = "initial" /\ todo[c] = {} /\ item[c] = NoItem
  /\ pc' = [pc EXCEPT ![c] = IF gone[c] \/ mode[c] = "ONCE" THEN "ended"
                             ELSE IF mode[c] = "POLL" THEN "poll"
                             ELSE IF mode[c] = "STREAM" THEN "register" ELSE "live"]
  /\ synced' = [synced EXCEPT ![c] = ~gone[c]]
  /\ UNCHANGED <<srv, cacheVars, mode, uo, gone, todo, item, queue, reg, view, base, orphan, asks>>

\* handlePolledSubscription: Recv fails once the client is gone. The client
\* polls again when it has had the sync response of its last poll.
Poll(c) ==
  /\ mode[c] = "POLL" /\ asks[c] < MaxAsks /\ synced[c]
  /\ \/ srv = "server" /\ pc[c] = "poll" /\ pc' = [pc EXCEPT ![c] = "initial"]
     \/ srv = "output" /\ pc[c] = "serve" /\ todo[c] = {} /\ pc' = pc
  /\ ~gone[c]
  /\ asks' = [asks EXCEPT ![c] = @ + 1]
  /\ StartQuery(c)
  /\ UNCHANGED <<srv, cacheVars, mode, uo, gone, item, queue, reg, view, orphan>>

PollEnds(c) ==
  /\ srv = "server" /\ pc[c] = "poll" /\ gone[c]
  /\ pc' = [pc EXCEPT ![c] = "ended"]
  /\ UNCHANGED <<srv, cacheVars, mode, uo, gone, todo, item, queue, reg, view, synced, base, orphan, asks>>

\* handleSampledQuery's ticker: a sampled subscription, or the heartbeat.
Tick(c) ==
  /\ srv = "server" /\ pc[c] = "live" /\ todo[c] = {} /\ item[c] = NoItem
  /\ asks[c] < MaxAsks /\ ~gone[c]
  /\ asks' = [asks EXCEPT ![c] = @ + 1]
  /\ todo' = [todo EXCEPT ![c] = Leaves]
  /\ UNCHANGED <<srv, cacheVars, pc, mode, uo, gone, item, queue, reg, view, synced, base, orphan>>

\* The context is done: the cache's read ends with remove(), which waits for
\* the match tree's lock. The RPC returns when its reader's channel is closed.
LeaveLive(c) ==
  /\ srv = "server" /\ pc[c] = "live" /\ gone[c] /\ todo[c] = {} /\ item[c] = NoItem
  /\ pc' = [pc EXCEPT ![c] = "removing"]
  /\ UNCHANGED <<srv, cacheVars, mode, uo, gone, todo, item, queue, reg, view, synced, base, orphan, asks>>

RemoveQuery(c) ==
  /\ pc[c] = "removing" /\ ~Matching
  /\ reg' = [reg EXCEPT ![c] = FALSE]
  /\ pc' = [pc EXCEPT ![c] = "ended"]
  /\ UNCHANGED <<srv, cacheVars, mode, uo, gone, todo, item, queue, view, synced, base, orphan, asks>>

\* sendStreamingResults: the value of a queued leaf is read when it is sent.
SendQueued(c) ==
  /\ srv = "output" /\ pc[c] = "serve" /\ queue[c] # <<>> /\ ~gone[c]
  /\ queue' = [queue EXCEPT ![c] = Tail(@)]
  /\ IF Head(queue[c]) = SyncMarker
       THEN synced' = [synced EXCEPT ![c] = TRUE] /\ UNCHANGED view
       ELSE view' = Seen(c, Head(queue[c]), leaf[Head(queue[c])]) /\ UNCHANGED synced
  /\ UNCHANGED <<srv, cacheVars, pc, mode, uo, gone, todo, item, reg, base, orphan, asks>>

\* The sender returns: the queue of a ONCE request is closed and empty, or the
\* context is done. The deferred remove() follows.
SenderEnds(c) ==
  /\ srv = "output" /\ pc[c] = "serve"
  /\ \/ gone[c]
     \/ mode[c] = "ONCE" /\ todo[c] = {} /\ queue[c] = <<>>
  /\ pc' = [pc EXCEPT ![c] = "removing"]
  /\ todo' = [todo EXCEPT ![c] = {}]
  /\ UNCHANGED <<srv, cacheVars, mode, uo, gone, item, queue, reg, view, synced, base, orphan, asks>>

Serves(c) ==
  \/ AcquireServer(c) \/ AcquireOutput(c) \/ Register(c)
  \/ SendItem(c) \/ Sync(c) \/ PollEnds(c) \/ LeaveLive(c) \/ RemoveQuery(c)
  \/ SendQueued(c) \/ SenderEnds(c)

Handler(c) == Serves(c) \/ \E l \in Leaves : Query(c, l)

Writer(w) == Store(w) \/ Match(w) \/ \E c \in Clients : Deliver(w, c)

Next ==
  \/ \E l \in Leaves : Receive(l)
  \/ \E w \in wr : Writer(w)
  \/ \E c \in Clients : Connect(c) \/ Cancel(c) \/ Poll(c) \/ Tick(c) \/ Handler(c)

\* Every goroutine that no lock keeps waiting goes on; a client that is still there reads.
Sure(c) == Serves(c) \/ (~KeptOut(c) /\ \E l \in Leaves : Query(c, l))
WriterOf(l, t) == \E w \in wr : w.l = l /\ w.ts = t /\ ~MayWait(w) /\ Writer(w)
Fairness ==
  /\ \A c \in Clients : WF_vars(Sure(c))
  /\ \A l \in Leaves, t \in 1 .. MaxTs : WF_vars(WriterOf(l, t))

Spec == Init /\ [][Next]_vars
FairSpec == Spec /\ Fairness

-------------------------------------------------------------------------------
(* A STREAM client that asked for the current state and has had its sync       *)
(* response ends up with the cache's value of every leaf, whatever updates     *)
(* arrived while it was being set up.                                          *)
UpToDate(c) == mode[c] = "STREAM" /\ ~uo[c] /\ synced[c] /\ ~gone[c] => view[c] = leaf
StreamConverges == \A c \in Clients : <>[]UpToDate(c)

(* So it is for the gNMI output, which registers the client first.             *)
OutputUpToDate(c) == srv = "output" => UpToDate(c)
OutputConverges == \A c \in Clients : <>[]OutputUpToDate(c)

(* A query goroutine whose reader returned holds the tree's locks for ever, and *)
(* a writer waits for them: with it every later writer and query may wait.     *)
Wedged == orphan # {} /\ \E w \in wr : MayWait(w)

(* The RPC of a client that went away returns and gives its slot back, and no  *)
(* cache writer stays blocked on a reader that stopped reading - until a       *)
(* reader that returned in its initial phase has wedged the cache.             *)
Ended(c) == gone[c] => pc[c] = "ended" \/ Wedged
Written == wr = {} \/ Wedged
StreamEnds == (\A c \in Clients : []<>Ended(c)) /\ []<>Written
===============================================================================
