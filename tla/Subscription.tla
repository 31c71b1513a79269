---------------------------- MODULE Subscription ----------------------------
(***************************************************************************)
(* One subscription of one managed target: the SubscribeChan goroutine     *)
(* that keeps a Subscribe RPC open (pkg/api/target/subscribe.go), the      *)
(* reader the targets manager attaches to it, and the callers that stop,   *)
(* replace and restart the pair: the event loop (subscription events and   *)
(* target updates) and an API handler (SetIntendedState).                  *)
(*                                                                         *)
(* Every call of startTargetSubscription makes a new SubscribeChan         *)
(* goroutine, here a loop.  A loop has a context (sctx) and each of its    *)
(* attempts a child of it (nctx).  The target keeps one cancel function    *)
(* per subscription name, whichever loop registered it.                    *)
(*                                                                         *)
(* tm.mu is a Go RWMutex: a writer that waits keeps new readers out.       *)
(***************************************************************************)
EXTENDS Naturals, FiniteSets

CONSTANTS
  EvOps,    \* what the event loop is asked: apply, removeSub, add, drop, reconnect
  ApiOps,   \* what the API is asked: enable, disable
  MaxOps,   \* bound: operations of the event loop and the API together
  MaxLoops, \* bound: calls of startTargetSubscription, the first included
  Slow,     \* TRUE: any wait for a reader may outlast subscriptionReaderStopTimeout
  Cancels   \* TRUE: the device may end a stream with the status Canceled

Loops == 1 .. MaxLoops
Conns == 1 .. MaxOps + 1    \* an operation dials at most once

VARIABLES
  conn,     \* the connection behind T.Client: its number and whether it is open
  reg,      \* the loop in subscribeCancelFn[name] and SubscribeClients[name], 0 if none
  cur,      \* the loop in readersCfn[name] and readersDone[name], 0 if none
  pc,       \* where each SubscribeChan goroutine is
  strm,     \* the connection of each loop's stream
  retry,    \* the loops whose attempt will be retried
  sctx,     \* the loops whose context is not cancelled
  nctx,     \* the loops whose attempt's context was not cancelled itself
  chan,     \* what each loop's respCh and errCh hold
  rd,       \* where each loop's reader is
  first,    \* the readers that wait for a first response (initialResponse)
  ev,       \* the event loop: where it is, its operation, the loop it waits for
  api,      \* the API handler: where it is and its operation
  mt,       \* who holds mt.Lock
  listed,   \* the target's config asks for the subscription
  known,    \* the subscription is in tm.subscriptions
  nloop,    \* how many loops were started,
  nops      \* operations begun

loopVars == <<pc, strm, retry>>
cfgVars == <<listed, known>>
vars == <<conn, reg, cur, loopVars, sctx, nctx, chan, rd, first, ev, api, mt, cfgVars, nloop, nops>>

LoopPcs == {"off", "attempt", "register", "send", "recv", "noClient", "fail", "clean",
            "delay", "closed"}
ReaderPcs == {"off", "read", "set", "outs", "last", "done"}
EvPcs  == {"idle", "mt", "cancel", "stop", "wait", "start", "dial"}
ApiPcs == {"idle", "mu", "mt", "dial", "start"}

\* Loop g starts on the current connection: startTargetSubscription, called by start().
Init ==
  /\ conn = [n |-> 1, open |-> TRUE]
  /\ reg = 0 /\ cur = 1
  /\ pc = [g \in Loops |-> IF g = 1 THEN "attempt" ELSE "off"]
  /\ strm = [g \in Loops |-> 0]
  /\ retry = {}
  /\ sctx = {1} /\ nctx = {}
  /\ chan = [g \in Loops |-> {}]
  /\ rd = [g \in Loops |-> IF g = 1 THEN "read" ELSE "off"]
  /\ first = {1}
  /\ ev = [pc |-> "idle", op |-> "apply", wait |-> 0]
  /\ api = [pc |-> "idle", op |-> "enable"]
  /\ mt = "none"
  /\ listed = TRUE /\ known = TRUE
  /\ nloop = 1 /\ nops = 0

Goto(g, p) == pc' = [pc EXCEPT ![g] = p]

\* The event loop holds tm.mu.RLock from the moment it stops the subscription
\* until it has started the replacement.
HoldsMu == ev.op \in {"apply", "removeSub"} /\ ev.pc \in {"cancel", "stop", "wait", "start"}

\* tm.mu.RLock: a waiting writer keeps readers out.
CanRLockMu == api.pc # "mu"
CanRLockMt == mt = "none"

\* The attempt's context: cancelled by its cancel function or with the loop's.
Alive(g) == g \in nctx /\ g \in sctx

\* The stream works: its context is alive and its connection open.
Streaming(g) == Alive(g) /\ conn.open /\ strm[g] = conn.n

-----------------------------------------------------------------------------
(* SubscribeChan and attemptSubscription *)

\* The loop's context is checked and Client.Subscribe is called.  On a closed
\* connection it returns a cancellation error, which ends the loop.
AttemptOk(g) ==
  /\ pc[g] = "attempt" /\ g \in sctx /\ conn.open
  /\ Goto(g, "register")
  /\ strm' = [strm EXCEPT ![g] = conn.n]
  /\ nctx' = nctx \cup {g}
  /\ UNCHANGED <<conn, reg, cur, retry, sctx, chan, rd, first, ev, api, mt, nloop, nops, cfgVars>>

AttemptErr(g) ==
  /\ pc[g] = "attempt" /\ g \in sctx /\ conn.open
  /\ Goto(g, "noClient")
  /\ UNCHANGED <<conn, reg, cur, strm, retry, sctx, nctx, chan, rd, first, ev, api, mt,
                 nloop, nops, cfgVars>>

AttemptCancelled(g) ==
  /\ pc[g] = "attempt" /\ (g \notin sctx \/ ~conn.open)
  /\ Goto(g, "closed")
  /\ UNCHANGED <<conn, reg, cur, strm, retry, sctx, nctx, chan, rd, first, ev, api, mt,
                 nloop, nops, cfgVars>>

\* Mutant: the previous attempt is not cancelled.
RegisterOnly(g) ==
  /\ pc[g] = "register"
  /\ reg' = g
  /\ Goto(g, "send")
  /\ UNCHANGED <<conn, cur, strm, retry, sctx, nctx, chan, rd, first, ev, api, mt, nloop, nops, cfgVars>>

\* Under t.m: cancel the previous attempt and register this one.
Register(g) ==
  /\ pc[g] = "register"
  /\ reg' = g
  /\ nctx' = nctx \ ({reg} \ {g})
  /\ Goto(g, "send")
  /\ UNCHANGED <<conn, cur, strm, retry, sctx, chan, rd, first, ev, api, mt, nloop, nops, cfgVars>>

\* The request is sent; an error, a cancelled stream's too, is retried.
Send(g) ==
  /\ pc[g] = "send"
  /\ \/ Streaming(g) /\ Goto(g, "recv") /\ UNCHANGED retry
     \/ Goto(g, "fail") /\ retry' = retry \cup {g}
  /\ UNCHANGED <<conn, reg, cur, strm, sctx, nctx, chan, rd, first, ev, api, mt, nloop, nops, cfgVars>>

\* handleStreamSubscriptionRcv: a response goes to respCh.
Recv(g) ==
  /\ pc[g] = "recv" /\ Streaming(g)
  /\ "resp" \notin chan[g]
  /\ chan' = [chan EXCEPT ![g] = @ \cup {"resp"}]
  /\ UNCHANGED <<conn, reg, cur, loopVars, sctx, nctx, rd, first, ev, api, mt, nloop, nops, cfgVars>>

\* Mutant: a broken stream is not retried.
RecvErrEnds(g) ==
  /\ pc[g] = "recv" /\ Alive(g)
  /\ Goto(g, "fail")
  /\ UNCHANGED <<conn, reg, cur, strm, retry, sctx, nctx, chan, rd, first, ev, api, mt, nloop,
                 nops, cfgVars>>

\* The stream breaks: an error of the device or the transport is retried.
RecvErr(g) ==
  /\ pc[g] = "recv" /\ Alive(g)
  /\ Goto(g, "fail")
  /\ retry' = retry \cup {g}
  /\ UNCHANGED <<conn, reg, cur, strm, sctx, nctx, chan, rd, first, ev, api, mt, nloop, nops, cfgVars>>

\* A cancellation (isCancellationError) is not: the attempt's context is cancelled,
\* the connection closed, or the status the device sends is Canceled.
RecvCancelled(g) ==
  /\ pc[g] = "recv" /\ (~Streaming(g) \/ Cancels)
  /\ Goto(g, "clean")
  /\ UNCHANGED <<conn, reg, cur, strm, retry, sctx, nctx, chan, rd, first, ev, api, mt,
                 nloop, nops, cfgVars>>

\* sendError: errCh has room, or the loop's context is cancelled.
SendError(g) ==
  /\ pc[g] \in {"noClient", "fail"}
  /\ \/ /\ "err" \notin chan[g]
        /\ chan' = [chan EXCEPT ![g] = @ \cup {"err"}]
     \/ g \notin sctx /\ UNCHANGED chan
  /\ Goto(g, IF pc[g] = "noClient" THEN "delay" ELSE "clean")
  /\ UNCHANGED <<conn, reg, cur, strm, retry, sctx, nctx, rd, first, ev, api, mt, nloop, nops, cfgVars>>

\* StopSubscription(name): cancels and forgets the registered attempt, whosever.
StopSubscription(S) ==
  /\ reg' = 0
  /\ nctx' = nctx \ ({reg} \cup S)

\* attemptSubscription returns: the deferred StopSubscription and cancel run.
Clean(g) ==
  /\ pc[g] = "clean"
  /\ StopSubscription({g})
  /\ retry' = retry \ {g}
  /\ Goto(g, IF g \in retry THEN "delay" ELSE "closed")
  /\ UNCHANGED <<conn, cur, strm, sctx, chan, rd, first, ev, api, mt, nloop, nops, cfgVars>>

\* The retry timer fires, or the loop's context is cancelled.
Delay(g) ==
  /\ pc[g] = "delay"
  /\ \/ Goto(g, "attempt")
     \/ g \notin sctx /\ Goto(g, "closed")
  /\ UNCHANGED <<conn, reg, cur, strm, retry, sctx, nctx, chan, rd, first, ev, api, mt,
                 nloop, nops, cfgVars>>

-----------------------------------------------------------------------------
(* The reader of startTargetSubscription *)

\* A response: dropped after a cancel; the first one publishes Running, each is
\* handed to the pipeline with the target's outputs.
ReadResponse(g) ==
  /\ rd[g] = "read" /\ "resp" \in chan[g]
  /\ chan' = [chan EXCEPT ![g] = @ \ {"resp"}]
  /\ rd' = [rd EXCEPT ![g] = IF g \notin sctx THEN "read"
                             ELSE IF g \in first THEN "set" ELSE "outs"]
  /\ first' = IF g \in sctx THEN first \ {g} ELSE first
  /\ UNCHANGED <<conn, reg, cur, loopVars, sctx, nctx, ev, api, mt, nloop, nops, cfgVars>>

\* An error: dropped after a cancel; otherwise the state is refreshed and the
\* next response counts as the first again.
ReadError(g) ==
  /\ rd[g] = "read" /\ "err" \in chan[g]
  /\ chan' = [chan EXCEPT ![g] = @ \ {"err"}]
  /\ rd' = [rd EXCEPT ![g] = IF g \in sctx THEN "set" ELSE "read"]
  /\ first' = IF g \in sctx THEN first \cup {g} ELSE first
  /\ UNCHANGED <<conn, reg, cur, loopVars, sctx, nctx, ev, api, mt, nloop, nops, cfgVars>>

\* setTargetState looks the target up under tm.mu.RLock.
ReaderSet(g) ==
  /\ rd[g] = "set" /\ CanRLockMu
  /\ rd' = [rd EXCEPT ![g] = IF g \in first THEN "read" ELSE "outs"]
  /\ UNCHANGED <<conn, reg, cur, loopVars, sctx, nctx, chan, first, ev, api, mt, nloop, nops, cfgVars>>

\* The outputs and event tags are read under mt.RLock.
ReaderOuts(g) ==
  /\ rd[g] = "outs" /\ CanRLockMt
  /\ rd' = [rd EXCEPT ![g] = "read"]
  /\ UNCHANGED <<conn, reg, cur, loopVars, sctx, nctx, chan, first, ev, api, mt, nloop, nops, cfgVars>>

\* Mutant: the reader returns as soon as its context is cancelled.
ReaderLastEarly(g) ==
  /\ rd[g] = "read" /\ (g \notin sctx \/ (pc[g] = "closed" /\ chan[g] = {}))
  /\ rd' = [rd EXCEPT ![g] = "last"]
  /\ UNCHANGED <<conn, reg, cur, loopVars, sctx, nctx, chan, first, ev, api, mt, nloop, nops, cfgVars>>

\* Both channels are closed and drained: the state is refreshed, done is closed.
ReaderLast(g) ==
  /\ rd[g] = "read" /\ pc[g] = "closed" /\ chan[g] = {}
  /\ rd' = [rd EXCEPT ![g] = "last"]
  /\ UNCHANGED <<conn, reg, cur, loopVars, sctx, nctx, chan, first, ev, api, mt, nloop, nops, cfgVars>>

ReaderDone(g) ==
  /\ rd[g] = "last" /\ CanRLockMu
  /\ rd' = [rd EXCEPT ![g] = "done"]
  /\ UNCHANGED <<conn, reg, cur, loopVars, sctx, nctx, chan, first, ev, api, mt, nloop, nops, cfgVars>>

-----------------------------------------------------------------------------
(* The event loop: applySubscription, removeSubscription and apply *)

\* A subscription event of a subscription the target asks for.  The manager's map
\* is updated under tm.mu.Lock, the target's subscription under tm.mu.RLock.
EvSubscription(op) ==
  /\ ev.pc = "idle" /\ nops < MaxOps /\ CanRLockMu
  /\ known' = (op = "apply")
  /\ op = "apply" => listed
  /\ ev' = [pc |-> "cancel", op |-> op, wait |-> 0]
  /\ nops' = nops + 1
  /\ UNCHANGED <<conn, reg, cur, loopVars, sctx, nctx, chan, rd, first, api, mt, listed, nloop>>

\* apply of a target whose list of subscriptions changed.
EvTarget(op) ==
  /\ ev.pc = "idle" /\ nops < MaxOps
  /\ listed = (op = "drop")
  /\ ev' = [pc |-> "mt", op |-> op, wait |-> 0]
  /\ nops' = nops + 1
  /\ UNCHANGED <<conn, reg, cur, loopVars, sctx, nctx, chan, rd, first, api, mt, cfgVars, nloop>>

\* ... works under mt.Lock: an added subscription is started when the store has it,
\* a removed one stopped.
EvLock ==
  /\ ev.pc = "mt" /\ mt = "none"
  /\ \/ ev.op = "add" /\ mt' = "loop" /\ ev' = [ev EXCEPT !.pc = "start"]
     \/ ev.op = "add" /\ mt' = mt     /\ ev' = [ev EXCEPT !.pc = "idle"]
     \/ ev.op = "drop" /\ mt' = "loop" /\ ev' = [ev EXCEPT !.pc = "cancel"]
  /\ listed' = (ev.op = "add")
  /\ UNCHANGED <<conn, reg, cur, loopVars, sctx, nctx, chan, rd, first, api, known, nloop, nops>>

\* stopTargetSubscription: take the reader's cancel function and done channel, cancel.
EvCancel ==
  /\ ev.pc = "cancel"
  /\ cur' = 0
  /\ sctx' = sctx \ {cur}
  /\ ev' = [ev EXCEPT !.pc = "stop", !.wait = cur]
  /\ UNCHANGED <<conn, reg, loopVars, nctx, chan, rd, first, api, mt, nloop, nops, cfgVars>>

EvAfterWait == IF ev.op = "apply" THEN "start" ELSE "idle"

\* ... StopSubscription(name), and nothing to wait for when there was no reader.
EvStop ==
  /\ ev.pc = "stop"
  /\ StopSubscription({})
  /\ IF ev.wait # 0
       THEN ev' = [ev EXCEPT !.pc = "wait"] /\ UNCHANGED mt
       ELSE /\ ev' = [ev EXCEPT !.pc = EvAfterWait]
            /\ mt' = IF mt = "loop" THEN "none" ELSE mt
  /\ UNCHANGED <<conn, cur, loopVars, sctx, chan, rd, first, api, nloop, nops, cfgVars>>

\* The reader cannot go on: it waits for a lock that the waiting event loop or the
\* API keeps from it.
Blocked(g) == \/ rd[g] \in {"set", "last"} /\ ~CanRLockMu
              \/ rd[g] = "outs" /\ ~CanRLockMt

\* The wait ends when the reader is done, or when the timer fires.
EvWait ==
  /\ ev.pc = "wait"
  /\ rd[ev.wait] = "done" \/ Slow \/ (Blocked(ev.wait) /\ pc[ev.wait] = "closed")
  /\ ev' = [ev EXCEPT !.pc = EvAfterWait, !.wait = 0]
  /\ mt' = IF mt = "loop" THEN "none" ELSE mt
  /\ UNCHANGED <<conn, reg, cur, loopVars, sctx, nctx, chan, rd, first, api, nloop, nops, cfgVars>>

\* startTargetSubscription: install the reader's cancel function and start the pair.
StartTargetSubscription ==
  LET g == nloop + 1 IN
  /\ nloop < MaxLoops
  /\ nloop' = g
  /\ cur' = g
  /\ sctx' = sctx \cup {g}
  /\ Goto(g, "attempt")
  /\ rd' = [rd EXCEPT ![g] = "read"]
  /\ first' = first \cup {g}

EvStart ==
  /\ ev.pc = "start"
  /\ StartTargetSubscription
  /\ ev' = [ev EXCEPT !.pc = "idle"]
  /\ mt' = IF mt = "loop" THEN "none" ELSE mt
  /\ UNCHANGED <<conn, reg, strm, retry, nctx, chan, api, nops, cfgVars>>

\* apply of a target whose connection settings changed: under mt.Lock, stop() closes
\* the client, which cancels the registered attempt, and start() dials and starts
\* the subscription again.
CloseClient ==
  /\ conn' = [conn EXCEPT !.open = FALSE]
  /\ nctx' = nctx \ {reg}

EvReconnect ==
  /\ ev.pc = "idle" /\ nops < MaxOps /\ mt = "none"
  /\ CloseClient
  /\ mt' = "loop"
  /\ ev' = [pc |-> "dial", op |-> "reconnect", wait |-> 0]
  /\ nops' = nops + 1
  /\ UNCHANGED <<reg, cur, loopVars, sctx, chan, rd, first, api, cfgVars, nloop>>

EvDial ==
  /\ ev.pc = "dial"
  /\ conn' = [n |-> conn.n + 1, open |-> TRUE]
  /\ IF listed /\ known
       THEN ev' = [ev EXCEPT !.pc = "start"] /\ UNCHANGED mt
       ELSE ev' = [ev EXCEPT !.pc = "idle"] /\ mt' = "none"
  /\ UNCHANGED <<reg, cur, loopVars, sctx, nctx, chan, rd, first, api, cfgVars, nloop, nops>>

-----------------------------------------------------------------------------
(* The API: SetIntendedState *)

\* The handler looks the target up under tm.mu.Lock.
ApiBegin(op) ==
  /\ api.pc = "idle" /\ nops < MaxOps
  /\ api' = [pc |-> "mu", op |-> op]
  /\ nops' = nops + 1
  /\ UNCHANGED <<conn, reg, cur, loopVars, sctx, nctx, chan, rd, first, ev, mt, nloop, cfgVars>>

ApiLookup ==
  /\ api.pc = "mu" /\ ~HoldsMu
  /\ api' = [api EXCEPT !.pc = "mt"]
  /\ UNCHANGED <<conn, reg, cur, loopVars, sctx, nctx, chan, rd, first, ev, mt, nloop, nops, cfgVars>>

\* disable: closeClient cancels the registered attempt and closes the connection.
\* A target that is stopped already, or running when it is enabled, is left alone.
ApiLocked ==
  /\ api.pc = "mt" /\ mt = "none"
  /\ IF api.op = "disable" /\ conn.open
       THEN CloseClient
       ELSE UNCHANGED <<conn, nctx>>
  /\ IF api.op = "enable" /\ ~conn.open
       THEN mt' = "api" /\ api' = [api EXCEPT !.pc = "dial"]
       ELSE mt' = mt /\ api' = [api EXCEPT !.pc = "idle"]
  /\ UNCHANGED <<reg, cur, loopVars, sctx, chan, rd, first, ev, nloop, nops, cfgVars>>

\* enable: start() dials, and then starts the subscription.
ApiDial ==
  /\ api.pc = "dial"
  /\ conn' = [n |-> conn.n + 1, open |-> TRUE]
  /\ api' = [api EXCEPT !.pc = "start"]
  /\ UNCHANGED <<reg, cur, loopVars, sctx, nctx, chan, rd, first, ev, mt, nloop, nops, cfgVars>>

ApiStart ==
  /\ api.pc = "start"
  /\ IF listed /\ known
       THEN StartTargetSubscription
       ELSE UNCHANGED <<nloop, cur, sctx, pc, rd, first>>
  /\ api' = [api EXCEPT !.pc = "idle"]
  /\ mt' = "none"
  /\ UNCHANGED <<conn, reg, strm, retry, nctx, chan, ev, nops, cfgVars>>

-----------------------------------------------------------------------------
Attempt(g) == AttemptOk(g) \/ AttemptErr(g) \/ AttemptCancelled(g)

SubscribeChan(g) ==
  \/ Attempt(g) \/ Register(g) \/ Send(g)
  \/ Recv(g) \/ RecvErr(g) \/ RecvCancelled(g)
  \/ SendError(g) \/ Clean(g) \/ Delay(g)

Reader(g) ==
  \/ ReadResponse(g) \/ ReadError(g) \/ ReaderSet(g) \/ ReaderOuts(g)
  \/ ReaderLast(g) \/ ReaderDone(g)

EvStep  == EvLock \/ EvCancel \/ EvStop \/ EvWait \/ EvDial \/ EvStart
ApiStep == ApiLookup \/ ApiLocked \/ ApiDial \/ ApiStart

Next ==
  \/ \E g \in Loops : SubscribeChan(g) \/ Reader(g)
  \/ \E op \in EvOps \cap {"apply", "removeSub"} : EvSubscription(op)
  \/ \E op \in EvOps \cap {"add", "drop"} : EvTarget(op)
  \/ "reconnect" \in EvOps /\ EvReconnect
  \/ \E op \in ApiOps : ApiBegin(op)
  \/ EvStep \/ ApiStep

Spec == Init /\ [][Next]_vars

\* Goroutines run, timers fire and Go's locks are granted; an attempt that is made
\* again and again succeeds in the end.
SendOk(g) == Send(g) /\ pc'[g] = "recv"
Fairness ==
  /\ \A g \in Loops :
       /\ WF_vars(SubscribeChan(g)) /\ SF_vars(Reader(g))
       /\ SF_vars(AttemptOk(g)) /\ SF_vars(SendOk(g))
  /\ WF_vars(EvStep) /\ WF_vars(ApiStep)

FairSpec == Spec /\ Fairness

-----------------------------------------------------------------------------
(* Properties *)

\* The variables keep their types, and who holds mt.Lock is inside the section it guards.
TypeOK ==
  /\ conn \in [n : Conns, open : BOOLEAN]
  /\ reg \in Loops \cup {0} /\ cur \in Loops \cup {0}
  /\ pc \in [Loops -> LoopPcs]
  /\ strm \in [Loops -> Conns \cup {0}]
  /\ retry \subseteq Loops /\ sctx \subseteq Loops /\ nctx \subseteq Loops
  /\ chan \in [Loops -> SUBSET {"resp", "err"}]
  /\ rd \in [Loops -> ReaderPcs]
  /\ first \subseteq Loops
  /\ ev \in [pc : EvPcs, op : {"apply", "removeSub", "add", "drop", "reconnect"}, wait : Loops \cup {0}]
  /\ api \in [pc : ApiPcs, op : {"enable", "disable"}]
  /\ mt \in {"none", "loop", "api"}
  /\ mt = "loop" => ev.pc \in {"cancel", "stop", "wait", "dial", "start"}
  /\ mt = "api" => api.pc \in {"dial", "start"}
  /\ listed \in BOOLEAN /\ known \in BOOLEAN
  /\ nloop \in Loops /\ nops \in 0 .. MaxOps

\* At most one Subscribe RPC of the subscription is open: a loop that is being
\* replaced is out of its stream before the next one is in.
SingleStream ==
  Cardinality({g \in Loops : pc[g] \in {"send", "recv"} /\ Streaming(g)}) <= 1

\* The loop the manager believes in is alive while the target is connected: no
\* other loop's unwinding cancels it.
CurrentLoopLives ==
  cur # 0 /\ conn.open /\ cur \in sctx => pc[cur] # "closed" /\ ~(pc[cur] = "clean" /\ cur \notin retry)

\* The subscription of a connected target comes back: its current loop receives,
\* unless it is stopped or the target is; and the event loop never gets stuck on it.
Receives(g) == cur = g /\ conn.open => pc[g] = "recv" /\ Streaming(g)
EventLoopIdle == ev.pc = "idle"
Resubscribes == (\A g \in Loops : []<>Receives(g)) /\ []<>EventLoopIdle

\* stopTargetSubscription: a replacement Subscribe RPC cannot start while the old
\* SubscribeChan goroutine is still unwinding.
NoOverlap ==
  \A g, h \in Loops : g < h /\ pc[h] # "off" => pc[g] = "closed"

\* closeClient stops the target's reader loop and its subscriptions: no loop from
\* before the connection was closed subscribes on the next one.
CloseStopsLoops ==
  \A g \in Loops : pc[g] \in {"send", "recv"} /\ Streaming(g) => g = cur \/ g \notin sctx
=============================================================================
