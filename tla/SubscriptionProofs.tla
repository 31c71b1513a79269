-------------------------- MODULE SubscriptionProofs --------------------------
(***************************************************************************)
(* Theorems about Subscription, for any number of loops and operations:    *)
(* its type correctness; that never two Subscribe RPCs of the subscription *)
(* are open, whatever the event loop, the API and the device do; and, for  *)
(* a target that stays connected and readers that end within the wait for  *)
(* them, that a loop starts only when its predecessors have unwound, and   *)
(* that the loop the manager believes in is alive.                         *)
(***************************************************************************)
EXTENDS Subscription, FiniteSetTheorems, TLAPS

\* What the constants are: the operations that the actions distinguish.
Constants ==
  /\ MaxOps \in Nat /\ MaxLoops \in Nat \ {0}
  /\ ApiOps \subseteq {"enable", "disable"}
  /\ Slow \in BOOLEAN /\ Cancels \in BOOLEAN

B2N(b) == IF b THEN 1 ELSE 0

\* Every dial belongs to an operation of its own that was begun.
DialsBegun ==
  conn.n + B2N(ev.pc = "dial") + B2N(api.pc \in {"mu", "mt", "dial"}) <= nops + 1

Types == TypeOK /\ DialsBegun

\* An attempt that is past its registration and still alive is the registered one:
\* whoever registers or stops, cancels it.
RegisteredAlone == \A g \in Loops : pc[g] \in {"send", "recv"} /\ g \in nctx => g = reg

\* Of a target that stays connected ...
Connected == "reconnect" \notin EvOps /\ "disable" \notin ApiOps

\* ... the connection stays open and the API has nothing to start.
StaysOpen == /\ conn.open /\ ev.pc # "dial" /\ api.pc \in {"idle", "mu", "mt"}
             /\ (api.pc # "idle" => api.op = "enable") /\ ev.op # "reconnect"

\* The loops are used one after the other; a reader is past its channels only when its
\* loop has closed them.
InOrder ==
  \A g \in Loops : /\ pc[g] = "off" <=> g > nloop
                   /\ g < nloop => pc[g] = "closed"
                   /\ rd[g] \in {"last", "done"} => pc[g] = "closed"

\* The manager believes in the last loop or in none; while it believes in none and does
\* not wait for one, the last loop has unwound.  The target asks for what is started.
OneReplaced ==
  /\ cur \in {0, nloop} /\ ev.wait \in {0, nloop}
  /\ ev.pc \in {"stop", "wait", "start"} => cur = 0
  /\ ev.pc \notin {"stop", "wait"} => ev.wait = 0
  /\ ev.pc = "wait" => ev.wait # 0
  /\ cur = 0 /\ ev.wait = 0 => pc[nloop] = "closed"
  /\ ev.pc \in {"idle", "mt"} /\ ~listed => cur = 0
  /\ ev.pc = "mt" /\ ev.op = "add" => ~listed
  /\ ev.pc \in {"cancel", "stop", "wait", "start"} =>
       (ev.op = "apply" => listed) /\ (ev.op = "add" => ev.pc = "start" /\ listed)
  /\ ev.pc = "start" => ev.op \in {"apply", "add"}

Unwound == Types /\ StaysOpen /\ InOrder /\ OneReplaced

\* The loop the manager believes in has its context, its attempt's too once it is made,
\* and the connection; what ends an attempt is an error that is retried.
CurrentAlive ==
  cur # 0 =>
    /\ cur \in sctx /\ pc[cur] # "closed"
    /\ pc[cur] \in {"register", "send", "recv"} => Alive(cur) /\ strm[cur] = conn.n
    /\ pc[cur] \in {"fail", "clean"} => cur \in retry

Lives == Unwound /\ CurrentAlive

-----------------------------------------------------------------------------
(* Types. *)

\* A step of a SubscribeChan goroutine keeps the types.
LEMMA LoopTypes ==
  ASSUME Constants, TypeOK, NEW g \in Loops, SubscribeChan(g)
  PROVE  TypeOK'
<1> USE DEF TypeOK, Constants, LoopPcs, Goto, loopVars, cfgVars
<1>1. CASE Attempt(g)
  BY <1>1 DEF Attempt, AttemptOk, AttemptErr, AttemptCancelled
<1>2. CASE Register(g)
  BY <1>2 DEF Register
<1>3. CASE Send(g)
  BY <1>3 DEF Send
<1>4. CASE Recv(g)
  BY <1>4 DEF Recv
<1>5. CASE RecvErr(g) \/ RecvCancelled(g)
  BY <1>5 DEF RecvErr, RecvCancelled
<1>6. CASE SendError(g)
  BY <1>6 DEF SendError
<1>7. CASE Clean(g)
  BY <1>7 DEF Clean, StopSubscription
<1>8. CASE Delay(g)
  BY <1>8 DEF Delay
<1> QED BY <1>1, <1>2, <1>3, <1>4, <1>5, <1>6, <1>7, <1>8 DEF SubscribeChan

\* A step of a reader keeps the types.
LEMMA ReaderTypes ==
  ASSUME Constants, TypeOK, NEW g \in Loops, Reader(g)
  PROVE  TypeOK'
<1> USE DEF TypeOK, Constants, ReaderPcs, loopVars, cfgVars
<1>1. CASE ReadResponse(g)
  BY <1>1 DEF ReadResponse
<1>2. CASE ReadError(g)
  BY <1>2 DEF ReadError
<1>3. CASE ReaderSet(g) \/ ReaderOuts(g)
  BY <1>3 DEF ReaderSet, ReaderOuts
<1>4. CASE ReaderLast(g) \/ ReaderDone(g)
  BY <1>4 DEF ReaderLast, ReaderDone
<1> QED BY <1>1, <1>2, <1>3, <1>4 DEF Reader

\* startTargetSubscription, while a loop is left, keeps the types of what it changes.
LEMMA StartTypes ==
  ASSUME Constants, TypeOK, StartTargetSubscription
  PROVE  /\ nloop' \in Loops /\ cur' \in Loops \cup {0} /\ sctx' \subseteq Loops
         /\ pc' \in [Loops -> LoopPcs] /\ rd' \in [Loops -> ReaderPcs] /\ first' \subseteq Loops
BY DEF StartTargetSubscription, TypeOK, Constants, Goto, LoopPcs, ReaderPcs, Loops

\* closeClient keeps the types of the connection and of the attempts' contexts.
LEMMA ClosedTypes ==
  ASSUME TypeOK, CloseClient
  PROVE  conn' \in [n : Conns, open : BOOLEAN] /\ nctx' \subseteq Loops
BY DEF TypeOK, CloseClient

\* A step of the event loop keeps the types; a dial has a connection's number left.
LEMMA EvTypes ==
  ASSUME Constants, TypeOK, DialsBegun, EvStep
  PROVE  TypeOK'
<1> USE DEF TypeOK, Constants, EvPcs, loopVars, cfgVars
<1>1. CASE EvLock
  BY <1>1 DEF EvLock
<1>2. CASE EvCancel
  BY <1>2 DEF EvCancel
<1>3. CASE EvStop
  BY <1>3 DEF EvStop, StopSubscription, EvAfterWait
<1>4. CASE EvWait
  <2>1. ev' = [ev EXCEPT !.pc = EvAfterWait, !.wait = 0] /\ EvAfterWait \in {"start", "idle"}
    BY <1>4 DEF EvWait, EvAfterWait
  <2>2. ev' \in [pc : EvPcs, op : {"apply", "removeSub", "add", "drop", "reconnect"}, wait : Loops \cup {0}]
    BY <2>1
  <2> QED BY <1>4, <2>2 DEF EvWait
<1>5. CASE EvDial
  <2>1. conn.n + 1 \in Conns
    BY <1>5 DEF EvDial, DialsBegun, B2N, Conns
  <2> QED BY <1>5, <2>1 DEF EvDial
<1>6. CASE EvStart
  BY <1>6, StartTypes DEF EvStart
<1> QED BY <1>1, <1>2, <1>3, <1>4, <1>5, <1>6 DEF EvStep

\* A step of the API handler keeps the types.
LEMMA ApiTypes ==
  ASSUME Constants, TypeOK, DialsBegun, ApiStep
  PROVE  TypeOK'
<1> USE DEF TypeOK, Constants, ApiPcs, loopVars, cfgVars
<1>1. CASE ApiLookup
  BY <1>1 DEF ApiLookup
<1>2. CASE ApiLocked
  <2>1. conn' \in [n : Conns, open : BOOLEAN] /\ nctx' \subseteq Loops
    BY <1>2, ClosedTypes DEF ApiLocked
  <2>2. /\ api' \in [pc : ApiPcs, op : {"enable", "disable"}] /\ mt' \in {"none", "loop", "api"}
        /\ mt' = "api" => api'.pc = "dial"
        /\ mt' # "loop"
    BY <1>2 DEF ApiLocked
  <2> QED BY <1>2, <2>1, <2>2 DEF ApiLocked
<1>3. CASE ApiDial
  <2>1. conn.n + 1 \in Conns
    BY <1>3 DEF ApiDial, DialsBegun, B2N, Conns
  <2> QED BY <1>3, <2>1 DEF ApiDial
<1>4. CASE ApiStart
  <2>1. \/ StartTargetSubscription
        \/ UNCHANGED <<nloop, cur, sctx, pc, rd, first>>
    BY <1>4 DEF ApiStart
  <2> QED BY <1>4, <2>1, StartTypes DEF ApiStart
<1> QED BY <1>1, <1>2, <1>3, <1>4 DEF ApiStep

\* What is asked of the event loop and the API.
Asked ==
  \/ \E op \in EvOps \cap {"apply", "removeSub"} : EvSubscription(op)
  \/ \E op \in EvOps \cap {"add", "drop"} : EvTarget(op)
  \/ "reconnect" \in EvOps /\ EvReconnect
  \/ \E op \in ApiOps : ApiBegin(op)

\* Asking keeps the types.
LEMMA AskedTypes ==
  ASSUME Constants, TypeOK, Asked
  PROVE  TypeOK'
<1> USE DEF TypeOK, Constants, EvPcs, ApiPcs, loopVars, cfgVars
<1>1. ASSUME NEW op \in EvOps \cap {"apply", "removeSub"}, EvSubscription(op)
      PROVE  TypeOK'
  BY <1>1 DEF EvSubscription
<1>2. ASSUME NEW op \in EvOps \cap {"add", "drop"}, EvTarget(op)
      PROVE  TypeOK'
  BY <1>2 DEF EvTarget
<1>3. CASE EvReconnect
  <2>1. conn' \in [n : Conns, open : BOOLEAN] /\ nctx' \subseteq Loops
    BY <1>3, ClosedTypes DEF EvReconnect
  <2>2. /\ ev' = [pc |-> "dial", op |-> "reconnect", wait |-> 0] /\ mt' = "loop"
        /\ nops' \in 0 .. MaxOps
    BY <1>3 DEF EvReconnect
  <2> QED BY <1>3, <2>1, <2>2 DEF EvReconnect
<1>4. ASSUME NEW op \in ApiOps, ApiBegin(op)
      PROVE  TypeOK'
  BY <1>4 DEF ApiBegin
<1> QED BY <1>1, <1>2, <1>3, <1>4 DEF Asked

\* Every dial stays one of an operation that was begun.
LEMMA DialsInv ==
  ASSUME Constants, Types, [Next]_vars
  PROVE  DialsBegun'
<1> USE DEF Types, DialsBegun, B2N, loopVars, cfgVars
<1>t. conn.n \in Nat /\ nops \in Nat
  BY DEF TypeOK, Conns, Constants
<1>1. CASE UNCHANGED vars
  BY <1>1 DEF vars
<1>2. ASSUME NEW g \in Loops, SubscribeChan(g) \/ Reader(g)
      PROVE  UNCHANGED <<conn, ev, api, nops>>
  BY <1>2 DEF SubscribeChan, Attempt, AttemptOk, AttemptErr, AttemptCancelled, Register, Send,
       Recv, RecvErr, RecvCancelled, SendError, Clean, Delay, Reader, ReadResponse, ReadError,
       ReaderSet, ReaderOuts, ReaderLast, ReaderDone
<1>3. CASE EvStep
  <2>1. UNCHANGED <<api, nops>>
    BY <1>3 DEF EvStep, EvLock, EvCancel, EvStop, EvWait, EvDial, EvStart
  <2>2. CASE EvDial
    BY <1>t, <2>1, <2>2 DEF EvDial, TypeOK
  <2>3. CASE ~EvDial
    <3>1. conn' = conn /\ ev'.pc # "dial"
      BY <1>3, <2>3 DEF EvStep, EvLock, EvCancel, EvStop, EvWait, EvStart, EvAfterWait, TypeOK
    <3> QED BY <1>t, <2>1, <3>1
  <2> QED BY <2>2, <2>3
<1>4. CASE ApiStep
  BY <1>4, <1>t DEF ApiStep, ApiLookup, ApiLocked, ApiDial, ApiStart, CloseClient, TypeOK
<1>5. CASE Asked
  BY <1>5, <1>t DEF Asked, EvSubscription, EvTarget, EvReconnect, ApiBegin, CloseClient, TypeOK
<1> QED BY <1>1, <1>2, <1>3, <1>4, <1>5 DEF Next, Asked

\* Every step keeps the types.
LEMMA TypesInv ==
  ASSUME Constants, Types, [Next]_vars
  PROVE  Types'
<1>1. CASE UNCHANGED vars
  BY <1>1 DEF Types, vars, loopVars, cfgVars, TypeOK, DialsBegun
<1>2. CASE Next
  <2>1. TypeOK'
    BY <1>2, LoopTypes, ReaderTypes, EvTypes, ApiTypes, AskedTypes DEF Next, Asked, Types
  <2> QED BY <2>1, DialsInv DEF Types
<1> QED BY <1>1, <1>2

\* The first call of startTargetSubscription starts within the types.
LEMMA TypesInit ==
  ASSUME Constants
  PROVE  Init => Types
BY DEF Constants, Init, Types, TypeOK, DialsBegun, B2N, Loops, Conns, LoopPcs, ReaderPcs, EvPcs,
       ApiPcs, loopVars, cfgVars

\* No interleaving of the subscription's loops and readers with the event loop, the API and
\* the device takes the manager's variables out of their types, and whoever holds mt.Lock is
\* inside the section it guards.
THEOREM SubscriptionTypes ==
  ASSUME Constants
  PROVE  Spec => []TypeOK
<1>1. Types => TypeOK
  BY DEF Types
<1> QED BY <1>1, TypesInit, TypesInv, PTL DEF Spec

-----------------------------------------------------------------------------
(* One stream. *)

\* Every step of a loop leaves the registered attempt as the only one that may live.
LEMMA LoopRegistered ==
  ASSUME TypeOK, RegisteredAlone, NEW h \in Loops, SubscribeChan(h)
  PROVE  RegisteredAlone'
<1> USE DEF TypeOK, RegisteredAlone, Goto, loopVars
<1>1. CASE Attempt(h)
  BY <1>1 DEF Attempt, AttemptOk, AttemptErr, AttemptCancelled
<1>2. CASE Register(h)
  BY <1>2 DEF Register
<1>3. CASE Send(h)
  BY <1>3 DEF Send
<1>4. CASE Recv(h) \/ RecvErr(h) \/ RecvCancelled(h) \/ SendError(h) \/ Delay(h)
  BY <1>4 DEF Recv, RecvErr, RecvCancelled, SendError, Delay
<1>5. CASE Clean(h)
  BY <1>5 DEF Clean, StopSubscription
<1> QED BY <1>1, <1>2, <1>3, <1>4, <1>5 DEF SubscribeChan

\* Nor does anybody else make a second one live.
LEMMA RegisteredInv ==
  ASSUME TypeOK, RegisteredAlone, [Next]_vars
  PROVE  RegisteredAlone'
<1> USE DEF TypeOK, RegisteredAlone
<1>1. CASE UNCHANGED vars
  BY <1>1 DEF vars, loopVars
<1>2. ASSUME NEW h \in Loops, Reader(h)
      PROVE  UNCHANGED <<pc, nctx, reg>>
  BY <1>2 DEF Reader, ReadResponse, ReadError, ReaderSet, ReaderOuts, ReaderLast, ReaderDone, loopVars
<1>3. CASE EvLock \/ EvCancel \/ EvStop \/ EvWait \/ EvDial \/ ApiLookup \/ ApiLocked \/ ApiDial
  BY <1>3 DEF EvLock, EvCancel, EvStop, EvWait, EvDial, ApiLookup, ApiLocked, ApiDial,
       StopSubscription, CloseClient, loopVars
<1>4. CASE EvStart \/ ApiStart
  BY <1>4 DEF EvStart, ApiStart, StartTargetSubscription, Goto
<1>5. CASE Asked
  BY <1>5 DEF Asked, EvSubscription, EvTarget, EvReconnect, ApiBegin, CloseClient, loopVars
<1> QED BY <1>1, <1>2, <1>3, <1>4, <1>5, LoopRegistered DEF Next, EvStep, ApiStep, Asked

\* At most one Subscribe RPC of the subscription is open, whatever is asked of the target,
\* however long a reader outlasts the wait for it and whatever status the device sends:
\* attemptSubscription cancels the attempt that was registered before it sends its own.
THEOREM OneStream ==
  ASSUME Constants
  PROVE  Spec => []SingleStream
<1>1. Init => RegisteredAlone
  BY DEF Init, RegisteredAlone
<1>2. Types /\ RegisteredAlone => SingleStream
  <2> SUFFICES ASSUME RegisteredAlone PROVE SingleStream
    OBVIOUS
  <2> DEFINE S == {g \in Loops : pc[g] \in {"send", "recv"} /\ Streaming(g)}
  <2>1. S = {} \/ S = {reg}
    BY DEF RegisteredAlone, Streaming, Alive
  <2>2. Cardinality({}) = 0 /\ Cardinality({reg}) = 1
    BY FS_EmptySet, FS_Singleton
  <2> QED BY <2>1, <2>2 DEF SingleStream
<1>3. Types => TypeOK
  BY DEF Types
<1> QED BY <1>1, <1>2, <1>3, TypesInit, TypesInv, RegisteredInv, PTL DEF Spec

-----------------------------------------------------------------------------
(* A target that stays connected. *)

\* The connection of such a target stays open.
LEMMA OpenInv ==
  ASSUME Constants, Connected, Types, StaysOpen, [Next]_vars
  PROVE  StaysOpen'
<1> USE DEF Types, TypeOK, StaysOpen, loopVars, cfgVars
<1>1. CASE UNCHANGED vars
  BY <1>1 DEF vars
<1>2. ASSUME NEW g \in Loops, SubscribeChan(g) \/ Reader(g)
      PROVE  UNCHANGED <<conn, ev, api>>
  BY <1>2 DEF SubscribeChan, Attempt, AttemptOk, AttemptErr, AttemptCancelled, Register, Send,
       Recv, RecvErr, RecvCancelled, SendError, Clean, Delay, Reader, ReadResponse, ReadError,
       ReaderSet, ReaderOuts, ReaderLast, ReaderDone
<1>3. CASE EvStep
  BY <1>3 DEF EvStep, EvLock, EvCancel, EvStop, EvWait, EvDial, EvStart, EvAfterWait
<1>4. CASE ApiStep
  BY <1>4 DEF ApiStep, ApiLookup, ApiLocked, ApiDial, ApiStart
<1>5. ASSUME NEW op \in EvOps \cap {"apply", "removeSub"}, EvSubscription(op)
      PROVE  StaysOpen'
  BY <1>5 DEF EvSubscription
<1>6. ASSUME NEW op \in EvOps \cap {"add", "drop"}, EvTarget(op)
      PROVE  StaysOpen'
  BY <1>6 DEF EvTarget
<1>7. ASSUME NEW op \in ApiOps, ApiBegin(op)
      PROVE  StaysOpen'
  <2>1. op = "enable"
    BY DEF Connected, Constants
  <2> QED BY <1>7, <2>1 DEF ApiBegin
<1> QED BY <1>1, <1>2, <1>3, <1>4, <1>5, <1>6, <1>7 DEF Next, Connected

\* A step of a loop or of its reader leaves the loops in order: closed is the end, and a
\* reader is past its channels only when they are closed.
LEMMA LoopInOrder ==
  ASSUME Types, InOrder, NEW h \in Loops, SubscribeChan(h) \/ Reader(h)
  PROVE  /\ InOrder' /\ UNCHANGED <<nloop, cur, ev, listed>>
         /\ \A g \in Loops : pc[g] = "closed" => pc'[g] = "closed"
<1> USE DEF Types, TypeOK, loopVars, cfgVars
<1>1. CASE SubscribeChan(h)
  <2>1. pc[h] \notin {"off", "closed"} /\ UNCHANGED <<rd, nloop, cur, ev, listed>>
    BY <1>1 DEF SubscribeChan, Attempt, AttemptOk, AttemptErr, AttemptCancelled, Register, Send,
         Recv, RecvErr, RecvCancelled, SendError, Clean, Delay
  <2>2. \E p \in LoopPcs \ {"off"} : Goto(h, p) \/ UNCHANGED pc
    BY <1>1 DEF SubscribeChan, Attempt, AttemptOk, AttemptErr, AttemptCancelled, Register, Send,
         Recv, RecvErr, RecvCancelled, SendError, Clean, Delay, Goto, LoopPcs
  <2> QED BY <2>1, <2>2 DEF InOrder, Goto
<1>2. CASE Reader(h)
  <2>1. UNCHANGED <<pc, nloop, cur, ev, listed>>
    BY <1>2 DEF Reader, ReadResponse, ReadError, ReaderSet, ReaderOuts, ReaderLast, ReaderDone
  <2>2. \E p \in ReaderPcs : /\ rd' = [rd EXCEPT ![h] = p]
                             /\ p \in {"last", "done"} => pc[h] = "closed" \/ rd[h] \in {"last", "done"}
    BY <1>2 DEF Reader, ReadResponse, ReadError, ReaderSet, ReaderOuts, ReaderLast, ReaderDone, ReaderPcs
  <2> QED BY <2>1, <2>2 DEF InOrder
<1> QED BY <1>1, <1>2

\* Every step leaves the loops of such a target in order, and one to be replaced at most.
LEMMA UnwoundInv ==
  ASSUME Constants, Connected, ~Slow, Unwound, [Next]_vars
  PROVE  Unwound'
<1> USE DEF Unwound
<1> SUFFICES InOrder' /\ OneReplaced'
  BY TypesInv, OpenInv
<1>1. CASE UNCHANGED vars
  BY <1>1 DEF vars, loopVars, cfgVars, InOrder, OneReplaced
<1>2. ASSUME NEW h \in Loops, SubscribeChan(h) \/ Reader(h)
      PROVE  InOrder' /\ OneReplaced'
  BY <1>2, LoopInOrder DEF OneReplaced, Types, TypeOK
<1>3. ASSUME UNCHANGED <<loopVars, rd, nloop>>
      PROVE  InOrder'
  BY <1>3 DEF InOrder, loopVars
<1>4. CASE EvLock
  BY <1>3, <1>4 DEF EvLock, OneReplaced, Types, TypeOK, loopVars, StaysOpen
<1>5. CASE EvCancel
  BY <1>3, <1>5 DEF EvCancel, OneReplaced, Types, TypeOK, loopVars, cfgVars
<1>6. CASE EvStop
  BY <1>3, <1>6 DEF EvStop, EvAfterWait, OneReplaced, Types, TypeOK, loopVars, cfgVars
<1>7. CASE EvWait
  <2>1. pc[nloop] = "closed"
    BY <1>7 DEF EvWait, OneReplaced, InOrder, Types, TypeOK
  <2> QED BY <1>3, <1>7, <2>1 DEF EvWait, EvAfterWait, OneReplaced, Types, TypeOK, loopVars, cfgVars
<1>8. CASE EvStart
  <2>1. cur = 0 /\ ev.wait = 0 /\ pc[nloop] = "closed" /\ listed
    BY <1>8 DEF EvStart, OneReplaced
  <2>2. nloop' = nloop + 1 /\ nloop + 1 \in Loops /\ nloop \in Nat /\ cur' = nloop'
    BY <1>8, StartTypes DEF EvStart, StartTargetSubscription, Types, TypeOK, Loops
  <2>3. pc' = [pc EXCEPT ![nloop + 1] = "attempt"] /\ rd' = [rd EXCEPT ![nloop + 1] = "read"]
    BY <1>8 DEF EvStart, StartTargetSubscription, Goto
  <2>4. InOrder'
    BY <2>1, <2>2, <2>3 DEF InOrder, Types, TypeOK, Loops
  <2>5. OneReplaced'
    BY <1>8, <2>1, <2>2 DEF EvStart, OneReplaced, Types, TypeOK, cfgVars
  <2> QED BY <2>4, <2>5
<1>9. CASE EvDial \/ ApiDial \/ ApiStart
  BY <1>9 DEF EvDial, ApiDial, ApiStart, StaysOpen
<1>10. CASE ApiLookup \/ ApiLocked
  BY <1>3, <1>10 DEF ApiLookup, ApiLocked, OneReplaced, loopVars, cfgVars
<1>11. CASE Asked
  BY <1>3, <1>11 DEF Asked, EvSubscription, EvTarget, ApiBegin, OneReplaced, Connected, loopVars,
       cfgVars, Types, TypeOK
<1> QED BY <1>1, <1>2, <1>4, <1>5, <1>6, <1>7, <1>8, <1>9, <1>10, <1>11
     DEF Next, EvStep, ApiStep, Asked

\* The first loop is the only one and has no predecessor to unwind.
LEMMA UnwoundInit ==
  ASSUME Constants, Init
  PROVE  Lives
BY TypesInit DEF Lives, Unwound, CurrentAlive, InOrder, OneReplaced, StaysOpen, Init, Loops, Constants

\* A loop of a connected target starts only after every loop before it has unwound:
\* stopTargetSubscription waits for the reader, which ends when the loop has closed its
\* channels, and a timeout of that wait is the only way around.
THEOREM LoopsDoNotOverlap ==
  ASSUME Constants, Connected, ~Slow
  PROVE  Spec => []NoOverlap
<1>1. Init => Unwound
  BY UnwoundInit DEF Lives
<1>2. Unwound /\ [Next]_vars => Unwound'
  BY UnwoundInv
<1>3. Unwound => NoOverlap
  BY DEF Unwound, InOrder, NoOverlap, Types, TypeOK, Loops
<1> QED BY <1>1, <1>2, <1>3, PTL DEF Spec

-----------------------------------------------------------------------------
(* The current loop. *)

\* A step of a loop leaves the current one alive: it retries what ends its attempts, and
\* the others have unwound.
LEMMA LoopAlive ==
  ASSUME ~Cancels, Lives, NEW h \in Loops, SubscribeChan(h)
  PROVE  CurrentAlive'
<1> USE DEF Lives, CurrentAlive, Goto, loopVars, cfgVars
<1>t. TypeOK /\ conn.open
  BY DEF Unwound, Types, StaysOpen
<1>0. UNCHANGED <<cur, conn, sctx>> /\ pc[h] \notin {"off", "closed"}
  BY DEF SubscribeChan, Attempt, AttemptOk, AttemptErr, AttemptCancelled, Register, Send,
       Recv, RecvErr, RecvCancelled, SendError, Clean, Delay
<1>1. CASE cur # 0 /\ h # cur
  BY <1>0, <1>1 DEF Unwound, InOrder, OneReplaced, Types, TypeOK, Loops
<1>2. CASE h = cur
  <2>1. CASE Attempt(h)
    BY <1>t, <1>0, <1>2, <2>1 DEF Attempt, AttemptOk, AttemptErr, AttemptCancelled, Alive, TypeOK
  <2>2. CASE Register(h)
    BY <1>t, <1>0, <1>2, <2>2 DEF Register, Alive, TypeOK
  <2>3. CASE Send(h)
    BY <1>t, <1>0, <1>2, <2>3 DEF Send, Alive, TypeOK
  <2>4. CASE Recv(h) \/ RecvErr(h)
    BY <1>t, <1>0, <1>2, <2>4 DEF Recv, RecvErr, Alive, TypeOK
  <2>5. CASE RecvCancelled(h)
    BY <1>t, <1>2, <2>5 DEF RecvCancelled, Streaming
  <2>6. CASE SendError(h)
    BY <1>t, <1>0, <1>2, <2>6 DEF SendError, Alive, TypeOK
  <2>7. CASE Clean(h) \/ Delay(h)
    BY <1>t, <1>0, <1>2, <2>7 DEF Clean, Delay, StopSubscription, Alive, TypeOK
  <2> QED BY <2>1, <2>2, <2>3, <2>4, <2>5, <2>6, <2>7 DEF SubscribeChan
<1>3. CASE cur = 0
  BY <1>0, <1>3
<1> QED BY <1>1, <1>2, <1>3

\* So does every step of the others.
LEMMA LivesInv ==
  ASSUME Constants, Connected, ~Slow, ~Cancels, Lives, [Next]_vars
  PROVE  Lives'
<1> SUFFICES CurrentAlive'
  BY UnwoundInv DEF Lives
<1> USE DEF Lives, CurrentAlive, Alive
<1>1. CASE UNCHANGED vars
  BY <1>1 DEF vars, loopVars
<1>2. ASSUME NEW h \in Loops, Reader(h)
      PROVE  CurrentAlive'
  BY <1>2 DEF Reader, ReadResponse, ReadError, ReaderSet, ReaderOuts, ReaderLast, ReaderDone, loopVars
<1>3. CASE EvLock \/ EvCancel \/ EvWait \/ ApiLookup
  BY <1>3 DEF EvLock, EvCancel, EvWait, ApiLookup, loopVars
<1>4. CASE EvStop
  BY <1>4 DEF EvStop, Unwound, OneReplaced
<1>5. CASE EvStart
  BY <1>5, StartTypes DEF EvStart, StartTargetSubscription, Goto, Unwound, Types, TypeOK
<1>6. CASE EvDial \/ ApiDial \/ ApiStart
  BY <1>6 DEF EvDial, ApiDial, ApiStart, Unwound, StaysOpen
<1>7. CASE ApiLocked
  BY <1>7 DEF ApiLocked, Unwound, StaysOpen, loopVars
<1>8. CASE Asked
  BY <1>8 DEF Asked, EvSubscription, EvTarget, ApiBegin, Connected, loopVars
<1> QED BY <1>1, <1>2, <1>3, <1>4, <1>5, <1>6, <1>7, <1>8, LoopAlive DEF Next, EvStep, ApiStep, Asked

\* The loop that the manager believes in is alive while the target is connected, unless the
\* device ends a stream with Canceled: no other loop's unwinding cancels its attempts, and
\* what ends them is retried.
THEOREM CurrentLoopIsAlive ==
  ASSUME Constants, Connected, ~Slow, ~Cancels
  PROVE  Spec => []CurrentLoopLives
<1>1. Init => Lives
  BY UnwoundInit
<1>2. Lives /\ [Next]_vars => Lives'
  BY LivesInv
<1>3. Lives => CurrentLoopLives
  BY DEF Lives, CurrentAlive, CurrentLoopLives
<1> QED BY <1>1, <1>2, <1>3, PTL DEF Spec
=============================================================================
