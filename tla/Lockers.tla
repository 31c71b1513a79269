------------------------------- MODULE Lockers -------------------------------
(***************************************************************************)
(* The consul, redis and Kubernetes lockers: Lock, KeepLock, Unlock and    *)
(* Stop of one key by several members, and the record of the key in the    *)
(* backend.  A Lock takes a step at the backend and another one, under the *)
(* locker's mutex, when it enters the lock among the acquired ones; an     *)
(* Unlock may run in between.  A record whose lease expired stays until it *)
(* is taken over: all three backends treat it as absent.  An optimistic    *)
(* Get and Update of a Kubernetes lease is one step; a conflict is one of  *)
(* the errors a call may return.                                           *)
(***************************************************************************)
EXTENDS Naturals, FiniteSets

CONSTANTS Members, Nobody,
          Backends,   \* of "consul", "redis", "k8s": the ones checked
          MaxLock,    \* bound: calls of Lock by one member
          Stops       \* members that call Stop

VARIABLES
  backend,
  rec,      \* the key in the backend: who holds it and with which attempt
  fresh,    \* its lease (session, TTL) has not expired
  pc,       \* a member's caller: idle, try, got, held, lost, unlock, stop, stuck, panic
  was,      \* where the caller was when it called Unlock
  tok,      \* its attempt: the session, the redis value
  att,      \* attemptinglocks: "none", "open" or "closed" (the doneChan)
  acq,      \* acquiredlocks: the attempt, 0 = none
  shut      \* attempts whose doneChan is closed

vars == <<backend, rec, fresh, pc, was, tok, att, acq, shut>>

Free == [who |-> Nobody, tok |-> 0]
Mine(m) == [who |-> m, tok |-> tok[m]]

TypeOK ==
  /\ backend \in Backends
  /\ rec \in [who : Members \cup {Nobody}, tok : 0 .. MaxLock] /\ fresh \in BOOLEAN
  /\ pc \in [Members -> {"idle", "try", "got", "held", "lost", "unlock", "stop", "stuck", "panic"}]
  /\ tok \in [Members -> 0 .. MaxLock] /\ acq \in [Members -> 0 .. MaxLock]
  /\ att \in [Members -> {"none", "open", "closed"}]
  /\ shut \subseteq Members \X (1 .. MaxLock)

Init ==
  /\ backend \in Backends
  /\ rec = Free /\ fresh = FALSE
  /\ pc = [m \in Members |-> "idle"] /\ was = pc
  /\ tok = [m \in Members |-> 0] /\ acq = tok
  /\ att = [m \in Members |-> "none"]
  /\ shut = {}

-----------------------------------------------------------------------------
(* Lock. *)

LockBegin(m) ==
  /\ pc[m] = "idle" /\ tok[m] < MaxLock
  /\ tok' = [tok EXCEPT ![m] = @ + 1]
  /\ att' = [att EXCEPT ![m] = "open"]
  /\ pc' = [pc EXCEPT ![m] = "try"]
  /\ UNCHANGED <<backend, rec, fresh, was, acq, shut>>

\* The backend gives the key to whoever finds it absent or expired.
Take(m) == rec' = Mine(m) /\ fresh' = TRUE
Vacant == rec = Free \/ ~fresh

\* A session is made for every attempt; Unlock may have destroyed it.
LockConsul(m) == backend = "consul" /\ Vacant /\ <<m, tok[m]>> \notin shut /\ Take(m)
\* The redlock mutex, with a random value for every attempt.
LockRedis(m) == backend = "redis" /\ Vacant /\ Take(m)
\* A lease of the member's own identity is found and renewed.
LockK8s(m) == backend = "k8s" /\ (Vacant \/ rec.who = m) /\ Take(m)

LockAcquire(m) ==
  /\ pc[m] = "try" /\ (LockConsul(m) \/ LockRedis(m) \/ LockK8s(m))
  /\ pc' = [pc EXCEPT ![m] = "got"]
  /\ UNCHANGED <<backend, was, tok, att, acq, shut>>

LockReturn(m) ==
  /\ pc[m] = "got"
  /\ acq' = [acq EXCEPT ![m] = tok[m]]
  /\ att' = [att EXCEPT ![m] = "none"]
  /\ pc' = [pc EXCEPT ![m] = "held"]
  /\ UNCHANGED <<backend, rec, fresh, was, tok, shut>>

\* The context is done, doneChan is closed, redis finds the key taken, or the call fails
\* (consul retries a failed call instead).
LockFail(m) ==
  /\ pc[m] = "try"
  /\ pc' = [pc EXCEPT ![m] = "idle"]
  /\ att' = [att EXCEPT ![m] = "none"]
  /\ UNCHANGED <<backend, rec, fresh, was, tok, acq, shut>>

-----------------------------------------------------------------------------
(* KeepLock: one renewal, or the report of a loss to the caller. *)

RenewsConsul(m) == backend = "consul" /\ (rec # Mine(m) \/ fresh)    \* the session, not the key
RenewsRedis(m) == backend = "redis" /\ rec = Mine(m) /\ fresh
RenewsK8s(m) == backend = "k8s" /\ acq[m] # 0 /\ rec # Free /\ (rec.who = m \/ ~fresh)
Renewable(m) == RenewsConsul(m) \/ RenewsRedis(m) \/ RenewsK8s(m)

KeepRenew(m) ==
  /\ pc[m] = "held" /\ Renewable(m) /\ <<m, tok[m]>> \notin shut
  /\ IF backend = "k8s" THEN rec' = Mine(m) /\ fresh' = TRUE
     ELSE UNCHANGED rec /\ fresh' = (fresh \/ rec = Mine(m))
  /\ UNCHANGED <<backend, pc, was, tok, att, acq, shut>>

KeepLost(m) ==
  /\ pc[m] = "held" /\ (~Renewable(m) \/ <<m, tok[m]>> \in shut)
  /\ pc' = [pc EXCEPT ![m] = "lost"]
  /\ UNCHANGED <<backend, rec, fresh, was, tok, att, acq, shut>>

\* The lease expires because renewals are late.
Lapse ==
  /\ fresh /\ fresh' = FALSE
  /\ UNCHANGED <<backend, rec, pc, was, tok, att, acq, shut>>

-----------------------------------------------------------------------------
(* Unlock and Stop. *)

UnlockCall(m) ==
  /\ pc[m] \in {"try", "got", "held", "lost"}
  /\ was' = [was EXCEPT ![m] = pc[m]]
  /\ pc' = [pc EXCEPT ![m] = "unlock"]
  /\ UNCHANGED <<backend, rec, fresh, tok, att, acq, shut>>

Delete == rec' = Free /\ fresh' = FALSE

\* The call of Lock goes on when Unlock met it; its doneChan is closed.
Resume(m) == IF was[m] \in {"try", "got"} THEN was[m] ELSE "idle"

\* consul: the key is deleted whoever holds it; an error leaves the entry, its doneChan
\* closed.  An attempt loses its session, and with it the key if it got that far.
UnlockConsul(m) ==
  LET t == IF acq[m] # 0 THEN acq[m] ELSE tok[m] IN
  /\ backend = "consul"
  /\ IF <<m, t>> \in shut THEN pc' = [pc EXCEPT ![m] = "panic"] /\ UNCHANGED <<rec, fresh, acq, shut, att>>
     ELSE /\ shut' = shut \cup {<<m, t>>}
          /\ \/ /\ acq[m] # 0 /\ Delete /\ acq' = [acq EXCEPT ![m] = 0] /\ UNCHANGED att
             \/ /\ acq[m] # 0 /\ UNCHANGED <<rec, fresh, acq, att>>
             \/ /\ acq[m] = 0 /\ att[m] # "none" /\ att' = [att EXCEPT ![m] = "closed"]
                /\ IF rec = Mine(m) THEN Delete ELSE UNCHANGED <<rec, fresh>>
                /\ UNCHANGED acq
          /\ pc' = [pc EXCEPT ![m] = Resume(m)]

\* Mutant: the key is deleted whatever its value.
UnlockRedisAny(m) ==
  /\ backend = "redis"
  /\ acq' = [acq EXCEPT ![m] = 0] /\ att' = [att EXCEPT ![m] = "none"]
  /\ Delete
  /\ pc' = [pc EXCEPT ![m] = Resume(m)]
  /\ UNCHANGED shut

\* redis: the value is compared; the entries are gone whatever the answer.
UnlockRedis(m) ==
  /\ backend = "redis"
  /\ acq' = [acq EXCEPT ![m] = 0] /\ att' = [att EXCEPT ![m] = "none"]
  /\ IF rec = Mine(m) /\ fresh THEN Delete ELSE UNCHANGED <<rec, fresh>>
  /\ pc' = [pc EXCEPT ![m] = Resume(m)]
  /\ UNCHANGED shut

\* k8s: the lease is deleted by its name, for an attempt too.
UnlockK8s(m) ==
  /\ backend = "k8s"
  /\ IF acq[m] # 0 THEN acq' = [acq EXCEPT ![m] = 0] /\ UNCHANGED <<att, shut>>
     ELSE att' = [att EXCEPT ![m] = "none"] /\ shut' = shut \cup {<<m, tok[m]>>} /\ UNCHANGED acq
  /\ \/ Delete
     \/ UNCHANGED <<rec, fresh>>     \* the call fails
  /\ pc' = [pc EXCEPT ![m] = Resume(m)]

Unlock(m) ==
  /\ pc[m] = "unlock"
  /\ UnlockConsul(m) \/ UnlockRedis(m) \/ UnlockK8s(m)
  /\ UNCHANGED <<backend, was, tok>>

StopCall(m) ==
  /\ m \in Stops /\ pc[m] = "held"
  /\ was' = [was EXCEPT ![m] = "held"]
  /\ pc' = [pc EXCEPT ![m] = "stop"]
  /\ UNCHANGED <<backend, rec, fresh, tok, att, acq, shut>>

\* consul's Stop holds the mutex that Unlock locks.
StopConsul(m) ==
  /\ backend = "consul" /\ acq[m] # 0
  /\ pc' = [pc EXCEPT ![m] = "stuck"]
  /\ UNCHANGED <<rec, fresh, att, acq, shut>>
StopRedis(m) == UnlockRedis(m)
StopK8s(m) == UnlockK8s(m)

Stop(m) ==
  /\ pc[m] = "stop"
  /\ StopConsul(m) \/ StopRedis(m) \/ StopK8s(m)
  /\ UNCHANGED <<backend, was, tok>>

Keep(m) == KeepRenew(m) \/ KeepLost(m)
Locker(m) == LockAcquire(m) \/ LockReturn(m) \/ Keep(m) \/ Unlock(m) \/ Stop(m)
Caller(m) == LockBegin(m) \/ LockFail(m) \/ UnlockCall(m) \/ StopCall(m)
Next == Lapse \/ \E m \in Members : Locker(m) \/ Caller(m)

\* The lockers' goroutines run and the renewal timer ticks: a call that can go on does.
Fairness == \A m \in Members : WF_vars(LockReturn(m)) /\ WF_vars(Keep(m)) /\ WF_vars(Unlock(m)) /\ WF_vars(Stop(m))
Spec == Init /\ [][Next]_vars /\ Fairness

-----------------------------------------------------------------------------
(* Properties. *)

L == INSTANCE Lease WITH holder <- rec.who, fenced <- (backend = "redis"),
                         unlocking <- {m \in Members : pc[m] \in {"unlock", "stop"}}

\* The lockers implement the lease; redis's releases are fenced by the value it compares,
\* a stale Unlock of consul or Kubernetes may end the lease of another member.
ImplementsLease == L!Spec
=============================================================================
