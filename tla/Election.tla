------------------------------ MODULE Election ------------------------------
(***************************************************************************)
(* The leader election of the collector's cluster manager                  *)
(* (pkg/collector/managers/cluster/election.go, runCampaign): every member *)
(* campaigns for the leader key of the locker, keeps it while it leads,    *)
(* steps down when it finds the key lost, and can be told to withdraw.     *)
(*                                                                         *)
(* A call of Campaign is a term of its member.  The key is held under a    *)
(* lease of the member that acquired it, <<member, term>>; KeepLock renews *)
(* it until it is released, renewal fails or the member crashes, and a     *)
(* lease nobody renews expires.  The fields of election that several       *)
(* goroutines share (releaseFn, cancelKeepAlive, loseOnce, loseCh, held)   *)
(* always belong to the member's latest term, whoever uses them.           *)
(***************************************************************************)
EXTENDS Naturals, FiniteSets

CONSTANTS
  Members,
  DeleteAny,  \* TRUE: Unlock deletes the key whoever holds it (consul, k8s)
  Late,       \* TRUE: a goroutine of a lost term may outlast the backoff
  MaxTerm,    \* bound: campaigns of a member
  MaxFaults   \* bound: failed renewals and calls, crashes and withdrawals

ASSUME ConstantsAssumption ==
  /\ DeleteAny \in BOOLEAN /\ Late \in BOOLEAN
  /\ MaxTerm \in Nat \ {0} /\ MaxFaults \in Nat

Terms  == 1 .. MaxTerm
Leases == Members \X Terms
Free   == <<"free", 0>>

VARIABLES
  key,      \* the lease the leader key is held under
  kept,     \* the leases KeepLock renews
  camp,     \* runCampaign of each member: where it is, and its term
  release,  \* releaseFn: the term whose lock it releases, 0 when nil
  held,     \* held
  kaCancel, \* cancelKeepAlive: the term whose keepalive it cancels, 0 when nil
  once,     \* loseOnce was used
  lost,     \* the terms whose loseCh is closed
  leading,  \* the members whose leader context is not cancelled
  ka,       \* the keepalive goroutine of each term: where it is, what it releases
  kaCtx,    \* the keepalives whose context is not cancelled
  wd,       \* Withdraw at each member: where it is, what it releases and cancels
  nfaults

vars == <<key, kept, camp, release, held, kaCancel, once, lost, leading, ka, kaCtx, wd, nfaults>>

CampPcs == {"idle", "try", "won", "set", "held", "observe"}
KaPcs   == {"off", "wait", "holder", "loss", "release", "cancel", "call", "signal", "done"}
WdPcs   == {"idle", "take", "cancel", "release", "signal"}

Init ==
  /\ key = Free /\ kept = {}
  /\ camp = [m \in Members |-> [pc |-> "idle", term |-> 0]]
  /\ release = [m \in Members |-> 0]
  /\ held = [m \in Members |-> FALSE]
  /\ kaCancel = [m \in Members |-> 0]
  /\ once = [m \in Members |-> FALSE]
  /\ lost = {} /\ leading = {}
  /\ ka = [l \in Leases |-> [pc |-> "off", rel |-> 0]]
  /\ kaCtx = {}
  /\ wd = [m \in Members |-> [pc |-> "idle", rel |-> 0, cancel |-> 0]]
  /\ nfaults = 0

Fault == nfaults < MaxFaults /\ nfaults' = nfaults + 1

\* No goroutine of an earlier term is still at work.
Quiet(m) == /\ wd[m].pc = "idle"
            /\ \A t \in Terms : ka[<<m, t>>].pc \in {"off", "done"}

-----------------------------------------------------------------------------
(* The locker, as the election uses it *)

\* Mutant: Unlock deletes the key whoever holds it.
UnlockDeletes(m, t) ==
  /\ kept' = kept \ {<<m, t>>}
  /\ key' = Free
  /\ UNCHANGED nfaults

\* releaseFn of term t: the renewal ends and the key is deleted; an error leaves it
\* to expire.
Unlock(m, t) ==
  /\ kept' = kept \ {<<m, t>>}
  /\ \/ /\ key' = IF key = <<m, t>> \/ DeleteAny THEN Free ELSE key
        /\ UNCHANGED nfaults
     \/ UNCHANGED key /\ Fault

\* KeepLock cannot renew a lease: it reports the error and gives up.
RenewFails(l) ==
  /\ l \in kept /\ Fault
  /\ kept' = kept \ {l}
  /\ UNCHANGED <<key, camp, release, held, kaCancel, once, lost, leading, ka, kaCtx, wd>>

Expire ==
  /\ key # Free /\ key \notin kept
  /\ key' = Free
  /\ UNCHANGED <<kept, camp, release, held, kaCancel, once, lost, leading, ka, kaCtx, wd, nfaults>>

-----------------------------------------------------------------------------
(* runCampaign and Campaign *)

\* Mutant: the new campaign is still the old term.
CampaignSameTerm(m) ==
  /\ camp[m].pc = "idle" /\ camp[m].term < MaxTerm
  /\ Late \/ Quiet(m)
  /\ camp' = [camp EXCEPT ![m].pc = "try"]
  /\ once' = [once EXCEPT ![m] = FALSE]
  /\ UNCHANGED <<key, kept, release, held, kaCancel, lost, leading, ka, kaCtx, wd, nfaults>>

\* The backoff, and the cooldown after a withdrawal, are over: loseOnce and loseCh
\* are made anew.
Campaign(m) ==
  /\ camp[m].pc = "idle" /\ camp[m].term < MaxTerm
  /\ Late \/ Quiet(m)
  /\ camp' = [camp EXCEPT ![m] = [pc |-> "try", term |-> @.term + 1]]
  /\ once' = [once EXCEPT ![m] = FALSE]
  /\ UNCHANGED <<key, kept, release, held, kaCancel, lost, leading, ka, kaCtx, wd, nfaults>>

\* tryAcquire gets the lock, and KeepLock starts; while it does not, it tries again.
TryAcquire(m) ==
  /\ camp[m].pc = "try" /\ key = Free
  /\ LET l == <<m, camp[m].term>> IN
     /\ key' = l
     /\ kept' = kept \cup {l}
  /\ camp' = [camp EXCEPT ![m].pc = "won"]
  /\ UNCHANGED <<release, held, kaCancel, once, lost, leading, ka, kaCtx, wd, nfaults>>

SetRelease(m) ==
  /\ camp[m].pc = "won"
  /\ release' = [release EXCEPT ![m] = camp[m].term]
  /\ camp' = [camp EXCEPT ![m].pc = "set"]
  /\ UNCHANGED <<key, kept, held, kaCancel, once, lost, leading, ka, kaCtx, wd, nfaults>>

SetHeld(m) ==
  /\ camp[m].pc = "set"
  /\ held' = [held EXCEPT ![m] = TRUE]
  /\ camp' = [camp EXCEPT ![m].pc = "held"]
  /\ UNCHANGED <<key, kept, release, kaCancel, once, lost, leading, ka, kaCtx, wd, nfaults>>

\* The keepalive starts, Campaign returns, and the leader's duties begin.
Lead(m) ==
  /\ camp[m].pc = "held"
  /\ LET t == camp[m].term IN
     /\ kaCancel' = [kaCancel EXCEPT ![m] = t]
     /\ ka' = [ka EXCEPT ![<<m, t>>].pc = "wait"]
     /\ kaCtx' = kaCtx \cup {<<m, t>>}
  /\ leading' = leading \cup {m}
  /\ camp' = [camp EXCEPT ![m].pc = "observe"]
  /\ UNCHANGED <<key, kept, release, held, once, lost, wd, nfaults>>

\* Observe's channel is closed: the leader's context is cancelled.
StepDown(m) ==
  /\ camp[m].pc = "observe" /\ <<m, camp[m].term>> \in lost
  /\ leading' = leading \ {m}
  /\ camp' = [camp EXCEPT ![m].pc = "idle"]
  /\ UNCHANGED <<key, kept, release, held, kaCancel, once, lost, ka, kaCtx, wd, nfaults>>

-----------------------------------------------------------------------------
(* keepalive and signalLoss, in the goroutine of lease <<m, t>> *)

KaGoto(m, t, pc) == ka' = [ka EXCEPT ![<<m, t>>].pc = pc]

KaDone(m, t) ==
  /\ ka[<<m, t>>].pc = "wait" /\ <<m, t>> \notin kaCtx
  /\ KaGoto(m, t, "done")
  /\ UNCHANGED <<key, kept, camp, release, held, kaCancel, once, lost, leading, kaCtx, wd, nfaults>>

\* The ticker fires and renew asks IsLocked, which fails on a cancelled context and
\* may fail on another one; anyone's lock will do.
Renew(m, t) ==
  /\ ka[<<m, t>>].pc = "wait"
  /\ \/ /\ KaGoto(m, t, IF <<m, t>> \notin kaCtx \/ key = Free THEN "loss" ELSE "holder")
        /\ UNCHANGED nfaults
     \/ KaGoto(m, t, "loss") /\ Fault
  /\ UNCHANGED <<key, kept, camp, release, held, kaCancel, once, lost, leading, kaCtx, wd>>

\* Mutant: who holds the lock is not asked.
HolderUnchecked(m, t) ==
  /\ ka[<<m, t>>].pc = "holder"
  /\ KaGoto(m, t, "wait")
  /\ UNCHANGED <<key, kept, camp, release, held, kaCancel, once, lost, leading, kaCtx, wd, nfaults>>

\* List names the holder; another member is a loss, an error or nobody is not.
Holder(m, t) ==
  /\ ka[<<m, t>>].pc = "holder"
  /\ \/ /\ KaGoto(m, t, IF <<m, t>> \in kaCtx /\ key # Free /\ key[1] # m
                          THEN "loss" ELSE "wait")
        /\ UNCHANGED nfaults
     \/ KaGoto(m, t, "wait") /\ Fault
  /\ UNCHANGED <<key, kept, camp, release, held, kaCancel, once, lost, leading, kaCtx, wd>>

\* Mutant: signalLoss drops releaseFn without a call.
LossTakeOnly(m, t) ==
  /\ ka[<<m, t>>].pc = "loss"
  /\ KaGoto(m, t, "cancel")
  /\ release' = [release EXCEPT ![m] = 0]
  /\ UNCHANGED <<key, kept, camp, held, kaCancel, once, lost, leading, kaCtx, wd, nfaults>>

\* signalLoss takes releaseFn under mu, whichever term it belongs to.
LossTake(m, t) ==
  /\ ka[<<m, t>>].pc = "loss"
  /\ ka' = [ka EXCEPT ![<<m, t>>] =
              [pc |-> IF release[m] = 0 THEN "cancel" ELSE "release", rel |-> release[m]]]
  /\ release' = [release EXCEPT ![m] = 0]
  /\ UNCHANGED <<key, kept, camp, held, kaCancel, once, lost, leading, kaCtx, wd, nfaults>>

LossRelease(m, t) ==
  /\ ka[<<m, t>>].pc = "release"
  /\ Unlock(m, ka[<<m, t>>].rel)
  /\ KaGoto(m, t, "cancel")
  /\ UNCHANGED <<camp, release, held, kaCancel, once, lost, leading, kaCtx, wd>>

\* cancelKeepAlive is read without mu, once to compare it with nil and once to call it.
LossCheckCancel(m, t) ==
  /\ ka[<<m, t>>].pc = "cancel"
  /\ KaGoto(m, t, IF kaCancel[m] = 0 THEN "signal" ELSE "call")
  /\ UNCHANGED <<key, kept, camp, release, held, kaCancel, once, lost, leading, kaCtx, wd, nfaults>>

LossCancel(m, t) ==
  /\ ka[<<m, t>>].pc = "call" /\ kaCancel[m] # 0
  /\ kaCtx' = kaCtx \ {<<m, kaCancel[m]>>}
  /\ KaGoto(m, t, "signal")
  /\ UNCHANGED <<key, kept, camp, release, held, kaCancel, once, lost, leading, wd, nfaults>>

\* loseOnce.Do: the loseCh of the member's latest term is closed.
Lose(m) ==
  /\ once' = [once EXCEPT ![m] = TRUE]
  /\ held' = [held EXCEPT ![m] = once[m] /\ @]
  /\ lost' = IF once[m] THEN lost ELSE lost \cup {<<m, camp[m].term>>}

LossSignal(m, t) ==
  /\ ka[<<m, t>>].pc = "signal"
  /\ Lose(m)
  /\ KaGoto(m, t, "done")
  /\ UNCHANGED <<key, kept, camp, release, kaCancel, leading, kaCtx, wd, nfaults>>

-----------------------------------------------------------------------------
(* Withdraw *)

Withdraw(m) ==
  /\ wd[m].pc = "idle" /\ held[m] /\ Fault
  /\ wd' = [wd EXCEPT ![m].pc = "take"]
  /\ UNCHANGED <<key, kept, camp, release, held, kaCancel, once, lost, leading, ka, kaCtx>>

WithdrawTake(m) ==
  /\ wd[m].pc = "take"
  /\ wd' = [wd EXCEPT ![m] = [pc |-> "cancel", rel |-> release[m], cancel |-> kaCancel[m]]]
  /\ release' = [release EXCEPT ![m] = 0]
  /\ kaCancel' = [kaCancel EXCEPT ![m] = 0]
  /\ UNCHANGED <<key, kept, camp, held, once, lost, leading, ka, kaCtx, nfaults>>

WithdrawCancel(m) ==
  /\ wd[m].pc = "cancel"
  /\ kaCtx' = kaCtx \ {<<m, wd[m].cancel>>}
  /\ wd' = [wd EXCEPT ![m].pc = IF wd[m].rel = 0 THEN "signal" ELSE "release"]
  /\ UNCHANGED <<key, kept, camp, release, held, kaCancel, once, lost, leading, ka, nfaults>>

WithdrawRelease(m) ==
  /\ wd[m].pc = "release"
  /\ Unlock(m, wd[m].rel)
  /\ wd' = [wd EXCEPT ![m].pc = "signal"]
  /\ UNCHANGED <<camp, release, held, kaCancel, once, lost, leading, ka, kaCtx>>

\* Mutant: Withdraw releases the lock and does not signal the loss.
WithdrawQuietly(m) ==
  /\ wd[m].pc = "signal"
  /\ wd' = [wd EXCEPT ![m].pc = "idle"]
  /\ UNCHANGED <<key, kept, camp, release, held, kaCancel, once, lost, leading, ka, kaCtx, nfaults>>

WithdrawSignal(m) ==
  /\ wd[m].pc = "signal"
  /\ Lose(m)
  /\ wd' = [wd EXCEPT ![m].pc = "idle"]
  /\ UNCHANGED <<key, kept, camp, release, kaCancel, leading, ka, kaCtx, nfaults>>

-----------------------------------------------------------------------------
(* Crashes *)

\* The member's process ends and starts again: what the locker stores stays.
Restart(m) ==
  /\ camp' = [camp EXCEPT ![m].pc = "idle"]
  /\ release' = [release EXCEPT ![m] = 0]
  /\ held' = [held EXCEPT ![m] = FALSE]
  /\ kaCancel' = [kaCancel EXCEPT ![m] = 0]
  /\ wd' = [wd EXCEPT ![m].pc = "idle"]
  /\ ka' = [l \in Leases |-> IF l[1] = m /\ ka[l].pc # "off" THEN [pc |-> "done", rel |-> 0] ELSE ka[l]]
  /\ kaCtx' = {l \in kaCtx : l[1] # m}
  /\ kept' = {l \in kept : l[1] # m}
  /\ leading' = leading \ {m}
  /\ UNCHANGED <<key, once, lost>>

\* A crash, or Stop: neither releases the leader key.
Crash(m) == camp[m].pc # "idle" /\ Fault /\ Restart(m)

\* Withdraw set cancelKeepAlive to nil between signalLoss's two reads: a nil call.
LossPanics(m, t) ==
  /\ ka[<<m, t>>].pc = "call" /\ kaCancel[m] = 0
  /\ Restart(m) /\ UNCHANGED nfaults

-----------------------------------------------------------------------------
RunCampaign(m) == Campaign(m) \/ TryAcquire(m) \/ SetRelease(m) \/ SetHeld(m) \/ Lead(m) \/ StepDown(m)

Keepalive(m, t) ==
  \/ KaDone(m, t) \/ Renew(m, t) \/ Holder(m, t)
  \/ LossTake(m, t) \/ LossRelease(m, t) \/ LossCheckCancel(m, t)
  \/ LossCancel(m, t) \/ LossPanics(m, t) \/ LossSignal(m, t)

Withdrawal(m) ==
  WithdrawTake(m) \/ WithdrawCancel(m) \/ WithdrawRelease(m) \/ WithdrawSignal(m)

Next ==
  \/ \E m \in Members : RunCampaign(m) \/ Withdraw(m) \/ Withdrawal(m) \/ Crash(m)
  \/ \E m \in Members, t \in Terms : Keepalive(m, t)
  \/ \E l \in Leases : RenewFails(l)
  \/ Expire

Spec == Init /\ [][Next]_vars

\* Go runs every ready goroutine, tickers fire and leases that nobody renews expire.
\* Nothing obliges an error, a crash or a withdrawal to happen.
Fairness ==
  /\ \A m \in Members : WF_vars(RunCampaign(m)) /\ WF_vars(Withdrawal(m))
  /\ \A m \in Members, t \in Terms : WF_vars(Keepalive(m, t))
  /\ WF_vars(Expire)

FairSpec == Spec /\ Fairness

-----------------------------------------------------------------------------
\* Type correctness of the election's fields and of the leader key.
TypeOK ==
  /\ key \in Leases \cup {Free} /\ kept \subseteq Leases
  /\ camp \in [Members -> [pc : CampPcs, term : 0 .. MaxTerm]]
  /\ release \in [Members -> 0 .. MaxTerm] /\ held \in [Members -> BOOLEAN]
  /\ kaCancel \in [Members -> 0 .. MaxTerm] /\ once \in [Members -> BOOLEAN]
  /\ lost \subseteq Leases /\ leading \subseteq Members
  /\ ka \in [Leases -> [pc : KaPcs, rel : 0 .. MaxTerm]] /\ kaCtx \subseteq Leases
  /\ wd \in [Members -> [pc : WdPcs, rel : 0 .. MaxTerm, cancel : 0 .. MaxTerm]]
  /\ nfaults \in 0 .. MaxFaults

\* A member renews the leader key only in its latest term, and once that term's loss
\* is signalled only while signalLoss or Withdraw has its release still to do: the
\* key of a member that has stepped down is never kept from the others.
NoAbandonedLock ==
  \A m \in Members, t \in Terms :
    <<m, t>> \in kept =>
      /\ t = camp[m].term
      /\ <<m, t>> \notin lost \/ ~Quiet(m)

\* A key whose holder goes on renewing it stays with that holder: releasing a lock
\* releases one's own (signalLoss, Withdraw, Unlock).
KeptLockStays == [][(key \in kept') => (key' = key)]_vars

\* A member that leads while another one holds the leader key notices and steps down
\* (keepalive, signalLoss, runCampaign).
StepsDown ==
  \A m \in Members :
    (m \in leading /\ key # Free /\ key[1] # m) ~> (m \notin leading)

\* When the errors, crashes and withdrawals are over one member leads and holds the
\* leader key, and no other one leads.
LeaderElected ==
  <>[](\E m \in Members : leading = {m} /\ key = <<m, camp[m].term>>)
=============================================================================
