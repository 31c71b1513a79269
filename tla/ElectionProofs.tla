--------------------------- MODULE ElectionProofs ---------------------------
(***************************************************************************)
(* Theorems about Election, for any members, terms and faults: its type    *)
(* correctness, that a leader key which is renewed stays with its holder   *)
(* on a locker that releases only the caller's lock, and that no member    *)
(* goes on renewing a key it has given up. TypeOK is not inductive by      *)
(* itself: loseOnce.Do records the member's term, so one has to know that  *)
(* whoever calls it belongs to a term (Started). The last theorem follows  *)
(* the release of a kept key from releaseFn to the goroutine that took it  *)
(* (Orderly).                                                              *)
(***************************************************************************)
EXTENDS Election, TLAPS

\* Whatever runs for a member, its campaign, a keepalive or a withdrawal, runs in a
\* term: Campaign has been called.
Started ==
  \A m \in Members :
    camp[m].term = 0 =>
      /\ camp[m].pc = "idle" /\ ~held[m] /\ wd[m].pc = "idle"
      /\ \A t \in Terms : ka[<<m, t>>].pc = "off"

IInv == TypeOK /\ Started

\* A member and a term make a lease, and the free key is not one.
LEMMA LeaseFacts ==
  /\ \A m \in Members, t \in Terms : <<m, t>> \in Leases
  /\ \A l \in Leases : l[1] \in Members /\ l[2] \in Terms /\ l = <<l[1], l[2]>>
  /\ Free \notin Leases
BY ConstantsAssumption DEF Leases, Terms, Free

\* A step of a goroutine of m, which has started, leaves the other members alone.
LEMMA OthersStarted ==
  ASSUME Started, NEW m \in Members, camp'[m].term # 0,
         \A n \in Members \ {m} :
           /\ camp'[n] = camp[n] /\ held'[n] = held[n] /\ wd'[n] = wd[n]
           /\ \A t \in Terms : ka'[<<n, t>>] = ka[<<n, t>>]
  PROVE  Started'
BY DEF Started

\* The program counters of a campaign and of a withdrawal move within their types.
LEMMA PcSteps ==
  ASSUME TypeOK, NEW m \in Members
  PROVE  /\ \A p \in CampPcs :
              [camp EXCEPT ![m].pc = p] \in [Members -> [pc : CampPcs, term : 0 .. MaxTerm]]
         /\ \A p \in WdPcs :
              [wd EXCEPT ![m].pc = p]
                \in [Members -> [pc : WdPcs, rel : 0 .. MaxTerm, cancel : 0 .. MaxTerm]]
BY DEF TypeOK

\* A step of one keepalive leaves the types and the other keepalives alone.
LEMMA KaSteps ==
  ASSUME TypeOK, NEW m \in Members, NEW t \in Terms, NEW p \in KaPcs, NEW r \in 0 .. MaxTerm,
         \/ ka' = [ka EXCEPT ![<<m, t>>].pc = p]
         \/ ka' = [ka EXCEPT ![<<m, t>>] = [pc |-> p, rel |-> r]]
  PROVE  /\ ka' \in [Leases -> [pc : KaPcs, rel : 0 .. MaxTerm]]
         /\ \A n \in Members \ {m} : \A u \in Terms : ka'[<<n, u>>] = ka[<<n, u>>]
<1>1. <<m, t>> \in Leases /\ ka \in [Leases -> [pc : KaPcs, rel : 0 .. MaxTerm]]
  BY LeaseFacts DEF TypeOK
<1>2. ka' \in [Leases -> [pc : KaPcs, rel : 0 .. MaxTerm]]
  <2>1. CASE ka' = [ka EXCEPT ![<<m, t>>].pc = p]
    BY <1>1, <2>1
  <2>2. CASE ka' = [ka EXCEPT ![<<m, t>>] = [pc |-> p, rel |-> r]]
    BY <1>1, <2>2
  <2> QED BY <2>1, <2>2
<1>3. ASSUME NEW n \in Members \ {m}, NEW u \in Terms
      PROVE  ka'[<<n, u>>] = ka[<<n, u>>]
  <2>1. <<n, u>> \in Leases /\ <<n, u>> # <<m, t>>
    BY LeaseFacts
  <2> QED BY <1>1, <2>1
<1> QED BY <1>2, <1>3

\* The initial state satisfies the invariant.
LEMMA InitInv == Init => IInv
<1> SUFFICES ASSUME Init PROVE IInv
  OBVIOUS
<1>1. TypeOK
  BY ConstantsAssumption DEF Init, TypeOK, CampPcs, KaPcs, WdPcs
<1>2. Started
  BY LeaseFacts DEF Init, Started
<1> QED BY <1>1, <1>2 DEF IInv

\* The steps of runCampaign preserve the invariant.
LEMMA CampaignInv ==
  ASSUME IInv, NEW m \in Members, RunCampaign(m)
  PROVE  IInv'
<1> USE LeaseFacts, ConstantsAssumption DEF IInv, TypeOK
<1>1. CASE Campaign(m)
  BY <1>1 DEF Campaign, Started, CampPcs
<1>2. CASE TryAcquire(m)
  <2>1. camp[m].term \in Terms
    BY <1>2 DEF TryAcquire, Started, Terms
  <2> QED BY <1>2, <2>1 DEF TryAcquire, Started, CampPcs
<1>3. CASE SetRelease(m)
  BY <1>3 DEF SetRelease, Started, CampPcs
<1>4. CASE SetHeld(m)
  BY <1>4 DEF SetHeld, Started, CampPcs
<1>5. CASE Lead(m)
  <2>1. camp[m].term \in Terms
    BY <1>5 DEF Lead, Started, Terms
  <2>2. <<m, camp[m].term>> \in Leases
    BY <2>1
  <2>3. TypeOK'
    <3>1. ka' = [ka EXCEPT ![<<m, camp[m].term>>].pc = "wait"]
      BY <1>5 DEF Lead
    <3>0. "wait" \in KaPcs /\ 0 \in 0 .. MaxTerm
      BY DEF KaPcs
    <3>2. ka' \in [Leases -> [pc : KaPcs, rel : 0 .. MaxTerm]]
      BY <2>1, <3>0, <3>1, KaSteps
    <3>3. camp' \in [Members -> [pc : CampPcs, term : 0 .. MaxTerm]]
      BY <1>5, PcSteps DEF Lead, CampPcs
    <3> QED BY <1>5, <2>1, <2>2, <3>2, <3>3 DEF Lead
  <2>4. Started'
    BY <1>5, <2>1, <2>2 DEF Lead, Started, Leases
  <2> QED BY <2>3, <2>4
<1>6. CASE StepDown(m)
  BY <1>6 DEF StepDown, Started, CampPcs
<1> QED BY <1>1, <1>2, <1>3, <1>4, <1>5, <1>6 DEF RunCampaign

\* A restart of a member preserves the invariant.
LEMMA RestartInv ==
  ASSUME IInv, NEW m \in Members, Restart(m), nfaults' \in 0 .. MaxFaults
  PROVE  IInv'
<1> USE ConstantsAssumption DEF IInv
<1>1. ka' \in [Leases -> [pc : KaPcs, rel : 0 .. MaxTerm]]
  BY DEF Restart, TypeOK, KaPcs
<1>2. TypeOK'
  <2>1. camp' \in [Members -> [pc : CampPcs, term : 0 .. MaxTerm]]
    BY PcSteps DEF Restart, CampPcs
  <2>2. wd' \in [Members -> [pc : WdPcs, rel : 0 .. MaxTerm, cancel : 0 .. MaxTerm]]
    BY PcSteps DEF Restart, WdPcs
  <2>3. /\ release' \in [Members -> 0 .. MaxTerm] /\ held' \in [Members -> BOOLEAN]
        /\ kaCancel' \in [Members -> 0 .. MaxTerm]
        /\ kaCtx' \subseteq Leases /\ kept' \subseteq Leases /\ leading' \subseteq Members
    BY DEF Restart, TypeOK
  <2> QED BY <1>1, <2>1, <2>2, <2>3 DEF Restart, TypeOK
<1>3. \A n \in Members, t \in Terms : ka[<<n, t>>].pc = "off" => ka'[<<n, t>>].pc = "off"
  BY LeaseFacts DEF Restart
<1>4. \A n \in Members : /\ camp'[n].term = camp[n].term
                         /\ camp[n].pc = "idle" => camp'[n].pc = "idle"
                         /\ ~held[n] => ~held'[n]
                         /\ wd[n].pc = "idle" => wd'[n].pc = "idle"
  BY DEF Restart, TypeOK
<1>5. Started'
  BY <1>3, <1>4 DEF Started
<1> QED BY <1>2, <1>5

\* The steps of a keepalive, and of its signalLoss, preserve the invariant.
LEMMA KeepaliveInv ==
  ASSUME IInv, NEW m \in Members, NEW t \in Terms, Keepalive(m, t)
  PROVE  IInv'
<1> USE ConstantsAssumption DEF IInv
<1>t. TypeOK
  OBVIOUS
<1>s. ASSUME ka[<<m, t>>].pc # "off" PROVE camp[m].term \in Terms /\ camp[m].term # 0
  BY <1>s DEF TypeOK, Started, Terms
<1>1. CASE KaDone(m, t)
  <2>1. PICK p \in KaPcs, r \in 0 .. MaxTerm :
          \/ ka' = [ka EXCEPT ![<<m, t>>].pc = p]
          \/ ka' = [ka EXCEPT ![<<m, t>>] = [pc |-> p, rel |-> r]]
    BY <1>1 DEF KaDone, KaGoto, KaPcs, TypeOK
  <2>2. /\ ka' \in [Leases -> [pc : KaPcs, rel : 0 .. MaxTerm]]
        /\ \A n \in Members \ {m} : \A u \in Terms : ka'[<<n, u>>] = ka[<<n, u>>]
    BY <2>1, <1>t, KaSteps
  <2>3. ka[<<m, t>>].pc # "off"
    BY <1>1 DEF KaDone
  <2>4. TypeOK'
    BY <1>1, <1>s, <2>2, <2>3, LeaseFacts DEF KaDone, TypeOK, Fault
  <2>5. Started'
    BY <1>1, <1>s, <2>2, <2>3, OthersStarted DEF KaDone, TypeOK
  <2> QED BY <2>4, <2>5
<1>2. CASE Renew(m, t)
  <2>1. PICK p \in KaPcs, r \in 0 .. MaxTerm :
          \/ ka' = [ka EXCEPT ![<<m, t>>].pc = p]
          \/ ka' = [ka EXCEPT ![<<m, t>>] = [pc |-> p, rel |-> r]]
    BY <1>2 DEF Renew, KaGoto, KaPcs, TypeOK
  <2>2. /\ ka' \in [Leases -> [pc : KaPcs, rel : 0 .. MaxTerm]]
        /\ \A n \in Members \ {m} : \A u \in Terms : ka'[<<n, u>>] = ka[<<n, u>>]
    BY <2>1, <1>t, KaSteps
  <2>3. ka[<<m, t>>].pc # "off"
    BY <1>2 DEF Renew
  <2>4. TypeOK'
    BY <1>2, <1>s, <2>2, <2>3, LeaseFacts DEF Renew, TypeOK, Fault
  <2>5. Started'
    BY <1>2, <1>s, <2>2, <2>3, OthersStarted DEF Renew, TypeOK
  <2> QED BY <2>4, <2>5
<1>3. CASE Holder(m, t)
  <2>1. PICK p \in KaPcs, r \in 0 .. MaxTerm :
          \/ ka' = [ka EXCEPT ![<<m, t>>].pc = p]
          \/ ka' = [ka EXCEPT ![<<m, t>>] = [pc |-> p, rel |-> r]]
    BY <1>3 DEF Holder, KaGoto, KaPcs, TypeOK
  <2>2. /\ ka' \in [Leases -> [pc : KaPcs, rel : 0 .. MaxTerm]]
        /\ \A n \in Members \ {m} : \A u \in Terms : ka'[<<n, u>>] = ka[<<n, u>>]
    BY <2>1, <1>t, KaSteps
  <2>3. ka[<<m, t>>].pc # "off"
    BY <1>3 DEF Holder
  <2>4. TypeOK'
    BY <1>3, <1>s, <2>2, <2>3, LeaseFacts DEF Holder, TypeOK, Fault
  <2>5. Started'
    BY <1>3, <1>s, <2>2, <2>3, OthersStarted DEF Holder, TypeOK
  <2> QED BY <2>4, <2>5
<1>4. CASE LossTake(m, t)
  <2>1. PICK p \in KaPcs, r \in 0 .. MaxTerm :
          \/ ka' = [ka EXCEPT ![<<m, t>>].pc = p]
          \/ ka' = [ka EXCEPT ![<<m, t>>] = [pc |-> p, rel |-> r]]
    BY <1>4 DEF LossTake, KaGoto, KaPcs, TypeOK
  <2>2. /\ ka' \in [Leases -> [pc : KaPcs, rel : 0 .. MaxTerm]]
        /\ \A n \in Members \ {m} : \A u \in Terms : ka'[<<n, u>>] = ka[<<n, u>>]
    BY <2>1, <1>t, KaSteps
  <2>3. ka[<<m, t>>].pc # "off"
    BY <1>4 DEF LossTake
  <2>4. TypeOK'
    BY <1>4, <1>s, <2>2, <2>3, LeaseFacts DEF LossTake, TypeOK, Fault
  <2>5. Started'
    BY <1>4, <1>s, <2>2, <2>3, OthersStarted DEF LossTake, TypeOK
  <2> QED BY <2>4, <2>5
<1>5. CASE LossRelease(m, t)
  <2>1. PICK p \in KaPcs, r \in 0 .. MaxTerm :
          \/ ka' = [ka EXCEPT ![<<m, t>>].pc = p]
          \/ ka' = [ka EXCEPT ![<<m, t>>] = [pc |-> p, rel |-> r]]
    BY <1>5 DEF LossRelease, KaGoto, KaPcs, TypeOK
  <2>2. /\ ka' \in [Leases -> [pc : KaPcs, rel : 0 .. MaxTerm]]
        /\ \A n \in Members \ {m} : \A u \in Terms : ka'[<<n, u>>] = ka[<<n, u>>]
    BY <2>1, <1>t, KaSteps
  <2>3. ka[<<m, t>>].pc # "off"
    BY <1>5 DEF LossRelease
  <2>4. TypeOK'
    BY <1>5, <1>s, <2>2, <2>3, LeaseFacts DEF LossRelease, TypeOK, Fault, Unlock
  <2>5. Started'
    BY <1>5, <1>s, <2>2, <2>3, OthersStarted DEF LossRelease, TypeOK, Unlock
  <2> QED BY <2>4, <2>5
<1>6. CASE LossCheckCancel(m, t)
  <2>1. PICK p \in KaPcs, r \in 0 .. MaxTerm :
          \/ ka' = [ka EXCEPT ![<<m, t>>].pc = p]
          \/ ka' = [ka EXCEPT ![<<m, t>>] = [pc |-> p, rel |-> r]]
    BY <1>6 DEF LossCheckCancel, KaGoto, KaPcs, TypeOK
  <2>2. /\ ka' \in [Leases -> [pc : KaPcs, rel : 0 .. MaxTerm]]
        /\ \A n \in Members \ {m} : \A u \in Terms : ka'[<<n, u>>] = ka[<<n, u>>]
    BY <2>1, <1>t, KaSteps
  <2>3. ka[<<m, t>>].pc # "off"
    BY <1>6 DEF LossCheckCancel
  <2>4. TypeOK'
    BY <1>6, <1>s, <2>2, <2>3, LeaseFacts DEF LossCheckCancel, TypeOK, Fault
  <2>5. Started'
    BY <1>6, <1>s, <2>2, <2>3, OthersStarted DEF LossCheckCancel, TypeOK
  <2> QED BY <2>4, <2>5
<1>7. CASE LossCancel(m, t)
  <2>1. PICK p \in KaPcs, r \in 0 .. MaxTerm :
          \/ ka' = [ka EXCEPT ![<<m, t>>].pc = p]
          \/ ka' = [ka EXCEPT ![<<m, t>>] = [pc |-> p, rel |-> r]]
    BY <1>7 DEF LossCancel, KaGoto, KaPcs, TypeOK
  <2>2. /\ ka' \in [Leases -> [pc : KaPcs, rel : 0 .. MaxTerm]]
        /\ \A n \in Members \ {m} : \A u \in Terms : ka'[<<n, u>>] = ka[<<n, u>>]
    BY <2>1, <1>t, KaSteps
  <2>3. ka[<<m, t>>].pc # "off"
    BY <1>7 DEF LossCancel
  <2>4. TypeOK'
    BY <1>7, <1>s, <2>2, <2>3, LeaseFacts DEF LossCancel, TypeOK, Fault
  <2>5. Started'
    BY <1>7, <1>s, <2>2, <2>3, OthersStarted DEF LossCancel, TypeOK
  <2> QED BY <2>4, <2>5
<1>8. CASE LossSignal(m, t)
  <2>1. PICK p \in KaPcs, r \in 0 .. MaxTerm :
          \/ ka' = [ka EXCEPT ![<<m, t>>].pc = p]
          \/ ka' = [ka EXCEPT ![<<m, t>>] = [pc |-> p, rel |-> r]]
    BY <1>8 DEF LossSignal, KaGoto, KaPcs, TypeOK
  <2>2. /\ ka' \in [Leases -> [pc : KaPcs, rel : 0 .. MaxTerm]]
        /\ \A n \in Members \ {m} : \A u \in Terms : ka'[<<n, u>>] = ka[<<n, u>>]
    BY <2>1, <1>t, KaSteps
  <2>3. ka[<<m, t>>].pc # "off"
    BY <1>8 DEF LossSignal
  <2>4. TypeOK'
    BY <1>8, <1>s, <2>2, <2>3, LeaseFacts DEF LossSignal, TypeOK, Fault, Lose
  <2>5. Started'
    BY <1>8, <1>s, <2>2, <2>3, OthersStarted DEF LossSignal, TypeOK, Lose
  <2> QED BY <2>4, <2>5
<1>9. CASE LossPanics(m, t)
  BY <1>9, RestartInv DEF LossPanics, TypeOK
<1> QED BY <1>1, <1>2, <1>3, <1>4, <1>5, <1>6, <1>7, <1>8, <1>9 DEF Keepalive

\* The steps of Withdraw and a crash preserve the invariant.
LEMMA WithdrawInv ==
  ASSUME IInv, NEW m \in Members, Withdraw(m) \/ Withdrawal(m) \/ Crash(m)
  PROVE  IInv'
<1> USE ConstantsAssumption DEF IInv
<1>s. ASSUME wd[m].pc # "idle" \/ held[m] PROVE camp[m].term \in Terms /\ camp[m].term # 0
  BY <1>s DEF TypeOK, Started, Terms
<1>1. CASE Withdraw(m)
  <2>1. TypeOK'
    <3>1. wd' \in [Members -> [pc : WdPcs, rel : 0 .. MaxTerm, cancel : 0 .. MaxTerm]]
      BY <1>1, PcSteps DEF Withdraw, WdPcs
    <3> QED BY <1>1, <1>s, <3>1, LeaseFacts DEF Withdraw, TypeOK, Fault
  <2>2. Started'
    BY <1>1, <1>s, OthersStarted DEF Withdraw, TypeOK
  <2> QED BY <2>1, <2>2
<1>2. CASE WithdrawTake(m)
  <2>1. TypeOK'
    <3>1. wd' \in [Members -> [pc : WdPcs, rel : 0 .. MaxTerm, cancel : 0 .. MaxTerm]]
      BY <1>2 DEF WithdrawTake, TypeOK, WdPcs
    <3> QED BY <1>2, <1>s, <3>1, LeaseFacts DEF WithdrawTake, TypeOK, Fault
  <2>2. Started'
    BY <1>2, <1>s, OthersStarted DEF WithdrawTake, TypeOK
  <2> QED BY <2>1, <2>2
<1>3. CASE WithdrawCancel(m)
  <2>1. TypeOK'
    <3>1. wd' \in [Members -> [pc : WdPcs, rel : 0 .. MaxTerm, cancel : 0 .. MaxTerm]]
      BY <1>3, PcSteps DEF WithdrawCancel, WdPcs
    <3> QED BY <1>3, <1>s, <3>1, LeaseFacts DEF WithdrawCancel, TypeOK, Fault
  <2>2. Started'
    BY <1>3, <1>s, OthersStarted DEF WithdrawCancel, TypeOK
  <2> QED BY <2>1, <2>2
<1>4. CASE WithdrawRelease(m)
  <2>1. TypeOK'
    <3>1. wd' \in [Members -> [pc : WdPcs, rel : 0 .. MaxTerm, cancel : 0 .. MaxTerm]]
      BY <1>4, PcSteps DEF WithdrawRelease, WdPcs
    <3> QED BY <1>4, <1>s, <3>1, LeaseFacts DEF WithdrawRelease, TypeOK, Fault, Unlock
  <2>2. Started'
    BY <1>4, <1>s, OthersStarted DEF WithdrawRelease, TypeOK, Unlock
  <2> QED BY <2>1, <2>2
<1>5. CASE WithdrawSignal(m)
  <2>1. TypeOK'
    <3>1. wd' \in [Members -> [pc : WdPcs, rel : 0 .. MaxTerm, cancel : 0 .. MaxTerm]]
      BY <1>5, PcSteps DEF WithdrawSignal, WdPcs
    <3> QED BY <1>5, <1>s, <3>1, LeaseFacts DEF WithdrawSignal, TypeOK, Fault, Lose
  <2>2. Started'
    BY <1>5, <1>s, OthersStarted DEF WithdrawSignal, TypeOK, Lose
  <2> QED BY <2>1, <2>2
<1>6. CASE Crash(m)
  BY <1>6, RestartInv DEF Crash, Fault, TypeOK
<1> QED BY <1>1, <1>2, <1>3, <1>4, <1>5, <1>6 DEF Withdrawal

\* Every step preserves the invariant.
LEMMA NextInv == IInv /\ [Next]_vars => IInv'
<1> SUFFICES ASSUME IInv, [Next]_vars PROVE IInv'
  OBVIOUS
<1>1. ASSUME NEW m \in Members, RunCampaign(m) \/ Withdraw(m) \/ Withdrawal(m) \/ Crash(m)
      PROVE  IInv'
  BY <1>1, CampaignInv, WithdrawInv
<1>2. ASSUME NEW m \in Members, NEW t \in Terms, Keepalive(m, t)
      PROVE  IInv'
  BY <1>2, KeepaliveInv
<1>3. ASSUME NEW l \in Leases, RenewFails(l)
      PROVE  IInv'
  BY <1>3, ConstantsAssumption DEF RenewFails, Fault, IInv, TypeOK, Started
<1>4. CASE Expire
  BY <1>4 DEF Expire, IInv, TypeOK, Started
<1>5. CASE UNCHANGED vars
  BY <1>5 DEF vars, IInv, TypeOK, Started
<1> QED BY <1>1, <1>2, <1>3, <1>4, <1>5 DEF Next

\* Type correctness of the election, whatever the locker, the terms and the faults.
THEOREM ElectionTypes == Spec => []TypeOK
<1>1. Spec => []IInv
  BY InitInv, NextInv, PTL DEF Spec
<1>2. IInv => TypeOK
  BY DEF IInv
<1> QED BY <1>1, <1>2, PTL

\* Releasing a lock does not touch a key that is still renewed.
LEMMA UnlockKeeps ==
  ASSUME ~DeleteAny, NEW m, NEW t, Unlock(m, t)
  PROVE  key \in kept' => key' = key
BY DEF Unlock

\* No step takes a key away that is still renewed after it.
LEMMA StepKeeps == ~DeleteAny /\ IInv /\ [Next]_vars => (key \in kept' => key' = key)
<1> SUFFICES ASSUME ~DeleteAny, IInv, [Next]_vars, key \in kept', key' # key
             PROVE  FALSE
  OBVIOUS
<1>1. ASSUME NEW m \in Members, RunCampaign(m) \/ Withdraw(m) \/ Withdrawal(m) \/ Crash(m)
      PROVE  FALSE
  <2>1. CASE TryAcquire(m)
    <3>1. Free \notin kept /\ Free # <<m, camp[m].term>>
      BY <2>1, LeaseFacts, ConstantsAssumption DEF TryAcquire, IInv, TypeOK, Started, Free
    <3> QED BY <2>1, <3>1 DEF TryAcquire
  <2>2. CASE WithdrawRelease(m)
    BY <2>2, UnlockKeeps DEF WithdrawRelease
  <2> QED
    BY <1>1, <2>1, <2>2
    DEF RunCampaign, Campaign, SetRelease, SetHeld, Lead, StepDown, Withdraw, Withdrawal,
        WithdrawTake, WithdrawCancel, WithdrawSignal, Crash, Restart
<1>2. ASSUME NEW m \in Members, NEW t \in Terms, Keepalive(m, t)
      PROVE  FALSE
  <2>1. CASE LossRelease(m, t)
    BY <2>1, UnlockKeeps DEF LossRelease
  <2> QED
    BY <1>2, <2>1
    DEF Keepalive, KaDone, Renew, Holder, LossTake, LossCheckCancel, LossCancel, LossPanics,
        LossSignal, Restart
<1>3. ASSUME NEW l \in Leases, RenewFails(l)
      PROVE  FALSE
  BY <1>3 DEF RenewFails
<1>4. CASE Expire
  BY <1>4 DEF Expire
<1>5. CASE UNCHANGED vars
  BY <1>5 DEF vars
<1> QED BY <1>1, <1>2, <1>3, <1>4, <1>5 DEF Next

\* On a locker that releases only the caller's lock a renewed leader key stays with its
\* holder, whatever terms, crashes, withdrawals and late goroutines there are.
THEOREM LockStays == ASSUME ~DeleteAny PROVE Spec => KeptLockStays
<1>1. Spec => []IInv
  BY InitInv, NextInv, PTL DEF Spec
<1>2. IInv /\ [Next]_vars => [(key \in kept') => (key' = key)]_vars
  BY StepKeeps
<1> QED BY <1>1, <1>2, PTL DEF Spec, KeptLockStays

-----------------------------------------------------------------------------
\* A member's goroutines in order, when none of a lost term outlasts the backoff (~Late).
\* What is at work, kept and lost belongs to the latest term.
OfTerm(m) ==
  /\ \A t \in Terms : ka[<<m, t>>].pc \notin {"off", "done"} =>
                        t = camp[m].term /\ camp[m].pc \in {"observe", "idle"}
  /\ \A t \in Terms : <<m, t>> \in kept => t = camp[m].term /\ camp[m].pc # "try"
  /\ \A t \in Terms : <<m, t>> \in lost => t <= camp[m].term

\* Nothing is lost or withdrawn before the member holds the key.
Lost(m) == <<m, camp[m].term>> \in lost
NotYet(m) ==
  /\ camp[m].pc \in {"try", "won", "set"} => wd[m].pc = "idle" /\ ~Lost(m)
  /\ camp[m].pc \in {"idle", "try", "won", "set"} \/ Lost(m) => ~held[m]

\* The release of a key that is kept is still to do, by whoever took it, and a loss is
\* signalled by one who took it.
Pending(m) ==
  /\ \A t \in Terms : <<m, t>> \in kept =>
       \/ camp[m].pc = "won"
       \/ release[m] = t
       \/ ka[<<m, t>>].pc = "release" /\ ka[<<m, t>>].rel = t
       \/ wd[m].pc \in {"cancel", "release"} /\ wd[m].rel = t
  /\ \/ Lost(m)
     \/ wd[m].pc \in {"cancel", "release", "signal"}
     \/ \E t \in Terms : ka[<<m, t>>].pc \in {"release", "cancel", "call", "signal"}
     => release[m] = 0
  /\ \A t \in Terms : <<m, t>> \in kept /\ camp[m].pc = "idle" => <<m, t>> \in lost

Orderly(m) == OfTerm(m) /\ NotYet(m) /\ Pending(m)

\* A step leaves a member alone whose goroutines it does not touch; that a lease of its is
\* no longer renewed breaks nothing.
LEMMA LeftAlone ==
  ASSUME NEW n \in Members, Orderly(n),
         camp'[n] = camp[n], held'[n] = held[n], wd'[n] = wd[n], release'[n] = release[n],
         \A t \in Terms : /\ ka'[<<n, t>>] = ka[<<n, t>>]
                          /\ <<n, t>> \in kept' => <<n, t>> \in kept
                          /\ <<n, t>> \in lost' <=> <<n, t>> \in lost,
         camp[n].term \in Terms \/ (<<n, camp[n].term>> \in lost' <=> <<n, camp[n].term>> \in lost)
  PROVE  Orderly(n)'
BY DEF Orderly, OfTerm, NotYet, Pending, Lost

\* A step of the keepalive of one term, term by term.
LEMMA KaPoints ==
  ASSUME TypeOK, NEW m \in Members, NEW t \in Terms, NEW p, KaGoto(m, t, p)
  PROVE  /\ ka'[<<m, t>>].pc = p /\ ka'[<<m, t>>].rel = ka[<<m, t>>].rel
         /\ \A n \in Members, u \in Terms : n # m \/ u # t => ka'[<<n, u>>] = ka[<<n, u>>]
<1>1. ka \in [Leases -> [pc : KaPcs, rel : 0 .. MaxTerm]] /\ <<m, t>> \in Leases
  BY LeaseFacts DEF TypeOK
<1>2. ka'[<<m, t>>].pc = p /\ ka'[<<m, t>>].rel = ka[<<m, t>>].rel
  BY <1>1 DEF KaGoto
<1>3. ASSUME NEW n \in Members, NEW u \in Terms, n # m \/ u # t
      PROVE  ka'[<<n, u>>] = ka[<<n, u>>]
  <2>1. <<n, u>> \in Leases /\ <<n, u>> # <<m, t>>
    BY <1>3, LeaseFacts
  <2> QED BY <1>1, <2>1 DEF KaGoto
<1> QED BY <1>2, <1>3

LEMMA TakePoints ==
  ASSUME TypeOK, NEW m \in Members, NEW t \in Terms, LossTake(m, t)
  PROVE  /\ ka'[<<m, t>>].pc = IF release[m] = 0 THEN "cancel" ELSE "release"
         /\ ka'[<<m, t>>].rel = release[m]
         /\ \A n \in Members, u \in Terms : n # m \/ u # t => ka'[<<n, u>>] = ka[<<n, u>>]
<1>1. ka \in [Leases -> [pc : KaPcs, rel : 0 .. MaxTerm]] /\ <<m, t>> \in Leases
  BY LeaseFacts DEF TypeOK
<1>2. ka' = [ka EXCEPT ![<<m, t>>] =
              [pc |-> IF release[m] = 0 THEN "cancel" ELSE "release", rel |-> release[m]]]
  BY DEF LossTake
<1>3. ASSUME NEW n \in Members, NEW u \in Terms, n # m \/ u # t
      PROVE  ka'[<<n, u>>] = ka[<<n, u>>]
  <2>1. <<n, u>> \in Leases /\ <<n, u>> # <<m, t>>
    BY <1>3, LeaseFacts
  <2> QED BY <1>1, <1>2, <2>1
<1> QED BY <1>1, <1>2, <1>3

\* Unlock ends the renewal of the lease it releases.
LEMMA UnlockPoints ==
  ASSUME NEW m \in Members, NEW r, Unlock(m, r)
  PROVE  \A n \in Members, t \in Terms : <<n, t>> \in kept' <=> <<n, t>> \in kept /\ (n # m \/ t # r)
BY DEF Unlock

\* A keepalive at work is of the latest term, and no other one of the member is at work.
LEMMA AtWork ==
  ASSUME TypeOK, NEW m \in Members, Orderly(m), NEW t \in Terms, ka[<<m, t>>].pc \notin {"off", "done"}
  PROVE  /\ t = camp[m].term /\ camp[m].pc \in {"observe", "idle"}
         /\ \A u \in Terms : u # t => ka[<<m, u>>].pc \in {"off", "done"}
         /\ \A u \in Terms : <<m, u>> \in kept => u = t
BY DEF Orderly, OfTerm

LEMMA CampaignOrderly ==
  ASSUME TypeOK, NEW m \in Members, Orderly(m), RunCampaign(m), ~Late
  PROVE  Orderly(m)'
<1> USE ConstantsAssumption
<1>1. camp[m].term \in Nat /\ camp[m].pc \in CampPcs
  BY DEF TypeOK
<1>2. CASE Campaign(m)
  <2>1. camp'[m].pc = "try" /\ camp'[m].term = camp[m].term + 1
    BY <1>2 DEF Campaign, TypeOK
  <2>2. UNCHANGED <<kept, release, held, lost, ka, wd>> /\ camp[m].pc = "idle" /\ Quiet(m)
    BY <1>2 DEF Campaign
  <2>3. wd[m].pc = "idle" /\ \A t \in Terms : ka[<<m, t>>].pc \in {"off", "done"}
    BY <2>2 DEF Quiet
  <2>4. ASSUME NEW t \in Terms, <<m, t>> \in kept PROVE FALSE
    <3>1. t = camp[m].term /\ <<m, t>> \in lost /\ release[m] = 0
      BY <2>2, <2>4 DEF Orderly, OfTerm, Pending, Lost
    <3> QED BY <2>2, <2>3, <2>4, <3>1 DEF Orderly, Pending, Terms
  <2>5. ~Lost(m)'
    <3>1. camp[m].term + 1 \in Terms
      BY <1>1, <1>2 DEF Campaign, Terms
    <3> QED BY <1>1, <2>1, <2>2, <3>1 DEF Lost, Orderly, OfTerm
  <2>6. ~held[m]
    BY <2>2 DEF Orderly, NotYet
  <2>7. \A t \in Terms : <<m, t>> \in lost => t <= camp[m].term + 1
    BY <1>1 DEF Orderly, OfTerm, Terms
  <2>8. OfTerm(m)'
    BY <2>1, <2>2, <2>3, <2>4, <2>7 DEF OfTerm
  <2>9. NotYet(m)'
    BY <2>1, <2>2, <2>3, <2>5, <2>6 DEF NotYet
  <2>10. Pending(m)'
    BY <2>1, <2>2, <2>3, <2>4, <2>5 DEF Pending
  <2> QED BY <2>8, <2>9, <2>10 DEF Orderly
<1>3. CASE TryAcquire(m)
  <2>1. camp'[m].pc = "won" /\ camp'[m].term = camp[m].term
    BY <1>3 DEF TryAcquire, TypeOK
  <2>2. \A t \in Terms : <<m, t>> \in kept' <=> <<m, t>> \in kept \/ t = camp[m].term
    BY <1>3 DEF TryAcquire
  <2>3. UNCHANGED <<release, held, lost, ka, wd>> /\ camp[m].pc = "try"
    BY <1>3 DEF TryAcquire
  <2> QED BY <2>1, <2>2, <2>3 DEF Orderly, OfTerm, NotYet, Pending, Lost
<1>4. CASE SetRelease(m)
  <2>1. camp'[m].pc = "set" /\ camp'[m].term = camp[m].term /\ release'[m] = camp[m].term
    BY <1>4 DEF SetRelease, TypeOK
  <2>2. UNCHANGED <<kept, held, lost, ka, wd>> /\ camp[m].pc = "won"
    BY <1>4 DEF SetRelease
  <2> QED BY <2>1, <2>2 DEF Orderly, OfTerm, NotYet, Pending, Lost
<1>5. CASE SetHeld(m)
  <2>1. camp'[m].pc = "held" /\ camp'[m].term = camp[m].term
    BY <1>5 DEF SetHeld, TypeOK
  <2>2. UNCHANGED <<kept, release, lost, ka, wd>> /\ camp[m].pc = "set"
    BY <1>5 DEF SetHeld
  <2> QED BY <2>1, <2>2 DEF Orderly, OfTerm, NotYet, Pending, Lost
<1>6. CASE Lead(m)
  <2>1. camp'[m].pc = "observe" /\ camp'[m].term = camp[m].term /\ camp[m].pc = "held"
    BY <1>6 DEF Lead, TypeOK
  <2>2. UNCHANGED <<kept, held, release, lost, wd>>
    BY <1>6 DEF Lead
  <2>3. CASE camp[m].term \in Terms
    <3>1. /\ ka'[<<m, camp[m].term>>].pc = "wait"
          /\ \A u \in Terms : u # camp[m].term => ka'[<<m, u>>] = ka[<<m, u>>]
      <4>1. ka' = [ka EXCEPT ![<<m, camp[m].term>>].pc = "wait"]
        BY <1>6 DEF Lead
      <4>2. ka'[<<m, camp[m].term>>].pc = "wait"
        BY <2>3, <4>1, LeaseFacts DEF TypeOK
      <4>3. ASSUME NEW u \in Terms, u # camp[m].term PROVE ka'[<<m, u>>] = ka[<<m, u>>]
        <5>1. <<m, u>> \in Leases /\ <<m, u>> # <<m, camp[m].term>>
          BY <4>3, LeaseFacts
        <5> QED BY <4>1, <5>1 DEF TypeOK
      <4> QED BY <4>2, <4>3
    <3> QED BY <2>1, <2>2, <2>3, <3>1 DEF Orderly, OfTerm, NotYet, Pending, Lost
  <2>4. CASE camp[m].term \notin Terms
    <3>1. \A u \in Terms : ka'[<<m, u>>] = ka[<<m, u>>]
      BY <1>6, <2>4, LeaseFacts DEF Lead, TypeOK
    <3> QED BY <2>1, <2>2, <2>4, <3>1 DEF Orderly, OfTerm, NotYet, Pending, Lost
  <2> QED BY <2>3, <2>4
<1>7. CASE StepDown(m)
  <2>1. camp'[m].pc = "idle" /\ camp'[m].term = camp[m].term /\ camp[m].pc = "observe" /\ Lost(m)
    BY <1>7 DEF StepDown, TypeOK, Lost
  <2>2. UNCHANGED <<kept, release, held, lost, ka, wd>>
    BY <1>7 DEF StepDown
  <2> QED BY <2>1, <2>2 DEF Orderly, OfTerm, NotYet, Pending, Lost
<1> QED BY <1>2, <1>3, <1>4, <1>5, <1>6, <1>7 DEF RunCampaign

\* The keepalive of the latest term, and its signalLoss.
LEMMA KeepaliveOrderly ==
  ASSUME TypeOK, NEW m \in Members, Orderly(m), NEW t \in Terms,
         KaDone(m, t) \/ Renew(m, t) \/ Holder(m, t) \/ LossTake(m, t) \/ LossRelease(m, t)
         \/ LossCheckCancel(m, t) \/ LossCancel(m, t) \/ LossSignal(m, t)
  PROVE  /\ Orderly(m)' /\ \A n \in Members \ {m} : Orderly(n) => Orderly(n)'
<1> USE ConstantsAssumption
<1>1. ka[<<m, t>>].pc \notin {"off", "done"}
  BY DEF KaDone, Renew, Holder, LossTake, LossRelease, LossCheckCancel, LossCancel, LossSignal
<1>2. /\ t = camp[m].term /\ camp[m].pc \in {"observe", "idle"} /\ t # 0 /\ camp'[m] = camp[m]
      /\ \A u \in Terms : u # t => ka[<<m, u>>].pc \in {"off", "done"}
      /\ \A u \in Terms : <<m, u>> \in kept => u = t
  BY <1>1, AtWork DEF Terms, KaDone, Renew, Holder, LossTake, LossRelease, LossCheckCancel,
                      LossCancel, LossSignal
\* Whatever the step, it is one of this keepalive.
<1>3. /\ \A n \in Members, u \in Terms : n # m \/ u # t => ka'[<<n, u>>] = ka[<<n, u>>]
      /\ UNCHANGED <<camp, wd>> 
      /\ \A n \in Members \ {m} : held'[n] = held[n] /\ release'[n] = release[n]
      /\ \A n \in Members, u \in Terms : <<n, u>> \in kept' => <<n, u>> \in kept
      /\ \A l : l # <<m, t>> => (l \in lost' <=> l \in lost)
  <2>1. ASSUME NEW p, KaGoto(m, t, p)
        PROVE  \A n \in Members, u \in Terms : n # m \/ u # t => ka'[<<n, u>>] = ka[<<n, u>>]
    BY <2>1, KaPoints
  <2>2. \A n \in Members, u \in Terms : n # m \/ u # t => ka'[<<n, u>>] = ka[<<n, u>>]
    BY <2>1, TakePoints DEF KaDone, Renew, Holder, LossRelease, LossCheckCancel, LossCancel, LossSignal
  <2>3. \A n \in Members \ {m} : held'[n] = held[n] /\ release'[n] = release[n]
    BY DEF TypeOK, KaDone, Renew, Holder, LossTake, LossRelease, LossCheckCancel, LossCancel,
           LossSignal, Lose
  <2>4. \A n \in Members, u \in Terms : <<n, u>> \in kept' => <<n, u>> \in kept
    BY DEF KaDone, Renew, Holder, LossTake, LossRelease, LossCheckCancel, LossCancel, LossSignal, Unlock
  <2>5. \A l : l # <<m, t>> => (l \in lost' <=> l \in lost)
    BY <1>2 DEF KaDone, Renew, Holder, LossTake, LossRelease, LossCheckCancel, LossCancel, LossSignal, Lose
  <2>6. UNCHANGED <<camp, wd>>
    BY DEF KaDone, Renew, Holder, LossTake, LossRelease, LossCheckCancel, LossCancel, LossSignal
  <2> QED BY <2>2, <2>3, <2>4, <2>5, <2>6
<1>4. ASSUME NEW n \in Members \ {m}, Orderly(n) PROVE Orderly(n)'
  <2>1. /\ camp'[n] = camp[n] /\ held'[n] = held[n] /\ wd'[n] = wd[n] /\ release'[n] = release[n]
        /\ \A u \in Terms : ka'[<<n, u>>] = ka[<<n, u>>]
    BY <1>3
  <2>2. \A u \in Terms : (<<n, u>> \in kept' => <<n, u>> \in kept)
    BY <1>3
  <2>3. \A u : <<n, u>> \in lost' <=> <<n, u>> \in lost
    BY <1>3
  <2> QED BY <1>4, <2>1, <2>2, <2>3, LeftAlone
<1>5. Lost(m) = (<<m, t>> \in lost) /\ Lost(m)' = (<<m, t>> \in lost')
  BY <1>2, <1>3 DEF Lost
\* What it must leave in order.
<1>6. ASSUME <<m, t>> \in lost' \/ ~held[m] => ~held'[m],
             <<m, t>> \in lost => <<m, t>> \in lost',
             <<m, t>> \in kept' => \/ release'[m] = t
                                   \/ ka'[<<m, t>>].pc = "release" /\ ka'[<<m, t>>].rel = t
                                   \/ wd[m].pc \in {"cancel", "release"} /\ wd[m].rel = t,
             \/ release'[m] = 0
             \/ /\ release'[m] = release[m] /\ <<m, t>> \notin lost'
                /\ wd[m].pc \notin {"cancel", "release", "signal"}
                /\ ka'[<<m, t>>].pc \notin {"release", "cancel", "call", "signal"}
      PROVE  Orderly(m)'
  <2>1. \A u \in Terms : u # t => ka'[<<m, u>>] = ka[<<m, u>>] /\ ka'[<<m, u>>].pc \in {"off", "done"}
    BY <1>2, <1>3
  <2>2. \A u \in Terms : <<m, u>> \in kept' => u = t /\ <<m, u>> \in kept
    BY <1>2, <1>3
  <2>3. \A u \in Terms : <<m, u>> \in lost' => <<m, u>> \in lost \/ u = t
    BY <1>3
  <2>4. OfTerm(m)'
    <3>1. t \in Nat
      BY DEF Terms
    <3> QED BY <1>2, <1>3, <2>1, <2>2, <2>3, <3>1 DEF Orderly, OfTerm
  <2>5. NotYet(m)'
    BY <1>2, <1>3, <1>5, <1>6 DEF Orderly, NotYet
  <2>6. Pending(m)'
    <3>1. <<m, t>> \in kept' /\ camp[m].pc = "idle" => <<m, t>> \in lost'
      BY <1>2, <1>6, <2>2 DEF Orderly, Pending
    <3> QED BY <1>2, <1>3, <1>5, <1>6, <2>1, <2>2, <3>1 DEF Pending
  <2> QED BY <2>4, <2>5, <2>6 DEF Orderly
\* Where a step before signalLoss takes releaseFn starts from, and one after it.
<1>7. held[m] \in BOOLEAN /\ (<<m, t>> \in lost => ~held[m])
  BY <1>5 DEF TypeOK, Orderly, NotYet
<1>8. \/ release[m] = 0
      \/ /\ <<m, t>> \notin lost /\ wd[m].pc \notin {"cancel", "release", "signal"}
         /\ ka[<<m, t>>].pc \notin {"release", "cancel", "call", "signal"}
  BY <1>5 DEF Orderly, Pending
<1>9. <<m, t>> \in kept => \/ release[m] = t
                           \/ ka[<<m, t>>].pc = "release" /\ ka[<<m, t>>].rel = t
                           \/ wd[m].pc \in {"cancel", "release"} /\ wd[m].rel = t
  BY <1>2 DEF Orderly, Pending
<1>10. CASE KaDone(m, t) \/ Renew(m, t) \/ Holder(m, t)
  <2>1. /\ UNCHANGED <<kept, release, held, lost>> /\ ka[<<m, t>>].pc \in {"wait", "holder"}
        /\ \E p \in {"done", "loss", "holder", "wait"} : KaGoto(m, t, p)
    BY <1>10 DEF KaDone, Renew, Holder
  <2>2. ka'[<<m, t>>].pc \in {"done", "loss", "holder", "wait"}
    BY <2>1, KaPoints
  <2> QED BY <1>4, <1>6, <1>7, <1>8, <1>9, <2>1, <2>2
<1>11. CASE LossTake(m, t)
  <2>1. /\ ka'[<<m, t>>].pc = IF release[m] = 0 THEN "cancel" ELSE "release"
        /\ ka'[<<m, t>>].rel = release[m]
    BY <1>11, TakePoints
  <2>2. release'[m] = 0 /\ UNCHANGED <<kept, held, lost>> /\ ka[<<m, t>>].pc = "loss"
    BY <1>11 DEF LossTake, TypeOK
  <2> QED BY <1>2, <1>4, <1>6, <1>7, <1>9, <2>1, <2>2
<1>12. CASE LossRelease(m, t)
  <2>1. <<m, t>> \in kept' => ka[<<m, t>>].rel # t /\ <<m, t>> \in kept
    BY <1>12, UnlockPoints DEF LossRelease
  <2>2. UNCHANGED <<release, held, lost>> /\ ka[<<m, t>>].pc = "release"
    BY <1>12 DEF LossRelease
  <2> QED BY <1>2, <1>4, <1>6, <1>7, <1>8, <1>9, <2>1, <2>2
<1>13. CASE LossCheckCancel(m, t) \/ LossCancel(m, t)
  <2>1. UNCHANGED <<kept, release, held, lost>> /\ ka[<<m, t>>].pc \in {"cancel", "call"}
    BY <1>13 DEF LossCheckCancel, LossCancel
  <2> QED BY <1>2, <1>4, <1>6, <1>7, <1>8, <1>9, <2>1
<1>14. CASE LossSignal(m, t)
  <2>1. UNCHANGED <<kept, release>> /\ ka[<<m, t>>].pc = "signal"
    BY <1>14 DEF LossSignal
  <2>2. /\ held'[m] = (once[m] /\ held[m])
        /\ lost' = IF once[m] THEN lost ELSE lost \cup {<<m, t>>}
    BY <1>2, <1>14 DEF LossSignal, Lose, TypeOK
  <2> QED BY <1>2, <1>4, <1>6, <1>7, <1>8, <1>9, <2>1, <2>2
<1> QED BY <1>10, <1>11, <1>12, <1>13, <1>14

\* runCampaign leaves the other members' goroutines alone.
LEMMA CampaignOthers ==
  ASSUME TypeOK, NEW m \in Members, RunCampaign(m), NEW n \in Members \ {m}, Orderly(n)
  PROVE  Orderly(n)'
<1>1. /\ camp'[n] = camp[n] /\ held'[n] = held[n] /\ wd'[n] = wd[n] /\ release'[n] = release[n]
      /\ UNCHANGED lost
  BY DEF TypeOK, RunCampaign, Campaign, TryAcquire, SetRelease, SetHeld, Lead, StepDown
<1>2. \A t \in Terms : <<n, t>> \in kept' => <<n, t>> \in kept
  BY DEF RunCampaign, Campaign, TryAcquire, SetRelease, SetHeld, Lead, StepDown
<1>3. ASSUME NEW t \in Terms PROVE ka'[<<n, t>>] = ka[<<n, t>>]
  <2>1. CASE Lead(m)
    <3>1. ka' = [ka EXCEPT ![<<m, camp[m].term>>].pc = "wait"]
      BY <2>1 DEF Lead
    <3>2. <<n, t>> \in Leases /\ <<n, t>> # <<m, camp[m].term>>
      BY LeaseFacts
    <3> QED BY <3>1, <3>2 DEF TypeOK
  <2>2. CASE ~Lead(m)
    BY <2>2 DEF RunCampaign, Campaign, TryAcquire, SetRelease, SetHeld, StepDown
  <2> QED BY <2>1, <2>2
<1> QED BY <1>1, <1>2, <1>3, LeftAlone

\* Withdraw, step by step: the release it takes from releaseFn is done before it signals.
LEMMA WithdrawOrderly ==
  ASSUME TypeOK, NEW m \in Members, Orderly(m), Withdraw(m) \/ Withdrawal(m)
  PROVE  /\ Orderly(m)' /\ \A n \in Members \ {m} : Orderly(n) => Orderly(n)'
<1> USE ConstantsAssumption
<1>1. /\ UNCHANGED <<camp, ka>>
      /\ \A n \in Members \ {m} : held'[n] = held[n] /\ release'[n] = release[n] /\ wd'[n] = wd[n]
      /\ \A n \in Members, t \in Terms : <<n, t>> \in kept' => <<n, t>> \in kept
      /\ \A l : l # <<m, camp[m].term>> => (l \in lost' <=> l \in lost)
  <2>1. UNCHANGED <<camp, ka>>
    BY DEF Withdraw, Withdrawal, WithdrawTake, WithdrawCancel, WithdrawRelease, WithdrawSignal
  <2>2. \A n \in Members \ {m} : held'[n] = held[n] /\ release'[n] = release[n] /\ wd'[n] = wd[n]
    BY DEF TypeOK, Withdraw, Withdrawal, WithdrawTake, WithdrawCancel, WithdrawRelease,
           WithdrawSignal, Lose
  <2>3. \A n \in Members, t \in Terms : <<n, t>> \in kept' => <<n, t>> \in kept
    BY DEF Withdraw, Withdrawal, WithdrawTake, WithdrawCancel, WithdrawRelease, WithdrawSignal, Unlock
  <2>4. \A l : l # <<m, camp[m].term>> => (l \in lost' <=> l \in lost)
    BY DEF Withdraw, Withdrawal, WithdrawTake, WithdrawCancel, WithdrawRelease, WithdrawSignal, Lose
  <2> QED BY <2>1, <2>2, <2>3, <2>4
<1>2. ASSUME NEW n \in Members \ {m}, Orderly(n) PROVE Orderly(n)'
  <2>1. /\ camp'[n] = camp[n] /\ held'[n] = held[n] /\ wd'[n] = wd[n] /\ release'[n] = release[n]
        /\ \A t \in Terms : ka'[<<n, t>>] = ka[<<n, t>>] /\ (<<n, t>> \in kept' => <<n, t>> \in kept)
    BY <1>1
  <2>2. \A u : <<n, u>> \in lost' <=> <<n, u>> \in lost
    BY <1>1
  <2> QED BY <1>2, <2>1, <2>2, LeftAlone
<1>3. camp[m].term \in Nat /\ held[m] \in BOOLEAN
  BY DEF TypeOK
\* Withdraw starts on a member that holds the key and is at work on one.
<1>4. camp[m].pc \notin {"try", "won", "set"}
  <2>1. held[m] \/ wd[m].pc # "idle"
    BY DEF Withdraw, Withdrawal, WithdrawTake, WithdrawCancel, WithdrawRelease, WithdrawSignal
  <2> QED BY <2>1 DEF Orderly, NotYet
<1>5. OfTerm(m)'
  <2>1. \A t \in Terms : <<m, t>> \in kept' => t = camp[m].term
    BY <1>1 DEF Orderly, OfTerm
  <2>2. \A t \in Terms : <<m, t>> \in lost' => t <= camp[m].term
    BY <1>1, <1>3 DEF Orderly, OfTerm
  <2> QED BY <1>1, <1>4, <2>1, <2>2 DEF Orderly, OfTerm
<1>6. Lost(m)' = (<<m, camp[m].term>> \in lost')
  BY <1>1 DEF Lost
<1>7. CASE Withdraw(m)
  <2>1. /\ UNCHANGED <<kept, release, held, lost>> /\ wd[m].pc = "idle" /\ wd'[m].pc = "take"
    BY <1>7 DEF Withdraw, TypeOK
  <2>2. NotYet(m)'
    BY <1>1, <1>4, <2>1 DEF Orderly, NotYet, Lost
  <2>3. Pending(m)'
    BY <1>1, <2>1 DEF Orderly, Pending, Lost
  <2> QED BY <1>2, <1>5, <2>2, <2>3 DEF Orderly
<1>8. CASE WithdrawTake(m)
  <2>1. /\ UNCHANGED <<kept, held, lost>> /\ wd[m].pc = "take" /\ release'[m] = 0
        /\ wd'[m].pc = "cancel" /\ wd'[m].rel = release[m]
    BY <1>8 DEF WithdrawTake, TypeOK
  <2>2. NotYet(m)'
    BY <1>1, <1>4, <2>1 DEF Orderly, NotYet, Lost
  <2>3. Pending(m)'
    BY <1>1, <1>4, <2>1 DEF Orderly, Pending, Lost
  <2> QED BY <1>2, <1>5, <2>2, <2>3 DEF Orderly
<1>9. CASE WithdrawCancel(m)
  <2>1. /\ UNCHANGED <<kept, release, held, lost>> /\ wd[m].pc = "cancel"
        /\ wd'[m].pc = (IF wd[m].rel = 0 THEN "signal" ELSE "release") /\ wd'[m].rel = wd[m].rel
    BY <1>9 DEF WithdrawCancel, TypeOK
  <2>2. NotYet(m)'
    BY <1>1, <1>4, <2>1 DEF Orderly, NotYet, Lost
  <2>3. \A t \in Terms : t # 0
    BY DEF Terms
  <2>4. Pending(m)'
    BY <1>1, <1>4, <2>1, <2>3 DEF Orderly, Pending, Lost
  <2> QED BY <1>2, <1>5, <2>2, <2>4 DEF Orderly
<1>10. CASE WithdrawRelease(m)
  <2>1. /\ UNCHANGED <<release, held, lost>> /\ wd[m].pc = "release" /\ wd'[m].pc = "signal"
    BY <1>10 DEF WithdrawRelease, TypeOK
  <2>2. \A t \in Terms : <<m, t>> \in kept' => <<m, t>> \in kept /\ wd[m].rel # t
    BY <1>10, UnlockPoints DEF WithdrawRelease
  <2>3. NotYet(m)'
    BY <1>1, <1>4, <2>1 DEF Orderly, NotYet, Lost
  <2>4. Pending(m)'
    BY <1>1, <1>4, <2>1, <2>2 DEF Orderly, Pending, Lost
  <2> QED BY <1>2, <1>5, <2>3, <2>4 DEF Orderly
<1>11. CASE WithdrawSignal(m)
  <2>1. /\ UNCHANGED <<kept, release>> /\ wd[m].pc = "signal" /\ wd'[m].pc = "idle"
        /\ held'[m] = (once[m] /\ held[m])
        /\ lost' = IF once[m] THEN lost ELSE lost \cup {<<m, camp[m].term>>}
    BY <1>11 DEF WithdrawSignal, Lose, TypeOK
  <2>2. NotYet(m)'
    BY <1>1, <1>3, <1>4, <2>1 DEF Orderly, NotYet, Lost
  <2>3. release[m] = 0
    BY <2>1 DEF Orderly, Pending
  <2>4. Pending(m)'
    BY <1>1, <1>4, <2>1, <2>3 DEF Orderly, Pending, Lost
  <2> QED BY <1>2, <1>5, <2>2, <2>4 DEF Orderly
<1> QED BY <1>7, <1>8, <1>9, <1>10, <1>11 DEF Withdrawal

\* A restart ends every goroutine of the member and what it renews.
LEMMA RestartOrderly ==
  ASSUME TypeOK, NEW m \in Members, Orderly(m), Restart(m)
  PROVE  /\ Orderly(m)' /\ \A n \in Members \ {m} : Orderly(n) => Orderly(n)'
<1>1. /\ camp'[m].pc = "idle" /\ camp'[m].term = camp[m].term
      /\ wd'[m].pc = "idle" /\ ~held'[m] /\ release'[m] = 0 /\ UNCHANGED lost
      /\ \A t \in Terms : <<m, t>> \notin kept'
  BY LeaseFacts DEF Restart, TypeOK
<1>2. \A t \in Terms : ka'[<<m, t>>].pc \in {"off", "done"}
  BY LeaseFacts DEF Restart
<1>3. Orderly(m)'
  BY <1>1, <1>2 DEF Orderly, OfTerm, NotYet, Pending, Lost
<1>4. ASSUME NEW n \in Members \ {m}, Orderly(n) PROVE Orderly(n)'
  <2>1. camp'[n] = camp[n] /\ held'[n] = held[n] /\ wd'[n] = wd[n] /\ release'[n] = release[n]
    BY DEF Restart, TypeOK
  <2>2. \A t \in Terms : ka'[<<n, t>>] = ka[<<n, t>>] /\ (<<n, t>> \in kept' => <<n, t>> \in kept)
    BY LeaseFacts DEF Restart
  <2> QED BY <1>1, <1>4, <2>1, <2>2, LeftAlone
<1> QED BY <1>3, <1>4

\* At the start nothing runs, and every step leaves every member in order.
LEMMA InitOrderly == Init => \A m \in Members : Orderly(m)
BY LeaseFacts DEF Init, Orderly, OfTerm, NotYet, Pending, Lost

LEMMA NextOrderly ==
  ~Late /\ IInv /\ (\A m \in Members : Orderly(m)) /\ [Next]_vars => (\A m \in Members : Orderly(m))'
<1> SUFFICES ASSUME ~Late, IInv, \A m \in Members : Orderly(m), [Next]_vars, NEW n \in Members
             PROVE  Orderly(n)'
  OBVIOUS
<1>t. TypeOK
  BY DEF IInv
<1>1. ASSUME NEW m \in Members, RunCampaign(m) PROVE Orderly(n)'
  BY <1>t, <1>1, CampaignOrderly, CampaignOthers
<1>2. ASSUME NEW m \in Members, Withdraw(m) \/ Withdrawal(m) PROVE Orderly(n)'
  BY <1>t, <1>2, WithdrawOrderly
<1>3. ASSUME NEW m \in Members, Restart(m) PROVE Orderly(n)'
  BY <1>t, <1>3, RestartOrderly
<1>4. ASSUME NEW m \in Members, NEW t \in Terms, Keepalive(m, t) PROVE Orderly(n)'
  <2>1. CASE LossPanics(m, t)
    BY <1>3, <2>1 DEF LossPanics
  <2>2. CASE ~LossPanics(m, t)
    <3>1. KaDone(m, t) \/ Renew(m, t) \/ Holder(m, t) \/ LossTake(m, t) \/ LossRelease(m, t)
          \/ LossCheckCancel(m, t) \/ LossCancel(m, t) \/ LossSignal(m, t)
      BY <1>4, <2>2 DEF Keepalive
    <3> QED BY <1>t, <3>1, KeepaliveOrderly
  <2> QED BY <2>1, <2>2
<1>5. ASSUME UNCHANGED <<camp, release, held, lost, ka, wd>>, kept' \subseteq kept
      PROVE  Orderly(n)'
  BY <1>5, LeftAlone
<1>6. ASSUME NEW l \in Leases, RenewFails(l) PROVE Orderly(n)'
  BY <1>5, <1>6 DEF RenewFails
<1>7. CASE Expire \/ UNCHANGED vars
  BY <1>5, <1>7 DEF Expire, vars
<1> QED BY <1>1, <1>2, <1>3, <1>4, <1>6, <1>7 DEF Next, Crash

\* When no goroutine of a lost term outlasts the backoff, a member renews the leader key only
\* in its latest term, and not once it has signalled that term's loss and its goroutines are
\* done: signalLoss and Withdraw release what they take, whatever the interleaving of the two,
\* the faults and the locker.
THEOREM NoLockAbandoned ==
  ASSUME ~Late
  PROVE  Spec => []NoAbandonedLock
<1>1. Init => IInv /\ (\A m \in Members : Orderly(m))
  BY InitInv, InitOrderly
<1>2. IInv /\ (\A m \in Members : Orderly(m)) /\ [Next]_vars
        => IInv' /\ (\A m \in Members : Orderly(m))'
  BY NextInv, NextOrderly
<1>3. IInv /\ (\A m \in Members : Orderly(m)) => NoAbandonedLock
  <2> SUFFICES ASSUME \A m \in Members : Orderly(m),
                      NEW m \in Members, NEW t \in Terms, <<m, t>> \in kept
               PROVE  t = camp[m].term /\ (<<m, t>> \notin lost \/ ~Quiet(m))
    BY DEF NoAbandonedLock
  <2>1. Orderly(m) /\ t # 0 /\ t = camp[m].term
    BY ConstantsAssumption DEF Orderly, OfTerm, Terms
  <2>2. ASSUME <<m, t>> \in lost, Quiet(m) PROVE FALSE
    <3>1. Lost(m) /\ release[m] = 0 /\ camp[m].pc # "won"
      BY <2>1, <2>2 DEF Orderly, NotYet, Pending, Lost
    <3>2. wd[m].pc = "idle" /\ ka[<<m, t>>].pc \in {"off", "done"}
      BY <2>2 DEF Quiet
    <3> QED BY <2>1, <3>1, <3>2 DEF Orderly, Pending
  <2> QED BY <2>1, <2>2
<1> QED BY <1>1, <1>2, <1>3, PTL DEF Spec

=============================================================================
