---------------------------- MODULE SafetyProofs ----------------------------
(***************************************************************************)
(* What MCSafety checks follows from the theorems about the components:    *)
(* every behaviour of its systems (SysSpec) has the properties.  There is  *)
(* a lemma for each system, that a behaviour which begins in it is one of  *)
(* its component and stays in it; the theorem of the component does the    *)
(* rest.  The inputs of the event pipeline, the requests of apply and the  *)
(* options of a message are any that InputsAssumption allows.              *)
(***************************************************************************)
EXTENDS MCSafety, TLAPS

\* The members and their lockers: a behaviour that begins there is one of Lockers.
LEMMA LockersRun ==
  /\ SysInit /\ sys = "lockers" => Managed!Lk!Init
  /\ sys = "lockers" /\ [SysNext]_sysVars => [Managed!Lk!Next]_(Managed!Lk!vars) /\ (sys = "lockers")'
  /\ ~(sys = "lockers") /\ [SysNext]_sysVars => ~(sys = "lockers")'
<1>1. SysInit /\ sys = "lockers" => Managed!Lk!Init
  BY DEF SysInit
<1>2. sys = "lockers" /\ SysNext => Managed!Lk!Next
  BY DEF SysNext, OthersNext
<1>3. UNCHANGED sysVars => UNCHANGED Managed!Lk!vars
  BY DEF sysVars, others, Managed!Lk!vars
<1>4. [SysNext]_sysVars => UNCHANGED sys
  BY DEF SysNext, sysVars
<1> QED BY <1>1, <1>2, <1>3, <1>4

\* The outputs manager.
LEMMA ManagerRun ==
  /\ SysInit /\ sys = "manager" => Store!Init
  /\ sys = "manager" /\ [SysNext]_sysVars => [Store!Next]_(Store!vars) /\ (sys = "manager")'
  /\ ~(sys = "manager") /\ [SysNext]_sysVars => ~(sys = "manager")'
<1>1. SysInit /\ sys = "manager" => Store!Init
  BY DEF SysInit
<1>2. sys = "manager" /\ SysNext => Store!Next
  BY DEF SysNext, OthersNext
<1>3. UNCHANGED sysVars => UNCHANGED Store!vars
  BY DEF sysVars, others, Store!vars
<1>4. [SysNext]_sysVars => UNCHANGED sys
  BY DEF SysNext, sysVars
<1> QED BY <1>1, <1>2, <1>3, <1>4

\* The inputs manager.
LEMMA InputsRun ==
  /\ SysInit /\ sys = "inputs" => Store!In!Init
  /\ sys = "inputs" /\ [SysNext]_sysVars => [Store!In!Next]_(Store!In!vars) /\ (sys = "inputs")'
  /\ ~(sys = "inputs") /\ [SysNext]_sysVars => ~(sys = "inputs")'
<1>1. SysInit /\ sys = "inputs" => Store!In!Init
  BY DEF SysInit
<1>2. sys = "inputs" /\ SysNext => Store!In!Next
  BY DEF SysNext, OthersNext
<1>3. UNCHANGED sysVars => UNCHANGED Store!In!vars
  BY DEF sysVars, others, Store!In!vars
<1>4. [SysNext]_sysVars => UNCHANGED sys
  BY DEF SysNext, sysVars
<1> QED BY <1>1, <1>2, <1>3, <1>4

\* The managed target of a cluster.
LEMMA TargetsRun ==
  /\ SysInit /\ sys = "targets" => Managed!Init
  /\ sys = "targets" /\ [SysNext]_sysVars => [Managed!Next]_(Managed!vars) /\ (sys = "targets")'
  /\ ~(sys = "targets") /\ [SysNext]_sysVars => ~(sys = "targets")'
<1>1. SysInit /\ sys = "targets" => Managed!Init
  BY DEF SysInit
<1>2. sys = "targets" /\ SysNext => Managed!Next
  BY DEF SysNext, OthersNext
<1>3. UNCHANGED sysVars => UNCHANGED Managed!vars
  BY DEF sysVars, others, Managed!vars, Managed!used
<1>4. [SysNext]_sysVars => UNCHANGED sys
  BY DEF SysNext, sysVars
<1> QED BY <1>1, <1>2, <1>3, <1>4

\* The list of a target's subscriptions.
LEMMA ListsRun ==
  /\ SysInit /\ sys = "lists" => Store!Lists!Init
  /\ sys = "lists" /\ [SysNext]_sysVars => [Store!Lists!Next]_(Store!Lists!vars) /\ (sys = "lists")'
  /\ ~(sys = "lists") /\ [SysNext]_sysVars => ~(sys = "lists")'
<1>1. SysInit /\ sys = "lists" => Store!Lists!Init
  BY DEF SysInit
<1>2. sys = "lists" /\ SysNext => Store!Lists!Next
  BY DEF SysNext, OthersNext
<1>3. UNCHANGED sysVars => UNCHANGED Store!Lists!vars
  BY DEF sysVars, others, Store!Lists!vars, Store!Lists!loops
<1>4. [SysNext]_sysVars => UNCHANGED sys
  BY DEF SysNext, sysVars
<1> QED BY <1>1, <1>2, <1>3, <1>4

\* The subscription that reconnects.
LEMMA SubConnRun ==
  /\ SysInit /\ sys = "subConn" => SubConn!Init
  /\ sys = "subConn" /\ [SysNext]_sysVars => [SubConn!Next]_(SubConn!vars) /\ (sys = "subConn")'
  /\ ~(sys = "subConn") /\ [SysNext]_sysVars => ~(sys = "subConn")'
<1>1. SysInit /\ sys = "subConn" => SubConn!Init
  BY DEF SysInit
<1>2. sys = "subConn" /\ SysNext => SubConn!Next
  BY DEF SysNext, OthersNext
<1>3. UNCHANGED sysVars => UNCHANGED SubConn!vars
  BY DEF sysVars, others, SubConn!vars, SubConn!loopVars, SubConn!cfgVars
<1>4. [SysNext]_sysVars => UNCHANGED sys
  BY DEF SysNext, sysVars
<1> QED BY <1>1, <1>2, <1>3, <1>4

\* The subscription whose reader is slow.
LEMMA SubSlowRun ==
  /\ SysInit /\ sys = "subSlow" => SubSlow!Init
  /\ sys = "subSlow" /\ [SysNext]_sysVars => [SubSlow!Next]_(SubSlow!vars) /\ (sys = "subSlow")'
  /\ ~(sys = "subSlow") /\ [SysNext]_sysVars => ~(sys = "subSlow")'
<1>1. SysInit /\ sys = "subSlow" => SubSlow!Init
  BY DEF SysInit
<1>2. sys = "subSlow" /\ SysNext => SubSlow!Next
  BY DEF SysNext, OthersNext
<1>3. UNCHANGED sysVars => UNCHANGED SubSlow!vars
  BY DEF sysVars, others, SubSlow!vars, SubSlow!loopVars, SubSlow!cfgVars
<1>4. [SysNext]_sysVars => UNCHANGED sys
  BY DEF SysNext, sysVars
<1> QED BY <1>1, <1>2, <1>3, <1>4

\* The tunnel server.
LEMMA TunnelRun ==
  /\ SysInit /\ sys = "tunnel" => Store!Tun!Init
  /\ sys = "tunnel" /\ [SysNext]_sysVars => [Store!Tun!Next]_(Store!Tun!vars) /\ (sys = "tunnel")'
  /\ ~(sys = "tunnel") /\ [SysNext]_sysVars => ~(sys = "tunnel")'
<1>1. SysInit /\ sys = "tunnel" => Store!Tun!Init
  BY DEF SysInit
<1>2. sys = "tunnel" /\ SysNext => Store!Tun!Next
  BY DEF SysNext, OthersNext
<1>3. UNCHANGED sysVars => UNCHANGED Store!Tun!vars
  BY DEF sysVars, others, Store!Tun!vars
<1>4. [SysNext]_sysVars => UNCHANGED sys
  BY DEF SysNext, sysVars
<1> QED BY <1>1, <1>2, <1>3, <1>4

\* The event pipeline.
LEMMA EventsRun ==
  /\ SysInit /\ sys = "events" => Serving!Pipe!Init
  /\ sys = "events" /\ [SysNext]_sysVars => [Serving!Pipe!Next]_(Serving!Pipe!evars) /\ (sys = "events")'
  /\ ~(sys = "events") /\ [SysNext]_sysVars => ~(sys = "events")'
<1>1. SysInit /\ sys = "events" => Serving!Pipe!Init
  BY DEF SysInit
<1>2. sys = "events" /\ SysNext => Serving!Pipe!Next
  BY DEF SysNext, OthersNext
<1>3. UNCHANGED sysVars => UNCHANGED Serving!Pipe!evars
  BY DEF sysVars, others, Serving!Pipe!evars
<1>4. [SysNext]_sysVars => UNCHANGED sys
  BY DEF SysNext, sysVars
<1> QED BY <1>1, <1>2, <1>3, <1>4

\* The requests and options of package api.
LEMMA RequestsRun ==
  /\ SysInit /\ sys = "requests" => Serving!Req!Init
  /\ sys = "requests" /\ [SysNext]_sysVars => [Serving!Req!Next]_(Serving!Req!vars) /\ (sys = "requests")'
  /\ ~(sys = "requests") /\ [SysNext]_sysVars => ~(sys = "requests")'
<1>1. SysInit /\ sys = "requests" => Serving!Req!Init
  BY DEF SysInit
<1>2. sys = "requests" /\ SysNext => Serving!Req!Next
  BY DEF SysNext, OthersNext
<1>3. UNCHANGED sysVars => UNCHANGED Serving!Req!vars
  BY DEF sysVars, others, Serving!Req!vars
<1>4. [SysNext]_sysVars => UNCHANGED sys
  BY DEF SysNext, sysVars
<1> QED BY <1>1, <1>2, <1>3, <1>4

\* The relayed RPC.
LEMMA RelayRun ==
  /\ SysInit /\ sys = "relay" => Serving!Init
  /\ sys = "relay" /\ [SysNext]_sysVars => [Serving!Next]_(Serving!vars) /\ (sys = "relay")'
  /\ ~(sys = "relay") /\ [SysNext]_sysVars => ~(sys = "relay")'
<1>1. SysInit /\ sys = "relay" => Serving!Init
  BY DEF SysInit
<1>2. sys = "relay" /\ SysNext => Serving!Next
  BY DEF SysNext, OthersNext
<1>3. UNCHANGED sysVars => UNCHANGED Serving!vars
  BY DEF sysVars, others, Serving!vars
<1>4. [SysNext]_sysVars => UNCHANGED sys
  BY DEF SysNext, sysVars
<1> QED BY <1>1, <1>2, <1>3, <1>4

\* The Prometheus output.
LEMMA PromRun ==
  /\ SysInit /\ sys = "prom" => Serving!Prom!Init
  /\ sys = "prom" /\ [SysNext]_sysVars => [Serving!Prom!Next]_(Serving!Prom!vars) /\ (sys = "prom")'
  /\ ~(sys = "prom") /\ [SysNext]_sysVars => ~(sys = "prom")'
<1>1. SysInit /\ sys = "prom" => Serving!Prom!Init
  BY DEF SysInit
<1>2. sys = "prom" /\ SysNext => Serving!Prom!Next
  BY DEF SysNext, OthersNext
<1>3. UNCHANGED sysVars => UNCHANGED Serving!Prom!vars
  BY DEF sysVars, others, Serving!Prom!vars
<1>4. [SysNext]_sysVars => UNCHANGED sys
  BY DEF SysNext, sysVars
<1> QED BY <1>1, <1>2, <1>3, <1>4

-----------------------------------------------------------------------------
(* The properties of the run. *)

\* A target's retry loops and mt.retryCancel belong together in the system targets: no loop runs
\* on without an owner, also when the target's lock is taken or lost (TargetsManagerProofs).
THEOREM RetryOwnershipHolds == SysSpec => []RetryOwnership
<1>1. Managed!Init /\ [][Managed!Next]_(Managed!vars) => []Managed!RetryOwnership
  <2>1. Managed!ConstantsAssumption /\ Managed!BoundsAssumption
    BY DEF Managed!ConstantsAssumption, Managed!BoundsAssumption
  <2> QED BY <2>1, Managed!RetryOwned DEF Managed!Spec
<1>2. Managed!RetryOwnership \/ ~(sys = "targets") => RetryOwnership
  BY DEF RetryOwnership
<1> QED BY <1>1, <1>2, TargetsRun, PTL DEF SysSpec

\* processorsInUse names every output that runs with a processor, for any bodies of apply
\* (ManagersProofs): a processor that is used cannot be deleted.
THEOREM UsedIsTrackedHolds == SysSpec => []UsedIsTracked
<1>1. Store!Init /\ [][Store!Next]_(Store!vars) => []Store!UsedIsTracked
  <2>1. Store!Bodies
    BY InputsAssumption
  <2> QED BY <2>1, Store!UsedIsTrackedAlways DEF Store!Spec
<1>2. Store!UsedIsTracked \/ ~(sys = "manager") => UsedIsTracked
  BY DEF UsedIsTracked
<1> QED BY <1>1, <1>2, ManagerRun, PTL DEF SysSpec

\* Once the queued events are handled, outputs, states and configuration agree, for any bodies
\* of apply (ManagersProofs).
THEOREM OutputsSettleHolds == SysSpec => []OutputsSettle
<1>1. Store!Init /\ [][Store!Next]_(Store!vars) => []Store!OutputsSettle
  <2>1. Store!Bodies
    BY InputsAssumption
  <2> QED BY <2>1, Store!OutputsSettleAlways DEF Store!Spec
<1>2. Store!OutputsSettle \/ ~(sys = "manager") => OutputsSettle
  BY DEF OutputsSettle
<1> QED BY <1>1, <1>2, ManagerRun, PTL DEF SysSpec

\* No started input is lost, and the inputs manager's index is exact (ManagersProofs).
THEOREM InputsTrackedHolds == SysSpec => []InputsTracked
<1>1. Store!In!Init /\ [][Store!In!Next]_(Store!In!vars) => []Store!In!InputsTracked
  BY Store!InputsTracked DEF Store!In!Spec
<1>2. Store!In!InputsTracked \/ ~(sys = "inputs") => InputsTracked
  BY DEF InputsTracked
<1> QED BY <1>1, <1>2, InputsRun, PTL DEF SysSpec

\* Once the queued events are handled, a target runs the subscriptions of its list
\* (ManagersProofs).
THEOREM RunsWhatItListsHolds == SysSpec => []RunsWhatItLists
<1>1. Store!Lists!Init /\ [][Store!Lists!Next]_(Store!Lists!vars) => []Store!Lists!RunsWhatItLists
  BY Store!RunsAsListed DEF Store!Lists!Spec
<1>2. Store!Lists!RunsWhatItLists \/ ~(sys = "lists") => RunsWhatItLists
  BY DEF RunsWhatItLists
<1> QED BY <1>1, <1>2, ListsRun, PTL DEF SysSpec

\* The reconciliation of the tunnel server writes no configuration back of a target that has
\* left (ManagersProofs).
THEOREM NoOrphanTargetHolds == SysSpec => []NoOrphanTarget
<1>1. Store!Tun!Init /\ [][Store!Tun!Next]_(Store!Tun!vars) => []Store!Tun!NoOrphanTarget
  BY Store!NoTargetOrphaned DEF Store!Tun!Spec
<1>2. Store!Tun!NoOrphanTarget \/ ~(sys = "tunnel") => NoOrphanTarget
  BY DEF NoOrphanTarget
<1> QED BY <1>1, <1>2, TunnelRun, PTL DEF SysSpec

\* A relayed RPC that is answered without error carries every result (ServingProofs).
THEOREM AnswerCompleteHolds == SysSpec => []AnswerComplete
<1>1. Serving!Init /\ [][Serving!Next]_(Serving!vars) => []Serving!AnswerComplete
  <2>1. 2 \in Nat /\ Serving!AsksAreTargets
    BY DEF Serving!AsksAreTargets
  <2> QED BY <2>1, Serving!AnswersComplete DEF Serving!Spec
<1>2. Serving!AnswerComplete \/ ~(sys = "relay") => AnswerComplete
  BY DEF AnswerComplete
<1> QED BY <1>1, <1>2, RelayRun, PTL DEF SysSpec

\* No option of a message undoes what another one set, for any options of a user
\* (ServingProofs).
THEOREM OptionsKeptHolds == SysSpec => []OptionsKept
<1>1. Serving!Req!Init /\ [][Serving!Req!Next]_(Serving!Req!vars) => []Serving!Req!OptionsKept
  <2>1. \A i \in DOMAIN MsgOptions : Serving!IsOption(MsgOptions[i])
    BY InputsAssumption
  <2> QED BY <2>1, Serving!EveryOptionKept DEF Serving!Req!Spec
<1>2. Serving!Req!OptionsKept \/ ~(sys = "requests") => OptionsKept
  BY DEF OptionsKept
<1> QED BY <1>1, <1>2, RequestsRun, PTL DEF SysSpec

\* A rate limiter keeps events with the same tags apart, for any chains, batches and responses
\* whose tags its cache has room for (ServingProofs).
THEOREM RateLimitSpacingHolds == SysSpec => []RateLimitSpacing
<1>1. Serving!Pipe!Init /\ [][Serving!Pipe!Next]_(Serving!Pipe!evars) => []Serving!Pipe!RateLimitSpacing
  <2>1. Serving!Arriving /\ Serving!Arrivals /\ Serving!RateLimited /\ Serving!Undisturbed
    BY InputsAssumption
  <2> QED BY <2>1, Serving!SpacingKept DEF Serving!Pipe!Spec
<1>2. Serving!Pipe!RateLimitSpacing \/ ~(sys = "events") => RateLimitSpacing
  BY DEF RateLimitSpacing
<1> QED BY <1>1, <1>2, EventsRun, PTL DEF SysSpec

\* Event merge, event group by and event combine lose no name or value of an update on its way
\* to an output, for any chains, batches and responses the pipeline is well configured for
\* (ServingProofs).
THEOREM MergeConservesHolds == SysSpec => []MergeConserves
<1>1. Serving!Pipe!Init /\ [][Serving!Pipe!Next]_(Serving!Pipe!evars) => []Serving!Pipe!MergeConserves
  <2>1. Serving!WellFormed /\ Serving!Arrivals /\ Serving!Configured /\ Serving!Unrobbed
    BY InputsAssumption
  <2> QED BY <2>1, Serving!NothingLost DEF Serving!Pipe!Spec
<1>2. Serving!Pipe!MergeConserves \/ ~(sys = "events") => MergeConserves
  BY DEF MergeConserves
<1> QED BY <1>1, <1>2, EventsRun, PTL DEF SysSpec

\* Never two Subscribe RPCs of a subscription are open, across reconnects, time-outs and
\* streams that end with Canceled (SubscriptionProofs).
THEOREM SingleStreamsHolds == SysSpec => []SingleStreams
<1>1. SubConn!Init /\ [][SubConn!Next]_(SubConn!vars) => []SubConn!SingleStream
  <2>1. SubConn!Constants
    BY DEF SubConn!Constants
  <2> QED BY <2>1, SubConn!OneStream DEF SubConn!Spec
<1>2. SubSlow!Init /\ [][SubSlow!Next]_(SubSlow!vars) => []SubSlow!SingleStream
  <2>1. SubSlow!Constants
    BY DEF SubSlow!Constants
  <2> QED BY <2>1, SubSlow!OneStream DEF SubSlow!Spec
<1>3. /\ SubConn!SingleStream \/ ~(sys = "subConn")
      /\ SubSlow!SingleStream \/ ~(sys = "subSlow")
      => SingleStreams
  BY DEF SingleStreams
<1> QED BY <1>1, <1>2, <1>3, SubConnRun, SubSlowRun, PTL DEF SysSpec

\* No scrape takes a series of the Prometheus output back in time (ServingProofs).
THEOREM ScrapesMoveForwardHolds == SysSpec => ScrapesMoveForward
<1>1. Serving!Prom!Init /\ [][Serving!Prom!Next]_(Serving!Prom!vars) => [][Serving!Prom!NoScrapeBack]_(Serving!Prom!vars)
  BY Serving!ScrapesForward DEF Serving!Prom!Spec, Serving!Prom!ScrapesMoveForward
<1>2. /\ [SysNext]_sysVars /\ (sys = "prom" => [Serving!Prom!NoScrapeBack]_(Serving!Prom!vars))
      => [sys = "prom" => Serving!Prom!NoScrapeBack]_sysVars
  <2>1. SysNext /\ sys = "prom" => UNCHANGED <<vars, sys, After7>>
    BY DEF SysNext, OthersNext
  <2>2. UNCHANGED <<vars, sys, After7>> /\ UNCHANGED Serving!Prom!vars => UNCHANGED sysVars
    BY DEF Serving!Prom!vars, sysVars, others, After7, After8, After9, After10, After12, After13, After15
  <2> QED BY <2>1, <2>2
<1> QED BY <1>1, <1>2, PromRun, PTL DEF SysSpec, ScrapesMoveForward

\* The steps of the lockers are steps of the lease they promise (TargetsManagerProofs).
THEOREM ImplementsLeaseHolds == SysSpec => ImplementsLease
<1>1. sys = "lockers" /\ SysInit => Managed!Lk!L!Init /\ Managed!FreshKnown
  BY LockersRun, Managed!InitRefines
<1>2. Managed!FreshKnown /\ [Managed!Lk!Next]_(Managed!Lk!vars) =>
        Managed!FreshKnown' /\ [Managed!Lk!L!Next]_(Managed!Lk!L!vars)
  BY Managed!FreshInv, Managed!StepRefines
<1>3. (sys = "lockers" => [Managed!Lk!L!Next]_(Managed!Lk!L!vars))
        => [sys = "lockers" => Managed!Lk!L!Next \/ UNCHANGED Managed!Lk!L!vars]_sysVars
  OBVIOUS
<1> QED BY <1>1, <1>2, <1>3, LockersRun, PTL DEF SysSpec, ImplementsLease
=============================================================================
