------------------------------ MODULE MCTargets ------------------------------
(***************************************************************************)
(* TargetsManager alone, with the constants of the configuration, and as a *)
(* member of a cluster with consul's locker, whose Lock waits for the key: *)
(* another member holds the target's key until the second start(), and may *)
(* release it and take it again from then on.                              *)
(***************************************************************************)
EXTENDS TargetsManager

VARIABLE clustered   \* which of the two

mcvars == <<vars, clustered>>

Clustered == INSTANCE TargetsManager WITH Locker <- "consul", MaxOps <- 2, MaxRefresh <- 0

\* Init, but for the key.
ClusteredInit ==
  /\ targets = 0 /\ assigned = FALSE /\ state = ""
  /\ ob = [o \in Objs |-> NewTarget(AnyCfg)]
  /\ th = [t \in Threads |-> NewThread(IF t \in {Loop, Api} THEN "idle" ELSE "off", 0, 0)]
  /\ live = {} /\ open = {} /\ rlive = {}
  /\ nobj = 0 /\ natt = 0 /\ nretry = 0 /\ nops = 0 /\ nrefresh = 0
  /\ lock = "other"
  /\ wanted = [o \in Objs |-> FALSE]

MCInit ==
  \/ clustered = FALSE /\ Init
  \/ clustered = TRUE /\ ClusteredInit

MCNext ==
  /\ UNCHANGED clustered
  /\ IF clustered
       THEN Clustered!Next /\ (lock' # lock => natt = MaxAttempt)
       ELSE Next

\* The fairness of TargetsManager, of whichever of the two runs.
LoopRuns ==
  IF clustered
    THEN Clustered!CreateLocked \/ Clustered!UpdateLocked
         \/ Clustered!StopLocked(Loop, "remove") \/ Clustered!DeleteState
    ELSE CreateLocked \/ UpdateLocked \/ StopLocked(Loop, "remove") \/ DeleteState
ApiRuns ==
  IF clustered THEN Clustered!EnableLocked \/ Clustered!StopLocked(Api, "disable")
               ELSE EnableLocked \/ StopLocked(Api, "disable")
Starts(t) == IF clustered THEN Clustered!Start(t) ELSE Start(t)
Stops(t) == IF clustered THEN Clustered!Stop(t) ELSE Stop(t)
Retried(r) == IF clustered THEN Clustered!RetryLoop(r) ELSE RetryLoop(r)

MCSpec ==
  /\ MCInit /\ [][MCNext]_mcvars
  /\ WF_vars(LoopRuns) /\ WF_vars(ApiRuns)
  /\ \A t \in Callers : WF_vars(Starts(t)) /\ WF_vars(Stops(t))
  /\ \A r \in Retries : SF_vars(Retried(r))
=============================================================================
