-------------------------------- MODULE Tunnel --------------------------------
(***************************************************************************)
(* Targets that dial in through the gRPC tunnel.  The collector keeps the  *)
(* connected targets in memory, matches them against the rules of the      *)
(* store and writes the targets' configurations there; a watcher matches   *)
(* all of them again when a rule changes.  The classic app starts a        *)
(* subscription when a target registers and stops it when it leaves.       *)
(***************************************************************************)
EXTENDS Integers, Sequences

CONSTANTS TunTargets,
          Rules,      \* keys of tunnel-target-matches, as integers in their sort order
          Covers,     \* Covers[r]: the targets whose ID and type the rule's patterns match
          TunKinds,   \* subset of {"collector", "app"}
          MaxVer,     \* bound: versions of a rule
          MaxRuleOps, \* bound: changes of the rules
          MaxSessions \* bound: registrations

VARIABLES
  kind,
  rules,     \* [Rules -> 0..MaxVer]: a rule's version, 0 for an absent one
  sess,      \* the targets' sessions (the tunnel library's registry)
  h,         \* the handler that runs for a target, and the match it has read
  connected, \* connectedTargets; tunTargets of the app
  cfgs,      \* the targets' configurations
  evs,       \* events the watcher has not taken
  rec,       \* reconcileConnectedTargets: targets left, and the match read for one
  g,         \* the app's subscribing goroutines, in the order they were started
  cfn,       \* targets with an entry in tunTargetCfn
  nops, nsess

vars == <<kind, rules, sess, h, connected, cfgs, evs, rec, g, cfn, nops, nsess>>
ruleVars == <<rules, evs, nops>>
appVars == <<g, cfn>>

None == <<0, 0>>
Idle == [pc |-> "idle", tc |-> None]
NoRec == [on |-> FALSE, left |-> {}, cur |-> "-", tc |-> None]

\* getTunnelTargetMatch: the first rule, by key, that matches; None when none does.
Match(t) ==
  LET m == {r \in Rules : rules[r] > 0 /\ t \in Covers[r]} IN
  IF m = {} THEN None
  ELSE LET r == CHOOSE x \in m : \A y \in m : x <= y IN <<r, rules[r]>>

\* The watch on the rules exists before the server accepts a session.
Init ==
  /\ kind \in TunKinds
  /\ rules \in [Rules -> {0, 1}]
  /\ sess = {} /\ h = [t \in TunTargets |-> Idle] /\ connected = {}
  /\ cfgs = [t \in TunTargets |-> None] /\ evs = 0 /\ rec = NoRec
  /\ g = [t \in TunTargets |-> <<>>] /\ cfn = {} /\ nops = 0 /\ nsess = 0

\* Mutant: the targets are copied under the lock, and matched without it.
MuAlwaysFree == TRUE

\* reconcileConnectedTargets holds ts.mu from its first target to its last.
MuFree == ~rec.on

-----------------------------------------------------------------------------
(* The rules: POST and DELETE /config/tunnel-target-matches. *)

ChangeRule(r, v) ==
  /\ kind = "collector" /\ nops < MaxRuleOps /\ nops' = nops + 1
  /\ rules' = [rules EXCEPT ![r] = v] /\ evs' = evs + 1
  /\ UNCHANGED <<kind, sess, h, connected, cfgs, rec, g, cfn, nsess>>

PostRule(r) == rules[r] < MaxVer /\ ChangeRule(r, rules[r] + 1)
DeleteRule(r) == rules[r] > 0 /\ ChangeRule(r, 0)

-----------------------------------------------------------------------------
(* The collector's handlers.  The library runs a target's handlers one     *)
(* after the other.                                                        *)

Register(t) == t \notin sess /\ h[t] = Idle /\ nsess < MaxSessions /\ nsess' = nsess + 1

\* addTargetHandler, up to ts.mu.Unlock.
AddTarget(t) ==
  /\ kind = "collector" /\ Register(t) /\ MuFree
  /\ sess' = sess \cup {t} /\ connected' = connected \cup {t}
  /\ h' = [h EXCEPT ![t].pc = "list"]
  /\ UNCHANGED <<kind, ruleVars, cfgs, rec, appVars>>

AddMatch(t) ==
  /\ h[t].pc = "list"
  /\ h' = [h EXCEPT ![t] = IF Match(t) = None THEN Idle ELSE [pc |-> "set", tc |-> Match(t)]]
  /\ UNCHANGED <<kind, ruleVars, sess, connected, cfgs, rec, appVars, nsess>>

AddStore(t) ==
  /\ h[t].pc = "set"
  /\ cfgs' = [cfgs EXCEPT ![t] = h[t].tc] /\ h' = [h EXCEPT ![t] = Idle]
  /\ UNCHANGED <<kind, ruleVars, sess, connected, rec, appVars, nsess>>

\* deleteTargetHandler: forget the target, then delete its configuration.
DeleteTarget(t) ==
  /\ kind = "collector" /\ t \in sess /\ h[t] = Idle /\ MuFree
  /\ sess' = sess \ {t} /\ connected' = connected \ {t}
  /\ h' = [h EXCEPT ![t].pc = "delete"]
  /\ UNCHANGED <<kind, ruleVars, cfgs, rec, appVars, nsess>>

DeleteStore(t) ==
  /\ h[t].pc = "delete"
  /\ cfgs' = [cfgs EXCEPT ![t] = None] /\ h' = [h EXCEPT ![t] = Idle]
  /\ UNCHANGED <<kind, ruleVars, sess, connected, rec, appVars, nsess>>

\* watchTunnelTargetMatches takes an event and reconciles, under ts.mu.
Reconcile ==
  /\ evs > 0 /\ ~rec.on
  /\ evs' = evs - 1 /\ rec' = [NoRec EXCEPT !.on = TRUE, !.left = connected]
  /\ UNCHANGED <<kind, rules, sess, h, connected, cfgs, appVars, nops, nsess>>

ReconcileMatch(t) ==
  /\ rec.on /\ rec.cur = "-" /\ t \in rec.left
  /\ rec' = [rec EXCEPT !.cur = t, !.left = @ \ {t}, !.tc = Match(t)]
  /\ UNCHANGED <<kind, ruleVars, sess, h, connected, cfgs, appVars, nsess>>

\* The match is set, the absence of one deletes the configuration.
ReconcileStore ==
  /\ rec.on /\ rec.cur # "-"
  /\ cfgs' = [cfgs EXCEPT ![rec.cur] = rec.tc]
  /\ rec' = [rec EXCEPT !.cur = "-", !.tc = None]
  /\ UNCHANGED <<kind, ruleVars, sess, h, connected, appVars, nsess>>

ReconcileEnd ==
  /\ rec.on /\ rec.cur = "-" /\ rec.left = {} /\ rec' = NoRec
  /\ UNCHANGED <<kind, ruleVars, sess, h, connected, cfgs, appVars, nsess>>

-----------------------------------------------------------------------------
(* The app. *)

\* tunServerAddTargetSubscribeHandler: a configuration that is there stays.
AppAddTarget(t) ==
  /\ kind = "app" /\ Register(t) /\ sess' = sess \cup {t}
  /\ IF Match(t) = None THEN UNCHANGED <<connected, cfgs, g>>
     ELSE /\ connected' = connected \cup {t}
          /\ cfgs' = [cfgs EXCEPT ![t] = IF @ = None THEN Match(t) ELSE @]
          /\ g' = [g EXCEPT ![t] = Append(@, "start")]
  /\ UNCHANGED <<kind, ruleVars, h, rec, cfn>>

\* tunServerDeleteTargetHandler does nothing before the subscription registered its cancel.
AppDeleteTarget(t) ==
  /\ kind = "app" /\ t \in sess /\ sess' = sess \ {t}
  /\ IF t \notin cfn THEN UNCHANGED <<connected, cfgs, g, cfn>>
     ELSE /\ cfn' = cfn \ {t} /\ connected' = connected \ {t}
          /\ cfgs' = [cfgs EXCEPT ![t] = None]
          /\ g' = [g EXCEPT ![t] = [i \in DOMAIN @ |->
                    CASE @[i] = "ready" -> "late" [] @[i] = "live" -> "over" [] OTHER -> @[i]]]
  /\ UNCHANGED <<kind, ruleVars, h, rec, nsess>>

\* TargetSubscribeStream: the goroutine that starts cancels the one before it.
AppStart(t, i) ==
  /\ i \in DOMAIN g[t] /\ g[t][i] = "start"
  /\ g' = [g EXCEPT ![t] = [j \in DOMAIN @ |->
             IF j = i THEN "ready" ELSE CASE @[j] = "ready" -> "late" [] @[j] = "live" -> "over" [] OTHER -> @[j]]]
  /\ UNCHANGED <<kind, ruleVars, sess, h, connected, cfgs, rec, cfn, nsess>>

\* clientSubscribe: the target's previous context is cancelled before the own one is looked at.
AppSubscribe(t, i) ==
  /\ i \in DOMAIN g[t] /\ g[t][i] \in {"ready", "late"}
  /\ g' = [g EXCEPT ![t] = [j \in DOMAIN @ |->
             IF j = i THEN (IF @[i] = "ready" THEN "live" ELSE "over")
             ELSE IF @[j] = "live" THEN "over" ELSE @[j]]]
  /\ cfn' = IF g[t][i] = "ready" THEN cfn \cup {t} ELSE cfn
  /\ UNCHANGED <<kind, ruleVars, sess, h, connected, cfgs, rec, nsess>>

-----------------------------------------------------------------------------
Handlers(t) == AddMatch(t) \/ AddStore(t) \/ DeleteStore(t)
Watcher == Reconcile \/ ReconcileStore \/ ReconcileEnd \/ \E t \in TunTargets : ReconcileMatch(t)
AppGo(t) == \E i \in 1..MaxSessions : AppStart(t, i) \/ AppSubscribe(t, i)

Next ==
  \/ \E r \in Rules : PostRule(r) \/ DeleteRule(r)
  \/ \E t \in TunTargets : AddTarget(t) \/ DeleteTarget(t) \/ Handlers(t)
  \/ Watcher
  \/ \E t \in TunTargets : AppAddTarget(t) \/ AppDeleteTarget(t) \/ AppGo(t)

Spec == Init /\ [][Next]_vars

\* Handlers, watcher and goroutines run; devices and users may do nothing.
FairSpec ==
  /\ Spec /\ WF_vars(Watcher)
  /\ \A t \in TunTargets : WF_vars(Handlers(t)) /\ WF_vars(AppGo(t))

-----------------------------------------------------------------------------
\* The store holds no configuration of a target that has left the collector's tunnel:
\* no reconciliation writes it back.
NoOrphanTarget ==
  \A t \in TunTargets : kind = "collector" /\ t \notin sess /\ h[t] = Idle => cfgs[t] = None
=============================================================================
