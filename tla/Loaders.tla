------------------------------- MODULE Loaders -------------------------------
(***************************************************************************)
(* Target discovery.  A loader (file, HTTP, Docker or Consul) compares     *)
(* what it reads with lastTargets, runs the on-add and on-delete actions   *)
(* of every difference, remembers the result and hands it over an          *)
(* unbuffered channel to the process that configures targets: the classic  *)
(* application or the collector's targets manager.                         *)
(*                                                                         *)
(* A target configuration is a version number, 0 when the target is        *)
(* absent.  One Consul service is watched.  Templates, addresses and the   *)
(* metrics are left out; the operation that is handed over is              *)
(* [add, del, val]: two sets of names and the configurations read.         *)
(***************************************************************************)
EXTENDS Integers, FiniteSets

CONSTANTS Names,
          MaxVer,       \* versions of a target's configuration
          LKinds,       \* of {"file", "http", "docker", "consul"}
          Takers,       \* who applies the operations: of {"app", "collector"}
          HasActions,   \* set of BOOLEAN: may actions be configured
          FailingActs,  \* of {"add", "del"}: the actions that may fail
          MaxChanges,   \* changes of the source
          MaxLFails     \* failed reads, actions and timeouts

VARIABLES
  lkind, taker, hasActs,
  src,      \* what the file, server, daemon or registry says now
  idx,      \* the registry's index (Consul)
  wait,     \* the WaitIndex of the next blocking query (Consul)
  last,     \* lastTargets
  pc,       \* "idle", "acts", "send" or "hung"
  op,       \* the difference found
  todo,     \* <<"add" or "del", name>>: actions still running
  res,      \* the operation gathered from the actions that succeeded
  expired,  \* the actions' context timed out
  cop,      \* what the taker is still applying
  have,     \* the targets configured
  changes, lfails

vars == <<lkind, taker, hasActs, src, idx, wait, last, pc, op, todo, res, expired, cop,
          have, changes, lfails>>

Configs == [Names -> 0 .. MaxVer]
Empty == [n \in Names |-> 0]
NoOp == [add |-> {}, del |-> {}, val |-> Empty]
Known(c) == {n \in Names : c[n] # 0}
Update(c, names, val) == [n \in Names |-> IF n \in names THEN val[n] ELSE c[n]]

Init ==
  /\ lkind \in LKinds /\ taker \in Takers /\ hasActs \in HasActions
  /\ src \in Configs
  /\ idx = 2 /\ wait = 0
  /\ last = Empty /\ have = Empty
  /\ pc = "idle" /\ op = NoOp /\ todo = {} /\ res = NoOp /\ expired = FALSE
  /\ cop = NoOp
  /\ changes = 0 /\ lfails = 0

\* somebody edits the file, starts a container, registers a service
SourceChanges ==
  /\ changes < MaxChanges
  /\ changes' = changes + 1
  /\ src' \in Configs \ {src}
  /\ idx' = idx + 1
  /\ UNCHANGED <<lkind, taker, hasActs, wait, last, pc, op, todo, res, expired, cop,
                 have, lfails>>

\* Mutant: a change only adds
DiffAddsOnly(cur, new) ==
  [add |-> {n \in Known(new) : new[n] # cur[n]},
   del |-> {n \in Known(cur) : new[n] = 0},
   val |-> new]
\* what differs is removed, added, or (changed) removed and added again
Diff(cur, new) ==
  [add |-> {n \in Known(new) : new[n] # cur[n]},
   del |-> {n \in Known(cur) : new[n] # cur[n]},
   val |-> new]

\* a result of the read becomes an operation; with no actions it is complete
Found(d) ==
  /\ op' = d
  /\ expired' = FALSE
  /\ IF hasActs
     THEN /\ todo' = ({"add"} \X d.add) \cup ({"del"} \X d.del)
          /\ res' = [d EXCEPT !.add = {}, !.del = {}]
     ELSE todo' = {} /\ res' = d
  /\ pc' = "acts"

ReadFails ==
  /\ lfails < MaxLFails
  /\ lfails' = lfails + 1
  /\ UNCHANGED <<last, pc, op, todo, res, expired>>

FileUpdate ==
  /\ lkind = "file" /\ pc = "idle"
  /\ \/ ReadFails
     \/ Found(Diff(last, src)) /\ UNCHANGED <<last, lfails>>
  /\ UNCHANGED <<lkind, taker, hasActs, src, idx, wait, cop, have, changes>>

HttpUpdate ==
  /\ lkind = "http" /\ pc = "idle"
  /\ \/ ReadFails
     \/ Found(Diff(last, src)) /\ UNCHANGED <<last, lfails>>
  /\ UNCHANGED <<lkind, taker, hasActs, src, idx, wait, cop, have, changes>>

(* dockerLoader.diff changes lastTargets before the actions run.           *)
(* getTargets collects the errors of its requests in a goroutine it does   *)
(* not wait for: a request that failed may look like one that found        *)
(* nothing.                                                                *)
DockerDiff(new) ==
  LET d == Diff(last, new)
      added == Update(last, {n \in d.add : last[n] = 0}, new)
  IN Found(d) /\ last' = Update(added, d.del, Empty)
DockerList(seen) ==
  \/ seen = Known(src) /\ UNCHANGED lfails
  \/ seen # Known(src) /\ lfails < MaxLFails /\ lfails' = lfails + 1
DockerUpdate ==
  /\ lkind = "docker" /\ pc = "idle"
  /\ \/ ReadFails
     \/ \E seen \in SUBSET Known(src) :
          DockerList(seen) /\ DockerDiff(Update(Empty, seen, src))
  /\ UNCHANGED <<lkind, taker, hasActs, src, idx, wait, cop, have, changes>>

(* The blocking query returns when the index moved; an error restarts it   *)
(* from index 0, an empty service is not reported at all.                  *)
ConsulWatch ==
  /\ lkind = "consul" /\ pc = "idle"
  /\ \/ /\ ReadFails /\ wait' = 0
     \/ /\ idx # wait /\ Known(src) = {}
        /\ wait' = 1
        /\ UNCHANGED <<lfails, last, pc, op, todo, res, expired>>
     \/ /\ idx # wait /\ Known(src) # {}
        /\ wait' = idx
        /\ Found(Diff(last, src))
        /\ UNCHANGED <<last, lfails>>
  /\ UNCHANGED <<lkind, taker, hasActs, src, idx, cop, have, changes>>

-----------------------------------------------------------------------------
(* runActions: one goroutine for every entry; the HTTP loader finishes the *)
(* deletes first.  Results go over a channel to a gathering goroutine,     *)
(* which leaves when the context expires (the HTTP loader has none).       *)

Runnable(t) == lkind # "http" \/ t[1] = "del" \/ \A u \in todo : u[1] = "add"
ActFrame ==
  UNCHANGED <<lkind, taker, hasActs, src, idx, wait, op, cop, have, changes>>

\* its sender waits for ever if the gathering goroutine is gone
ActionSucceeds(t) ==
  /\ pc = "acts" /\ t \in todo /\ Runnable(t)
  /\ IF expired /\ lkind # "http"
     THEN pc' = "hung" /\ UNCHANGED <<todo, res>>
     ELSE /\ todo' = todo \ {t}
          /\ res' = IF t[1] = "add" THEN [res EXCEPT !.add = @ \cup {t[2]}]
                    ELSE [res EXCEPT !.del = @ \cup {t[2]}]
          /\ UNCHANGED pc
  /\ ActFrame /\ UNCHANGED <<last, expired, lfails>>

\* runOnAddActions forgets the target so that the next read tries again
ForgetsFailed == lkind \in {"file", "http", "docker"}
ActionFails(t) ==
  /\ pc = "acts" /\ t \in todo /\ Runnable(t)
  /\ t[1] \in FailingActs
  /\ \/ expired /\ UNCHANGED lfails
     \/ ~expired /\ lfails < MaxLFails /\ lfails' = lfails + 1
  /\ todo' = todo \ {t}
  /\ last' = IF t[1] = "add" /\ ForgetsFailed THEN Update(last, {t[2]}, Empty) ELSE last
  /\ ActFrame /\ UNCHANGED <<pc, res, expired>>
\* a failed action leaves the target known
ActionFailsRemembers(t) ==
  /\ pc = "acts" /\ t \in todo /\ Runnable(t)
  /\ t[1] \in FailingActs
  /\ \/ expired /\ UNCHANGED lfails
     \/ ~expired /\ lfails < MaxLFails /\ lfails' = lfails + 1
  /\ todo' = todo \ {t}
  /\ last' = IF t[1] = "add" THEN Update(last, {t[2]}, op.val) ELSE last
  /\ ActFrame /\ UNCHANGED <<pc, res, expired>>

ActionsExpire ==
  /\ pc = "acts" /\ todo # {} /\ ~expired
  /\ lfails < MaxLFails /\ lfails' = lfails + 1
  /\ expired' = TRUE
  /\ ActFrame /\ UNCHANGED <<last, pc, todo, res>>

FileRunActions(t) == lkind = "file" /\ (ActionSucceeds(t) \/ ActionFails(t))
HttpRunActions(t) == lkind = "http" /\ (ActionSucceeds(t) \/ ActionFails(t))
DockerRunActions(t) == lkind = "docker" /\ (ActionSucceeds(t) \/ ActionFails(t))
ConsulRunActions(t) == lkind = "consul" /\ (ActionSucceeds(t) \/ ActionFails(t))
RunActions ==
  \E t \in todo : \/ FileRunActions(t) \/ HttpRunActions(t)
                  \/ DockerRunActions(t) \/ ConsulRunActions(t)

(* updateTargets after the actions: remember, then hand over.  Consul's     *)
(* gathering goroutine does not close doneCh when the context expired.      *)
UpdateTargets ==
  /\ pc = "acts" /\ todo = {}
  /\ IF expired /\ lkind = "consul" THEN pc' = "hung" /\ UNCHANGED last
     ELSE IF res.add \cup res.del = {} THEN pc' = "idle" /\ UNCHANGED last
     ELSE /\ pc' = "send"
          /\ last' = Update(Update(last, res.del, Empty), res.add, res.val)
  /\ ActFrame /\ UNCHANGED <<todo, res, expired, lfails>>

FileUpdateTargets == lkind = "file" /\ UpdateTargets
HttpUpdateTargets == lkind = "http" /\ UpdateTargets
DockerUpdateTargets == lkind = "docker" /\ UpdateTargets
ConsulUpdateTargets == lkind = "consul" /\ UpdateTargets

\* the taker is at its receive
HandOver ==
  /\ pc = "send" /\ cop.add \cup cop.del = {}
  /\ cop' = res
  /\ pc' = "idle"
  /\ UNCHANGED <<lkind, taker, hasActs, src, idx, wait, last, op, todo, res, expired,
                 have, changes, lfails>>

-----------------------------------------------------------------------------
TakerFrame ==
  UNCHANGED <<lkind, taker, hasActs, src, idx, wait, last, pc, op, todo, res, expired,
              changes, lfails>>
DeleteTarget(n) ==
  /\ have' = [have EXCEPT ![n] = 0]
  /\ cop' = [cop EXCEPT !.del = @ \ {n}]

\* App.AddTargetConfig keeps a target it knows
AddTargetConfig(n) ==
  /\ have' = IF have[n] = 0 THEN [have EXCEPT ![n] = cop.val[n]] ELSE have
  /\ cop' = [cop EXCEPT !.add = @ \ {n}]

\* App.startLoader: deletes first
AppApplies(n) ==
  /\ taker = "app"
  /\ \/ n \in cop.del /\ DeleteTarget(n)
     \/ n \in cop.add /\ cop.del = {} /\ AddTargetConfig(n)
  /\ TakerFrame

\* TargetsManager.startLoader: adds first, then deletes
CollectorApplies(n) ==
  /\ taker = "collector"
  /\ \/ /\ n \in cop.add
        /\ have' = [have EXCEPT ![n] = cop.val[n]]
        /\ cop' = [cop EXCEPT !.add = @ \ {n}]
     \/ n \in cop.del /\ cop.add = {} /\ DeleteTarget(n)
  /\ TakerFrame

LoaderStep ==
  \/ FileUpdate \/ HttpUpdate \/ DockerUpdate \/ ConsulWatch
  \/ FileUpdateTargets \/ HttpUpdateTargets \/ DockerUpdateTargets
  \/ ConsulUpdateTargets \/ HandOver \/ RunActions
TakerStep == \E n \in Names : AppApplies(n) \/ CollectorApplies(n)

Next ==
  \/ SourceChanges \/ LoaderStep \/ TakerStep \/ ActionsExpire

(* The ticker fires again and again and every goroutine is scheduled; reads *)
(* and actions fail only finitely often (MaxLFails), which is what          *)
(* "eventually" needs of the outside world.                                 *)
Fairness == WF_vars(LoaderStep) /\ WF_vars(TakerStep)
Spec == Init /\ [][Next]_vars
FairSpec == Spec /\ Fairness

-----------------------------------------------------------------------------
TypeOK ==
  /\ src \in Configs /\ last \in Configs /\ have \in Configs
  /\ pc \in {"idle", "acts", "send", "hung"}
  /\ op.add \cup op.del \cup res.add \cup res.del \cup cop.add \cup cop.del \subseteq Names

\* The targets configured become those of the source, whatever reads and on-add
\* actions failed on the way and even when a Docker list was taken for complete.
\* Exempt are a loader that hangs (see ActionSucceeds), a Consul service without
\* instances and failed actions with Consul, which nothing repeats.
Follows == have = src \/ pc = "hung" \/ (lkind = "consul" /\ (hasActs \/ Known(src) = {}))
LoaderConverges == <>[]Follows

\* What app/loaders.go says of its own loop, "do deletes first, since target change
\* equates to delete+add", holds for every taker: a changed target stays configured.
Loaded == <>[](have = src \/ Known(src) = {})
=============================================================================
