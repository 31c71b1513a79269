------------------------- MODULE TargetSubscriptions -------------------------
(***************************************************************************)
(* Which subscriptions a connected target runs.  The configuration store   *)
(* holds the subscriptions and the target's list of them; users write it   *)
(* through the API.  The targets manager hears of the writes on two watch  *)
(* channels, of targets and of subscriptions, which its event loop serves  *)
(* in any order, and reads the store again while it handles an event.      *)
(*                                                                         *)
(* A list is a sequence: an empty one stands for every subscription.  How  *)
(* one subscription is stopped and started is the module Subscription; its *)
(* loop (the SubscribeChan goroutine) outlives a reconnect while it waits  *)
(* to try again.                                                           *)
(***************************************************************************)
EXTENDS Naturals, Sequences, FiniteSets, SequencesExt

CONSTANTS
  Subs,       \* names of subscriptions
  MaxWrites   \* bound: writes to the store

VARIABLES
  store,      \* the subscriptions in the configuration store
  config,     \* the target's list in the configuration store
  subEvents,  \* the subscriptions watch channel
  tgtEvents,  \* the targets watch channel: records [list, conn, stored], conn: other connection
              \* settings, stored: the config of the event is the object in the store
  known,      \* tm.subscriptions
  list,       \* mt.T.Config.Subscriptions
  aliased,    \* mt.T.Config is the object in the store
  applied,    \* mt.appliedSubscriptions
  running,    \* the subscriptions with a loop
  writes,     \* how many writes were made
  survived,   \* history: unlisted subscriptions whose loop outlived a reconnect
  doubled,    \* history: those started beside a loop of theirs.  readersCfn knows one of
              \* the two; each may end the other's stream
  patched     \* history: a write changed the list itself, since the last reconnect

loops == <<running, survived, doubled>>
vars == <<store, config, subEvents, tgtEvents, known, list, aliased, applied, loops, writes, patched>>

Lists == SetToAllKPermutations(Subs)

\* Names(l, S): what a list stands for when the subscriptions are S.
Names(l, S) == IF l = <<>> THEN S ELSE Range(l)

\* The orders in which Go may go through the map or the store's keys.
Orders(l, S) == IF l = <<>> THEN SetToSeqs(S) ELSE {l}

Init ==
  /\ store \in SUBSET Subs /\ config \in Lists
  /\ subEvents = <<>> /\ tgtEvents = <<>>
  /\ known = store /\ list = config
  /\ applied \in IF list = <<>> THEN SetToSeqs(known) ELSE {<<>>}
  /\ running = Names(list, known) \cap known
  /\ survived = {} /\ doubled = {}
  /\ aliased = FALSE /\ patched = FALSE
  /\ writes = 0

-----------------------------------------------------------------------------
(* Writes through the API *)

Write == writes < MaxWrites /\ writes' = writes + 1

PostSubscription(s) ==
  /\ Write
  /\ store' = store \cup {s}
  /\ subEvents' = Append(subEvents, [op |-> "apply", sub |-> s])
  /\ UNCHANGED <<config, tgtEvents, known, list, aliased, applied, loops, patched>>

DeleteSubscription(s) ==
  /\ Write /\ s \in store
  /\ store' = store \ {s}
  /\ subEvents' = Append(subEvents, [op |-> "remove", sub |-> s])
  /\ UNCHANGED <<config, tgtEvents, known, list, aliased, applied, loops, patched>>

\* A new list; the subscriptions must exist.  It is written into the object in the store,
\* which may be that of queued events, and the manager's own copy of the config.
PatchSubscriptions(l) ==
  /\ Write /\ Range(l) \subseteq store
  /\ config' = l
  /\ tgtEvents' = Append([i \in DOMAIN tgtEvents |->
                            IF tgtEvents[i].stored THEN [tgtEvents[i] EXCEPT !.list = l] ELSE tgtEvents[i]],
                         [list |-> l, conn |-> FALSE, stored |-> TRUE])
  /\ list' = IF aliased THEN l ELSE list
  /\ patched' = (patched \/ list' # list)
  /\ UNCHANGED <<store, subEvents, known, aliased, applied, loops>>

\* A whole target config, maybe with other connection settings; the same check.
PostTarget(l) ==
  /\ Write /\ Range(l) \subseteq store
  /\ config' = l
  /\ \E c \in BOOLEAN :
       tgtEvents' = Append([i \in DOMAIN tgtEvents |-> [tgtEvents[i] EXCEPT !.stored = FALSE]],
                           [list |-> l, conn |-> c, stored |-> TRUE])
  /\ aliased' = FALSE
  /\ UNCHANGED <<store, subEvents, known, list, applied, loops, patched>>

-----------------------------------------------------------------------------
(* The event loop *)

\* stopTargetSubscription of S: a loop that readersCfn no longer knows ends too when its
\* stream is open.
Stop(S) == \E T \in SUBSET S : S \ doubled \subseteq T /\ running' = running \ T

\* (Re)start the subscription on a target that lists it, or lists none.
ApplySubscription ==
  /\ subEvents # <<>> /\ Head(subEvents).op = "apply"
  /\ LET s == Head(subEvents).sub
         started == Names(list, {s}) \cap {s} IN
       /\ known' = known \cup {s}
       /\ running' = running \cup started
       /\ survived' = survived \ started
  /\ subEvents' = Tail(subEvents)
  /\ UNCHANGED <<store, config, tgtEvents, list, aliased, applied, doubled, writes, patched>>

\* Mutant: only targets that name the subscription stop it.
RemoveSubscriptionListed ==
  /\ subEvents # <<>> /\ Head(subEvents).op = "remove"
  /\ LET s == Head(subEvents).sub IN
       /\ known' = known \ {s}
       /\ Stop(Range(list) \cap {s})
       /\ survived' = survived \ {s}
  /\ subEvents' = Tail(subEvents)
  /\ UNCHANGED <<store, config, tgtEvents, list, aliased, applied, doubled, writes, patched>>

\* Stop the subscription wherever it runs.
RemoveSubscription ==
  /\ subEvents # <<>> /\ Head(subEvents).op = "remove"
  /\ LET s == Head(subEvents).sub IN
       /\ known' = known \ {s}
       /\ Stop({s})
       /\ survived' = survived \ {s}
  /\ subEvents' = Tail(subEvents)
  /\ UNCHANGED <<store, config, tgtEvents, list, aliased, applied, doubled, writes, patched>>

NewList == Head(tgtEvents).list

\* apply: nothing changed, as far as the manager's own copy of the config tells.
ApplyEqual ==
  /\ tgtEvents # <<>> /\ ~Head(tgtEvents).conn /\ NewList = list
  /\ tgtEvents' = Tail(tgtEvents)
  /\ UNCHANGED <<store, config, subEvents, known, list, aliased, applied, loops, writes, patched>>

\* apply: reflect.DeepEqual of appliedSubscriptions and the new list, by which the
\* subscriptions are taken for unchanged.  The first is never nil, the second is
\* nil when the config leaves it out.
SameApplied(l) == IF applied # l THEN {FALSE} ELSE IF l = <<>> THEN BOOLEAN ELSE {TRUE}

ApplyUnchanged ==
  /\ tgtEvents # <<>> /\ ~Head(tgtEvents).conn /\ NewList # list
  /\ TRUE \in SameApplied(NewList)
  /\ tgtEvents' = Tail(tgtEvents)
  /\ UNCHANGED <<store, config, subEvents, known, list, aliased, applied, loops, writes, patched>>

\* compareSubscriptions: an empty list stands for the store's subscriptions.
Added(old, new)   == Names(new, store) \ Names(old, store)
Removed(old, new) == Names(old, store) \ Names(new, store)

\* apply: start the added ones the store has, then stop the removed ones.
ApplyLists ==
  /\ tgtEvents # <<>> /\ ~Head(tgtEvents).conn /\ NewList # list
  /\ FALSE \in SameApplied(NewList)
  /\ LET started == Added(list, NewList) \cap store
         stopped == Removed(list, NewList) IN
       /\ doubled' = doubled \cup (started \cap running)
       /\ \E T \in SUBSET stopped :
            stopped \ doubled \subseteq T /\ running' = (running \cup started) \ T
       /\ survived' = survived \ stopped
       /\ \E o \in Orders(NewList, Names(NewList, store)) :
            applied' = SelectSeq(applied \o SelectSeq(o, LAMBDA s : s \in started),
                                 LAMBDA s : s \notin stopped)
  /\ list' = NewList
  /\ tgtEvents' = Tail(tgtEvents)
  /\ UNCHANGED <<store, config, subEvents, known, aliased, writes, patched>>

\* apply: other connection settings, stop() and start() with the new config, the object of
\* the event.  stop() closes the client, which ends the open streams and their loops; the
\* loops S that wait to try again stay, and go on with the new client.
Reconnect ==
  /\ tgtEvents # <<>> /\ Head(tgtEvents).conn
  /\ list' = NewList /\ aliased' = Head(tgtEvents).stored
  /\ LET started == Names(NewList, known) \cap (known \cup store) IN
     \E S \in SUBSET running :
       /\ running' = started \cup S
       /\ doubled' = doubled \cup (started \cap S)
       /\ survived' = S \ started
  /\ patched' = FALSE
  /\ IF NewList = <<>>
       THEN \E o \in SetToSeqs(known) : applied' = applied \o o
       ELSE UNCHANGED applied
  /\ tgtEvents' = Tail(tgtEvents)
  /\ UNCHANGED <<store, config, subEvents, known, writes>>

\* Two loops of a subscription: the one that opens its stream cancels the stream of the
\* other, which may cancel the new one while it unwinds.  No loop may be left.
LoopsMeet(s) ==
  /\ s \in doubled \cap running
  /\ running' = running \ {s}
  /\ UNCHANGED <<store, config, subEvents, tgtEvents, known, list, aliased, applied, writes, survived,
                 doubled, patched>>

-----------------------------------------------------------------------------
Next ==
  \/ \E s \in Subs : PostSubscription(s) \/ DeleteSubscription(s) \/ LoopsMeet(s)
  \/ \E l \in Lists : PatchSubscriptions(l) \/ PostTarget(l)
  \/ ApplySubscription \/ RemoveSubscription
  \/ ApplyEqual \/ ApplyUnchanged \/ ApplyLists \/ Reconnect

Spec == Init /\ [][Next]_vars

-----------------------------------------------------------------------------
(* Properties *)

Quiet == subEvents = <<>> /\ tgtEvents = <<>>

Wanted(l) == Names(l, store) \cap store

\* When every event is handled, whatever the order of the two channels: no deleted
\* subscription runs, and unless a write changed the list under the manager, those that its
\* own copy of the config lists do and no others, but for those that outlived a reconnect.
\* This is not said of a subscription that was ever started beside a loop of its own.
RunsWhatItLists ==
  Quiet =>
    /\ known = store
    /\ running \ doubled \subseteq store
    /\ ~patched => /\ Wanted(list) \ doubled \subseteq running
                   /\ running \ doubled \subseteq Wanted(list) \cup survived

\* targets.md: the subscriptions to establish are those the target's config lists,
\* or all of them.
RunningAsConfigured == Quiet => running = Wanted(config)
=============================================================================
