------------------------------ MODULE PromTable ------------------------------
(***************************************************************************)
(* The metrics table of the Prometheus (pull) output: workers turn updates *)
(* into metrics and store them under the output's lock, a scrape expires   *)
(* old entries and exports the rest, a timer expires them too, and Update  *)
(* may turn the export of timestamps on or off.                            *)
(*                                                                         *)
(* Update number i of the device carries the timestamp i; the clock is as  *)
(* far as the last update taken from the channel.                          *)
(***************************************************************************)
EXTENDS Integers, FiniteSets, Functions

CONSTANTS Keys,        \* metrics
          Workers,
          MaxTime,     \* bound: updates, and so the clock
          Expiration,
          MaxUpdates   \* bound: Updates of the configuration

NoTime == 0            \* a nil Time

VARIABLES
  export,   \* ExportTimestamps
  now,      \* the clock
  hold,     \* the metric a worker built and has not stored yet, <<>> = none
  entries,  \* p.entries: [time, added]
  updates,
  panic,    \* a nil Time was dereferenced
  seen      \* history: the latest time exported for every metric

vars == <<export, now, hold, entries, updates, panic, seen>>

Init ==
  /\ export \in BOOLEAN
  /\ now = 0 /\ updates = 0 /\ panic = FALSE
  /\ hold = [w \in Workers |-> <<>>]
  /\ entries = <<>>
  /\ seen = [k \in Keys |-> 0]

Up == ~panic

\* A worker takes the next update and builds the metric with the configuration it loads.
Build(w) ==
  /\ Up /\ hold[w] = <<>> /\ now < MaxTime
  /\ now' = now + 1
  /\ \E k \in Keys : hold' = [hold EXCEPT ![w] =
       [key |-> k, time |-> IF export THEN now + 1 ELSE NoTime, added |-> now + 1]]
  /\ UNCHANGED <<export, entries, updates, panic, seen>>

\* f with v at k.
Put(f, k, v) == [x \in DOMAIN f \cup {k} |-> IF x = k THEN v ELSE f[x]]

\* Mutant: the last metric stored wins.
NewerAlways(e, m) == TRUE

\* An entry is replaced by a metric without a time, or by one with a later time.
Newer(e, m) == m.time = NoTime \/ e.time < m.time

Store(w) ==
  /\ Up /\ hold[w] # <<>>
  /\ LET m == hold[w]
         old == m.key \in DOMAIN entries
     IN IF old /\ m.time # NoTime /\ entries[m.key].time = NoTime
        THEN panic' = TRUE /\ UNCHANGED entries
        ELSE /\ entries' = IF ~old \/ Newer(entries[m.key], m)
                           THEN Put(entries, m.key, [time |-> m.time, added |-> m.added]) ELSE entries
             /\ UNCHANGED panic
  /\ hold' = [hold EXCEPT ![w] = <<>>]
  /\ UNCHANGED <<export, now, updates, seen>>

Stale(e) == (IF export THEN e.time ELSE e.added) < now - Expiration
Expired == {k \in DOMAIN entries : Stale(entries[k])}
NilTime == export /\ \E k \in DOMAIN entries : entries[k].time = NoTime

Expire ==
  IF NilTime THEN panic' = TRUE /\ UNCHANGED entries
  ELSE entries' = Restrict(entries, DOMAIN entries \ Expired) /\ UNCHANGED panic

ExpireTimer ==
  /\ Up /\ Expire
  /\ UNCHANGED <<export, now, hold, updates, seen>>

Collect ==
  /\ Up /\ Expire
  /\ seen' = [k \in Keys |-> IF k \in DOMAIN entries' THEN entries'[k].time ELSE seen[k]]
  /\ UNCHANGED <<export, now, hold, updates>>

Update ==
  /\ Up /\ updates < MaxUpdates
  /\ updates' = updates + 1 /\ export' = ~export
  /\ UNCHANGED <<now, hold, entries, panic, seen>>

Next == Collect \/ ExpireTimer \/ Update \/ \E w \in Workers : Build(w) \/ Store(w)
Spec == Init /\ [][Next]_vars

-----------------------------------------------------------------------------
\* With timestamps exported, a metric never goes back in time from one scrape to the
\* next: not when workers store updates out of order, and not when an older update is
\* stored after the newer one expired.
NoScrapeBack == export /\ updates = 0 => \A k \in Keys : seen[k] <= seen'[k]
ScrapesMoveForward == [][NoScrapeBack]_vars
=============================================================================
