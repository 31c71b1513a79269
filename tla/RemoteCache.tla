----------------------------- MODULE RemoteCache ------------------------------
(* The distributed caches (pkg/cache: nats, redis, jetstream). Every instance  *)
(* publishes what it collects under the subscription's name, and files in its  *)
(* local cache what it receives on the names it follows. A name is followed    *)
(* from the first write of the instance itself or from an announcement of      *)
(* another one; announcements and messages to nobody are lost.                 *)
EXTENDS Integers, FiniteSets, TLC

CONSTANTS RcKinds,      \* subset of {"nats", "redis", "jetstream"}
          Instances,
          SubNames,
          Collects,     \* Instances -> SUBSET SubNames: who has targets of what
          NamePrefixes, \* pairs <<a, b>> of names, a a proper prefix of b
          MaxLost,      \* announcements lost by the broker
          MaxRestarts

VARIABLES rc, announced, inbox, syncing, following, holds, writing, lost, restarts

vars == <<rc, announced, inbox, syncing, following, holds, writing, lost, restarts>>

NoSubs == [i \in Instances |-> {}]

Init ==
  /\ rc \in RcKinds
  /\ announced = NoSubs /\ inbox = NoSubs /\ syncing = NoSubs /\ following = NoSubs
  /\ holds = NoSubs
  /\ writing = NoSubs
  /\ lost = 0 /\ restarts = 0

\* The sync loop starts following a name unless it does already.
Unfollowed(i, s) == {s} \ following[i]

\* writeRemoteNATS, writeRemoteREDIS: the name always goes to the sync loop.
HandsPubSub(i, s) ==
  /\ syncing' = [syncing EXCEPT ![i] = @ \cup Unfollowed(i, s)]
  /\ UNCHANGED announced

\* writeRemoteJS creates the stream and hands the name over only when it is not
\* in c.streams, where it puts it.
HandsJetStream(i, s) ==
  /\ syncing' = [syncing EXCEPT ![i] = IF s \in announced[i] THEN @ ELSE @ \cup Unfollowed(i, s)]
  /\ announced' = [announced EXCEPT ![i] = @ \cup {s}]

WriteHands(i, s) ==
  /\ s \in Collects[i] \ writing[i]
  /\ writing' = [writing EXCEPT ![i] = @ \cup {s}]
  /\ IF rc = "jetstream" THEN HandsJetStream(i, s) ELSE HandsPubSub(i, s)
  /\ UNCHANGED <<rc, inbox, following, holds, lost, restarts>>

\* Who files a message of subscription s, and under which name.
FiledExactly(j, s) == {s} \cap following[j]

\* redis follows the pattern "name*", which a longer name matches too.
FiledByPrefix(j, s) == {f \in following[j] : f = s \/ <<f, s>> \in NamePrefixes}

Filed(j, s) == IF rc = "redis" THEN FiledByPrefix(j, s) ELSE FiledExactly(j, s)

\* Mutant: the announcement is made on the first write only.
AnnouncesOnce(i, s) == s \notin announced[i] /\ s \notin following[i]
Announces(i, s) == s \notin announced[i]

\* The message is published; then the name, if it is not in the local set.
WritePublishes(i, s) ==
  /\ s \in writing[i]
  /\ writing' = [writing EXCEPT ![i] = @ \ {s}]
  /\ holds' = [j \in Instances |-> holds[j] \cup {<<f, s>> : f \in Filed(j, s)}]
  /\ announced' = [announced EXCEPT ![i] = @ \cup {s}]
  /\ inbox' = IF Announces(i, s)
                THEN [j \in Instances |-> inbox[j] \cup {s}]
                ELSE inbox
  /\ UNCHANGED <<rc, syncing, following, lost, restarts>>

\* sync: an announcement arrives, and is followed unless it is already.
Announced(i, s) ==
  /\ s \in inbox[i]
  /\ inbox' = [inbox EXCEPT ![i] = @ \ {s}]
  /\ syncing' = [syncing EXCEPT ![i] = @ \cup Unfollowed(i, s)]
  /\ UNCHANGED <<rc, announced, following, holds, writing, lost, restarts>>

\* syncSubject, syncChannel, syncStream: the broker confirms the subscription.
Follow(i, s) ==
  /\ s \in syncing[i]
  /\ syncing' = [syncing EXCEPT ![i] = @ \ {s}]
  /\ following' = [following EXCEPT ![i] = @ \cup {s}]
  /\ UNCHANGED <<rc, announced, inbox, holds, writing, lost, restarts>>

\* subjectCacheResetPeriod: the set of announced names is emptied, so that the
\* next write announces again. JetStream has no such ticker.
ResetAnnounced(i) ==
  /\ rc # "jetstream" /\ announced[i] # {}
  /\ announced' = [announced EXCEPT ![i] = {}]
  /\ UNCHANGED <<rc, inbox, syncing, following, holds, writing, lost, restarts>>

Lose(i, s) ==
  /\ s \in inbox[i] /\ lost < MaxLost
  /\ lost' = lost + 1
  /\ inbox' = [inbox EXCEPT ![i] = @ \ {s}]
  /\ UNCHANGED <<rc, announced, syncing, following, holds, writing, restarts>>

Restart(i) ==
  /\ restarts < MaxRestarts
  /\ restarts' = restarts + 1
  /\ announced' = [announced EXCEPT ![i] = {}]
  /\ inbox' = [inbox EXCEPT ![i] = {}]
  /\ syncing' = [syncing EXCEPT ![i] = {}]
  /\ following' = [following EXCEPT ![i] = {}]
  /\ holds' = [holds EXCEPT ![i] = {}]
  /\ writing' = [writing EXCEPT ![i] = {}]
  /\ UNCHANGED <<rc, lost>>

Next ==
  \E i \in Instances :
    \/ ResetAnnounced(i) \/ Restart(i)
    \/ \E s \in SubNames : \/ WriteHands(i, s) \/ WritePublishes(i, s)
                           \/ Announced(i, s) \/ Follow(i, s) \/ Lose(i, s)

\* Targets go on sending updates, the ticker ticks, and the broker delivers.
Fairness ==
  \A i \in Instances :
    /\ WF_vars(ResetAnnounced(i))
    /\ \A s \in SubNames :
         /\ WF_vars(WriteHands(i, s))
         /\ WF_vars(WritePublishes(i, s))
         /\ WF_vars(Announced(i, s)) /\ WF_vars(Follow(i, s))

Spec == Init /\ [][Next]_vars
FairSpec == Spec /\ Fairness

-------------------------------------------------------------------------------
(* Whatever announcements are lost and whichever instances restart, every      *)
(* instance ends up holding every subscription some instance collects.         *)
Spread == \A i, j \in Instances : \A s \in Collects[j] : <<s, s>> \in holds[i]

(* So it is for nats and redis, which announce again after every reset.        *)
SpreadOrOnce == rc # "jetstream" => Spread
CacheSpreads == <>[]SpreadOrOnce
===============================================================================
