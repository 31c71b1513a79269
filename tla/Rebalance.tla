------------------------------ MODULE Rebalance ------------------------------
(***************************************************************************)
(* The plan of the cluster manager's rebalance: every member's quota, the  *)
(* members above it give targets away (donors), the ones below take them   *)
(* (receivers).  A step is one turn of the inner loop; the shuffle of a    *)
(* donor's targets makes the ones it gives away arbitrary.                 *)
(***************************************************************************)
EXTENDS Integers, Sequences, FiniteSets, FiniteSetsExt

CONSTANTS N,        \* members, in the order of their names: 1 .. N
          Targets

Members == 1 .. N

VARIABLES
  owner,      \* the member that holds the lock of each target
  donors,     \* the donors not yet served, as <<member, surplus>>
  pool,       \* targets a donor still has
  receivers,  \* the queue of receivers, as <<member, need>>
  moves,      \* the plan: pairs <<target, member>>
  done

vars == <<owner, donors, pool, receivers, moves, done>>

Owned(m) == {t \in Targets : owner[t] = m}
Load(m) == Cardinality(Owned(m))

\* calculateMembersQuota: the average, and one more for the first ones.
Quota(ms, total) ==
  LET base == total \div Cardinality(ms)
      rem == total % Cardinality(ms)
  IN [m \in ms |-> IF Cardinality({x \in ms : x < m}) < rem THEN base + 1 ELSE base]

Q == Quota(Members, Cardinality(Targets))

Donors == {<<m, Load(m) - Q[m]>> : m \in {x \in Members : Load(x) > Q[x]}}
Receivers == {<<m, Q[m] - Load(m)>> : m \in {x \in Members : Load(x) < Q[x]}}

\* The pairs of S in the order of their members (the one sequence in this set).
Listings(S) ==
  {s \in [1 .. Cardinality(S) -> S] : \A i, j \in 1 .. Cardinality(S) : i < j => s[i][1] < s[j][1]}

Init ==
  /\ owner \in [Targets -> Members]
  /\ donors \in Listings(Donors) /\ receivers \in Listings(Receivers)
  /\ pool = [m \in Members |-> Owned(m)]
  /\ moves = {}
  /\ done = FALSE

\* Mutant: a receiver gets all of the surplus.
GiveAll ==
  /\ ~done /\ donors # <<>> /\ receivers # <<>> /\ Head(donors)[2] > 0
  /\ LET d == Head(donors)
         r == Head(receivers)
     IN \E s \in kSubset(d[2], pool[d[1]]) :
          /\ moves' = moves \cup {<<t, r[1]>> : t \in s}
          /\ pool' = [pool EXCEPT ![d[1]] = @ \ s]
          /\ donors' = Tail(donors)
          /\ receivers' = Tail(receivers)
  /\ UNCHANGED <<owner, done>>

\* The head donor gives the head receiver what both can: as many as the surplus and the
\* need allow; a receiver that needs more goes to the back.
Give ==
  /\ ~done /\ donors # <<>> /\ receivers # <<>> /\ Head(donors)[2] > 0
  /\ LET d == Head(donors)
         r == Head(receivers)
         k == Min({d[2], r[2], Cardinality(pool[d[1]])})
     IN \E s \in kSubset(k, pool[d[1]]) :
          /\ moves' = moves \cup {<<t, r[1]>> : t \in s}
          /\ pool' = [pool EXCEPT ![d[1]] = @ \ s]
          /\ donors' = [donors EXCEPT ![1] = <<d[1], d[2] - k>>]
          /\ receivers' = IF r[2] = k THEN Tail(receivers)
                          ELSE Append(Tail(receivers), <<r[1], r[2] - k>>)
  /\ UNCHANGED <<owner, done>>

NextDonor ==
  /\ ~done /\ donors # <<>> /\ (Head(donors)[2] = 0 \/ receivers = <<>>)
  /\ donors' = Tail(donors)
  /\ UNCHANGED <<owner, pool, receivers, moves, done>>

Return ==
  /\ ~done /\ donors = <<>>
  /\ done' = TRUE
  /\ UNCHANGED <<owner, donors, pool, receivers, moves>>

Next == Give \/ NextDonor \/ Return
Spec == Init /\ [][Next]_vars /\ WF_vars(Next)

-----------------------------------------------------------------------------
Moved == {mv[1] : mv \in moves}
LoadAfter(m) == Cardinality(Owned(m) \ Moved) + Cardinality({mv \in moves : mv[2] = m})

\* The plan brings every member to its quota, and quotas differ by at most one.
PlanBalances ==
  done => \A m \in Members : LoadAfter(m) = Q[m] /\ \A n \in Members : Q[m] - Q[n] \in {-1, 0, 1}

\* "It never proposes moving the same target twice", and it moves as few as possible:
\* a target leaves only a member above its quota, for another one below it, and no
\* more of them leave than the member has too many.
PlanIsMinimal ==
  /\ Cardinality(moves) = Cardinality(Moved)
  /\ \A mv \in moves : Load(owner[mv[1]]) > Q[owner[mv[1]]] /\ Load(mv[2]) < Q[mv[2]]
  /\ done => \A m \in Members :
       Cardinality({mv \in moves : owner[mv[1]] = m}) = IF Load(m) > Q[m] THEN Load(m) - Q[m] ELSE 0
PlanCorrect == PlanBalances /\ PlanIsMinimal
=============================================================================
