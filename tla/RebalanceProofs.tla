--------------------------- MODULE RebalanceProofs ---------------------------
(***************************************************************************)
(* The plan of a rebalance is correct (Rebalance), for any number of       *)
(* members and any distribution of the targets over them.                  *)
(*                                                                         *)
(* The argument counts with functions in place of sums.  `Final' sends a   *)
(* target to the member it is planned for; the quotas are the sizes of the *)
(* fibres of a function, too (they sum to the number of targets).  When    *)
(* the donors are served, every member has at most its quota, or every     *)
(* member at least its quota; two functions of the same targets whose      *)
(* fibres are so related have fibres of the same sizes.                    *)
(***************************************************************************)
EXTENDS Rebalance, FiniteSetTheorems, FunctionTheorems, SequenceTheorems, TLAPS

\* There is a member (the one that computes the plan).
Sizes == N \in Nat \ {0} /\ IsFiniteSet(Targets)

-----------------------------------------------------------------------------
(* Fibres.                                                                 *)

Fibre(f, m) == {t \in Targets : f[t] = m}

\* The fibres of a function of the targets are finite.
LEMMA FibreFinite ==
  ASSUME IsFiniteSet(Targets), NEW f, NEW m
  PROVE  IsFiniteSet(Fibre(f, m)) /\ Cardinality(Fibre(f, m)) \in Nat
BY FS_Subset, FS_CardinalityType DEF Fibre

\* A smaller set can be mapped into a larger one without a collision.
LEMMA Smaller ==
  ASSUME NEW S, NEW T, IsFiniteSet(S), IsFiniteSet(T), Cardinality(S) <= Cardinality(T)
  PROVE  \E g \in [S -> T] : \A a, b \in S : g[a] = g[b] => a = b
<1> DEFINE i == Cardinality(S)
           j == Cardinality(T)
<1>1. i \in Nat /\ j \in Nat /\ ExistsBijection(1 .. i, S) /\ ExistsBijection(1 .. j, T)
  BY FS_CardinalityType
<1>2. ExistsBijection(S, 1 .. i)
  BY <1>1, Fun_ExistsBijSymmetric
<1>0. Cardinality(S) = i /\ Cardinality(T) = j /\ i <= j
  OBVIOUS
<1> HIDE DEF i, j
<1>3. PICK p \in Bijection(S, 1 .. i) : TRUE
  BY <1>2, Fun_ExistsBij
<1>4. PICK q \in Bijection(1 .. j, T) : TRUE
  BY <1>1, Fun_ExistsBij
<1>5. p \in [S -> 1 .. i] /\ \A a, b \in S : p[a] = p[b] => a = b
  BY Fun_BijectionProperties
<1>6. q \in [1 .. j -> T] /\ \A a, b \in 1 .. j : q[a] = q[b] => a = b
  BY Fun_BijectionProperties
<1>7. \A a \in S : p[a] \in 1 .. j
  BY <1>1, <1>5, <1>0
<1> DEFINE g == [a \in S |-> q[p[a]]]
<1>8. g \in [S -> T] /\ \A a, b \in S : g[a] = g[b] => a = b
  BY <1>5, <1>6, <1>7
<1> QED BY <1>8

\* Fibres of f that are nowhere larger than g's are as large as g's: f and g have the same
\* domain.
LEMMA Dominated ==
  ASSUME IsFiniteSet(Targets), NEW f \in [Targets -> Members], NEW g \in [Targets -> Members],
         \A m \in Members : Cardinality(Fibre(f, m)) <= Cardinality(Fibre(g, m))
  PROVE  \A m \in Members : Cardinality(Fibre(f, m)) = Cardinality(Fibre(g, m))
<1> DEFINE Into(m) == {h \in [Fibre(f, m) -> Fibre(g, m)] : \A a, b \in Fibre(f, m) : h[a] = h[b] => a = b}
           I == [m \in Members |-> CHOOSE h \in Into(m) : TRUE]
           all == [t \in Targets |-> I[f[t]][t]]
<1>1. \A m \in Members : I[m] \in Into(m)
  <2> SUFFICES ASSUME NEW m \in Members PROVE Into(m) # {}
    OBVIOUS
  <2>1. \E h \in [Fibre(f, m) -> Fibre(g, m)] : \A a, b \in Fibre(f, m) : h[a] = h[b] => a = b
    BY FibreFinite, Smaller
  <2> QED BY <2>1
<1> HIDE DEF I
<1>2. \A t \in Targets : f[t] \in Members /\ t \in Fibre(f, f[t])
  BY DEF Fibre
<1>3. \A t \in Targets : all[t] \in Fibre(g, f[t])
  BY <1>1, <1>2
<1>4. all \in [Targets -> Targets] /\ \A t \in Targets : g[all[t]] = f[t]
  BY <1>3 DEF Fibre
<1>5. \A a, b \in Targets : all[a] = all[b] => a = b
  <2> SUFFICES ASSUME NEW a \in Targets, NEW b \in Targets, all[a] = all[b] PROVE a = b
    OBVIOUS
  <2>1. f[a] = f[b]
    BY <1>4
  <2> QED BY <2>1, <1>1, <1>2
<1> HIDE DEF all
<1>6. all \in Injection(Targets, Targets)
  BY <1>4, <1>5, Fun_IsInj
<1>7. all \in Surjection(Targets, Targets)
  BY <1>6, FS_Injection
<1>8. \A u \in Targets : \E t \in Targets : all[t] = u
  BY <1>7, Fun_SurjectionProperties
<1> SUFFICES ASSUME NEW m \in Members PROVE Cardinality(Fibre(f, m)) = Cardinality(Fibre(g, m))
  OBVIOUS
<1>9. I[m] \in [Fibre(f, m) -> Fibre(g, m)] /\ \A a, b \in Fibre(f, m) : I[m][a] = I[m][b] => a = b
  BY <1>1
<1>10. \A u \in Fibre(g, m) : \E t \in Fibre(f, m) : I[m][t] = u
  <2> SUFFICES ASSUME NEW u \in Fibre(g, m) PROVE \E t \in Fibre(f, m) : I[m][t] = u
    OBVIOUS
  <2>1. PICK t \in Targets : all[t] = u
    BY <1>8 DEF Fibre
  <2>2. f[t] = m
    BY <1>4, <2>1 DEF Fibre
  <2>3. I[m][t] = u
    BY <2>1, <2>2 DEF all
  <2> QED BY <2>2, <2>3 DEF Fibre
<1>11. I[m] \in Bijection(Fibre(f, m), Fibre(g, m))
  BY <1>9, <1>10, Fun_IsBij
<1> QED BY <1>11, FibreFinite, FS_Bijection, Fun_ExistsBij

-----------------------------------------------------------------------------
(* Quotas.                                                                 *)

\* \div and % of naturals.
LEMMA DivMod ==
  ASSUME NEW a \in Nat, NEW n \in Nat \ {0}
  PROVE  /\ a \div n \in Nat /\ a % n \in 0 .. n - 1
         /\ a = n * (a \div n) + (a % n)
OBVIOUS

\* Products of naturals are ordered as their factors.
LEMMA Times ==
  ASSUME NEW n \in Nat, NEW a \in Nat, NEW b \in Nat, a <= b
  PROVE  n * a <= n * b /\ n * a \in Nat /\ n * (a + 1) = n * a + n
OBVIOUS

\* What is left after a multiple of n.
LEMMA Remainder ==
  ASSUME NEW n \in Nat \ {0}, NEW q \in Nat, NEW r \in 0 .. n - 1
  PROVE  (n * q + r) % n = r /\ (n * q + r) \div n = q
OBVIOUS

\* Dealing round n = s * d + r things, s at a time, the m-th of the k-th round is one of them.
LEMMA Rounds ==
  ASSUME NEW s \in Nat \ {0}, NEW d \in Nat, NEW r \in 0 .. s - 1, NEW m \in 1 .. s, NEW k \in Nat
  PROVE  s * k + m \in 1 .. s * d + r <=> k < d \/ (k = d /\ m <= r)
<1> DEFINE x == s * k
           y == s * d
<1>1. x \in Nat /\ y \in Nat
  BY Times
<1>2. k < d => x + s <= y
  <2> SUFFICES ASSUME k < d PROVE x + s <= y
    OBVIOUS
  <2>1. s * (k + 1) <= s * d /\ s * (k + 1) = s * k + s
    BY Times
  <2> QED BY <2>1
<1>3. k > d => y + s <= x
  <2> SUFFICES ASSUME k > d PROVE y + s <= x
    OBVIOUS
  <2>1. s * (d + 1) <= s * k /\ s * (d + 1) = s * d + s
    BY Times
  <2> QED BY <2>1
<1>4. k = d => x = y
  OBVIOUS
<1> SUFFICES x + m \in 1 .. y + r <=> k < d \/ (k = d /\ m <= r)
  OBVIOUS
<1> HIDE DEF x, y
<1>5. CASE k < d
  BY <1>1, <1>2, <1>5
<1>6. CASE k > d
  BY <1>1, <1>3, <1>6
<1>7. CASE k = d
  BY <1>1, <1>4, <1>7
<1> QED BY <1>5, <1>6, <1>7

\* The quota of a member: the members before m are m - 1.
LEMMA QuotaValue ==
  ASSUME Sizes, NEW m \in Members
  PROVE  /\ Cardinality(Targets) \in Nat
         /\ Q[m] = (IF m <= (Cardinality(Targets) % N)
                 THEN (Cardinality(Targets) \div N) + 1 ELSE Cardinality(Targets) \div N)
         /\ Q[m] \in Nat
<1> DEFINE d == Cardinality(Targets) \div N
           r == Cardinality(Targets) % N
<1>1. Cardinality(Members) = N
  BY FS_Interval DEF Sizes, Members
<1>2. {x \in Members : x < m} = 1 .. m - 1
  BY DEF Sizes, Members
<1>3. Cardinality(1 .. m - 1) = m - 1
  BY FS_Interval DEF Sizes, Members
<1>4. Cardinality(Targets) \in Nat
  BY FS_CardinalityType DEF Sizes
<1>5. d \in Nat /\ r \in Nat
  BY <1>4, DivMod DEF Sizes
<1>6. Q[m] = IF m - 1 < r THEN d + 1 ELSE d
  BY <1>1, <1>2, <1>3 DEF Q, Quota
<1>7. m \in Nat
  BY DEF Members, Sizes
<1> SUFFICES Q[m] = (IF m <= r THEN d + 1 ELSE d) /\ Q[m] \in Nat
  BY <1>4
<1> HIDE DEF d, r
<1> QED BY <1>5, <1>6, <1>7

\* The quotas are the sizes of the fibres of a function (the targets dealt round).
LEMMA Dealt ==
  ASSUME Sizes
  PROVE  \E h \in [Targets -> Members] : \A m \in Members : Cardinality(Fibre(h, m)) = Q[m]
<1> DEFINE n == Cardinality(Targets)
<1>1. n \in Nat /\ ExistsBijection(1 .. n, Targets)
  BY FS_CardinalityType DEF Sizes
<1>2. \A m \in Members : Q[m] = (IF m <= (n % N) THEN (n \div N) + 1 ELSE n \div N) /\ Q[m] \in Nat
  BY QuotaValue
<1> HIDE DEF n
<1>3. PICK b \in Bijection(1 .. n, Targets) : TRUE
  BY <1>1, Fun_ExistsBij
<1>4. b \in [1 .. n -> Targets]
  BY Fun_BijectionProperties
<1>5. \A i, j \in 1 .. n : b[i] = b[j] => i = j
  BY Fun_BijectionProperties
<1>6. \A t \in Targets : \E i \in 1 .. n : b[i] = t
  BY DEF Bijection, Surjection
<1> DEFINE c == [t \in Targets |-> CHOOSE i \in 1 .. n : b[i] = t]
           h == [t \in Targets |-> ((c[t] - 1) % N) + 1]
<1>7. \A t \in Targets : c[t] \in 1 .. n /\ b[c[t]] = t
  BY <1>6
<1> HIDE DEF c
<1>8. \A i \in 1 .. n : c[b[i]] = i
  BY <1>4, <1>5, <1>7
<1>9. N \in Nat \ {0}
  BY DEF Sizes
<1>10. h \in [Targets -> Members]
  <2> SUFFICES ASSUME NEW t \in Targets PROVE ((c[t] - 1) % N) + 1 \in Members
    OBVIOUS
  <2>1. c[t] - 1 \in Nat
    BY <1>1, <1>7
  <2>2. (c[t] - 1) % N \in 0 .. N - 1
    BY <2>1, <1>9, DivMod
  <2> QED BY <2>2, <1>9 DEF Members
<1>11. ASSUME NEW m \in Members PROVE Cardinality(Fibre(h, m)) = Q[m]
  <2> DEFINE at(k) == N * k + m
             e == [j \in 1 .. Q[m] |-> b[at(j - 1)]]
  <2>1. m \in 1 .. N /\ Q[m] \in Nat
    BY <1>2 DEF Members
  <2>2. /\ n \div N \in Nat /\ n % N \in 0 .. N - 1
        /\ n = N * (n \div N) + (n % N)
    BY <1>1, <1>9, DivMod
  <2>3. \A k \in Nat : at(k) \in 1 .. n <=> k < Q[m]
    <3> SUFFICES ASSUME NEW k \in Nat PROVE at(k) \in 1 .. n <=> k < Q[m]
      OBVIOUS
    <3>1. at(k) \in 1 .. n <=> k < n \div N \/ (k = n \div N /\ m <= (n % N))
      BY <2>1, <2>2, <1>9, Rounds
    <3> DEFINE d == n \div N
               r == n % N
    <3>2. Q[m] = (IF m <= r THEN d + 1 ELSE d) /\ d \in Nat /\ r \in Nat /\ m \in Nat
      BY <1>2, <1>9, <2>1, <2>2
    <3>3. at(k) \in 1 .. n <=> k < d \/ (k = d /\ m <= r)
      BY <3>1
    <3> HIDE DEF at, d, r
    <3> QED BY <3>2, <3>3
  <2>4. \A k \in Nat : at(k) - 1 = N * k + (m - 1) /\ at(k) - 1 \in Nat
    <3> SUFFICES ASSUME NEW k \in Nat PROVE at(k) - 1 = N * k + (m - 1) /\ at(k) - 1 \in Nat
      OBVIOUS
    <3>1. N * k \in Nat
      BY <1>9, Times
    <3> QED BY <3>1, <2>1
  <2>5. \A k \in Nat : (at(k) - 1) % N = m - 1 /\ (at(k) - 1) \div N = k
    <3> SUFFICES ASSUME NEW k \in Nat PROVE (at(k) - 1) % N = m - 1 /\ (at(k) - 1) \div N = k
      OBVIOUS
    <3>1. m - 1 \in 0 .. N - 1
      BY <2>1, <1>9
    <3>2. at(k) - 1 = N * k + (m - 1)
      BY <2>4
    <3> HIDE DEF at
    <3> QED BY <3>1, <3>2, <1>9, Remainder
  <2>6. \A i \in 1 .. n : (i - 1) % N = m - 1 => i = at((i - 1) \div N) /\ (i - 1) \div N \in Nat
    <3> SUFFICES ASSUME NEW i \in 1 .. n, (i - 1) % N = m - 1
                 PROVE  i = at((i - 1) \div N) /\ (i - 1) \div N \in Nat
      OBVIOUS
    <3>1. i - 1 \in Nat
      BY <1>1
    <3>2. /\ (i - 1) \div N \in Nat
          /\ i - 1 = N * ((i - 1) \div N) + ((i - 1) % N)
      BY <3>1, <1>9, DivMod
    <3>3. N * ((i - 1) \div N) \in Nat
      BY <3>2, <1>9, Times
    <3> QED BY <3>2, <3>3, <2>1
  <2> HIDE DEF at
  <2>7. \A j \in 1 .. Q[m] : j - 1 \in Nat /\ j - 1 < Q[m]
    BY <2>1
  <2>8. e \in [1 .. Q[m] -> Fibre(h, m)]
    <3> SUFFICES ASSUME NEW j \in 1 .. Q[m] PROVE b[at(j - 1)] \in Fibre(h, m)
      OBVIOUS
    <3>1. at(j - 1) \in 1 .. n
      BY <2>3, <2>7
    <3>2. b[at(j - 1)] \in Targets /\ c[b[at(j - 1)]] = at(j - 1)
      BY <3>1, <1>4, <1>8
    <3>3. ((at(j - 1) - 1) % N) + 1 = m
      BY <2>5, <2>7, <2>1
    <3> QED BY <3>2, <3>3 DEF Fibre
  <2>9. ASSUME NEW i \in 1 .. Q[m], NEW j \in 1 .. Q[m], e[i] = e[j] PROVE i = j
    <3>1. at(i - 1) = at(j - 1)
      BY <2>9, <1>5, <2>3, <2>7
    <3>2. i - 1 = j - 1
      BY <3>1, <2>5, <2>7
    <3> QED BY <3>2, <2>1
  <2>10. ASSUME NEW t \in Fibre(h, m) PROVE \E j \in 1 .. Q[m] : e[j] = t
    <3>1. t \in Targets /\ c[t] \in 1 .. n /\ b[c[t]] = t /\ ((c[t] - 1) % N) + 1 = m
      BY <1>7 DEF Fibre
    <3>2. c[t] - 1 \in Nat
      BY <3>1, <1>1
    <3>3. (c[t] - 1) % N = m - 1
      BY <3>1, <3>2, <1>9, DivMod
    <3> DEFINE k == (c[t] - 1) \div N
    <3>4. c[t] = at(k) /\ k \in Nat
      BY <2>6, <3>1, <3>3
    <3>5. k < Q[m]
      BY <2>3, <3>1, <3>4
    <3> HIDE DEF k
    <3>6. k + 1 \in 1 .. Q[m] /\ (k + 1) - 1 = k
      BY <3>4, <3>5, <2>1
    <3> QED BY <3>1, <3>4, <3>6
  <2> HIDE DEF e, h
  <2>11. e \in Bijection(1 .. Q[m], Fibre(h, m))
    BY <2>8, <2>9, <2>10, Fun_IsBij
  <2>12. ExistsBijection(1 .. Q[m], Fibre(h, m))
    BY <2>11, Fun_ExistsBij
  <2> QED BY <2>12, <2>1, FS_CountingElements
<1> QED BY <1>10, <1>11

-----------------------------------------------------------------------------
(* The invariant.  What a donor has left is its quota and its surplus; a   *)
(* receiver is short of its quota by its need; who left a queue is served, *)
(* unless the receivers ran out first.                                     *)

OneEach(q) == \A i, j \in 1 .. Len(q) : q[i][1] = q[j][1] => i = j
In(q) == {q[i] : i \in 1 .. Len(q)}
Got(m) == {mv \in moves : mv[2] = m}

PlanTypes ==
  /\ owner \in [Targets -> Members] /\ pool \in [Members -> SUBSET Targets]
  /\ donors \in Seq(Members \X Nat) /\ OneEach(donors)
  /\ receivers \in Seq(Members \X Nat) /\ OneEach(receivers)
  /\ moves \subseteq Targets \X Members

\* A target is planned for one member, and gone from its donor's pool.
Planned ==
  /\ \A m \in Members : pool[m] = Owned(m) \ Moved
  /\ \A a, b \in moves : a[1] = b[1] => a = b
  /\ \A mv \in moves : Load(owner[mv[1]]) > Q[owner[mv[1]]] /\ Load(mv[2]) < Q[mv[2]]

Donating ==
  /\ \A d \in In(donors) : Load(d[1]) > Q[d[1]] /\ Cardinality(pool[d[1]]) = Q[d[1]] + d[2]
  /\ \A m \in Members : Load(m) > Q[m] =>
       \/ \E d \in In(donors) : d[1] = m
       \/ Cardinality(pool[m]) = Q[m]
       \/ receivers = <<>> /\ Cardinality(pool[m]) >= Q[m]

Receiving ==
  /\ \A r \in In(receivers) : Load(r[1]) < Q[r[1]] /\ Load(r[1]) + Cardinality(Got(r[1])) + r[2] = Q[r[1]]
  /\ \A m \in Members : Load(m) < Q[m] =>
       \/ \E r \in In(receivers) : r[1] = m
       \/ Load(m) + Cardinality(Got(m)) = Q[m]

PlanInv == PlanTypes /\ Planned /\ Donating /\ Receiving /\ (done => donors = <<>>)

-----------------------------------------------------------------------------
(* Queues.                                                                 *)

\* A queue without its head.
LEMMA Behead ==
  ASSUME NEW S, NEW q \in Seq(S), q # <<>>, OneEach(q)
  PROVE  /\ Tail(q) \in Seq(S) /\ OneEach(Tail(q)) /\ Head(q) \in S /\ Head(q) \in In(q)
         /\ In(Tail(q)) = {e \in In(q) : e[1] # Head(q)[1]}
<1>1. /\ Tail(q) \in Seq(S) /\ Len(Tail(q)) = Len(q) - 1 /\ Len(q) \in Nat \ {0}
      /\ \A i \in 1 .. Len(q) - 1 : Tail(q)[i] = q[i + 1]
      /\ Head(q) = q[1] /\ Head(q) \in S
  OBVIOUS
<1>2. OneEach(Tail(q))
  BY <1>1 DEF OneEach
<1>3. In(Tail(q)) \subseteq {e \in In(q) : e[1] # Head(q)[1]}
  BY <1>1 DEF OneEach, In
<1>4. ASSUME NEW e \in In(q), e[1] # Head(q)[1] PROVE e \in In(Tail(q))
  <2>1. PICK i \in 1 .. Len(q) : e = q[i]
    BY DEF In
  <2>2. i # 1 /\ i - 1 \in 1 .. Len(q) - 1 /\ (i - 1) + 1 = i
    BY <1>4, <2>1, <1>1
  <2> QED BY <2>1, <2>2, <1>1 DEF In
<1> QED BY <1>1, <1>2, <1>3, <1>4 DEF In

\* The donors' queue when the head has n left to give.
LEMMA Replace ==
  ASSUME donors \in Seq(Members \X Nat), donors # <<>>, OneEach(donors), NEW n \in Nat
  PROVE  LET p == [donors EXCEPT ![1] = <<Head(donors)[1], n>>] IN
         /\ p \in Seq(Members \X Nat) /\ OneEach(p)
         /\ In(p) = {e \in In(donors) : e[1] # Head(donors)[1]} \cup {<<Head(donors)[1], n>>}
<1> DEFINE S == Members \X Nat
           x == <<Head(donors)[1], n>>
           p == [donors EXCEPT ![1] = x]
<1>0. x \in S /\ x[1] = Head(donors)[1] /\ donors \in Seq(S)
  BY Behead
<1> HIDE DEF S, x
<1>1. /\ p \in Seq(S) /\ Len(p) = Len(donors) /\ Len(donors) \in Nat \ {0}
      /\ p[1] = x /\ Head(donors) = donors[1]
      /\ \A i \in 1 .. Len(donors) : i # 1 => p[i] = donors[i]
  BY <1>0
<1> HIDE DEF p
<1>2. \A i \in 1 .. Len(donors) : p[i][1] = donors[i][1]
  BY <1>0, <1>1
<1>3. OneEach(p)
  BY <1>1, <1>2 DEF OneEach
<1>4. \A i \in 1 .. Len(donors) : i # 1 => donors[i][1] # x[1]
  BY <1>0, <1>1 DEF OneEach
<1>5. In(p) = {e \in In(donors) : e[1] # x[1]} \cup {x}
  <2>1. \A e \in In(p) : e \in {y \in In(donors) : y[1] # x[1]} \cup {x}
    BY <1>1, <1>4 DEF In
  <2>2. \A e \in In(donors) : e[1] # x[1] => e \in In(p)
    BY <1>0, <1>1 DEF In
  <2>3. x \in In(p)
    BY <1>1 DEF In
  <2> QED BY <2>1, <2>2, <2>3
<1> QED BY <1>0, <1>1, <1>3, <1>5 DEF p, x, S

\* The receivers' queue when the head goes to the back, with n left to take.
LEMMA Rotate ==
  ASSUME receivers \in Seq(Members \X Nat), receivers # <<>>, OneEach(receivers), NEW n \in Nat
  PROVE  LET p == Append(Tail(receivers), <<Head(receivers)[1], n>>) IN
         /\ p \in Seq(Members \X Nat) /\ OneEach(p)
         /\ In(p) = {e \in In(receivers) : e[1] # Head(receivers)[1]} \cup {<<Head(receivers)[1], n>>}
<1> DEFINE S == Members \X Nat
           x == <<Head(receivers)[1], n>>
           w == Tail(receivers)
           p == Append(w, x)
<1>0. x \in S /\ x[1] = Head(receivers)[1]
  BY Behead
<1>1. w \in Seq(S) /\ OneEach(w) /\ In(w) = {e \in In(receivers) : e[1] # Head(receivers)[1]}
  BY Behead
<1> HIDE DEF w, S, x
<1>2. /\ p \in Seq(S) /\ Len(p) = Len(w) + 1 /\ Len(w) \in Nat
      /\ \A i \in 1 .. Len(w) : p[i] = w[i]
      /\ p[Len(w) + 1] = x
  BY <1>0, <1>1
<1> HIDE DEF p
<1>3. \A i \in 1 .. Len(w) : w[i][1] # x[1]
  BY <1>0, <1>1 DEF In
<1>4. OneEach(p)
  BY <1>1, <1>2, <1>3 DEF OneEach
<1>5. In(p) = In(w) \cup {x}
  <2>1. \A i \in 1 .. Len(p) : i \in 1 .. Len(w) \/ i = Len(w) + 1
    BY <1>2
  <2>2. \A i \in 1 .. Len(w) : i \in 1 .. Len(p)
    BY <1>2
  <2>3. Len(w) + 1 \in 1 .. Len(p)
    BY <1>2
  <2>4. \A e \in In(p) : e \in In(w) \cup {x}
    BY <2>1, <1>2 DEF In
  <2>5. \A e \in In(w) : e \in In(p)
    BY <2>2, <1>2 DEF In
  <2>6. x \in In(p)
    BY <2>3, <1>2 DEF In
  <2> QED BY <2>4, <2>5, <2>6
<1> QED BY <1>1, <1>2, <1>4, <1>5 DEF p, w, x, S

-----------------------------------------------------------------------------
(* The steps.                                                              *)

\* Loads are sizes of finite sets.
LEMMA LoadFinite ==
  ASSUME Sizes, NEW m
  PROVE  IsFiniteSet(Owned(m)) /\ Load(m) \in Nat
BY FS_Subset, FS_CardinalityType DEF Sizes, Owned, Load

\* A plan is finite.
LEMMA MovesFinite ==
  ASSUME Sizes, moves \subseteq Targets \X Members
  PROVE  /\ IsFiniteSet(moves)
         /\ \A m : IsFiniteSet(Got(m)) /\ Cardinality(Got(m)) \in Nat
<1>1. IsFiniteSet(Members)
  BY FS_Interval DEF Sizes, Members
<1>2. IsFiniteSet(Targets \X Members)
  BY <1>1, FS_Product DEF Sizes
<1>3. IsFiniteSet(moves)
  BY <1>2, FS_Subset
<1> QED BY <1>3, FS_Subset, FS_CardinalityType DEF Got

\* A listing of pairs, one of each member, holds exactly these.
LEMMA Listed ==
  ASSUME NEW S, IsFiniteSet(S), S \subseteq Members \X Nat, Sizes,
         NEW q \in Listings(S)
  PROVE  q \in Seq(Members \X Nat) /\ OneEach(q) /\ In(q) = S
<1> DEFINE n == Cardinality(S)
<1>1. n \in Nat
  BY FS_CardinalityType
<1>2. q \in [1 .. n -> S] /\ \A i, j \in 1 .. n : i < j => q[i][1] < q[j][1]
  BY DEF Listings
<1> HIDE DEF n
<1>3. q \in Seq(Members \X Nat) /\ Len(q) = n
  BY <1>1, <1>2
<1>4. \A i \in 1 .. n : q[i][1] \in Int
  BY <1>2 DEF Members, Sizes
<1>5. OneEach(q)
  <2> SUFFICES ASSUME NEW i \in 1 .. n, NEW j \in 1 .. n, q[i][1] = q[j][1] PROVE i = j
    BY <1>3 DEF OneEach
  <2>1. ~(i < j) /\ ~(j < i)
    BY <1>2, <1>4
  <2> QED BY <2>1, <1>1
<1>6. \A i, j \in 1 .. n : q[i] = q[j] => i = j
  BY <1>3, <1>5 DEF OneEach
<1>7. q \in Injection(1 .. n, S)
  BY <1>2, <1>6, Fun_IsInj
<1>8. Cardinality(1 .. n) = n
  BY <1>1, FS_Interval
<1>9. q \in Surjection(1 .. n, S)
  BY <1>7, <1>8, FS_Injection DEF n
<1>10. \A e \in S : \E i \in 1 .. n : q[i] = e
  BY <1>9 DEF Surjection
<1> QED BY <1>2, <1>3, <1>5, <1>10 DEF In

\* The initial states.
LEMMA PlanInit == ASSUME Sizes, Init PROVE PlanInv
<1>1. owner \in [Targets -> Members] /\ pool = [m \in Members |-> Owned(m)] /\ moves = {} /\ done = FALSE
  BY DEF Init
<1>2. \A m \in Members : Load(m) \in Nat /\ Q[m] \in Nat
  BY LoadFinite, QuotaValue
<1>3. IsFiniteSet(Members)
  BY FS_Interval DEF Sizes, Members
<1>4. /\ IsFiniteSet(Donors) /\ Donors \subseteq Members \X Nat
      /\ IsFiniteSet(Receivers) /\ Receivers \subseteq Members \X Nat
  <2>1. Donors \subseteq Members \X Nat
    BY <1>2 DEF Donors
  <2>2. Receivers \subseteq Members \X Nat
    BY <1>2 DEF Receivers
  <2> DEFINE D == {x \in Members : Load(x) > Q[x]}
             R == {x \in Members : Load(x) < Q[x]}
             d == [m \in D |-> <<m, Load(m) - Q[m]>>]
             r == [m \in R |-> <<m, Q[m] - Load(m)>>]
  <2>3. IsFiniteSet(D) /\ IsFiniteSet(R)
    BY <1>3, FS_Subset
  <2>4. d \in Surjection(D, Donors)
    <3>1. d \in [D -> Donors] /\ \A e \in Donors : \E m \in D : d[m] = e
      BY DEF Donors
    <3> QED BY <3>1, Fun_IsSurj
  <2>5. r \in Surjection(R, Receivers)
    <3>1. r \in [R -> Receivers] /\ \A e \in Receivers : \E m \in R : r[m] = e
      BY DEF Receivers
    <3> QED BY <3>1, Fun_IsSurj
  <2> QED BY <2>1, <2>2, <2>3, <2>4, <2>5, FS_Surjection
<1>5. /\ donors \in Seq(Members \X Nat) /\ OneEach(donors) /\ In(donors) = Donors
      /\ receivers \in Seq(Members \X Nat) /\ OneEach(receivers) /\ In(receivers) = Receivers
  BY <1>4, Listed DEF Init
<1>6. Moved = {} /\ \A m : Got(m) = {}
  BY <1>1 DEF Moved, Got
<1>7. \A m : Owned(m) \subseteq Targets
  BY DEF Owned
<1>8. PlanTypes /\ Planned
  BY <1>1, <1>5, <1>6, <1>7 DEF PlanTypes, Planned
<1>9. Donating
  <2>1. \A d \in In(donors) : d[1] \in Members /\ Load(d[1]) > Q[d[1]] /\ d[2] = Load(d[1]) - Q[d[1]]
    BY <1>5 DEF Donors
  <2>a. \A m \in Members : Load(m) > Q[m] => <<m, Load(m) - Q[m]>> \in In(donors)
    BY <1>5 DEF Donors
  <2>2. \A m \in Members : Load(m) > Q[m] => \E d \in In(donors) : d[1] = m
    BY <2>a
  <2>3. \A m \in Members : Cardinality(pool[m]) = Load(m)
    BY <1>1 DEF Load
  <2> QED BY <1>2, <2>1, <2>2, <2>3 DEF Donating
<1>10. Receiving
  <2>1. \A r \in In(receivers) : r[1] \in Members /\ Load(r[1]) < Q[r[1]] /\ r[2] = Q[r[1]] - Load(r[1])
    BY <1>5 DEF Receivers
  <2>a. \A m \in Members : Load(m) < Q[m] => <<m, Q[m] - Load(m)>> \in In(receivers)
    BY <1>5 DEF Receivers
  <2>2. \A m \in Members : Load(m) < Q[m] => \E r \in In(receivers) : r[1] = m
    BY <2>a
  <2>3. \A m : Cardinality(Got(m)) = 0
    BY <1>6, FS_EmptySet
  <2> QED BY <1>2, <2>1, <2>2, <2>3 DEF Receiving
<1> QED BY <1>1, <1>8, <1>9, <1>10 DEF PlanInv

\* A donor that has nothing more to give, or nobody to give it to, leaves its queue.
LEMMA NextDonorKeeps == ASSUME Sizes, PlanInv, NextDonor PROVE PlanInv'
<1> DEFINE d == Head(donors)
<1>1. /\ donors' = Tail(donors) /\ donors # <<>> /\ (d[2] = 0 \/ receivers = <<>>) /\ ~done
      /\ UNCHANGED <<owner, pool, receivers, moves, done>>
  BY DEF NextDonor
<1>2. PlanTypes /\ Planned /\ Donating /\ Receiving
  BY DEF PlanInv
<1>3. /\ donors' \in Seq(Members \X Nat) /\ OneEach(donors') /\ d \in In(donors) /\ d \in Members \X Nat
      /\ In(donors') = {e \in In(donors) : e[1] # d[1]}
  BY <1>1, <1>2, Behead DEF PlanTypes
<1> HIDE DEF d
<1>4. \A m : Owned(m)' = Owned(m) /\ Load(m)' = Load(m) /\ Got(m)' = Got(m)
  BY <1>1 DEF Owned, Load, Got
<1>5. Moved' = Moved
  BY <1>1 DEF Moved
<1>6. In(donors)' = In(donors') /\ In(receivers)' = In(receivers)
  BY <1>1 DEF In
<1>7. PlanTypes'
  BY <1>1, <1>2, <1>3 DEF PlanTypes, OneEach
<1>8. Planned' /\ Receiving'
  BY <1>1, <1>2, <1>4, <1>5, <1>6 DEF Planned, Receiving, Q
<1>9. Q' = Q
  BY DEF Q
<1>10. Donating'
  <2>1. \A e \in In(donors') : Load(e[1]) > Q[e[1]] /\ Cardinality(pool[e[1]]) = Q[e[1]] + e[2]
    BY <1>2, <1>3 DEF Donating
  <2>2. ASSUME NEW m \in Members, Load(m) > Q[m]
        PROVE  \/ \E e \in In(donors') : e[1] = m
               \/ Cardinality(pool[m]) = Q[m]
               \/ receivers = <<>> /\ Cardinality(pool[m]) >= Q[m]
    <3>1. CASE m = d[1]
      <4>1. Cardinality(pool[m]) = Q[m] + d[2] /\ Q[m] \in Nat /\ d[2] \in Nat
        BY <1>2, <1>3, <3>1, QuotaValue DEF Donating
      <4> QED BY <4>1, <1>1
    <3>2. CASE m # d[1]
      BY <1>2, <1>3, <2>2, <3>2 DEF Donating
    <3> QED BY <3>1, <3>2
  <2> QED BY <2>1, <2>2, <1>1, <1>4, <1>6, <1>9 DEF Donating
<1> QED BY <1>1, <1>7, <1>8, <1>10 DEF PlanInv

\* The smallest of three naturals.
LEMMA MinOf ==
  \A a, b, c \in Nat : Min({a, b, c}) \in Nat /\ Min({a, b, c}) <= a /\ Min({a, b, c}) <= b
<1> SUFFICES ASSUME NEW a \in Nat, NEW b \in Nat, NEW c \in Nat
             PROVE  Min({a, b, c}) \in Nat /\ Min({a, b, c}) <= a /\ Min({a, b, c}) <= b
  OBVIOUS
<1>1. \E x \in {a, b, c} : \A y \in {a, b, c} : x <= y
  <2>1. CASE a <= b /\ a <= c
    BY <2>1
  <2>2. CASE b <= a /\ b <= c
    BY <2>2
  <2>3. CASE c <= a /\ c <= b
    BY <2>3
  <2> QED BY <2>1, <2>2, <2>3
<1> QED BY <1>1 DEF Min

\* Pairs of the elements of S with m are as many as S.
LEMMA PairsWith ==
  ASSUME NEW S, IsFiniteSet(S), NEW m
  PROVE  IsFiniteSet({<<t, m>> : t \in S}) /\ Cardinality({<<t, m>> : t \in S}) = Cardinality(S)
<1> DEFINE P == {<<t, m>> : t \in S}
           f == [t \in S |-> <<t, m>>]
<1>1. f \in [S -> P] /\ (\A a, b \in S : f[a] = f[b] => a = b) /\ \A e \in P : \E t \in S : f[t] = e
  OBVIOUS
<1> HIDE DEF f, P
<1>2. f \in Bijection(S, P)
  BY <1>1, Fun_IsBij
<1>3. ExistsBijection(S, P)
  BY <1>2, Fun_ExistsBij
<1>4. IsFiniteSet(P) /\ Cardinality(P) = Cardinality(S)
  BY <1>3, FS_Bijection
<1> QED BY <1>4 DEF P

\* Targets of a donor's pool go to a receiver: as many as the surplus and the need allow.
LEMMA GiveKeeps == ASSUME Sizes, PlanInv, Give PROVE PlanInv'
<1> DEFINE d == Head(donors)
           r == Head(receivers)
           k == Min({d[2], r[2], Cardinality(pool[d[1]])})
<1>0. PlanTypes /\ Planned /\ Donating /\ Receiving
  BY DEF PlanInv
<1>1. PICK s \in kSubset(k, pool[d[1]]) :
        /\ moves' = moves \cup {<<t, r[1]>> : t \in s}
        /\ pool' = [pool EXCEPT ![d[1]] = @ \ s]
        /\ donors' = [donors EXCEPT ![1] = <<d[1], d[2] - k>>]
        /\ receivers' = IF r[2] = k THEN Tail(receivers)
                        ELSE Append(Tail(receivers), <<r[1], r[2] - k>>)
  BY DEF Give
<1>2. ~done /\ donors # <<>> /\ receivers # <<>> /\ d[2] > 0 /\ UNCHANGED <<owner, done>>
  BY DEF Give
<1>3. /\ d \in Members \X Nat /\ d \in In(donors) /\ r \in Members \X Nat /\ r \in In(receivers)
      /\ Tail(receivers) \in Seq(Members \X Nat) /\ OneEach(Tail(receivers))
      /\ In(Tail(receivers)) = {e \in In(receivers) : e[1] # r[1]}
  BY <1>0, <1>2, Behead DEF PlanTypes
<1>4. /\ Load(d[1]) > Q[d[1]] /\ Cardinality(pool[d[1]]) = Q[d[1]] + d[2]
      /\ Load(r[1]) < Q[r[1]] /\ Load(r[1]) + Cardinality(Got(r[1])) + r[2] = Q[r[1]]
  BY <1>0, <1>3 DEF Donating, Receiving
<1>5. \A m \in Members : Q[m] \in Nat /\ Load(m) \in Nat
  BY LoadFinite, QuotaValue
<1>6. Cardinality(pool[d[1]]) \in Nat
  BY <1>3, <1>4, <1>5
<1>7. k \in Nat /\ k <= d[2] /\ k <= r[2]
  <2>1. d[2] \in Nat /\ r[2] \in Nat
    BY <1>3
  <2> QED BY <2>1, <1>6, MinOf
<1>8. s \subseteq pool[d[1]] /\ Cardinality(s) = k
  BY <1>1 DEF kSubset
<1> HIDE DEF k, d, r
<1>9. /\ pool[d[1]] = Owned(d[1]) \ Moved
      /\ IsFiniteSet(pool[d[1]]) /\ IsFiniteSet(s) /\ s \subseteq Targets
  <2>1. pool[d[1]] = Owned(d[1]) \ Moved
    BY <1>0, <1>3 DEF Planned
  <2>2. pool[d[1]] \subseteq Targets
    BY <2>1 DEF Owned
  <2> QED BY <2>1, <2>2, <1>8, FS_Subset DEF Sizes
<1>10. /\ owner' = owner /\ Q' = Q
       /\ \A m : Owned(m)' = Owned(m) /\ Load(m)' = Load(m)
  BY <1>2 DEF Owned, Load, Q
<1>11. Moved' = Moved \cup s
  <2>1. \A mv \in {<<t, r[1]>> : t \in s} : mv[1] \in s
    OBVIOUS
  <2>2. \A t \in s : <<t, r[1]>> \in moves' /\ <<t, r[1]>>[1] = t
    BY <1>1
  <2>3. Moved' \subseteq Moved \cup s
    BY <1>1, <2>1 DEF Moved
  <2>4. s \subseteq Moved'
    BY <2>2 DEF Moved
  <2>5. Moved \subseteq Moved'
    BY <1>1 DEF Moved
  <2> QED BY <2>3, <2>4, <2>5
<1>12. /\ donors' \in Seq(Members \X Nat) /\ OneEach(donors')
       /\ In(donors') = {e \in In(donors) : e[1] # d[1]} \cup {<<d[1], d[2] - k>>}
  <2>1. d[2] - k \in Nat
    BY <1>3, <1>7
  <2> QED BY <2>1, <1>0, <1>1, <1>2, Replace DEF PlanTypes, d
<1>13. /\ receivers' \in Seq(Members \X Nat) /\ OneEach(receivers')
       /\ r[2] = k => In(receivers') = {e \in In(receivers) : e[1] # r[1]}
       /\ r[2] # k => In(receivers') = {e \in In(receivers) : e[1] # r[1]} \cup {<<r[1], r[2] - k>>}
  <2>1. CASE r[2] = k
    BY <2>1, <1>1, <1>3
  <2>2. CASE r[2] # k
    <3>1. r[2] - k \in Nat
      BY <1>3, <1>7
    <3>2. receivers' = Append(Tail(receivers), <<r[1], r[2] - k>>)
      BY <1>1, <2>2
    <3> QED BY <3>1, <3>2, <2>2, <1>0, <1>2, Rotate DEF PlanTypes, r
  <2> QED BY <2>1, <2>2
<1>14. pool' \in [Members -> SUBSET Targets] /\ moves' \subseteq Targets \X Members
  BY <1>0, <1>1, <1>3, <1>9 DEF PlanTypes
<1>15. PlanTypes'
  BY <1>0, <1>10, <1>12, <1>13, <1>14 DEF PlanTypes, OneEach
<1>16. /\ s \cap Moved = {} /\ \A t \in s : owner[t] = d[1]
       /\ \A m \in Members : m # d[1] => Owned(m) \cap s = {}
  BY <1>8, <1>9 DEF Owned
<1>17. Planned'
  <2>1. \A m \in Members : pool'[m] = Owned(m) \ Moved'
    BY <1>0, <1>1, <1>3, <1>9, <1>11, <1>16 DEF Planned, PlanTypes
  <2>2. \A mv \in moves : mv[1] \in Moved
    BY DEF Moved
  <2>3. ASSUME NEW a \in moves', NEW b \in moves', a[1] = b[1] PROVE a = b
    <3>1. CASE a \in moves /\ b \in moves
      BY <3>1, <2>3, <1>0 DEF Planned
    <3>2. CASE a \notin moves \/ b \notin moves
      BY <3>2, <2>3, <2>2, <1>1, <1>16
    <3> QED BY <3>1, <3>2
  <2>4. \A mv \in moves' : Load(owner[mv[1]]) > Q[owner[mv[1]]] /\ Load(mv[2]) < Q[mv[2]]
    BY <1>0, <1>1, <1>4, <1>16 DEF Planned
  <2> QED BY <2>1, <2>3, <2>4, <1>10 DEF Planned
<1>18. Donating'
  <2>1. Cardinality(pool'[d[1]]) = Cardinality(pool[d[1]]) - k
    <3>1. pool'[d[1]] = pool[d[1]] \ s /\ pool[d[1]] \cap s = s
      BY <1>0, <1>1, <1>3, <1>8 DEF PlanTypes
    <3> QED BY <3>1, <1>8, <1>9, FS_Difference
  <2>2. \A m \in Members : m # d[1] => pool'[m] = pool[m]
    BY <1>0, <1>1 DEF PlanTypes
  <2>3. ASSUME NEW e \in In(donors')
        PROVE  Load(e[1]) > Q[e[1]] /\ Cardinality(pool'[e[1]]) = Q[e[1]] + e[2]
    <3>1. CASE e = <<d[1], d[2] - k>>
      BY <3>1, <2>1, <1>3, <1>4, <1>5, <1>7
    <3>2. CASE e \in In(donors) /\ e[1] # d[1]
      <4>1. e[1] \in Members
        BY <3>2, <1>0 DEF In, PlanTypes
      <4> QED BY <4>1, <3>2, <2>2, <1>0 DEF Donating
    <3> QED BY <3>1, <3>2, <1>12
  <2>4. ASSUME NEW m \in Members, Load(m) > Q[m]
        PROVE  \/ \E e \in In(donors') : e[1] = m
               \/ Cardinality(pool'[m]) = Q[m]
    <3>1. CASE m = d[1]
      <4>1. <<d[1], d[2] - k>> \in In(donors') /\ <<d[1], d[2] - k>>[1] = m
        BY <3>1, <1>12
      <4> QED BY <4>1
    <3>2. CASE m # d[1]
      BY <3>2, <2>2, <2>4, <1>0, <1>2, <1>12 DEF Donating
    <3> QED BY <3>1, <3>2
  <2>5. In(donors)' = In(donors')
    BY DEF In
  <2> QED BY <2>3, <2>4, <2>5, <1>10 DEF Donating
<1>19. Receiving'
  <2>1. \A m \in Members : m # r[1] => Got(m)' = Got(m)
    BY <1>1 DEF Got
  <2>2. ASSUME NEW m \in Members, m = r[1]
        PROVE  Cardinality(Got(m)') = Cardinality(Got(m)) + k
    <3> DEFINE P == {<<t, m>> : t \in s}
    <3>1. IsFiniteSet(P) /\ Cardinality(P) = k
      BY <1>8, <1>9, PairsWith
    <3>2. Got(m) \cap P = {}
      BY <1>16 DEF Got, Moved
    <3>3. Got(m)' = Got(m) \cup P
      <4>1. \A mv \in P : mv[2] = m
        OBVIOUS
      <4>2. moves' = moves \cup P
        BY <1>1, <2>2
      <4> HIDE DEF P
      <4> QED BY <4>1, <4>2 DEF Got
    <3>4. IsFiniteSet(Got(m)) /\ Cardinality(Got(m)) \in Nat
      BY <1>0, MovesFinite DEF PlanTypes
    <3> HIDE DEF P
    <3>5. Cardinality(Got(m) \cup P) = Cardinality(Got(m)) + Cardinality(P) - Cardinality(Got(m) \cap P)
      BY <3>1, <3>4, FS_Union
    <3>6. Cardinality(Got(m) \cap P) = 0
      BY <3>2, FS_EmptySet
    <3> QED BY <3>1, <3>3, <3>4, <3>5, <3>6, <1>7
  <2>3. ASSUME NEW e \in In(receivers')
        PROVE  Load(e[1]) < Q[e[1]] /\ Load(e[1]) + Cardinality(Got(e[1])') + e[2] = Q[e[1]]
    <3>1. CASE e = <<r[1], r[2] - k>>
      <4>1. e[1] = r[1] /\ e[2] = r[2] - k /\ e[1] \in Members
        BY <3>1, <1>3
      <4>2. Cardinality(Got(e[1])') = Cardinality(Got(e[1])) + k
        BY <4>1, <2>2
      <4>3. Cardinality(Got(r[1])) \in Nat
        BY <1>0, MovesFinite DEF PlanTypes
      <4> QED BY <4>1, <4>2, <4>3, <1>3, <1>4, <1>5, <1>7
    <3>2. CASE e \in In(receivers) /\ e[1] # r[1]
      <4>1. e[1] \in Members
        BY <3>2, <1>0 DEF In, PlanTypes
      <4> QED BY <4>1, <3>2, <2>1, <1>0 DEF Receiving
    <3> QED BY <3>1, <3>2, <1>13
  <2>4. ASSUME NEW m \in Members, Load(m) < Q[m]
        PROVE  \/ \E e \in In(receivers') : e[1] = m
               \/ Load(m) + Cardinality(Got(m)') = Q[m]
    <3>1. CASE m = r[1] /\ r[2] = k
      <4>1. Cardinality(Got(m)') = Cardinality(Got(m)) + k /\ Cardinality(Got(m)) \in Nat
        BY <3>1, <2>2, <1>0, MovesFinite DEF PlanTypes
      <4> QED BY <4>1, <3>1, <1>4, <1>5, <1>7
    <3>2. CASE m = r[1] /\ r[2] # k
      <4>1. <<r[1], r[2] - k>> \in In(receivers') /\ <<r[1], r[2] - k>>[1] = m
        BY <3>2, <1>13
      <4> QED BY <4>1
    <3>3. CASE m # r[1]
      <4>1. CASE \E e \in In(receivers) : e[1] = m
        BY <3>3, <4>1, <1>13
      <4>2. CASE Load(m) + Cardinality(Got(m)) = Q[m]
        BY <3>3, <4>2, <2>1
      <4> QED BY <4>1, <4>2, <2>4, <1>0 DEF Receiving
    <3> QED BY <3>1, <3>2, <3>3
  <2>5. In(receivers)' = In(receivers')
    BY DEF In
  <2> QED BY <2>3, <2>4, <2>5, <1>10 DEF Receiving
<1> QED BY <1>15, <1>17, <1>18, <1>19, <1>2 DEF PlanInv

\* Every step of the plan.
LEMMA PlanStep == ASSUME Sizes, PlanInv, [Next]_vars PROVE PlanInv'
<1>0. ASSUME UNCHANGED <<owner, donors, pool, receivers, moves>>
      PROVE  (PlanTypes /\ Planned /\ Donating /\ Receiving)'
  <2>1. PlanTypes /\ Planned /\ Donating /\ Receiving
    BY DEF PlanInv
  <2>2. \A m : Owned(m)' = Owned(m) /\ Load(m)' = Load(m) /\ Got(m)' = Got(m)
    BY <1>0 DEF Owned, Load, Got
  <2>3. Moved' = Moved /\ In(donors)' = In(donors) /\ In(receivers)' = In(receivers) /\ Q' = Q
    BY <1>0 DEF Moved, In, Q
  <2>4. PlanTypes' /\ Planned'
    BY <1>0, <2>1, <2>2, <2>3 DEF PlanTypes, Planned, OneEach
  <2>5. Donating' /\ Receiving'
    BY <1>0, <2>1, <2>2, <2>3 DEF Donating, Receiving
  <2> QED BY <2>4, <2>5
<1>1. CASE UNCHANGED vars
  <2>1. UNCHANGED <<owner, donors, pool, receivers, moves>> /\ UNCHANGED <<donors, done>>
    BY <1>1 DEF vars
  <2> QED BY <2>1, <1>0 DEF PlanInv
<1>2. CASE Return
  <2>1. UNCHANGED <<owner, donors, pool, receivers, moves>> /\ donors' = <<>>
    BY <1>2 DEF Return
  <2> QED BY <2>1, <1>0 DEF PlanInv
<1> QED BY <1>1, <1>2, GiveKeeps, NextDonorKeeps DEF Next

-----------------------------------------------------------------------------
(* What the plan does.  `Final' is the member a target is planned for; the *)
(* load after the plan is the size of its fibre.                           *)

Final == [t \in Targets |-> IF t \in Moved THEN (CHOOSE mv \in moves : mv[1] = t)[2] ELSE owner[t]]

\* The members at their quota, or above it, receive nothing; the ones at it, or below, give
\* nothing.
LEMMA Loads ==
  ASSUME Sizes, PlanInv, NEW m \in Members
  PROVE  /\ LoadAfter(m) \in Nat
         /\ LoadAfter(m) = IF Load(m) > Q[m] THEN Cardinality(pool[m]) ELSE Load(m) + Cardinality(Got(m))
         /\ Load(m) >= Q[m] => Cardinality(Got(m)) = 0
         /\ Load(m) <= Q[m] => Owned(m) \cap Moved = {}
<1>0. PlanTypes /\ Planned
  BY DEF PlanInv
<1>1. Load(m) \in Nat /\ Q[m] \in Nat /\ Cardinality(Got(m)) \in Nat /\ IsFiniteSet(Owned(m))
  BY <1>0, LoadFinite, QuotaValue, MovesFinite DEF PlanTypes
<1>2. LoadAfter(m) = Cardinality(Owned(m) \ Moved) + Cardinality(Got(m))
  BY DEF LoadAfter, Got
<1>3. ASSUME Load(m) >= Q[m] PROVE Cardinality(Got(m)) = 0
  <2>1. Got(m) = {}
    BY <1>3, <1>0, <1>1 DEF Got, Planned
  <2> QED BY <2>1, FS_EmptySet
<1>4. ASSUME Load(m) <= Q[m] PROVE Owned(m) \cap Moved = {}
  BY <1>4, <1>0, <1>1 DEF Owned, Moved, Planned
<1>5. Cardinality(pool[m]) = Cardinality(Owned(m) \ Moved)
  BY <1>0 DEF Planned
<1>6. Cardinality(Owned(m) \ Moved) \in Nat
  BY <1>1, FS_Difference, FS_CardinalityType
<1>7. ASSUME Load(m) <= Q[m] PROVE Cardinality(Owned(m) \ Moved) = Load(m)
  <2>1. Owned(m) \ Moved = Owned(m)
    BY <1>4, <1>7
  <2> QED BY <2>1 DEF Load
<1>8. CASE Load(m) > Q[m]
  BY <1>8, <1>1, <1>2, <1>3, <1>5, <1>6
<1>9. CASE Load(m) <= Q[m]
  BY <1>9, <1>1, <1>2, <1>3, <1>4, <1>7
<1> QED BY <1>1, <1>8, <1>9

\* The load of a member after the plan counts the targets that are planned for it.
LEMMA FinalLoads ==
  ASSUME Sizes, PlanInv
  PROVE  /\ Final \in [Targets -> Members]
         /\ \A m \in Members : Cardinality(Fibre(Final, m)) = LoadAfter(m)
<1>0. PlanTypes /\ Planned
  BY DEF PlanInv
<1>1. \A t \in Moved : \E mv \in moves : mv[1] = t
  BY DEF Moved
<1>2. \A mv \in moves : mv[1] \in Moved /\ mv[1] \in Targets /\ mv[2] \in Members /\ mv = <<mv[1], mv[2]>>
  BY <1>0 DEF PlanTypes, Moved
<1>3. \A mv \in moves : Final[mv[1]] = mv[2]
  <2> SUFFICES ASSUME NEW mv \in moves PROVE (CHOOSE v \in moves : v[1] = mv[1])[2] = mv[2]
    BY <1>2 DEF Final
  <2> QED BY <1>0 DEF Planned
<1>4. \A t \in Targets : t \notin Moved => Final[t] = owner[t]
  BY DEF Final
<1>5. Final \in [Targets -> Members]
  <2>1. \A t \in Targets : Final[t] \in Members
    <3> SUFFICES ASSUME NEW t \in Targets PROVE Final[t] \in Members
      OBVIOUS
    <3>1. CASE t \in Moved
      BY <3>1, <1>1, <1>2, <1>3
    <3>2. CASE t \notin Moved
      BY <3>2, <1>4, <1>0 DEF PlanTypes
    <3> QED BY <3>1, <3>2
  <2> QED BY <2>1 DEF Final
<1>6. ASSUME NEW m \in Members PROVE Cardinality(Fibre(Final, m)) = LoadAfter(m)
  <2> DEFINE A == Owned(m) \ Moved
             B == {mv[1] : mv \in Got(m)}
             f == [mv \in Got(m) |-> mv[1]]
  <2>1. Fibre(Final, m) = A \cup B
    <3>1. ASSUME NEW t \in Fibre(Final, m), t \in Moved PROVE t \in B
      <4>1. PICK mv \in moves : mv[1] = t
        BY <1>1, <3>1
      <4>2. mv[2] = m
        BY <4>1, <1>3 DEF Fibre
      <4> QED BY <4>1, <4>2 DEF Got
    <3>2. ASSUME NEW t \in Fibre(Final, m), t \notin Moved PROVE t \in A
      BY <3>2, <1>4 DEF Fibre, Owned
    <3>3. A \subseteq Fibre(Final, m)
      BY <1>4 DEF Fibre, Owned
    <3>4. B \subseteq Fibre(Final, m)
      BY <1>2, <1>3 DEF Fibre, Got
    <3> QED BY <3>1, <3>2, <3>3, <3>4
  <2>2. A \cap B = {}
    BY <1>2 DEF Got
  <2>3. IsFiniteSet(A) /\ IsFiniteSet(B) /\ Cardinality(B) = Cardinality(Got(m))
    <3>1. IsFiniteSet(A)
      BY LoadFinite, FS_Difference
    <3>2. f \in [Got(m) -> B] /\ (\A a, b \in Got(m) : f[a] = f[b] => a = b) /\ \A e \in B : \E mv \in Got(m) : f[mv] = e
      BY <1>0 DEF Got, Planned
    <3> HIDE DEF f, B
    <3>3. f \in Bijection(Got(m), B)
      BY <3>2, Fun_IsBij
    <3>4. ExistsBijection(Got(m), B)
      BY <3>3, Fun_ExistsBij
    <3>5. IsFiniteSet(Got(m))
      BY <1>0, MovesFinite DEF PlanTypes
    <3> QED BY <3>1, <3>4, <3>5, FS_Bijection
  <2>4. LoadAfter(m) = Cardinality(A) + Cardinality(Got(m))
    BY DEF LoadAfter, Got
  <2> HIDE DEF A, B
  <2>5. Cardinality(A \cup B) = Cardinality(A) + Cardinality(B) - Cardinality(A \cap B)
    BY <2>3, FS_Union
  <2>6. Cardinality(A \cap B) = 0 /\ Cardinality(A) \in Nat /\ Cardinality(B) \in Nat
    BY <2>2, <2>3, FS_EmptySet, FS_CardinalityType
  <2> QED BY <2>1, <2>3, <2>4, <2>5, <2>6
<1> QED BY <1>5, <1>6

\* When the donors are served the plan brings every member to its quota.
LEMMA Balanced ==
  ASSUME Sizes, PlanInv, done, NEW m \in Members
  PROVE  LoadAfter(m) = Q[m]
<1>0. PlanTypes /\ Planned /\ Donating /\ Receiving /\ donors = <<>>
  BY DEF PlanInv
<1>1. \A n \in Members : Load(n) \in Nat /\ Q[n] \in Nat /\ LoadAfter(n) \in Nat
  BY LoadFinite, QuotaValue, Loads
<1>2. PICK h \in [Targets -> Members] : \A n \in Members : Cardinality(Fibre(h, n)) = Q[n]
  BY Dealt
<1>3. Final \in [Targets -> Members] /\ \A n \in Members : Cardinality(Fibre(Final, n)) = LoadAfter(n)
  BY FinalLoads
<1>4. In(donors) = {}
  BY <1>0 DEF In
<1>5. CASE receivers = <<>>
  <2>1. In(receivers) = {}
    BY <1>5 DEF In
  <2>2. ASSUME NEW n \in Members PROVE LoadAfter(n) >= Q[n]
    <3>1. CASE Load(n) > Q[n]
      BY <3>1, <1>0, <1>1, <1>4, Loads DEF Donating
    <3>2. CASE Load(n) < Q[n]
      BY <3>2, <1>0, <1>1, <2>1, Loads DEF Receiving
    <3>3. CASE Load(n) = Q[n]
      BY <3>3, <1>1, Loads
    <3> QED BY <3>1, <3>2, <3>3, <1>1
  <2>3. \A n \in Members : Cardinality(Fibre(h, n)) <= Cardinality(Fibre(Final, n))
    BY <1>1, <1>2, <1>3, <2>2
  <2>4. \A n \in Members : Cardinality(Fibre(h, n)) = Cardinality(Fibre(Final, n))
    BY <2>3, <1>3, Dominated DEF Sizes
  <2> QED BY <2>4, <1>2, <1>3
<1>6. CASE receivers # <<>>
  <2>1. ASSUME NEW n \in Members PROVE LoadAfter(n) <= Q[n]
    <3>1. CASE Load(n) > Q[n]
      BY <3>1, <1>0, <1>1, <1>4, <1>6, Loads DEF Donating
    <3>2. CASE Load(n) < Q[n]
      <4>1. LoadAfter(n) = Load(n) + Cardinality(Got(n))
        BY <3>2, <1>1, Loads
      <4>2. CASE \E r \in In(receivers) : r[1] = n
        <5>1. PICK r \in In(receivers) : r[1] = n
          BY <4>2
        <5>2. r[2] \in Nat
          BY <1>0 DEF PlanTypes, In
        <5>3. Load(n) + Cardinality(Got(n)) + r[2] = Q[n]
          BY <5>1, <1>0 DEF Receiving
        <5> QED BY <4>1, <5>2, <5>3, <1>1
      <4>3. CASE Load(n) + Cardinality(Got(n)) = Q[n]
        BY <4>1, <4>3, <1>1
      <4> QED BY <4>2, <4>3, <3>2, <1>0 DEF Receiving
    <3>3. CASE Load(n) = Q[n]
      BY <3>3, <1>1, Loads
    <3> QED BY <3>1, <3>2, <3>3, <1>1
  <2>2. \A n \in Members : Cardinality(Fibre(Final, n)) <= Cardinality(Fibre(h, n))
    BY <1>1, <1>2, <1>3, <2>1
  <2>3. \A n \in Members : Cardinality(Fibre(Final, n)) = Cardinality(Fibre(h, n))
    BY <2>2, <1>3, Dominated DEF Sizes
  <2> QED BY <2>3, <1>2, <1>3
<1> QED BY <1>5, <1>6

\* No target is planned twice.
LEMMA MovedOnce ==
  ASSUME Sizes, PlanInv
  PROVE  Cardinality(moves) = Cardinality(Moved)
<1> DEFINE f == [mv \in moves |-> mv[1]]
<1>1. f \in [moves -> Moved] /\ (\A a, b \in moves : f[a] = f[b] => a = b) /\ \A t \in Moved : \E mv \in moves : f[mv] = t
  BY DEF PlanInv, Planned, Moved
<1> HIDE DEF f
<1>2. f \in Bijection(moves, Moved)
  BY <1>1, Fun_IsBij
<1>3. ExistsBijection(moves, Moved)
  BY <1>2, Fun_ExistsBij
<1>4. IsFiniteSet(moves)
  BY MovesFinite DEF PlanInv, PlanTypes
<1> QED BY <1>3, <1>4, FS_Bijection

\* A donor gives its surplus.
LEMMA Given ==
  ASSUME Sizes, PlanInv, done, NEW m \in Members
  PROVE  Cardinality({mv \in moves : owner[mv[1]] = m}) = IF Load(m) > Q[m] THEN Load(m) - Q[m] ELSE 0
<1> DEFINE G == {mv \in moves : owner[mv[1]] = m}
           f == [mv \in G |-> mv[1]]
           A == Owned(m) \cap Moved
<1>0. PlanTypes /\ Planned
  BY DEF PlanInv
<1>1. f \in [G -> A] /\ (\A a, b \in G : f[a] = f[b] => a = b) /\ \A t \in A : \E mv \in G : f[mv] = t
  BY <1>0 DEF Planned, PlanTypes, Moved, Owned
<1>2. IsFiniteSet(G) /\ IsFiniteSet(A)
  BY <1>0, MovesFinite, LoadFinite, FS_Subset, FS_Intersection DEF PlanTypes
<1> HIDE DEF f, G
<1>3. f \in Bijection(G, A)
  BY <1>1, Fun_IsBij
<1>4. ExistsBijection(G, A)
  BY <1>3, Fun_ExistsBij
<1>5. Cardinality(G) = Cardinality(A) /\ Cardinality(A) \in Nat
  BY <1>2, <1>4, FS_Bijection, FS_CardinalityType
<1>6. Load(m) \in Nat /\ Q[m] \in Nat
  BY LoadFinite, QuotaValue
<1>7. CASE Load(m) > Q[m]
  <2>1. Cardinality(pool[m]) = Q[m]
    BY <1>6, <1>7, Loads, Balanced
  <2>2. Cardinality(Owned(m) \ Moved) = Load(m) - Cardinality(A)
    BY LoadFinite, FS_Difference DEF Load
  <2>3. pool[m] = Owned(m) \ Moved
    BY <1>0 DEF Planned
  <2> HIDE DEF A
  <2> QED BY <2>1, <2>2, <2>3, <1>5, <1>6, <1>7 DEF G
<1>8. CASE ~(Load(m) > Q[m])
  <2>1. A = {}
    BY <1>6, <1>8, Loads
  <2> QED BY <2>1, <1>5, <1>8, FS_EmptySet DEF G
<1> QED BY <1>7, <1>8

\* The quotas differ by at most one.
LEMMA QuotasClose ==
  ASSUME Sizes, NEW m \in Members, NEW n \in Members
  PROVE  Q[m] - Q[n] \in {-1, 0, 1}
<1> DEFINE d == Cardinality(Targets) \div N
           r == Cardinality(Targets) % N
<1>1. /\ Q[m] = (IF m <= r THEN d + 1 ELSE d) /\ Q[m] \in Nat
      /\ Q[n] = (IF n <= r THEN d + 1 ELSE d) /\ Q[n] \in Nat
  BY QuotaValue
<1>2. d \in Nat
  <2>1. Cardinality(Targets) \in Nat
    BY QuotaValue
  <2> QED BY <2>1, DivMod DEF Sizes
<1> HIDE DEF d, r
<1> QED BY <1>1, <1>2

\* The plan of a rebalance brings every member to its quota, quotas differ by at most one, no
\* target is moved twice, only from a member above its quota to one below, and every member
\* gives exactly what it has too many: for any number of members and any distribution of any
\* number of targets over them.
THEOREM PlanIsCorrect == ASSUME Sizes PROVE Spec => []PlanCorrect
<1>1. Init => PlanInv
  BY PlanInit
<1>2. PlanInv /\ [Next]_vars => PlanInv'
  BY PlanStep
<1>3. PlanInv => PlanCorrect
  <2> SUFFICES ASSUME PlanInv PROVE PlanCorrect
    OBVIOUS
  <2>1. PlanBalances
    BY Balanced, QuotasClose DEF PlanBalances
  <2>2. \A mv \in moves : Load(owner[mv[1]]) > Q[owner[mv[1]]] /\ Load(mv[2]) < Q[mv[2]]
    BY DEF PlanInv, Planned
  <2>3. PlanIsMinimal
    BY <2>2, MovedOnce, Given DEF PlanIsMinimal
  <2> QED BY <2>1, <2>3 DEF PlanCorrect
<1> QED BY <1>1, <1>2, <1>3, PTL DEF Spec
=============================================================================
