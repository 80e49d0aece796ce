-------------------------- MODULE RestartPolicyProofs --------------------------
(***************************************************************************)
(* The restart policy, proved for every policy, every miss limit and every *)
(* bound.                                                                  *)
(*                                                                         *)
(* What the code remembers (InstanceLife::restarts, filtered by the window *)
(* at each decision) is less than what happened (history).  The invariant  *)
(* says what was forgotten: only restarts at least a window older than the *)
(* latest one, and never the latest.                                       *)
(***************************************************************************)
EXTENDS RestartPolicy, RetainProofs

(* r is what is remembered of h, at the places p.                          *)
Remembers(p, r, h) ==
  /\ p \in [1..Len(r) -> 1..Len(h)]
  /\ \A a, b \in 1..Len(r) : a < b => p[a] < p[b]
  /\ \A n \in 1..Len(r) : r[n] = h[p[n]]
  /\ \A j \in 1..Len(h) :
       (\E n \in 1..Len(r) : p[n] = j) \/ h[Len(h)] >= h[j] + Policy.window
  /\ Len(h) > 0 => Len(r) > 0 /\ p[Len(r)] = Len(h)

Remembered ==
  \E p \in [1..Len(life.restarts) -> 1..Len(history)] : Remembers(p, life.restarts, history)

Types ==
  /\ life \in [state : {"Running", "Unhealthy", "Restarting", "Failed"},
               misses : 0..MaxMisses, restarts : Seq(Times)]
  /\ Len(life.restarts) <= Policy.max
  /\ desired \in BOOLEAN
  /\ clock \in Times
  /\ back \in 0..MaxBack /\ starts \in 0..MaxStarts
  /\ history \in Seq(Times)

(* GiveUp takes the intent away with the Failed state.                     *)
FailedIsOff == life.state = "Failed" => ~desired

(* With a window of zero nothing is remembered, and a clock stepped back   *)
(* can order restarts anyhow; the backoff's shift stops at 20.             *)
IInv ==
  /\ Types
  /\ FailedIsOff
  /\ BudgetHolds
  /\ Policy.window > 0 => Ascending /\ Remembered
  /\ Policy.window > 0 /\ Policy.max <= 22 => Spaced

-----------------------------------------------------------------------------
(* One restart, as facts about sequences: r is remembered of h, and at now *)
(* the decision is to restart.                                             *)

Young(r, now) == {k \in 1..Len(r) : SaturatingSub(now, r[k]) < Policy.window}

LEMMA RecentKeeps ==
  ASSUME NEW r \in Seq(Times), NEW now \in Times
  PROVE  /\ Recent(Policy, r, now) \in Seq(Times)
         /\ \E q : /\ Enumerates(q, Len(Recent(Policy, r, now)), Young(r, now))
                   /\ \A n \in 1..Len(Recent(Policy, r, now)) :
                        Recent(Policy, r, now)[n] = r[q[n]]
<1> DEFINE S == {t \in {r[k] : k \in 1..Len(r)} : SaturatingSub(now, t) < Policy.window}
<1>1. Recent(Policy, r, now) = Retain(r, S)
  BY DEF Recent
<1>2. Places(r, S) = Young(r, now)
  BY DEF Places, Young
<1> HIDE DEF S
<1> QED
  BY <1>1, <1>2, RetainKeeps

LEMMA DecidedInBudget ==
  ASSUME NEW r \in Seq(Times), NEW now \in Times,
         restart_decision(Policy, r, now) = "Restart"
  PROVE  Len(Recent(Policy, r, now)) < Policy.max /\ Len(Recent(Policy, r, now)) \in Nat
<1>1. Recent(Policy, r, now) \in Seq(Times)
  BY RecentKeeps
<1> QED
  BY <1>1, RestartPolicyAssumption DEF restart_decision

LEMMA PowerIsNat ==
  ASSUME NEW k \in Nat
  PROVE  2^k \in Nat
<1>1. IsFiniteSet(1..k) /\ Cardinality(1..k) = k
  BY FS_Interval
<1>2. IsFiniteSet(SUBSET (1..k)) /\ Cardinality(SUBSET (1..k)) = 2^k
  BY <1>1, FS_SUBSET
<1> QED
  BY <1>2, FS_CardinalityType

LEMMA BackoffIsNat ==
  ASSUME NEW n \in Nat
  PROVE  Backoff(Policy, n) \in Nat
<1>1. PICK k : k = MinOf(SaturatingSub(n, 1), 20)
  OBVIOUS
<1>2. k \in Nat
  BY <1>1 DEF MinOf, SaturatingSub
<1>3. 2^k \in Nat /\ Policy.base \in Nat /\ Policy.cap \in Nat
  BY <1>2, PowerIsNat, RestartPolicyAssumption
<1>4. Policy.base * 2^k \in Nat
  BY <1>3
<1>5. Backoff(Policy, n) = MinOf(Policy.base * 2^k, Policy.cap)
  BY <1>1 DEF Backoff
<1> QED
  BY <1>3, <1>4, <1>5 DEF MinOf

(* The restarts of h that still count at now.                              *)
Counting(h, now) == {j \in 1..Len(h) : now - h[j] < Policy.window}

(* A restart at now sees, at the places f, all restarts that count, and is *)
(* not before the latest of them, nor before its backoff is over.          *)
Sees(f, r, h, now) ==
  LET rec == Recent(Policy, r, now)
  IN  /\ rec \in Seq(Times) /\ Len(rec) < Policy.max
      /\ Enumerates(f, Len(rec), Counting(h, now))
      /\ \A n \in 1..Len(rec) : rec[n] = h[f[n]]
      /\ \A j \in 1..Len(h) : h[j] <= now
      /\ Counting(h, now) # {} =>
           /\ Len(rec) > 0 /\ Len(h) > 0
           /\ now >= h[Len(h)] + Backoff(Policy, Len(rec))

AscendingIn(h) == \A j, k \in 1..Len(h) : j < k => h[j] <= h[k]

LEMMA RestartSees ==
  ASSUME NEW r \in Seq(Times), NEW h \in Seq(Times), NEW now \in Times,
         NEW p, Remembers(p, r, h), AscendingIn(h), Policy.window > 0,
         restart_decision(Policy, r, now) = "Restart"
  PROVE  \E f : Sees(f, r, h, now)
<1> USE RestartPolicyAssumption DEF Times
<1> DEFINE rec == Recent(Policy, r, now)
           old == Counting(h, now)
<1>0. \A j : j \in old <=> j \in 1..Len(h) /\ now - h[j] < Policy.window
  BY DEF Counting
<1>1. rec \in Seq(Times)
  BY RecentKeeps
<1>2. PICK q : /\ Enumerates(q, Len(rec), Young(r, now))
               /\ \A n \in 1..Len(rec) : rec[n] = r[q[n]]
  BY RecentKeeps
<1>3. /\ Len(rec) < Policy.max
      /\ ~(Len(rec) > 0 /\ now < rec[Len(rec)] + Backoff(Policy, Len(rec)))
  BY DEF restart_decision
<1> HIDE DEF rec, old
<1>4. Len(r) \in Nat /\ Len(h) \in Nat /\ Len(rec) \in Nat
  BY <1>1
<1>5. q \in [1..Len(rec) -> 1..Len(r)] /\ p \in [1..Len(r) -> 1..Len(h)]
  BY <1>2 DEF Enumerates, Young, Remembers
<1> DEFINE f == [n \in 1..Len(rec) |-> p[q[n]]]
<1>6. \A n \in 1..Len(rec) : rec[n] = h[f[n]] /\ f[n] \in 1..Len(h)
  BY <1>2, <1>5 DEF Remembers
<1>7. \A a, b \in 1..Len(rec) : a < b => f[a] < f[b]
  BY <1>2, <1>5 DEF Remembers, Enumerates
<1>8. \A k \in 1..Len(r) : SaturatingSub(now, r[k]) < Policy.window <=> now - r[k] < Policy.window
  BY DEF SaturatingSub
(* The latest restart is either still young or a whole window ago.         *)
<1>9. \A j \in 1..Len(h) : h[j] <= h[Len(h)]
  BY <1>4 DEF AscendingIn
<1> DEFINE Goal ==
             /\ \A j \in 1..Len(h) : h[j] <= now
             /\ old # {} => /\ Len(rec) > 0 /\ Len(h) > 0
                            /\ now >= h[Len(h)] + Backoff(Policy, Len(rec))
<1>10. ASSUME Len(h) > 0 /\ now - h[Len(h)] < Policy.window PROVE Goal
  <2>1. Len(r) > 0 /\ p[Len(r)] = Len(h) /\ r[Len(r)] = h[Len(h)]
    <3>1. Len(r) > 0 /\ p[Len(r)] = Len(h)
      BY <1>10 DEF Remembers
    <3>2. Len(r) \in 1..Len(r)
      BY <1>4, <3>1
    <3>3. r[Len(r)] = h[p[Len(r)]]
      BY <3>2 DEF Remembers
    <3> QED
      BY <3>1, <3>3
  <2>2. Len(r) \in Young(r, now)
    BY <1>4, <1>8, <1>10, <2>1 DEF Young
  <2>3. PICK m \in 1..Len(rec) : q[m] = Len(r)
    BY <1>2, <2>2 DEF Enumerates
  <2>4. m = Len(rec)
    <3>0. Len(rec) \in 1..Len(rec)
      BY <1>4, <2>3
    <3>1. q[Len(rec)] \in 1..Len(r)
      BY <1>5, <3>0
    <3>2. m < Len(rec) => q[m] < q[Len(rec)]
      BY <1>2, <3>0, <2>3 DEF Enumerates
    <3> QED
      BY <1>4, <2>3, <3>0, <3>1, <3>2
  <2>5. Len(rec) > 0 /\ rec[Len(rec)] = h[Len(h)]
    BY <1>2, <1>4, <2>1, <2>3, <2>4
  <2>a. Len(h) \in 1..Len(h)
    BY <1>4, <1>10
  <2>b. Backoff(Policy, Len(rec)) \in Nat /\ h[Len(h)] \in Nat
    <3>1. Backoff(Policy, Len(rec)) \in Nat
      BY <1>4, BackoffIsNat
    <3>2. h[Len(h)] \in Times
      BY <2>a
    <3> QED
      BY <3>1, <3>2
  <2>6. now >= h[Len(h)] + Backoff(Policy, Len(rec))
    BY <1>3, <2>5, <2>b
  <2>7. h[Len(h)] <= now
    BY <2>6, <2>b
  <2>8. \A j \in 1..Len(h) : h[j] <= now
    BY <1>4, <1>9, <1>10, <2>7
  <2> QED
    BY <1>10, <2>5, <2>6, <2>8
<1>11. ASSUME ~(Len(h) > 0 /\ now - h[Len(h)] < Policy.window) PROVE Goal
  <2>1. \A j \in 1..Len(h) : h[j] + Policy.window <= now
    BY <1>4, <1>9, <1>11
  <2>2. \A j \in 1..Len(h) : h[j] \in Nat /\ h[j] <= now
    BY <2>1
  <2>3. \A j \in 1..Len(h) : ~(now - h[j] < Policy.window)
    BY <2>1, <2>2
  <2>4. old = {}
    BY <1>0, <2>3
  <2> QED
    BY <2>2, <2>4
<1>12. Goal
  BY <1>10, <1>11
<1>13. \A n \in 1..Len(rec) : f[n] \in old
  <2> SUFFICES ASSUME NEW n \in 1..Len(rec) PROVE now - h[f[n]] < Policy.window
    BY <1>0, <1>6
  <2>1. q[n] \in Young(r, now)
    BY <1>2 DEF Enumerates
  <2>2. now - r[q[n]] < Policy.window
    BY <1>8, <2>1 DEF Young
  <2> QED
    BY <1>2, <1>6, <2>2
<1>14. ASSUME NEW j \in old PROVE \E m \in 1..Len(rec) : f[m] = j
  <2>1. j \in 1..Len(h) /\ now - h[j] < Policy.window /\ h[Len(h)] <= now
    BY <1>0, <1>4, <1>12
  <2>2. ~(h[Len(h)] >= h[j] + Policy.window)
    BY <1>4, <2>1
  <2>3. PICK n \in 1..Len(r) : p[n] = j
    BY <2>1, <2>2 DEF Remembers
  <2>4. n \in Young(r, now)
    BY <1>8, <2>1, <2>3 DEF Remembers, Young
  <2>5. PICK m \in 1..Len(rec) : q[m] = n
    BY <1>2, <2>4 DEF Enumerates
  <2> QED
    BY <2>3, <2>5
<1>15. Enumerates(f, Len(rec), old)
  <2>1. f \in [1..Len(rec) -> old]
    BY <1>13
  <2> QED
    BY <1>7, <1>14, <2>1 DEF Enumerates
<1> HIDE DEF f, old
<1>16. Sees(f, r, h, now)
  BY <1>1, <1>3, <1>6, <1>12, <1>15 DEF rec, old, Sees
<1> QED
  BY <1>16

(* The properties, of any history.                                         *)
InWindow(h, k) == {j \in 1..Len(h) : h[j] >= h[k] /\ h[j] < h[k] + Policy.window}

Before(h, k) == {j \in 1..(k - 1) : h[k] - h[j] < Policy.window}

SpacedAt(h, k) ==
  Before(h, k) # {} =>
    h[k] - h[k - 1] >= MinOf(Policy.base * 2^(Cardinality(Before(h, k)) - 1), Policy.cap)

LEMMA AppendFacts ==
  ASSUME NEW T, NEW s \in Seq(T), NEW x \in T
  PROVE  /\ Append(s, x) \in Seq(T)
         /\ Len(Append(s, x)) = Len(s) + 1
         /\ Append(s, x)[Len(s) + 1] = x
         /\ \A j \in 1..Len(s) : Append(s, x)[j] = s[j]
  OBVIOUS

LEMMA RestartRemembers ==
  ASSUME NEW r \in Seq(Times), NEW h \in Seq(Times), NEW now \in Times,
         NEW f, Sees(f, r, h, now), AscendingIn(h)
  PROVE  /\ AscendingIn(Append(h, now))
         /\ \E p : Remembers(p, Append(Recent(Policy, r, now), now), Append(h, now))
<1> USE RestartPolicyAssumption DEF Times
<1> DEFINE rec == Recent(Policy, r, now)
           old == Counting(h, now)
           L == Len(h)
           m == Len(rec)
           h2 == Append(h, now)
           r2 == Append(rec, now)
<1>1. /\ rec \in Seq(Times) /\ Enumerates(f, m, old)
      /\ \A n \in 1..m : rec[n] = h[f[n]]
      /\ \A j \in 1..L : h[j] <= now
      /\ \A j : j \in old <=> j \in 1..L /\ now - h[j] < Policy.window
  BY DEF Sees, Counting
<1> HIDE DEF rec, old
<1>2. /\ h2 \in Seq(Times) /\ Len(h2) = L + 1 /\ h2[L + 1] = now
      /\ \A j \in 1..L : h2[j] = h[j]
  BY AppendFacts
<1>3. /\ r2 \in Seq(Times) /\ Len(r2) = m + 1 /\ r2[m + 1] = now
      /\ \A j \in 1..m : r2[j] = rec[j]
  BY <1>1, AppendFacts
<1>4. L \in Nat /\ m \in Nat
  BY <1>1
<1> HIDE DEF h2, r2, L, m
<1>5. AscendingIn(h2)
  <2> SUFFICES ASSUME NEW j \in 1..(L + 1), NEW k \in 1..(L + 1), j < k
               PROVE  h2[j] <= h2[k]
    BY <1>2 DEF AscendingIn
  <2>1. j \in 1..L
    BY <1>4
  <2>2. CASE k = L + 1
    BY <1>1, <1>2, <2>1, <2>2
  <2>3. CASE k # L + 1
    <3>1. k \in 1..L
      BY <1>4, <2>3
    <3> QED
      BY <1>2, <2>1, <3>1 DEF AscendingIn, L
  <2> QED
    BY <2>2, <2>3
<1> DEFINE g == [n \in 1..(m + 1) |-> IF n = m + 1 THEN L + 1 ELSE f[n]]
<1>6. \A n \in 1..m : n # m + 1 /\ f[n] \in 1..L /\ g[n] = f[n]
  BY <1>1, <1>4 DEF Enumerates
<1>a. m + 1 \in 1..(m + 1) /\ g[m + 1] = L + 1
  BY <1>4
<1>b. \A n \in 1..(m + 1) : n \in 1..m \/ n = m + 1
  BY <1>4
<1> HIDE DEF g
<1>7. Remembers(g, r2, h2)
  <2>1. g \in [1..(m + 1) -> 1..(L + 1)]
    <3>1. ASSUME NEW n \in 1..(m + 1) PROVE g[n] \in 1..(L + 1)
      <4>1. CASE n \in 1..m
        <5>1. f[n] \in 1..L /\ g[n] = f[n]
          BY <1>6, <4>1
        <5>2. 1..L \subseteq 1..(L + 1)
          BY <1>4
        <5> QED
          BY <5>1, <5>2
      <4>2. CASE n = m + 1
        <5>1. L + 1 \in 1..(L + 1)
          BY <1>4
        <5> QED
          BY <1>a, <4>2, <5>1
      <4> QED
        BY <1>b, <4>1, <4>2
    <3> QED
      BY <3>1 DEF g
  <2>2. ASSUME NEW a \in 1..(m + 1), NEW b \in 1..(m + 1), a < b PROVE g[a] < g[b]
    <3>1. a \in 1..m
      BY <1>4, <2>2
    <3>2. CASE b = m + 1
      <4>1. f[a] \in 1..L /\ g[a] = f[a] /\ g[b] = L + 1
        BY <1>6, <1>a, <3>1, <3>2
      <4>2. \A x \in 1..L : x < L + 1
        BY <1>4
      <4> QED
        BY <4>1, <4>2
    <3>3. CASE b # m + 1
      <4>1. b \in 1..m
        BY <1>4, <3>3
      <4> QED
        BY <1>1, <1>6, <2>2, <3>1, <4>1 DEF Enumerates
    <3> QED
      BY <3>2, <3>3
  <2>3. ASSUME NEW n \in 1..(m + 1) PROVE r2[n] = h2[g[n]]
    <3>1. CASE n = m + 1
      BY <1>2, <1>3, <1>a, <3>1
    <3>2. CASE n # m + 1
      <4>1. n \in 1..m
        BY <1>4, <3>2
      <4> QED
        BY <1>1, <1>2, <1>3, <1>6, <4>1
    <3> QED
      BY <3>1, <3>2
  <2>4. ASSUME NEW j \in 1..(L + 1)
        PROVE  (\E n \in 1..(m + 1) : g[n] = j) \/ h2[L + 1] >= h2[j] + Policy.window
    <3>1. CASE j = L + 1
      BY <1>a, <3>1
    <3>2. CASE j # L + 1
      <4>1. j \in 1..L
        BY <1>4, <3>2
      <4>2. CASE j \in old
        <5>1. PICK n \in 1..m : f[n] = j
          BY <1>1, <4>2 DEF Enumerates
        <5>2. n \in 1..(m + 1)
          BY <1>4
        <5> QED
          BY <1>6, <5>1, <5>2
      <4>3. CASE j \notin old
        <5>1. ~(now - h[j] < Policy.window) /\ h[j] \in Times
          <6>1. h[j] \in Times
            BY <4>1 DEF L
          <6> QED
            BY <1>1, <4>1, <4>3, <6>1
        <5>2. h2[j] = h[j] /\ h2[L + 1] = now
          BY <1>2, <4>1
        <5> QED
          BY <5>1, <5>2
      <4> QED
        BY <4>2, <4>3
    <3> QED
      BY <3>1, <3>2
  <2>5. m + 1 > 0 /\ g[m + 1] = L + 1
    BY <1>4, <1>a
  <2> QED
    BY <1>2, <1>3, <2>1, <2>2, <2>3, <2>4, <2>5 DEF Remembers
<1> QED
  BY <1>5, <1>7 DEF h2, r2, rec

(* The size of what f enumerates.                                          *)
LEMMA EnumeratedSize ==
  ASSUME NEW f, NEW m \in Nat, NEW at \in SUBSET Nat, Enumerates(f, m, at)
  PROVE  IsFiniteSet(at) /\ Cardinality(at) = m
<1>1. f \in [1..m -> at]
  BY DEF Enumerates
<1>2. \A a, b \in 1..m : f[a] = f[b] => a = b
  <2> SUFFICES ASSUME NEW a \in 1..m, NEW b \in 1..m, f[a] = f[b] PROVE a = b
    OBVIOUS
  <2>1. f[a] \in Nat /\ f[b] \in Nat
    BY <1>1
  <2>2. ~(a < b) /\ ~(b < a)
    BY <2>1 DEF Enumerates
  <2> QED
    BY <2>2
<1>3. f \in Bijection(1..m, at)
  BY <1>1, <1>2 DEF Enumerates, Bijection, Injection, IsInjective, Surjection
<1>4. ExistsBijection(1..m, at)
  BY <1>3 DEF ExistsBijection
<1>5. IsFiniteSet(1..m) /\ Cardinality(1..m) = m
  BY FS_Interval
<1> QED
  BY <1>4, <1>5, FS_Bijection

(* A restart that is decided stays within the budget of every window.      *)
LEMMA RestartInBudget ==
  ASSUME NEW r \in Seq(Times), NEW h \in Seq(Times), NEW now \in Times,
         NEW f, Sees(f, r, h, now),
         \A k \in 1..Len(h) : Cardinality(InWindow(h, k)) <= Policy.max
  PROVE  \A k \in 1..(Len(h) + 1) :
           Cardinality(InWindow(Append(h, now), k)) <= Policy.max
<1> DEFINE L == Len(h)
           h2 == Append(h, now)
           m == Len(Recent(Policy, r, now))
           old == Counting(h, now)
<1>1. /\ h2 \in Seq(Times) /\ Len(h2) = L + 1 /\ h2[L + 1] = now
      /\ \A j \in 1..L : h2[j] = h[j]
  BY AppendFacts
<1>2. /\ m \in Nat /\ m < Policy.max /\ Enumerates(f, m, old)
      /\ \A j \in 1..L : h[j] <= now
  BY DEF Sees
<1>3. old \in SUBSET Nat /\ L \in Nat /\ old \in SUBSET (1..L)
  BY DEF Counting
<1>4. IsFiniteSet(old) /\ Cardinality(old) = m
  BY <1>2, <1>3, EnumeratedSize
<1>5. IsFiniteSet(old \cup {L + 1}) /\ Cardinality(old \cup {L + 1}) = m + 1
  <2>1. L + 1 \notin old
    BY <1>3
  <2> QED
    BY <1>4, <2>1, FS_AddElement
<1>6. \A j \in 1..L : h[j] \in Nat
  BY RestartPolicyAssumption DEF Times
<1>7. now \in Nat /\ Policy.window \in Nat /\ Policy.max \in Nat
  BY RestartPolicyAssumption DEF Times
<1> HIDE DEF L, h2, m
<1>8. ASSUME NEW k \in 1..(L + 1) PROVE Cardinality(InWindow(h2, k)) <= Policy.max
  <2> DEFINE W == InWindow(h2, k)
  <2>1. W \in SUBSET (1..(L + 1))
    BY <1>1 DEF InWindow
  <2>2. h2[k] \in Nat /\ h2[k] <= now
    <3>1. CASE k = L + 1
      BY <1>1, <1>7, <3>1
    <3>2. CASE k # L + 1
      <4>1. k \in 1..L
        BY <1>3, <3>2
      <4> QED
        BY <1>1, <1>2, <1>6, <4>1
    <3> QED
      BY <3>1, <3>2
  <2>3. CASE L + 1 \in W
    <3>1. now < h2[k] + Policy.window
      BY <1>1, <2>3 DEF InWindow
    <3>2. ASSUME NEW j \in W PROVE j \in old \cup {L + 1}
      <4>1. CASE j = L + 1
        BY <4>1
      <4>2. CASE j # L + 1
        <5>1. j \in 1..L
          BY <1>3, <2>1, <4>2
        <5>2. h[j] >= h2[k] /\ h[j] \in Nat
          BY <1>1, <1>6, <5>1 DEF InWindow
        <5>3. now - h[j] < Policy.window
          BY <1>7, <2>2, <3>1, <5>2
        <5> QED
          BY <5>1, <5>3 DEF Counting, L
      <4> QED
        BY <4>1, <4>2
    <3>3. W \in SUBSET (old \cup {L + 1})
      BY <3>2
    <3>4. Cardinality(W) <= m + 1 /\ Cardinality(W) \in Nat
      BY <1>5, <3>3, FS_Subset, FS_CardinalityType
    <3> QED
      BY <1>2, <1>7, <3>4
  <2>4. CASE L + 1 \notin W
    <3>1. CASE k = L + 1
      <4>1. ~(now < now + Policy.window)
        BY <1>1, <1>3, <1>7, <2>4, <3>1 DEF InWindow
      <4>2. W = {}
        <5> SUFFICES ASSUME NEW j \in W PROVE FALSE
          OBVIOUS
        <5>1. j \in 1..L
          BY <1>3, <2>1, <2>4
        <5>2. h[j] >= now /\ h[j] < now + Policy.window /\ h[j] <= now /\ h[j] \in Nat
          BY <1>1, <1>2, <1>6, <3>1, <5>1 DEF InWindow
        <5> QED
          BY <1>7, <4>1, <5>2
      <4> QED
        BY <1>7, <4>2, FS_EmptySet
    <3>2. CASE k # L + 1
      <4>1. k \in 1..L
        BY <1>3, <3>2
      <4>2. W = InWindow(h, k)
        BY <1>1, <1>3, <2>1, <2>4, <4>1 DEF InWindow, L
      <4> QED
        BY <4>1, <4>2 DEF L
    <3> QED
      BY <3>1, <3>2
  <2> QED
    BY <2>3, <2>4
<1> QED
  BY <1>8 DEF L, h2

(* A restart that is decided comes after its backoff.                      *)
LEMMA RestartIsSpaced ==
  ASSUME NEW r \in Seq(Times), NEW h \in Seq(Times), NEW now \in Times,
         NEW f, Sees(f, r, h, now), Policy.max <= 22,
         \A k \in 2..Len(h) : SpacedAt(h, k)
  PROVE  \A k \in 2..(Len(h) + 1) : SpacedAt(Append(h, now), k)
<1> DEFINE L == Len(h)
           h2 == Append(h, now)
           m == Len(Recent(Policy, r, now))
           old == Counting(h, now)
<1>1. /\ h2 \in Seq(Times) /\ Len(h2) = L + 1 /\ h2[L + 1] = now
      /\ \A j \in 1..L : h2[j] = h[j]
  BY AppendFacts
<1>2. /\ m \in Nat /\ m < Policy.max /\ Enumerates(f, m, old)
      /\ old # {} => m > 0 /\ L > 0 /\ now >= h[L] + Backoff(Policy, m)
  BY DEF Sees
<1>3. old \in SUBSET Nat /\ L \in Nat
  BY DEF Counting
<1>4. Cardinality(old) = m
  BY <1>2, <1>3, EnumeratedSize
<1>5. now \in Nat /\ Policy.max \in Nat /\ \A j \in 1..L : h[j] \in Nat
  BY RestartPolicyAssumption DEF Times
<1>6. Before(h2, L + 1) = old
  <2>1. (L + 1) - 1 = L
    BY <1>3
  <2> QED
    BY <1>1, <2>1 DEF Before, Counting
<1> HIDE DEF h2, m
<1>7. ASSUME old # {} PROVE Backoff(Policy, m) = MinOf(Policy.base * 2^(m - 1), Policy.cap)
  <2>1. m > 0 /\ m - 1 <= 20
    BY <1>2, <1>5, <1>7
  <2>2. MinOf(SaturatingSub(m, 1), 20) = m - 1
    BY <1>2, <2>1 DEF MinOf, SaturatingSub
  <2> QED
    BY <2>2 DEF Backoff
<1>8. SpacedAt(h2, L + 1)
  <2> SUFFICES ASSUME old # {}
               PROVE  h2[L + 1] - h2[L] >= MinOf(Policy.base * 2^(m - 1), Policy.cap)
    <3>1. (L + 1) - 1 = L
      BY <1>3
    <3> QED
      BY <1>4, <1>6, <3>1 DEF SpacedAt
  <2>1. L \in 1..L
    BY <1>2, <1>3
  <2>2. h2[L + 1] = now /\ h2[L] = h[L] /\ h[L] \in Nat
    BY <1>1, <1>5, <2>1
  <2>3. Backoff(Policy, m) \in Nat
    BY <1>2, BackoffIsNat
  <2>4. now - h[L] >= Backoff(Policy, m)
    BY <1>2, <1>5, <2>2, <2>3
  <2> QED
    BY <1>7, <2>2, <2>4
<1>9. ASSUME NEW k \in 2..L PROVE SpacedAt(h2, k)
  <2>1. k \in 1..L /\ k - 1 \in 1..L /\ \A j \in 1..(k - 1) : j \in 1..L
    BY <1>3
  <2>2. Before(h2, k) = Before(h, k) /\ h2[k] = h[k] /\ h2[k - 1] = h[k - 1]
    BY <1>1, <2>1 DEF Before
  <2> QED
    BY <2>2 DEF SpacedAt
<1> QED
  <2>1. \A k \in 2..(L + 1) : k \in 2..L \/ k = L + 1
    BY <1>3
  <2> QED
    BY <1>8, <1>9, <2>1 DEF h2

-----------------------------------------------------------------------------
(* The invariant.                                                          *)

LEMMA BudgetIn ==
  BudgetHolds <=> \A k \in 1..Len(history) : Cardinality(InWindow(history, k)) <= Policy.max
BY DEF BudgetHolds, InWindow

LEMMA AscendingIsIn == Ascending <=> AscendingIn(history)
BY DEF Ascending, AscendingIn

LEMMA SpacedIn == Spaced <=> \A k \in 2..Len(history) : SpacedAt(history, k)
BY DEF Spaced, SpacedAt, Before

LEMMA InitIInv == Init => IInv
<1> SUFFICES ASSUME Init PROVE IInv
  OBVIOUS
<1> USE RestartPolicyAssumption DEF Init
<1>1. Types
  BY DEF Types, Times
<1>2. BudgetHolds /\ Ascending /\ Spaced
  BY DEF BudgetHolds, Ascending, Spaced
<1>3. Remembered
  <2> DEFINE p == [n \in 1..0 |-> 1]
  <2>1. Len(life.restarts) = 0 /\ Len(history) = 0
    OBVIOUS
  <2>2. p \in [1..0 -> 1..0] /\ 1..0 = {}
    OBVIOUS
  <2>3. Remembers(p, life.restarts, history)
    BY <2>1, <2>2 DEF Remembers
  <2> QED
    BY <2>1, <2>2, <2>3 DEF Remembered
<1> QED
  BY <1>1, <1>2, <1>3 DEF IInv, FailedIsOff

(* What enter does to a life.                                              *)
Life == [state : {"Running", "Unhealthy", "Restarting", "Failed"},
         misses : 0..MaxMisses, restarts : Seq(Times)]

LEMMA EnterType ==
  ASSUME NEW l \in Life, NEW s \in {"Running", "Unhealthy", "Restarting", "Failed"}
  PROVE  /\ enter(l, s) \in Life /\ enter(l, s).restarts = l.restarts
         /\ enter(l, s).state \in {s, l.state}
<1> DEFINE n == IF s = "Running" THEN 0 ELSE l.misses
           e == [l EXCEPT !.state = s, !.misses = n]
<1>1. n \in 0..MaxMisses
  BY RestartPolicyAssumption DEF Life
<1>2. e \in Life /\ e.restarts = l.restarts /\ e.state = s
  <2> HIDE DEF n
  <2> QED
    BY <1>1 DEF Life
<1>3. enter(l, s) = e \/ enter(l, s) = l
  BY DEF enter
<1> HIDE DEF e
<1> QED
  BY <1>2, <1>3

LEMMA MissedType ==
  ASSUME life \in Life, life.misses < MaxMisses
  PROVE  /\ Missed \in Life /\ Missed.restarts = life.restarts
         /\ life.state = "Running" /\ AtLimit => Missed.state = "Unhealthy"
         /\ Missed.state = "Failed" => life.state = "Failed"
<1> DEFINE missed == [life EXCEPT !.misses = @ + 1]
<1>1. missed \in Life /\ missed.restarts = life.restarts /\ missed.state = life.state
  BY RestartPolicyAssumption DEF Life
<1>2. missed.misses = life.misses + 1
  BY DEF Life
<1>3. /\ enter(missed, "Unhealthy") \in Life
      /\ enter(missed, "Unhealthy").restarts = missed.restarts
  BY <1>1, EnterType
<1>4. Missed = IF missed.misses >= MissLimit /\ life.state = "Running"
                 THEN enter(missed, "Unhealthy") ELSE missed
  BY DEF Missed
<1>5. life.state = "Running" => enter(missed, "Unhealthy").state = "Unhealthy"
  BY <1>1 DEF enter, can_transition, is_terminal, Steps, LifecycleState, Life
<1> HIDE DEF missed
<1> QED
  BY <1>1, <1>2, <1>3, <1>4, <1>5 DEF AtLimit

(* Steps that leave the restarts and the history alone.                    *)
LEMMA SameHistory ==
  ASSUME IInv, history' = history, life'.restarts = life.restarts
  PROVE  /\ BudgetHolds'
         /\ Policy.window > 0 => Ascending' /\ Remembered'
         /\ Policy.window > 0 /\ Policy.max <= 22 => Spaced'
<1>1. (BudgetHolds' <=> BudgetHolds) /\ (Ascending' <=> Ascending) /\ (Spaced' <=> Spaced)
  BY DEF BudgetHolds, Ascending, Spaced
<1>2. Remembered' <=> Remembered
  BY DEF Remembered
<1> QED
  BY <1>1, <1>2 DEF IInv

LEMMA JustMissStep == ASSUME IInv, JustMiss PROVE IInv'
<1>1. life \in Life /\ life.misses < MaxMisses /\ desired /\ life.state # "Failed"
  BY DEF IInv, Types, Life, FailedIsOff, JustMiss, BadPoll
<1>2. /\ life' \in Life /\ life'.restarts = life.restarts /\ life'.state # "Failed"
  BY <1>1, MissedType DEF JustMiss
<1>3. /\ history' = history /\ desired' = desired /\ clock' = clock
      /\ back' = back /\ starts' = starts
  BY DEF JustMiss, BadPoll
<1>4. Types'
  BY <1>2, <1>3 DEF IInv, Types, Life
<1> QED
  BY <1>2, <1>3, <1>4, SameHistory DEF IInv, FailedIsOff

LEMMA GiveUpStep == ASSUME IInv, GiveUp PROVE IInv'
<1>1. life \in Life /\ life.misses < MaxMisses
  BY DEF IInv, Types, Life, GiveUp, BadPoll
<1>2. Missed \in Life /\ Missed.restarts = life.restarts
  BY <1>1, MissedType
<1>3. life' \in Life /\ life'.restarts = life.restarts
  BY <1>2, EnterType DEF GiveUp
<1>4. /\ history' = history /\ desired' = FALSE /\ clock' = clock
      /\ back' = back /\ starts' = starts
  BY DEF GiveUp, BadPoll
<1>5. Types'
  BY <1>3, <1>4 DEF IInv, Types, Life
<1> QED
  BY <1>3, <1>4, <1>5, SameHistory DEF IInv, FailedIsOff

LEMMA OperatorStartStep == ASSUME IInv, OperatorStart PROVE IInv'
<1> DEFINE fresh == [life EXCEPT !.misses = 0, !.restarts = <<>>]
<1>1. life \in Life
  BY DEF IInv, Types, Life
<1>2. fresh \in Life /\ fresh.restarts = <<>> /\ fresh.state = life.state
  <2>1. 0 \in 0..MaxMisses /\ <<>> \in Seq(Times)
    BY RestartPolicyAssumption
  <2> QED
    BY <1>1, <2>1 DEF Life
<1>3. life' = enter(fresh, "Running")
  BY DEF OperatorStart
<1> HIDE DEF fresh
<1>4. life' \in Life /\ life'.restarts = <<>> /\ life'.state \in {"Running", life.state}
  BY <1>2, <1>3, EnterType
<1>5. life.state = "Failed" => life'.state = "Running"
  BY <1>2, <1>3 DEF enter, can_transition, is_terminal, Steps, LifecycleState, Life
<1>6. /\ history' = <<>> /\ desired' = TRUE /\ clock' = clock
      /\ back' = back /\ starts' \in 0..MaxStarts
  BY RestartPolicyAssumption DEF OperatorStart, IInv, Types
<1>7. Types'
  BY <1>4, <1>6, RestartPolicyAssumption DEF IInv, Types, Life
<1>8. (BudgetHolds /\ Ascending /\ Spaced)'
  BY <1>6 DEF BudgetHolds, Ascending, Spaced
<1>9. Remembered'
  <2> DEFINE p == [n \in 1..0 |-> 1]
  <2>1. Len(life'.restarts) = 0 /\ Len(history') = 0
    BY <1>4, <1>6
  <2>2. p \in [1..0 -> 1..0] /\ 1..0 = {}
    OBVIOUS
  <2>3. Remembers(p, life'.restarts, history')
    BY <2>1, <2>2 DEF Remembers
  <2> QED
    BY <2>1, <2>2, <2>3 DEF Remembered
<1> QED
  BY <1>4, <1>5, <1>7, <1>8, <1>9 DEF IInv, FailedIsOff

LEMMA RestartStep == ASSUME IInv, Restart PROVE IInv'
<1> DEFINE r == life.restarts
           rec == Recent(Policy, r, clock)
           moved == enter(Missed, "Restarting")
           noted == [moved EXCEPT !.restarts = Append(rec, clock)]
<1>1. /\ life \in Life /\ life.misses < MaxMisses /\ desired /\ life.state # "Failed"
      /\ r \in Seq(Times) /\ history \in Seq(Times) /\ clock \in Times
  BY DEF IInv, Types, Life, FailedIsOff, Restart, BadPoll
<1>2. Missed \in Life /\ Missed.restarts = r /\ Missed.state # "Failed"
  BY <1>1, MissedType
<1>3. moved \in Life /\ moved.restarts = r /\ moved.state # "Failed"
  BY <1>2, EnterType
<1>4. rec \in Seq(Times) /\ restart_decision(Policy, r, clock) = "Restart"
  BY <1>1, RecentKeeps DEF Restart, Verdict
<1>5. Len(rec) < Policy.max /\ Len(rec) \in Nat
  BY <1>1, <1>4, DecidedInBudget
<1>6. Append(rec, clock) \in Seq(Times) /\ Len(Append(rec, clock)) <= Policy.max
  BY <1>1, <1>4, <1>5, RestartPolicyAssumption
<1>7. noted \in Life /\ noted.restarts = Append(rec, clock) /\ noted.state # "Failed"
  <2> HIDE DEF moved, rec
  <2> QED
    BY <1>3, <1>6 DEF Life
<1>8. PICK outcome \in {"Running", "Unhealthy"} : life' = enter(noted, outcome)
  <2>1. PICK outcome \in {"Running", "Unhealthy"} :
          life' = enter([moved EXCEPT !.restarts = record_restart(Policy, @, clock)], outcome)
    BY DEF Restart
  <2>2. [moved EXCEPT !.restarts = record_restart(Policy, @, clock)] = noted
    BY <1>3 DEF record_restart
  <2> QED
    BY <2>1, <2>2
<1> HIDE DEF noted, moved, rec
<1>9. life' \in Life /\ life'.restarts = Append(rec, clock) /\ life'.state # "Failed"
  BY <1>7, <1>8, EnterType
<1>10. /\ history' = Append(history, clock) /\ desired' = desired /\ clock' = clock
       /\ back' = back /\ starts' = starts
  BY DEF Restart, BadPoll
<1>11. Types' /\ FailedIsOff'
  <2>1. history' \in Seq(Times)
    BY <1>1, <1>10
  <2> QED
    BY <1>6, <1>9, <1>10, <2>1 DEF IInv, Types, Life, FailedIsOff
<1>12. CASE Policy.window > 0
  <2>1. AscendingIn(history) /\ \E p : Remembers(p, r, history)
    BY <1>12, AscendingIsIn DEF IInv, Remembered
  <2>2. PICK f : Sees(f, r, history, clock)
    BY <1>1, <1>4, <1>12, <2>1, RestartSees
  <2>3. AscendingIn(history') /\ \E p : Remembers(p, life'.restarts, history')
    BY <1>1, <1>9, <1>10, <2>1, <2>2, RestartRemembers DEF rec
  <2>4. Len(history') = Len(history) + 1
    BY <1>1, <1>10
  <2>5. BudgetHolds'
    <3>1. \A k \in 1..Len(history) : Cardinality(InWindow(history, k)) <= Policy.max
      BY BudgetIn DEF IInv
    <3>2. \A k \in 1..(Len(history) + 1) :
            Cardinality(InWindow(Append(history, clock), k)) <= Policy.max
      BY <1>1, <2>2, <3>1, RestartInBudget
    <3> QED
      BY <1>10, <2>4, <3>2 DEF BudgetHolds, InWindow
  <2>6. ASSUME Policy.max <= 22 PROVE Spaced'
    <3>1. \A k \in 2..Len(history) : SpacedAt(history, k)
      BY <1>12, <2>6, SpacedIn DEF IInv
    <3>2. \A k \in 2..(Len(history) + 1) : SpacedAt(Append(history, clock), k)
      BY <1>1, <2>2, <2>6, <3>1, RestartIsSpaced
    <3> QED
      BY <1>10, <2>4, <3>2 DEF Spaced, SpacedAt, Before
  <2>7. Ascending'
    BY <2>3 DEF Ascending, AscendingIn
  <2>8. Remembered'
    BY <2>3 DEF Remembered, Remembers
  <2> QED
    BY <1>11, <2>5, <2>6, <2>7, <2>8 DEF IInv
<1>13. CASE ~(Policy.window > 0)
  <2>1. Policy.window = 0 /\ Policy.max \in Nat
    BY <1>13, RestartPolicyAssumption
  <2>2. history' \in Seq(Times) /\ \A k \in 1..Len(history') : history'[k] \in Nat
    BY <1>11, RestartPolicyAssumption DEF Types, Times
  <2>3. \A k \in 1..Len(history') : InWindow(history', k) = {}
    BY <2>1, <2>2 DEF InWindow
  <2>4. BudgetHolds'
    BY <2>1, <2>3, FS_EmptySet DEF BudgetHolds, InWindow
  <2> QED
    BY <1>11, <1>13, <2>4 DEF IInv
<1> QED
  BY <1>12, <1>13

LEMMA NextIInv == IInv /\ [Next]_vars => IInv'
<1> SUFFICES ASSUME IInv, [Next]_vars PROVE IInv'
  OBVIOUS
<1>1. ASSUME Tick \/ StepBack \/ UNCHANGED vars PROVE IInv'
  <2>1. /\ history' = history /\ life' = life /\ desired' = desired /\ clock' \in Times
        /\ back' \in 0..MaxBack /\ starts' = starts
    <3>1. clock \in Times /\ back \in 0..MaxBack
      BY DEF IInv, Types
    <3>2. CASE Tick
      BY <3>1, <3>2, RestartPolicyAssumption DEF Tick, Times
    <3>3. CASE StepBack
      BY <3>1, <3>3, RestartPolicyAssumption DEF StepBack, Times
    <3>4. CASE UNCHANGED vars
      BY <3>1, <3>4 DEF vars
    <3> QED
      BY <1>1, <3>2, <3>3, <3>4
  <2>2. Types'
    BY <2>1 DEF IInv, Types
  <2> QED
    BY <2>1, <2>2, SameHistory DEF IInv, FailedIsOff
<1> QED
  BY <1>1, JustMissStep, GiveUpStep, RestartStep, OperatorStartStep DEF Next

(* The inductive invariant holds in every state.                           *)
LEMMA Invariance == Spec => []IInv
<1>1. Init => IInv
  BY InitIInv
<1>2. IInv /\ [Next]_vars => IInv'
  BY NextIInv
<1> QED
  BY <1>1, <1>2, PTL DEF Spec

-----------------------------------------------------------------------------
(* Type correctness: what InstanceLife remembers never exceeds the budget. *)
THEOREM TypeCorrect == Spec => []TypeOK
<1>1. IInv => TypeOK
  BY DEF IInv, Types, TypeOK
<1> QED
  BY <1>1, Invariance, PTL

(* "At most max_restarts inside window_ms", for every policy, however the  *)
(* clock is stepped and although old restarts are forgotten.               *)
THEOREM BudgetIsKept == Spec => []BudgetHolds
<1>1. IInv => BudgetHolds
  BY DEF IInv
<1> QED
  BY <1>1, Invariance, PTL

(* Restarts are recorded in ascending order even when the clock is stepped *)
(* back, for every window that is not empty.                               *)
THEOREM RestartsAscend ==
  ASSUME Policy.window > 0
  PROVE  Spec => []Ascending
<1>1. IInv => Ascending
  BY DEF IInv
<1> QED
  BY <1>1, Invariance, PTL

(* Restarts are spaced by the doubling backoff, for every policy whose     *)
(* budget does not reach the 20 doublings at which the code stops.         *)
THEOREM RestartsAreSpaced ==
  ASSUME Policy.window > 0, Policy.max <= 22
  PROVE  Spec => []Spaced
<1>1. IInv => Spaced
  BY DEF IInv
<1> QED
  BY <1>1, Invariance, PTL

(* Failed is left by an explicit start only.                               *)
THEOREM FailedHeld == Spec => FailedIsHeld
<1>1. IInv /\ [Next]_vars =>
        [life.state = "Failed" /\ life'.state # "Failed" => starts' # starts]_vars
  <2> SUFFICES ASSUME IInv, Next, life.state = "Failed", life'.state # "Failed"
               PROVE  starts' # starts
    BY DEF vars
  <2>1. ~desired
    BY DEF IInv, FailedIsOff
  <2>2. starts \in Nat
    BY RestartPolicyAssumption DEF IInv, Types
  <2>3. OperatorStart
    BY <2>1 DEF Next, Tick, StepBack, JustMiss, GiveUp, Restart, BadPoll
  <2> QED
    BY <2>2, <2>3 DEF OperatorStart
<1> QED
  BY <1>1, Invariance, PTL DEF Spec, FailedIsHeld
=============================================================================
