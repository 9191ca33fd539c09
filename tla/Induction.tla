------------------------------ MODULE Induction ------------------------------
(***************************************************************************)
(* Induction and recursion over the numbers up to some n, for the proofs   *)
(* about what loops and recursive functions compute.  The sets and         *)
(* functions involved are parameters, so the lemmas can be used for any    *)
(* property: that of being in the set.                                     *)
(***************************************************************************)
EXTENDS Integers, Sequences, WellFoundedInduction, TLAPS

\* A set of numbers has a least one.
LEMMA LeastNumber ==
    ASSUME NEW T \in SUBSET Nat, T # {}
    PROVE  \E m \in T : \A n \in T : m <= n
<1> DEFINE R == OpToRel(<, Nat)
<1>1. IsWellFoundedOn(R, Nat)
  BY NatLessThanWellFounded
<1>2. \A m, n \in Nat : m < n => <<m, n>> \in R
  BY DEF OpToRel
<1> HIDE DEF R
<1>3. \E m \in T : \A n \in T : ~ (<<n, m>> \in R)
  BY <1>1, WFMin
<1>4. PICK m \in T : \A n \in T : ~ (<<n, m>> \in R)
  BY <1>3, Zenon
<1>5. \A n \in T : ~ (n < m)
  BY <1>2, <1>4, Zenon
<1> QED
  BY <1>5

\* A set of numbers none of which is above n has a greatest one.
LEMMA GreatestNumber ==
    ASSUME NEW n \in Nat, NEW T \in SUBSET (0 .. n), T # {}
    PROVE  \E m \in T : \A k \in T : k <= m
<1> DEFINE U == {n - k : k \in T}
<1>1. U \in SUBSET Nat /\ U # {}
  <2>1. \A k \in T : n - k \in Nat
    OBVIOUS
  <2>2. PICK k \in T : TRUE
    OBVIOUS
  <2> QED BY <2>1, <2>2, Zenon
<1>2. \A k \in T : n - k \in U
  OBVIOUS
<1>3. \A u \in U : \E k \in T : u = n - k
  OBVIOUS
<1> HIDE DEF U
<1>4. PICK u \in U : \A v \in U : u <= v
  BY <1>1, LeastNumber
<1>5. PICK m \in T : u = n - m
  BY <1>3
<1>6. \A k \in T : k <= m
  <2> TAKE k \in T
  <2>1. n - m <= n - k
    BY <1>2, <1>4, <1>5
  <2> QED BY <2>1
<1> QED
  BY <1>6

\* What holds of 0 and goes from k - 1 to k holds up to n.
LEMMA UpTo ==
    ASSUME NEW n \in Nat, NEW G, 0 \in G,
           \A k \in 1 .. n : k - 1 \in G => k \in G
    PROVE  \A k \in 0 .. n : k \in G
<1> SUFFICES ASSUME NEW k \in 0 .. n, k \notin G
             PROVE  FALSE
  OBVIOUS
<1> DEFINE T == {i \in 0 .. n : i \notin G}
<1>1. T \in SUBSET Nat /\ k \in T
  OBVIOUS
<1>2. PICK m \in T : \A i \in T : m <= i
  BY <1>1, LeastNumber
<1>3. m \in 1 .. n /\ m - 1 \notin T /\ m - 1 \in 0 .. n
  BY <1>2
<1> QED
  BY <1>2, <1>3

\* A function that is defined by its value at 0 and by that at k from that at
\* k - 1 exists.
LEMMA Iterated ==
    ASSUME NEW S, NEW base \in S, NEW n \in Nat, NEW step \in [1 .. n -> [S -> S]]
    PROVE  \E f \in [0 .. n -> S] :
             f[0] = base /\ \A k \in 1 .. n : f[k] = step[k][f[k - 1]]
<1> DEFINE Steps(m, f) ==
             /\ f \in [0 .. m -> S]
             /\ f[0] = base /\ \A k \in 1 .. m : f[k] = step[k][f[k - 1]]
           G == {m \in 0 .. n : \E f : Steps(m, f)}
<1>1. 0 \in G
  <2>1. Steps(0, [k \in 0 .. 0 |-> base])
    OBVIOUS
  <2> HIDE DEF Steps
  <2> QED BY <2>1
<1>2. \A m \in 1 .. n : m - 1 \in G => m \in G
  <2> SUFFICES ASSUME NEW m \in 1 .. n, m - 1 \in G
               PROVE  \E f : Steps(m, f)
    <3> HIDE DEF Steps
    <3> QED OBVIOUS
  <2>1. PICK f : Steps(m - 1, f)
    OBVIOUS
  <2> DEFINE g == [k \in 0 .. m |-> IF k = m THEN step[m][f[m - 1]] ELSE f[k]]
  <2>2. \A k \in 0 .. m - 1 : f[k] \in S
    BY <2>1
  <2>3. step[m] \in [S -> S] /\ f[m - 1] \in S
    BY <2>2
  <2>4. g \in [0 .. m -> S]
    BY <2>2, <2>3
  <2>5. \A k \in 1 .. m : g[k] = step[k][g[k - 1]]
    BY <2>1
  <2>6. g[0] = base
    BY <2>1
  <2> HIDE DEF g
  <2>7. Steps(m, g)
    BY <2>4, <2>5, <2>6
  <2> QED BY <2>7
<1> HIDE DEF G
<1>3. \A k \in 0 .. n : k \in G
  BY <1>1, <1>2, UpTo
<1>4. n \in G
  BY <1>3
<1>5. \E f : Steps(n, f)
  BY <1>4 DEF G
<1> QED
  BY <1>5

\* Induction over a sequence, one element after another.
LEMMA Grown ==
    ASSUME NEW E, NEW G, <<>> \in G, \A m \in Seq(E), b \in E : m \in G => Append(m, b) \in G
    PROVE  \A m \in Seq(E) : m \in G
<1> SUFFICES ASSUME NEW m \in Seq(E)
             PROVE  m \in G
  OBVIOUS
<1> DEFINE n == Len(m)
           H == {k \in 0 .. n : SubSeq(m, 1, k) \in G}
<1>1. n \in Nat /\ DOMAIN m = 1 .. n /\ SubSeq(m, 1, 0) = <<>> /\ SubSeq(m, 1, n) = m
  OBVIOUS
<1>2. 0 \in H
  <2> DEFINE s == SubSeq(m, 1, 0)
  <2>1. s = <<>> /\ 0 \in 0 .. n
    BY <1>1
  <2> HIDE DEF s, n
  <2>2. s \in G
    BY <2>1
  <2> QED BY <2>1, <2>2 DEF s
<1>3. ASSUME NEW k \in 1 .. n, k - 1 \in H
      PROVE  k \in H
  <2> DEFINE s == SubSeq(m, 1, k - 1)
  <2>1. s \in Seq(E) /\ m[k] \in E /\ SubSeq(m, 1, k) = Append(s, m[k])
    <3>1. s \in Seq(E) /\ Len(s) = k - 1 /\ \A i \in 1 .. k - 1 : s[i] = m[i]
      BY <1>1
    <3>2. SubSeq(m, 1, k) \in Seq(E) /\ Len(SubSeq(m, 1, k)) = k
          /\ \A i \in 1 .. k : SubSeq(m, 1, k)[i] = m[i]
      BY <1>1
    <3> DEFINE t == SubSeq(m, 1, k)
    <3> HIDE DEF s, t
    <3>3. m[k] \in E
      BY <1>1
    <3>4. Append(s, m[k]) \in Seq(E) /\ Len(Append(s, m[k])) = k
          /\ \A i \in 1 .. k : Append(s, m[k])[i] = m[i]
      BY <3>1, <3>3
    <3>5. t = Append(s, m[k])
      BY <3>2, <3>4 DEF t
    <3> QED BY <3>1, <3>3, <3>5 DEF t
  <2>2. s \in G /\ k \in 0 .. n
    BY <1>3
  <2> HIDE DEF s
  <2> QED BY <2>1, <2>2
<1> HIDE DEF H
<1>4. \A k \in 0 .. n : k \in H
  BY <1>1, <1>2, <1>3, UpTo
<1>5. n \in H
  BY <1>1, <1>4
<1> QED BY <1>1, <1>5 DEF H

\* What a fold from the left computes on the way: a value for every set of the
\* indices, got from its greatest one and the value for the others, as far as
\* these are in S.
Folds(f, n, S, base, step) ==
    /\ f[{}] = base
    /\ \A s \in SUBSET (1 .. n) : \A m \in s :
         (\A k \in s : k <= m) /\ f[s \ {m}] \in S => f[s] = step[m][f[s \ {m}]]

LEMMA FoldExists ==
    ASSUME NEW S, NEW base \in S, NEW n \in Nat, NEW step \in [1 .. n -> [S -> S]]
    PROVE  \E f \in [SUBSET (1 .. n) -> S] : Folds(f, n, S, base, step)
<1> DEFINE Good(k, f) == f \in [SUBSET (1 .. k) -> S] /\ Folds(f, k, S, base, step)
           G == {k \in 0 .. n : \E f : Good(k, f)}
<1>1. 0 \in G
  <2> DEFINE f == [s \in SUBSET (1 .. 0) |-> base]
  <2>1. Good(0, f)
    BY DEF Folds
  <2> HIDE DEF Good, f
  <2> QED BY <2>1
<1>2. ASSUME NEW k \in 1 .. n, k - 1 \in G
      PROVE  k \in G
  <2>1. PICK f : Good(k - 1, f)
    BY <1>2
  <2> DEFINE g == [s \in SUBSET (1 .. k) |-> IF k \in s THEN step[k][f[s \ {k}]] ELSE f[s]]
  <2>2. \A s \in SUBSET (1 .. k) : s \ {k} \in SUBSET (1 .. k - 1)
    OBVIOUS
  <2>3. \A s \in SUBSET (1 .. k - 1) : f[s] \in S
    BY <2>1
  <2>4. step[k] \in [S -> S]
    OBVIOUS
  <2>5. g \in [SUBSET (1 .. k) -> S]
    <3> SUFFICES ASSUME NEW s \in SUBSET (1 .. k)
                 PROVE  g[s] \in S
      OBVIOUS
    <3>1. f[s \ {k}] \in S
      BY <2>2, <2>3
    <3>2. k \notin s => s \ {k} = s
      OBVIOUS
    <3> QED BY <3>1, <3>2, <2>4
  <2>6. g[{}] = base
    BY <2>1 DEF Folds
  <2>7. ASSUME NEW s \in SUBSET (1 .. k), NEW m \in s, \A j \in s : j <= m
        PROVE  g[s] = step[m][g[s \ {m}]]
    <3>1. CASE m = k
      <4>1. k \notin s \ {k} /\ s \ {k} \in SUBSET (1 .. k)
        OBVIOUS
      <4>2. g[s \ {k}] = f[s \ {k}]
        BY <4>1
      <4> QED BY <3>1, <4>2
    <3>2. CASE m # k
      <4>1. k \notin s
        BY <2>7, <3>2
      <4>2. s \in SUBSET (1 .. k - 1) /\ s \ {m} \in SUBSET (1 .. k)
        BY <4>1
      <4>3. f[s] = step[m][f[s \ {m}]]
        <5>1. s \ {m} \in SUBSET (1 .. k - 1)
          BY <4>2
        <5> QED BY <2>1, <2>3, <2>7, <4>2, <5>1 DEF Folds
      <4> QED BY <4>1, <4>2, <4>3
    <3> QED BY <3>1, <3>2
  <2> HIDE DEF g
  <2>8. Good(k, g)
    BY <2>5, <2>6, <2>7 DEF Folds
  <2> HIDE DEF Good
  <2> QED BY <2>8
<1> HIDE DEF G
<1>3. \A k \in 0 .. n : k \in G
  BY <1>1, <1>2, UpTo
<1>4. n \in G
  BY <1>3
<1> QED BY <1>4 DEF G

\* mx finds the greatest number of a set.
Greatest(mx, n) == \A s \in SUBSET (1 .. n) : s # {} => mx[s] \in s /\ \A k \in s : k <= mx[s]

\* f is made by the recursion of a fold, which takes the greatest index first.
Recurs(f, n, S, base, step, mx) ==
    /\ f[{}] = base
    /\ \A s \in SUBSET (1 .. n) :
         s # {} /\ f[s \ {mx[s]}] \in S => f[s] = step[mx[s]][f[s \ {mx[s]}]]

LEMMA GreatestIs ==
    ASSUME NEW n \in Nat, NEW mx, Greatest(mx, n), NEW s \in SUBSET (1 .. n), NEW m \in s,
           \A k \in s : k <= m
    PROVE  m = mx[s]
<1>1. mx[s] \in s /\ m <= mx[s] /\ mx[s] <= m
  BY DEF Greatest
<1> DEFINE x == mx[s]
<1>2. x \in Int /\ m \in Int
  BY <1>1
<1> HIDE DEF x
<1> QED BY <1>1, <1>2 DEF x

\* The greatest of the numbers of a set, as Max of the community modules finds
\* it, is what a fold looks for.
GreatestOf(s) == CHOOSE x \in s : \A y \in s : x >= y
Greatests(n) == [s \in SUBSET (1 .. n) |-> GreatestOf(s)]

LEMMA GreatestsAre == ASSUME NEW n \in Nat PROVE Greatest(Greatests(n), n)
<1>1. ASSUME NEW s \in SUBSET (1 .. n), s # {}
      PROVE  GreatestOf(s) \in s /\ \A k \in s : k <= GreatestOf(s)
  <2>1. s \in SUBSET (0 .. n) /\ \A k \in s : k \in Int
    OBVIOUS
  <2>2. \E m \in s : \A k \in s : m >= k
    BY <1>1, <2>1, GreatestNumber
  <2> DEFINE m == GreatestOf(s)
  <2>3. m \in s /\ \A k \in s : m >= k
    BY <2>2 DEF GreatestOf
  <2> HIDE DEF m
  <2>4. \A k \in s : k <= m
    BY <2>1, <2>3
  <2> QED BY <2>3, <2>4 DEF m
<1> QED BY <1>1 DEF Greatest, Greatests

\* Such a recursion has a result: the function is defined.
LEMMA FoldDefined ==
    ASSUME NEW S, NEW base \in S, NEW n \in Nat, NEW step \in [1 .. n -> [S -> S]],
           NEW mx, Greatest(mx, n)
    PROVE  \E f \in [SUBSET (1 .. n) -> S] : Recurs(f, n, S, base, step, mx)
<1>1. PICK f \in [SUBSET (1 .. n) -> S] : Folds(f, n, S, base, step)
  BY FoldExists
<1>2. ASSUME NEW s \in SUBSET (1 .. n), s # {}, f[s \ {mx[s]}] \in S
      PROVE  f[s] = step[mx[s]][f[s \ {mx[s]}]]
  <2>1. mx[s] \in s /\ \A k \in s : k <= mx[s]
    BY <1>2 DEF Greatest
  <2> QED BY <1>1, <1>2, <2>1 DEF Folds
<1> QED BY <1>1, <1>2 DEF Recurs, Folds

\* And it is the one got by going from the first index to the last.
LEMMA FoldRuns ==
    ASSUME NEW S, NEW base \in S, NEW n \in Nat, NEW step \in [1 .. n -> [S -> S]],
           NEW mx, Greatest(mx, n), NEW f, Recurs(f, n, S, base, step, mx)
    PROVE  \E r \in [0 .. n -> S] :
             r[0] = base /\ f[1 .. n] = r[n] /\ \A k \in 1 .. n : r[k] = step[k][r[k - 1]]
<1>1. PICK r \in [0 .. n -> S] : r[0] = base /\ \A k \in 1 .. n : r[k] = step[k][r[k - 1]]
  BY Iterated
<1> DEFINE G == {k \in 0 .. n : f[1 .. k] = r[k]}
<1>2. 0 \in G
  <2>1. 1 .. 0 = {}
    OBVIOUS
  <2> QED BY <1>1, <2>1 DEF Recurs
<1>3. ASSUME NEW k \in 1 .. n, k - 1 \in G
      PROVE  k \in G
  <2>1. (1 .. k) \in SUBSET (1 .. n) /\ k \in 1 .. k /\ (1 .. k) \ {k} = 1 .. k - 1
    OBVIOUS
  <2>2. \A j \in 1 .. k : j <= k
    OBVIOUS
  <2>3. f[1 .. k - 1] = r[k - 1] /\ r[k - 1] \in S
    BY <1>3
  <2>4. f[1 .. k] = step[k][f[1 .. k - 1]]
    <3> DEFINE s == 1 .. k
    <3>1. s \in SUBSET (1 .. n) /\ k \in s /\ s \ {k} = 1 .. k - 1 /\ s # {}
      BY <2>1
    <3>2. k = mx[s]
      <4> HIDE DEF s
      <4> QED BY <3>1, <2>2, GreatestIs DEF s
    <3> HIDE DEF s
    <3>3. f[s] = step[k][f[s \ {k}]]
      BY <2>3, <3>1, <3>2 DEF Recurs
    <3> QED BY <3>1, <3>3 DEF s
  <2> QED BY <1>1, <2>3, <2>4
<1> HIDE DEF G
<1>4. \A k \in 0 .. n : k \in G
  BY <1>2, <1>3, UpTo
<1>5. n \in G
  BY <1>4
<1> QED BY <1>1, <1>5 DEF G

\* The same with one name for what is assumed and one for what is found.
Folding(n, S, base, step, mx) ==
    /\ n \in Nat /\ base \in S
    /\ step \in [1 .. n -> [S -> S]] /\ Greatest(mx, n)

Runs(r, f, n, S, base, step) ==
    /\ r \in [0 .. n -> S]
    /\ r[0] = base /\ f[1 .. n] = r[n] /\ \A k \in 1 .. n : r[k] = step[k][r[k - 1]]

LEMMA FoldRun ==
    ASSUME NEW S, NEW base, NEW n, NEW step, NEW mx, NEW f,
           Folding(n, S, base, step, mx), Recurs(f, n, S, base, step, mx)
    PROVE  \E r : Runs(r, f, n, S, base, step)
<1>1. n \in Nat /\ base \in S /\ step \in [1 .. n -> [S -> S]] /\ Greatest(mx, n)
  BY DEF Folding
<1>2. PICK r \in [0 .. n -> S] :
        r[0] = base /\ f[1 .. n] = r[n] /\ \A k \in 1 .. n : r[k] = step[k][r[k - 1]]
  BY <1>1, FoldRuns
<1> QED BY <1>2 DEF Runs

\* The members of T in a sequence, in their order: h says where they were.
Selection(r, q, n, T, h) ==
    /\ h \in [1 .. Len(r) -> 1 .. n]
    /\ \A i \in 1 .. Len(r) : r[i] = q[h[i]] /\ q[h[i]] \in T
    /\ \A i, j \in 1 .. Len(r) : i < j => h[i] < h[j]
    /\ \A k \in 1 .. n : q[k] \in T => \E i \in 1 .. Len(r) : h[i] = k

LEMMA Selected ==
    ASSUME NEW E, NEW q \in Seq(E), NEW T, NEW r \in [0 .. Len(q) -> Seq(E)], r[0] = <<>>,
           \A k \in 1 .. Len(q) : r[k] = IF q[k] \in T THEN Append(r[k - 1], q[k]) ELSE r[k - 1]
    PROVE  \E h : Selection(r[Len(q)], q, Len(q), T, h)
<1> DEFINE G == {k \in 0 .. Len(q) : \E h : Selection(r[k], q, k, T, h)}
<1>1. 0 \in G
  <2> DEFINE h == [i \in 1 .. 0 |-> i]
  <2>1. Selection(r[0], q, 0, T, h)
    BY DEF Selection
  <2> HIDE DEF h
  <2> QED BY <2>1
<1>2. ASSUME NEW k \in 1 .. Len(q), k - 1 \in G
      PROVE  k \in G
  <2> DEFINE p == r[k - 1]
             m == Len(p)
  <2>0. p \in Seq(E) /\ m \in Nat /\ k - 1 \in 0 .. Len(q) /\ k \in Nat
    OBVIOUS
  <2>1. PICK h : Selection(p, q, k - 1, T, h)
    BY <1>2
  <2>2. /\ h \in [1 .. m -> 1 .. k - 1]
        /\ \A i \in 1 .. m : p[i] = q[h[i]] /\ q[h[i]] \in T
        /\ \A i, j \in 1 .. m : i < j => h[i] < h[j]
        /\ \A x \in 1 .. k - 1 : q[x] \in T => \E i \in 1 .. m : h[i] = x
    BY <2>1 DEF Selection
  <2>3. CASE q[k] \notin T
    <3>1. r[k] = p
      BY <2>3
    <3>2. h \in [1 .. m -> 1 .. k]
      BY <2>0, <2>2
    <3>3. \A x \in 1 .. k : x = k \/ x \in 1 .. k - 1
      BY <2>0
    <3> HIDE DEF p
    <3>4. Selection(r[k], q, k, T, h)
      BY <2>2, <2>3, <3>1, <3>2, <3>3 DEF Selection
    <3> QED BY <3>4
  <2>4. CASE q[k] \in T
    <3> DEFINE g == [i \in 1 .. m + 1 |-> IF i = m + 1 THEN k ELSE h[i]]
               a == r[k]
    <3>1. a = Append(p, q[k])
      BY <2>4
    <3>2. q[k] \in E
      OBVIOUS
    <3> HIDE DEF p, a
    <3>3. Len(a) = m + 1 /\ a[m + 1] = q[k] /\ \A i \in 1 .. m : a[i] = p[i]
      BY <2>0, <3>1, <3>2
    <3>4. /\ g[m + 1] = k /\ \A i \in 1 .. m : g[i] = h[i]
          /\ \A i \in 1 .. m + 1 : i = m + 1 \/ i \in 1 .. m
      BY <2>0
    <3>5. \A i \in 1 .. m : h[i] \in 1 .. k - 1
      BY <2>2
    <3>6. g \in [1 .. Len(a) -> 1 .. k]
      BY <2>0, <3>3, <3>5
    <3> HIDE DEF g
    <3> HIDE DEF m
    <3>7. \A i \in 1 .. Len(a) : a[i] = q[g[i]] /\ q[g[i]] \in T
      BY <2>2, <2>4, <3>3, <3>4
    <3>8. ASSUME NEW i \in 1 .. Len(a), NEW j \in 1 .. Len(a), i < j
          PROVE  g[i] < g[j]
      <4>1. i \in 1 .. m
        BY <2>0, <3>3, <3>8
      <4>2. g[i] = h[i] /\ h[i] \in 1 .. k - 1
        BY <3>4, <3>5, <4>1
      <4>3. CASE j = m + 1
        BY <2>0, <3>4, <4>2, <4>3
      <4>4. CASE j \in 1 .. m
        BY <2>2, <3>4, <3>8, <4>1, <4>4
      <4> QED BY <3>3, <3>4, <4>3, <4>4
    <3>9. ASSUME NEW x \in 1 .. k, q[x] \in T
          PROVE  \E i \in 1 .. Len(a) : g[i] = x
      <4>1. m + 1 \in 1 .. Len(a) /\ \A i \in 1 .. m : i \in 1 .. Len(a)
        BY <2>0, <3>3
      <4>2. CASE x = k
        BY <3>4, <4>1, <4>2
      <4>3. CASE x # k
        <5>1. x \in 1 .. k - 1
          BY <2>0, <4>3
        <5>2. PICK i \in 1 .. m : h[i] = x
          BY <2>2, <3>9, <5>1
        <5> QED BY <3>4, <4>1, <5>2
      <4> QED BY <4>2, <4>3
    <3>10. Selection(a, q, k, T, g)
      BY <3>6, <3>7, <3>8, <3>9 DEF Selection
    <3> QED BY <3>10 DEF a
  <2> QED BY <2>3, <2>4
<1> HIDE DEF G
<1>3. Len(q) \in Nat
  OBVIOUS
<1>4. \A k \in 0 .. Len(q) : k \in G
  BY <1>1, <1>2, <1>3, UpTo
<1>5. Len(q) \in G
  BY <1>3, <1>4
<1> QED BY <1>5 DEF G

----------------------------------------------------------------------------
(* Remainders *)

\* Every number has a quotient and a remainder.
LEMMA Divided ==
    ASSUME NEW size \in Nat \ {0}, NEW a \in Nat
    PROVE  \E q \in Nat, r \in 0 .. size - 1 : a = size * q + r
<1> DEFINE G == {k \in Nat : \E q \in Nat, r \in 0 .. size - 1 : k = size * q + r}
<1>1. 0 \in G
  <2>1. 0 = size * 0 + 0 /\ 0 \in 0 .. size - 1
    OBVIOUS
  <2> QED BY <2>1
<1>2. ASSUME NEW k \in 1 .. a, k - 1 \in G
      PROVE  k \in G
  <2>1. PICK q \in Nat, r \in 0 .. size - 1 : k - 1 = size * q + r
    BY <1>2
  <2>2. CASE r < size - 1
    <3>1. k = size * q + (r + 1) /\ r + 1 \in 0 .. size - 1
      BY <2>1, <2>2
    <3> QED BY <3>1
  <2>3. CASE r = size - 1
    <3>1. size * (q + 1) = size * q + size
      OBVIOUS
    <3>2. k = size * (q + 1) + 0 /\ 0 \in 0 .. size - 1 /\ q + 1 \in Nat
      BY <2>1, <2>3, <3>1
    <3> QED BY <3>2
  <2> QED BY <2>2, <2>3
<1> HIDE DEF G
<1>3. \A k \in 0 .. a : k \in G
  BY <1>1, <1>2, UpTo
<1>4. a \in G
  BY <1>3
<1> QED BY <1>4 DEF G

\* Counting on from any number one comes by every remainder.
LEMMA Around ==
    ASSUME NEW size \in Nat \ {0}, NEW a \in Nat, NEW j \in 0 .. size - 1
    PROVE  \E n \in 0 .. size - 1 : (a + n) % size = j
<1>1. PICK q \in Nat, r \in 0 .. size - 1 : a = size * q + r
  BY Divided
<1>2. \A p \in Nat : (size * p + j) % size = j
  OBVIOUS
<1>3. CASE r <= j
  <2>1. j - r \in 0 .. size - 1 /\ a + (j - r) = size * q + j
    BY <1>1, <1>3
  <2> QED BY <1>2, <2>1
<1>4. CASE j < r
  <2>1. size * (q + 1) = size * q + size /\ q + 1 \in Nat
    OBVIOUS
  <2>2. j - r + size \in 0 .. size - 1 /\ a + (j - r + size) = size * (q + 1) + j
    BY <1>1, <1>4, <2>1
  <2> QED BY <1>2, <2>1, <2>2
<1> QED BY <1>3, <1>4

\* A remainder is less than what it is left by.
LEMMA Remainder ==
    ASSUME NEW size \in Nat \ {0}, NEW a \in Nat
    PROVE  a % size \in 0 .. size - 1
  OBVIOUS

=============================================================================
