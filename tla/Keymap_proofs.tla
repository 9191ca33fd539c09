---------------------------- MODULE Keymap_proofs ---------------------------
(***************************************************************************)
(* Proofs about the bindings of a keymap (Keymap, one of the parts of Ui), *)
(* for any contexts, commands, strokes and profiles.                       *)
(*                                                                         *)
(* Every operator keeps the bindings of a keymap apart or fails: binding   *)
(* one key (BindKeeps), a list (BindAllKeeps), a table of a profile        *)
(* (LayeredKeeps) and a whole profile (ReadKeeps), each a fold over those  *)
(* before, by induction (Induction); so do taking out (KeptKeeps) and      *)
(* joining (JoinKeeps), of which an edit is made (ReplaceKeeps). KeymapInv *)
(* adds that the profile can be read, which a save keeps by reading it     *)
(* back.                                                                   *)
(*                                                                         *)
(* That a save finds what it wrote (RefusalsHaveACause) needs what reading *)
(* makes, not only that it keeps bindings apart.  First what a fold does   *)
(* to a part of a keymap (KeptJoin, BindAllSkips, BindAllAlike), then what *)
(* is read in one context (Reading) and where each binding of it is from   *)
(* (Sources), and when reading cannot fail (ReadFits).  What is written    *)
(* the keymap holds, so it can be read (SavedReads); a command has its     *)
(* keys again, in their order, from a list if it changed (ChangedSaved)    *)
(* and from what they came from before if it did not: those bindings,      *)
(* Tied, are bound alike by the old profile and the new (TiedBound).       *)
(***************************************************************************)
EXTENDS Ui, Induction, SequenceTheorems, FiniteSetTheorems, TLAPS

----------------------------------------------------------------------------
(* The keymap *)

\* The keymaps with at most one meaning for what is typed.
Maps == {m \in Seq(Keys!Bindings) : Keys!Apart(m)}

\* What reading and binding may give.
Outcomes == Maps \cup {Failed}

\* Either of two bindings that overlap may come first.
LEMMA OverlapIsMutual == \A a, b : Keys!Overlaps(a, b) <=> Keys!Overlaps(b, a)
  BY DEF Keys!Overlaps

\* nav_keymap_bind keeps the bindings apart: it refuses a binding that would not be,
\* and puts one of the same strokes in the place of the old one.
LEMMA BindKeeps ==
    ASSUME NEW m \in Outcomes, NEW b \in Keys!Bindings
    PROVE  Keys!Bind(m, b) \in Outcomes
<1>1. CASE m = Failed
  BY <1>1 DEF Keys!Bind, Outcomes
<1>2. CASE m # Failed
  <2> DEFINE same == {i \in DOMAIN m : Keys!Overlaps(m[i], b)}
             replaced == [i \in DOMAIN m |-> IF i \in same THEN b ELSE m[i]]
  <2>1. m \in Seq(Keys!Bindings) /\ Keys!Apart(m) /\ DOMAIN m = 1 .. Len(m)
    BY <1>2 DEF Outcomes, Maps
  <2>2. \/ Keys!Bind(m, b) = Failed
        \/ (\A i \in same : m[i].keys = b.keys) /\ Keys!Bind(m, b) = replaced
        \/ same = {} /\ Keys!Bind(m, b) = Append(m, b)
    BY <1>2 DEF Keys!Bind
  <2>3. ASSUME \A i \in same : m[i].keys = b.keys
        PROVE  replaced \in Maps
    <3>1. replaced \in Seq(Keys!Bindings) /\ DOMAIN replaced = DOMAIN m
      <4>1. \A i \in 1 .. Len(m) : replaced[i] \in Keys!Bindings
        BY <2>1
      <4> QED BY <2>1, <4>1
    <3>2. ASSUME NEW i \in DOMAIN m, NEW j \in DOMAIN m, i # j
          PROVE  ~Keys!Overlaps(replaced[i], replaced[j])
      <4>1. ~Keys!Overlaps(m[i], m[j])
        BY <2>1, <3>2 DEF Keys!Apart
      <4>2. CASE i \in same /\ j \in same
        <5>1. m[i].keys = b.keys /\ m[j].keys = b.keys
          BY <2>3, <4>2
        <5>2. Keys!Overlaps(m[i], b) /\ Keys!Overlaps(m[j], b)
          BY <4>2
        <5> QED BY <4>1, <5>1, <5>2 DEF Keys!Overlaps
      <4>3. CASE i \in same /\ j \notin same
        BY <4>3, OverlapIsMutual
      <4>4. CASE i \notin same
        BY <4>1, <4>4
      <4> QED BY <4>2, <4>3, <4>4
    <3> HIDE DEF replaced, same
    <3> QED BY <3>1, <3>2 DEF Maps, Keys!Apart
  <2>4. ASSUME same = {}
        PROVE  Append(m, b) \in Maps
    <3> DEFINE n == Append(m, b)
    <3>1. n \in Seq(Keys!Bindings) /\ DOMAIN n = 1 .. Len(m) + 1
          /\ n[Len(m) + 1] = b /\ \A i \in 1 .. Len(m) : n[i] = m[i]
      BY <2>1
    <3>2. \A i \in 1 .. Len(m) : ~Keys!Overlaps(m[i], b) /\ ~Keys!Overlaps(b, m[i])
      BY <2>1, <2>4, OverlapIsMutual
    <3> HIDE DEF n
    <3>3. \A i, j \in DOMAIN n : i # j => ~Keys!Overlaps(n[i], n[j])
      <4> SUFFICES ASSUME NEW i \in DOMAIN n, NEW j \in DOMAIN n, i # j
                   PROVE  ~Keys!Overlaps(n[i], n[j])
        OBVIOUS
      <4>1. Len(m) \in Nat
        BY <2>1
      <4>2. \A k \in DOMAIN n : k = Len(m) + 1 \/ k \in 1 .. Len(m)
        BY <3>1, <4>1
      <4>3. CASE i \in 1 .. Len(m) /\ j \in 1 .. Len(m)
        BY <2>1, <3>1, <4>3 DEF Keys!Apart
      <4>4. CASE i = Len(m) + 1 /\ j \in 1 .. Len(m)
        BY <3>1, <3>2, <4>4
      <4>5. CASE j = Len(m) + 1 /\ i \in 1 .. Len(m)
        BY <3>1, <3>2, <4>5
      <4> QED BY <4>2, <4>3, <4>4, <4>5
    <3> QED BY <3>1, <3>3 DEF Maps, Keys!Apart, n
  <2> HIDE DEF same, replaced
  <2> QED BY <2>2, <2>3, <2>4 DEF Outcomes
<1> QED BY <1>1, <1>2

\* Max is the greatest of the indices that a fold from the left looks for.
LEMMA MaxIsGreatest == \A s : Keys!Max(s) = GreatestOf(s)
  BY DEF Keys!Max, GreatestOf

\* Keys are bound one after another.
LEMMA BindAllRuns ==
    ASSUME NEW m \in Outcomes, NEW ls \in Seq(Keys!Bindings)
    PROVE  \E r \in [0 .. Len(ls) -> Outcomes] :
             /\ r[0] = m /\ Keys!BindAll(m, ls) = r[Len(ls)]
             /\ \A k \in 1 .. Len(ls) : r[k] = Keys!Bind(r[k - 1], ls[k])
<1> DEFINE n == Len(ls)
           Of(f) == [s \in SUBSET (DOMAIN ls) |->
                       IF s = {} THEN m ELSE Keys!Bind(f[s \ {Keys!Max(s)}], ls[Keys!Max(s)])]
           iter == CHOOSE f : f = Of(f)
           step == [k \in 1 .. n |-> [x \in Outcomes |-> Keys!Bind(x, ls[k])]]
           mx == Greatests(n)
<1>1. Keys!BindAll(m, ls) = iter[DOMAIN ls]
  BY DEF Keys!BindAll, Keys!FoldLeft, Keys!MapThenFoldSet
<1>2. n \in Nat /\ DOMAIN ls = 1 .. n
  OBVIOUS
<1>3. step \in [1 .. n -> [Outcomes -> Outcomes]]
  BY BindKeeps
<1>4. Greatest(mx, n) /\ \A s \in SUBSET (1 .. n) : mx[s] = Keys!Max(s)
  BY <1>2, GreatestsAre, MaxIsGreatest DEF Greatests
<1>5. \A s \in SUBSET (1 .. n) : s # {} => mx[s] \in 1 .. n
  BY <1>4 DEF Greatest
<1>6. \A k \in 1 .. n : \A x \in Outcomes : step[k][x] = Keys!Bind(x, ls[k])
  OBVIOUS
<1> HIDE DEF step, mx
<1>7. PICK f \in [SUBSET (1 .. n) -> Outcomes] : Recurs(f, n, Outcomes, m, step, mx)
  BY <1>2, <1>3, <1>4, FoldDefined
<1>8. f = Of(f)
  <2>1. ASSUME NEW s \in SUBSET (1 .. n), s # {}
        PROVE  f[s] = Keys!Bind(f[s \ {Keys!Max(s)}], ls[Keys!Max(s)])
    <3>1. f[s \ {Keys!Max(s)}] \in Outcomes /\ Keys!Max(s) \in 1 .. n
      BY <1>4, <1>5, <2>1
    <3> QED BY <1>4, <1>6, <1>7, <2>1, <3>1 DEF Recurs
  <2>2. f[{}] = m
    BY <1>7 DEF Recurs
  <2> QED BY <1>2, <2>1, <2>2
<1>9. iter = Of(iter)
  BY <1>8
<1> HIDE DEF iter
<1>10. Recurs(iter, n, Outcomes, m, step, mx)
  <2>1. ASSUME NEW s \in SUBSET (1 .. n), s # {}, iter[s \ {mx[s]}] \in Outcomes
        PROVE  iter[s] = step[mx[s]][iter[s \ {mx[s]}]]
    <3>1. mx[s] = Keys!Max(s) /\ mx[s] \in 1 .. n
      BY <1>4, <1>5, <2>1
    <3>2. iter[s] = Keys!Bind(iter[s \ {Keys!Max(s)}], ls[Keys!Max(s)])
      BY <1>2, <1>9, <2>1
    <3> QED BY <1>6, <2>1, <3>1, <3>2
  <2>2. iter[{}] = m
    BY <1>9
  <2> QED BY <2>1, <2>2 DEF Recurs
<1>11. m \in Outcomes /\ n \in Nat
  BY <1>2
<1> HIDE DEF n
<1>12. PICK r \in [0 .. n -> Outcomes] :
         r[0] = m /\ iter[1 .. n] = r[n] /\ \A k \in 1 .. n : r[k] = step[k][r[k - 1]]
  <2>1. Folding(n, Outcomes, m, step, mx)
    BY <1>3, <1>4, <1>11 DEF Folding
  <2>2. \E r : Runs(r, iter, n, Outcomes, m, step)
    BY <1>10, <2>1, FoldRun
  <2> QED BY <2>2 DEF Runs
<1>13. \A k \in 1 .. n : r[k] = Keys!Bind(r[k - 1], ls[k])
  <2>1. \A k \in 1 .. n : r[k - 1] \in Outcomes
    BY <1>11
  <2> QED BY <1>6, <1>12, <2>1
<1>14. iter[DOMAIN ls] = r[n]
  BY <1>2, <1>12
<1> QED BY <1>1, <1>12, <1>13, <1>14 DEF n

LEMMA BindAllKeeps ==
    ASSUME NEW m \in Outcomes, NEW ls \in Seq(Keys!Bindings)
    PROVE  Keys!BindAll(m, ls) \in Outcomes
<1>1. PICK r \in [0 .. Len(ls) -> Outcomes] : Keys!BindAll(m, ls) = r[Len(ls)]
  BY BindAllRuns
<1> QED BY <1>1

LEMMA BindAllEmpty ==
    ASSUME NEW m \in Outcomes
    PROVE  Keys!BindAll(m, <<>>) = m
<1>1. <<>> \in Seq(Keys!Bindings) /\ Len(<<>>) = 0
  OBVIOUS
<1>2. PICK r \in [0 .. Len(<<>>) -> Outcomes] : r[0] = m /\ Keys!BindAll(m, <<>>) = r[Len(<<>>)]
  BY <1>1, BindAllRuns
<1> QED BY <1>1, <1>2

LEMMA BindAllAppend ==
    ASSUME NEW m \in Outcomes, NEW ls \in Seq(Keys!Bindings), NEW b \in Keys!Bindings
    PROVE  Keys!BindAll(m, Append(ls, b)) = Keys!Bind(Keys!BindAll(m, ls), b)
<1> DEFINE more == Append(ls, b)
           n == Len(ls)
<1>1. n \in Nat /\ more \in Seq(Keys!Bindings) /\ Len(more) = n + 1 /\ more[n + 1] = b
      /\ \A k \in 1 .. n : more[k] = ls[k]
  OBVIOUS
<1>2. PICK r \in [0 .. n -> Outcomes] :
        /\ r[0] = m /\ Keys!BindAll(m, ls) = r[n]
        /\ \A k \in 1 .. n : r[k] = Keys!Bind(r[k - 1], ls[k])
  BY BindAllRuns
<1> HIDE DEF more
<1>3. PICK q \in [0 .. Len(more) -> Outcomes] :
        /\ q[0] = m /\ Keys!BindAll(m, more) = q[Len(more)]
        /\ \A k \in 1 .. Len(more) : q[k] = Keys!Bind(q[k - 1], more[k])
  BY <1>1, BindAllRuns
<1> HIDE DEF n
<1> DEFINE G == {k \in 0 .. n : q[k] = r[k]}
<1>4. 0 \in G
  BY <1>1, <1>2, <1>3
<1>5. ASSUME NEW k \in 1 .. n, k - 1 \in G
      PROVE  k \in G
  <2>1. k \in 1 .. Len(more) /\ more[k] = ls[k] /\ q[k - 1] = r[k - 1]
    BY <1>1, <1>5
  <2> QED BY <1>1, <1>2, <1>3, <2>1
<1> HIDE DEF G
<1>6. \A k \in 0 .. n : k \in G
  BY <1>1, <1>4, <1>5, UpTo
<1>7. q[n] = r[n]
  BY <1>1, <1>6 DEF G
<1>8. n + 1 \in 1 .. Len(more) /\ (n + 1) - 1 = n
  BY <1>1
<1> QED BY <1>1, <1>2, <1>3, <1>7, <1>8 DEF more

\* The bindings of S are left, in their order.
KeepRun(r, E, km, S) ==
    /\ r \in [0 .. Len(km) -> Seq(E)]
    /\ r[0] = <<>> /\ Keys!Kept(km, S) = r[Len(km)]
    /\ \A k \in 1 .. Len(km) : r[k] = IF km[k] \in S THEN Append(r[k - 1], km[k]) ELSE r[k - 1]

LEMMA KeptRuns ==
    ASSUME NEW E, NEW km \in Seq(E), NEW S
    PROVE  \E r : KeepRun(r, E, km, S)
<1> DEFINE n == Len(km)
           maps == Seq(E)
           next(x, b) == IF b \in S THEN Append(x, b) ELSE x
           Of(f) == [i \in 0 .. n |-> IF i = 0 THEN <<>> ELSE next(f[i - 1], km[i])]
           kept == CHOOSE f : f = Of(f)
           step == [k \in 1 .. n |-> [x \in maps |-> next(x, km[k])]]
<1>1. Keys!Kept(km, S) = kept[n]
  BY DEF Keys!Kept
<1>2. n \in Nat /\ <<>> \in maps /\ \A k \in 1 .. n : \A x \in maps : next(x, km[k]) \in maps
  OBVIOUS
<1> HIDE DEF maps, n, next
<1>3. step \in [1 .. n -> [maps -> maps]]
  BY <1>2
<1>4. PICK f \in [0 .. n -> maps] : f[0] = <<>> /\ \A k \in 1 .. n : f[k] = step[k][f[k - 1]]
  <2> DEFINE base == <<>>
  <2>1. base \in maps /\ n \in Nat
    BY <1>2
  <2> HIDE DEF base, step
  <2>2. \E f \in [0 .. n -> maps] : f[0] = base /\ \A k \in 1 .. n : f[k] = step[k][f[k - 1]]
    BY <1>3, <2>1, Iterated
  <2> QED BY <2>2 DEF base
<1>5. f = Of(f)
  <2>1. ASSUME NEW i \in 0 .. n, i # 0
        PROVE  f[i] = next(f[i - 1], km[i])
    <3>1. i \in 1 .. n /\ i - 1 \in 0 .. n
      BY <1>2, <2>1
    <3> QED BY <1>4, <3>1
  <2> QED BY <1>4, <2>1
<1>6. kept = Of(kept)
  BY <1>5
<1> HIDE DEF kept
<1>7. kept[0] = <<>> /\ \A k \in 1 .. n : kept[k] = next(kept[k - 1], km[k])
  <2>1. \A k \in 1 .. n : k \in 0 .. n /\ k # 0
    BY <1>2
  <2>2. 0 \in 0 .. n
    BY <1>2
  <2> QED BY <1>6, <2>1, <2>2
<1>8. \A k \in 0 .. n : kept[k] \in maps
  <2> DEFINE G == {k \in 0 .. n : kept[k] \in maps}
  <2>1. 0 \in G
    BY <1>2, <1>7
  <2>2. \A k \in 1 .. n : k - 1 \in G => k \in G
    BY <1>2, <1>7
  <2> HIDE DEF G
  <2>3. \A k \in 0 .. n : k \in G
    BY <1>2, <2>1, <2>2, UpTo
  <2> QED BY <2>3 DEF G
<1>9. kept \in [0 .. n -> maps] /\ n \in 0 .. n
  BY <1>2, <1>6, <1>8
<1>10. \A k \in 1 .. n : kept[k] = IF km[k] \in S THEN Append(kept[k - 1], km[k]) ELSE kept[k - 1]
  BY <1>7 DEF next
<1> QED BY <1>1, <1>7, <1>9, <1>10 DEF maps, n, KeepRun

LEMMA KeptIs ==
    ASSUME NEW E, NEW km \in Seq(E), NEW S
    PROVE  Keys!Kept(km, S) \in Seq(E) /\ \E h : Selection(Keys!Kept(km, S), km, Len(km), S, h)
<1>1. PICK r : KeepRun(r, E, km, S)
  BY KeptRuns
<1>2. \E h : Selection(r[Len(km)], km, Len(km), S, h)
  BY <1>1, Selected DEF KeepRun
<1> QED BY <1>1, <1>2 DEF KeepRun

LEMMA KeptEmpty ==
    ASSUME NEW S
    PROVE  Keys!Kept(<<>>, S) = <<>>
<1>1. <<>> \in Seq({}) /\ Len(<<>>) = 0
  OBVIOUS
<1>2. PICK r : KeepRun(r, {}, <<>>, S)
  BY <1>1, KeptRuns
<1> QED BY <1>1, <1>2 DEF KeepRun

LEMMA KeptAppend ==
    ASSUME NEW E, NEW km \in Seq(E), NEW b \in E, NEW S
    PROVE  Keys!Kept(Append(km, b), S)
             = IF b \in S THEN Append(Keys!Kept(km, S), b) ELSE Keys!Kept(km, S)
<1> DEFINE more == Append(km, b)
           n == Len(km)
<1>1. n \in Nat /\ more \in Seq(E) /\ Len(more) = n + 1 /\ more[n + 1] = b
      /\ \A k \in 1 .. n : more[k] = km[k]
  OBVIOUS
<1>0. PICK r : KeepRun(r, E, km, S)
  BY KeptRuns
<1>2. /\ r \in [0 .. n -> Seq(E)] /\ r[0] = <<>> /\ Keys!Kept(km, S) = r[n]
      /\ \A k \in 1 .. n : r[k] = IF km[k] \in S THEN Append(r[k - 1], km[k]) ELSE r[k - 1]
  BY <1>0 DEF KeepRun
<1> HIDE DEF more
<1>9. PICK q : KeepRun(q, E, more, S)
  BY <1>1, KeptRuns
<1>3. /\ q \in [0 .. Len(more) -> Seq(E)] /\ q[0] = <<>> /\ Keys!Kept(more, S) = q[Len(more)]
      /\ \A k \in 1 .. Len(more) :
           q[k] = IF more[k] \in S THEN Append(q[k - 1], more[k]) ELSE q[k - 1]
  BY <1>9 DEF KeepRun
<1> HIDE DEF n
<1> DEFINE G == {k \in 0 .. n : q[k] = r[k]}
<1>4. 0 \in G
  BY <1>1, <1>2, <1>3
<1>5. ASSUME NEW k \in 1 .. n, k - 1 \in G
      PROVE  k \in G
  <2>1. k \in 1 .. Len(more) /\ more[k] = km[k] /\ q[k - 1] = r[k - 1]
    BY <1>1, <1>5
  <2>2. r[k] = IF km[k] \in S THEN Append(r[k - 1], km[k]) ELSE r[k - 1]
    BY <1>2
  <2>3. q[k] = IF more[k] \in S THEN Append(q[k - 1], more[k]) ELSE q[k - 1]
    BY <1>3, <2>1
  <2>4. q[k] = r[k] /\ k \in 0 .. n
    BY <1>1, <2>1, <2>2, <2>3
  <2> QED BY <2>4
<1> HIDE DEF G
<1>6. \A k \in 0 .. n : k \in G
  BY <1>1, <1>4, <1>5, UpTo
<1>7. q[n] = r[n]
  BY <1>1, <1>6 DEF G
<1>8. n + 1 \in 1 .. Len(more) /\ (n + 1) - 1 = n
  BY <1>1
<1> QED BY <1>1, <1>2, <1>3, <1>7, <1>8 DEF more

\* So they are apart, and nothing of S that was there is lost.
LEMMA KeptKeeps ==
    ASSUME NEW km \in Maps, NEW S
    PROVE  /\ Keys!Kept(km, S) \in Maps
           /\ Keys!Range(Keys!Kept(km, S)) = Keys!Range(km) \cap S
<1> DEFINE kept == Keys!Kept(km, S)
           n == Len(km)
<1>1. km \in Seq(Keys!Bindings) /\ Keys!Apart(km) /\ n \in Nat /\ DOMAIN km = 1 .. n
  BY DEF Maps
<1>2. kept \in Seq(Keys!Bindings) /\ \E h : Selection(kept, km, n, S, h)
  BY <1>1, KeptIs
<1>3. PICK h : Selection(kept, km, n, S, h)
  BY <1>2
<1> HIDE DEF kept, n
<1>4. DOMAIN kept = 1 .. Len(kept) /\ Len(kept) \in Nat
  BY <1>2
<1>5. \A i \in DOMAIN kept : h[i] \in DOMAIN km /\ kept[i] = km[h[i]] /\ km[h[i]] \in S
  BY <1>1, <1>3, <1>4 DEF Selection
<1>6. \A i, j \in DOMAIN kept : i # j => h[i] # h[j]
  <2> SUFFICES ASSUME NEW i \in DOMAIN kept, NEW j \in DOMAIN kept, i # j
               PROVE  h[i] # h[j]
    OBVIOUS
  <2>1. i < j \/ j < i
    BY <1>4
  <2>2. h[i] < h[j] \/ h[j] < h[i]
    BY <1>3, <1>4, <2>1 DEF Selection
  <2>3. h[i] \in Int /\ h[j] \in Int
    BY <1>1, <1>5
  <2> QED BY <2>2, <2>3
<1>7. Keys!Apart(kept)
  BY <1>1, <1>5, <1>6 DEF Keys!Apart
<1>8. \A k \in DOMAIN km : km[k] \in S => \E i \in DOMAIN kept : kept[i] = km[k]
  <2> SUFFICES ASSUME NEW k \in DOMAIN km, km[k] \in S
               PROVE  \E i \in DOMAIN kept : kept[i] = km[k]
    OBVIOUS
  <2>1. PICK i \in DOMAIN kept : h[i] = k
    BY <1>1, <1>3, <1>4 DEF Selection
  <2> QED BY <1>5, <2>1
<1>9. Keys!Range(kept) = Keys!Range(km) \cap S
  BY <1>5, <1>8 DEF Keys!Range
<1> QED BY <1>2, <1>7, <1>9 DEF Maps, kept

\* What is left next to a layer competes with none of it.
LEMMA JoinApart ==
    ASSUME NEW kept \in Maps, NEW layer \in Maps,
           \A b \in Keys!Range(kept), l \in Keys!Range(layer) : ~Keys!Overlaps(b, l)
    PROVE  kept \o layer \in Maps
<1> DEFINE both == kept \o layer
           n == Len(kept)
<1>1. /\ kept \in Seq(Keys!Bindings) /\ Keys!Apart(kept) /\ layer \in Seq(Keys!Bindings) /\ Keys!Apart(layer)
      /\ n \in Nat /\ DOMAIN kept = 1 .. n /\ DOMAIN layer = 1 .. Len(layer) /\ Len(layer) \in Nat
  BY DEF Maps
<1>2. /\ both \in Seq(Keys!Bindings) /\ DOMAIN both = 1 .. n + Len(layer)
      /\ \A i \in 1 .. n : both[i] = kept[i]
      /\ \A i \in 1 .. Len(layer) : both[n + i] = layer[i]
  BY <1>1
<1> HIDE DEF both, n
<1>3. \A i \in DOMAIN both : i \in DOMAIN kept \/ (i - n \in DOMAIN layer /\ i = n + (i - n))
  BY <1>1, <1>2
<1>4. \A i \in DOMAIN both : i \in DOMAIN kept => both[i] = kept[i] /\ kept[i] \in Keys!Range(kept)
  BY <1>1, <1>2 DEF Keys!Range
<1>5. \A i \in DOMAIN both :
         i - n \in DOMAIN layer /\ i = n + (i - n)
           => both[i] = layer[i - n] /\ layer[i - n] \in Keys!Range(layer)
  BY <1>1, <1>2 DEF Keys!Range
<1>6. ASSUME NEW i \in DOMAIN both, NEW j \in DOMAIN both, i # j
      PROVE  ~Keys!Overlaps(both[i], both[j])
  <2>1. CASE i \in DOMAIN kept /\ j \in DOMAIN kept
    BY <1>1, <1>4, <1>6, <2>1 DEF Keys!Apart
  <2>2. CASE i \in DOMAIN kept /\ j - n \in DOMAIN layer /\ j = n + (j - n)
    BY <1>4, <1>5, <2>2
  <2>3. CASE j \in DOMAIN kept /\ i - n \in DOMAIN layer /\ i = n + (i - n)
    BY <1>4, <1>5, <2>3, OverlapIsMutual
  <2>4. CASE i - n \in DOMAIN layer /\ j - n \in DOMAIN layer
             /\ i = n + (i - n) /\ j = n + (j - n)
    <3>1. i - n # j - n
      BY <1>6, <2>4
    <3> QED BY <1>1, <1>5, <2>4, <3>1 DEF Keys!Apart
  <2> QED BY <1>3, <2>1, <2>2, <2>3, <2>4
<1>7. both \in Maps
  BY <1>2, <1>6 DEF Maps, Keys!Apart
<1> QED BY <1>7 DEF both

LEMMA JoinKeeps ==
    ASSUME NEW kept \in Maps, NEW layer \in Maps,
           \A b \in Keys!Range(kept), l \in Keys!Range(layer) : ~Keys!Overlaps(b, l)
    PROVE  Keys!Joined(kept, layer) \in Outcomes
  BY JoinApart DEF Keys!Joined, Outcomes

\* A layer and what is left of the keymap under it are apart: whatever competes with
\* the layer was taken out.
LEMMA UnderKeeps ==
    ASSUME NEW km \in Outcomes, NEW layer \in Outcomes, NEW entries, NEW context
    PROVE  Keys!Under(km, layer, entries, context) \in Outcomes
<1>1. CASE km = Failed \/ layer = Failed
  BY <1>1 DEF Keys!Under, Outcomes
<1>2. CASE km # Failed /\ layer # Failed
  <2>1. km \in Maps /\ layer \in Maps
    BY <1>2 DEF Outcomes
  <2> DEFINE old == {b \in Keys!Range(km) : b.command \in DOMAIN entries
                                          /\ context[b.command] = b.context}
             kept == Keys!Kept(km, Keys!Range(km) \ (old \cup Keys!Taken(km, layer)))
  <2>2. kept \in Maps /\ Keys!Range(kept) = Keys!Range(km) \cap (Keys!Range(km) \ (old \cup Keys!Taken(km, layer)))
    BY <2>1, KeptKeeps
  <2>3. \A b \in Keys!Range(kept), l \in Keys!Range(layer) : ~Keys!Overlaps(b, l)
    BY <2>2 DEF Keys!Taken
  <2>4. Keys!Joined(kept, layer) \in Outcomes
    BY <2>1, <2>2, <2>3, JoinKeeps
  <2> QED BY <1>2, <2>4 DEF Keys!Under
<1> QED BY <1>1, <1>2

\* A finite set can be put in an order.
LEMMA SetToSeqIs ==
    ASSUME NEW D, IsFiniteSet(D)
    PROVE  Keys!SetToSeq(D) \in Seq(D)
<1>1. Cardinality(D) \in Nat /\ ExistsBijection(1 .. Cardinality(D), D)
  BY FS_CardinalityType
<1>2. PICK g \in [1 .. Cardinality(D) -> D] : Keys!IsInjective(g)
  BY <1>1 DEF ExistsBijection, Bijection, Injection, IsInjective, Keys!IsInjective
<1>3. Keys!SetToSeq(D) \in [1 .. Cardinality(D) -> D]
  BY <1>2 DEF Keys!SetToSeq, Keys!Cardinality, Cardinality
<1> QED BY <1>1, <1>3

\* The keys a profile gives a command are bindings of it.
LEMMA ExplicitlyIs ==
    ASSUME NEW x \in Contexts, NEW c \in Commands, NEW ls \in Seq(Seq(Strokes))
    PROVE  Keys!Explicitly(x, c, ls) \in Seq(Keys!Bindings)
<1> DEFINE b(k) == Keys!Binding(x, ls[k], c, TRUE)
           n == Len(ls)
<1>1. n \in Nat /\ DOMAIN ls = 1 .. n
  OBVIOUS
<1>2. \A k \in 1 .. n : b(k) \in Keys!Bindings
  BY DEF Keys!Binding, Keys!Bindings
<1> HIDE DEF b, n
<1>3. [k \in 1 .. n |-> b(k)] \in Seq(Keys!Bindings)
  BY <1>1, <1>2
<1> QED BY <1>1, <1>3 DEF Keys!Explicitly, b

\* The commands that a table has keys for.
Named(entries, context) ==
    {c \in Commands : entries[c] \in Seq(Seq(Strokes)) /\ context[c] \in Contexts}

\* The keys of one command after another are bound.
LayerRun(r, ls, entries, context) ==
    /\ r \in [0 .. Len(ls) -> Outcomes]
    /\ r[0] = <<>> /\ Keys!LayerOf(ls, entries, context) = r[Len(ls)]
    /\ \A k \in 1 .. Len(ls) :
         r[k] = Keys!BindAll(r[k - 1], Keys!Explicitly(context[ls[k]], ls[k], entries[ls[k]]))

LEMMA LayerRuns ==
    ASSUME NEW entries, NEW context, NEW ls \in Seq(Named(entries, context))
    PROVE  \E r : LayerRun(r, ls, entries, context)
<1> DEFINE n == Len(ls)
           bind(x, c) == Keys!BindAll(x, Keys!Explicitly(context[c], c, entries[c]))
           Of(f) == [s \in SUBSET (DOMAIN ls) |->
                       IF s = {} THEN <<>> ELSE bind(f[s \ {Keys!Max(s)}], ls[Keys!Max(s)])]
           iter == CHOOSE f : f = Of(f)
           step == [k \in 1 .. n |-> [x \in Outcomes |-> bind(x, ls[k])]]
           mx == Greatests(n)
<1>1. Keys!LayerOf(ls, entries, context) = iter[DOMAIN ls]
  BY DEF Keys!LayerOf, Keys!FoldLeft, Keys!MapThenFoldSet
<1>2. n \in Nat /\ DOMAIN ls = 1 .. n
  OBVIOUS
<1>3. step \in [1 .. n -> [Outcomes -> Outcomes]]
  <2>1. ASSUME NEW k \in 1 .. n, NEW x \in Outcomes
        PROVE  bind(x, ls[k]) \in Outcomes
    <3>1. ls[k] \in Named(entries, context)
      BY <1>2
    <3>2. Keys!Explicitly(context[ls[k]], ls[k], entries[ls[k]]) \in Seq(Keys!Bindings)
      BY <3>1, ExplicitlyIs DEF Named
    <3> QED BY <3>2, BindAllKeeps
  <2> HIDE DEF bind
  <2> QED BY <2>1
<1>4. Greatest(mx, n) /\ \A s \in SUBSET (1 .. n) : mx[s] = Keys!Max(s)
  BY <1>2, GreatestsAre, MaxIsGreatest DEF Greatests
<1>5. \A s \in SUBSET (1 .. n) : s # {} => mx[s] \in 1 .. n
  BY <1>4 DEF Greatest
<1>6. \A k \in 1 .. n : \A x \in Outcomes : step[k][x] = bind(x, ls[k])
  OBVIOUS
<1>7. <<>> \in Outcomes
  BY DEF Outcomes, Maps, Keys!Apart
<1> HIDE DEF step, mx, bind
<1>8. PICK f \in [SUBSET (1 .. n) -> Outcomes] : Recurs(f, n, Outcomes, <<>>, step, mx)
  BY <1>2, <1>3, <1>4, <1>7, FoldDefined
<1>9. f = Of(f)
  <2>1. ASSUME NEW s \in SUBSET (1 .. n), s # {}
        PROVE  f[s] = bind(f[s \ {Keys!Max(s)}], ls[Keys!Max(s)])
    <3>1. f[s \ {Keys!Max(s)}] \in Outcomes /\ Keys!Max(s) \in 1 .. n
      BY <1>4, <1>5, <2>1
    <3> QED BY <1>4, <1>6, <1>8, <2>1, <3>1 DEF Recurs
  <2>2. f[{}] = <<>>
    BY <1>8 DEF Recurs
  <2> QED BY <1>2, <2>1, <2>2
<1>10. iter = Of(iter)
  BY <1>9
<1> HIDE DEF iter
<1>11. Recurs(iter, n, Outcomes, <<>>, step, mx)
  <2>1. ASSUME NEW s \in SUBSET (1 .. n), s # {}, iter[s \ {mx[s]}] \in Outcomes
        PROVE  iter[s] = step[mx[s]][iter[s \ {mx[s]}]]
    <3>1. mx[s] = Keys!Max(s) /\ mx[s] \in 1 .. n
      BY <1>4, <1>5, <2>1
    <3>2. iter[s] = bind(iter[s \ {Keys!Max(s)}], ls[Keys!Max(s)])
      BY <1>2, <1>10, <2>1
    <3> QED BY <1>6, <2>1, <3>1, <3>2
  <2>2. iter[{}] = <<>>
    BY <1>10
  <2> QED BY <2>1, <2>2 DEF Recurs
<1> DEFINE base == <<>>
<1>12. n \in Nat /\ base \in Outcomes /\ Recurs(iter, n, Outcomes, base, step, mx)
  BY <1>2, <1>7, <1>11
<1> HIDE DEF n, base
<1>13. PICK r \in [0 .. n -> Outcomes] :
         r[0] = base /\ iter[1 .. n] = r[n] /\ \A k \in 1 .. n : r[k] = step[k][r[k - 1]]
  <2>1. Folding(n, Outcomes, base, step, mx)
    BY <1>3, <1>4, <1>12 DEF Folding
  <2>2. \E r : Runs(r, iter, n, Outcomes, base, step)
    BY <1>12, <2>1, FoldRun
  <2> QED BY <2>2 DEF Runs
<1>14. \A k \in 1 .. n : r[k] = bind(r[k - 1], ls[k])
  <2>1. \A k \in 1 .. n : r[k - 1] \in Outcomes
    BY <1>12
  <2> QED BY <1>6, <1>13, <2>1
<1>15. iter[DOMAIN ls] = r[n]
  BY <1>2, <1>13 DEF n
<1>16. r[0] = <<>>
  BY <1>13 DEF base
<1> QED BY <1>1, <1>13, <1>14, <1>15, <1>16 DEF n, bind, LayerRun

LEMMA CommandsKeep ==
    ASSUME NEW entries, NEW context, NEW ls \in Seq(Named(entries, context))
    PROVE  Keys!LayerOf(ls, entries, context) \in Outcomes
<1>1. PICK r : LayerRun(r, ls, entries, context)
  BY LayerRuns
<1> QED BY <1>1 DEF LayerRun

LEMMA LayerEmpty ==
    ASSUME NEW entries, NEW context
    PROVE  Keys!LayerOf(<<>>, entries, context) = <<>>
<1>1. <<>> \in Seq(Named(entries, context)) /\ Len(<<>>) = 0
  OBVIOUS
<1>2. PICK r : LayerRun(r, <<>>, entries, context)
  BY <1>1, LayerRuns
<1> QED BY <1>1, <1>2 DEF LayerRun

LEMMA LayerAppend ==
    ASSUME NEW entries, NEW context, NEW ls \in Seq(Named(entries, context)),
           NEW c \in Named(entries, context)
    PROVE  Keys!LayerOf(Append(ls, c), entries, context)
             = Keys!BindAll(Keys!LayerOf(ls, entries, context),
                            Keys!Explicitly(context[c], c, entries[c]))
<1> DEFINE more == Append(ls, c)
           n == Len(ls)
           bind(x, d) == Keys!BindAll(x, Keys!Explicitly(context[d], d, entries[d]))
<1>1. n \in Nat /\ more \in Seq(Named(entries, context)) /\ Len(more) = n + 1 /\ more[n + 1] = c
      /\ \A k \in 1 .. n : more[k] = ls[k]
  OBVIOUS
<1>0. PICK r : LayerRun(r, ls, entries, context)
  BY LayerRuns
<1>2. /\ r \in [0 .. n -> Outcomes] /\ r[0] = <<>> /\ Keys!LayerOf(ls, entries, context) = r[n]
      /\ \A k \in 1 .. n : r[k] = bind(r[k - 1], ls[k])
  BY <1>0 DEF LayerRun
<1> HIDE DEF more
<1>10. PICK q : LayerRun(q, more, entries, context)
  BY <1>1, LayerRuns
<1>3. /\ q \in [0 .. Len(more) -> Outcomes] /\ q[0] = <<>>
      /\ Keys!LayerOf(more, entries, context) = q[Len(more)]
      /\ \A k \in 1 .. Len(more) : q[k] = bind(q[k - 1], more[k])
  BY <1>10 DEF LayerRun
<1> HIDE DEF n, bind
<1> DEFINE G == {k \in 0 .. n : q[k] = r[k]}
<1>4. 0 \in G
  BY <1>1, <1>2, <1>3
<1>5. ASSUME NEW k \in 1 .. n, k - 1 \in G
      PROVE  k \in G
  <2>1. k \in 1 .. Len(more) /\ more[k] = ls[k] /\ q[k - 1] = r[k - 1]
    BY <1>1, <1>5
  <2> QED BY <1>1, <1>2, <1>3, <2>1
<1> HIDE DEF G
<1>6. \A k \in 0 .. n : k \in G
  BY <1>1, <1>4, <1>5, UpTo
<1>7. q[n] = r[n]
  BY <1>1, <1>6 DEF G
<1>8. n + 1 \in 1 .. Len(more) /\ (n + 1) - 1 = n
  BY <1>1
<1>9. Keys!LayerOf(more, entries, context) = bind(Keys!LayerOf(ls, entries, context), c)
  BY <1>1, <1>2, <1>3, <1>7, <1>8
<1> QED BY <1>9 DEF more, bind

\* A table of commands and their keys is laid over a keymap.
LEMMA LayeredKeeps ==
    ASSUME IsFiniteSet(Commands), NEW km \in Outcomes, NEW entries, Keys!KeyLists(entries),
           NEW context, \A c \in DOMAIN entries : context[c] \in Contexts
    PROVE  Keys!Layered(km, entries, context) \in Outcomes
<1> DEFINE ls == Keys!SetToSeq(DOMAIN entries)
           layer == Keys!LayerOf(ls, entries, context)
<1>1. ls \in Seq(DOMAIN entries) /\ DOMAIN entries \in SUBSET Commands
  <2>1. DOMAIN entries \in SUBSET Commands
    BY DEF Keys!KeyLists
  <2>2. IsFiniteSet(DOMAIN entries)
    BY <2>1, FS_Subset
  <2> QED BY <2>1, <2>2, SetToSeqIs
<1> HIDE DEF ls
<1>2. ls \in Seq(Commands) /\ \A i \in DOMAIN ls : ls[i] \in DOMAIN entries
  BY <1>1
<1>3. layer \in Outcomes
  <2>1. DOMAIN entries \subseteq Named(entries, context)
    BY DEF Keys!KeyLists, Named
  <2>2. ls \in Seq(Named(entries, context))
    BY <1>1, <2>1
  <2> QED BY <2>2, CommandsKeep
<1> HIDE DEF layer
<1>4. Keys!Under(km, layer, entries, context) \in Outcomes
  BY <1>3, UnderKeeps
<1> QED BY <1>4 DEF Keys!Layered, layer, ls

\* The entries of [keys.CONTEXT] are bindings.
LEMMA SingleIs ==
    ASSUME NEW f, Keys!IsProfile(f), NEW x \in Contexts
    PROVE  Keys!Single(f, x) \in Seq(Keys!Bindings)
<1> DEFINE table == f.bindings[x]
           n == Len(table)
           b(k) == Keys!Binding(x, table[k][1], table[k][2], TRUE)
<1>1. table \in Seq(Seq(Strokes) \X Commands)
  BY DEF Keys!IsProfile
<1> HIDE DEF table
<1>2. n \in Nat /\ DOMAIN table = 1 .. n /\ \A k \in 1 .. n : b(k) \in Keys!Bindings
  BY <1>1 DEF Keys!Binding, Keys!Bindings
<1> HIDE DEF b, n
<1>3. [k \in 1 .. n |-> b(k)] \in Seq(Keys!Bindings)
  BY <1>2
<1> QED BY <1>2, <1>3 DEF Keys!Single, b, table

\* The tables of one context after another are laid over the keymap.
LEMMA SectionKeeps ==
    ASSUME IsFiniteSet(Commands), NEW f, Keys!IsProfile(f), NEW m \in Outcomes, NEW x \in Contexts
    PROVE  Keys!Section(f, m, x) \in Outcomes
<1> DEFINE single == Keys!Single(f, x)
<1>1. f.bindings[x] \in Seq(Seq(Strokes) \X Commands) /\ Keys!KeyLists(f.commands[x])
  BY DEF Keys!IsProfile
<1>4. single \in Seq(Keys!Bindings)
  BY SingleIs
<1> HIDE DEF single
<1>5. Keys!BindAll(m, single) \in Outcomes
  BY <1>4, BindAllKeeps
<1>6. \A c \in DOMAIN f.commands[x] : [d \in DOMAIN f.commands[x] |-> x][c] \in Contexts
  OBVIOUS
<1> QED BY <1>1, <1>5, <1>6, LayeredKeeps DEF Keys!Section, single

\* All contexts are, in the order they are read.
SectionsRun(r, profile, m, ls) ==
    /\ r \in [0 .. Len(ls) -> Outcomes]
    /\ r[0] = m /\ Keys!Sections(profile, m, ls) = r[Len(ls)]
    /\ \A k \in 1 .. Len(ls) : r[k] = Keys!Section(profile, r[k - 1], ls[k])

LEMMA SectionsRuns ==
    ASSUME IsFiniteSet(Commands), NEW profile, Keys!IsProfile(profile), NEW m \in Outcomes,
           NEW ls \in Seq(Contexts)
    PROVE  \E r : SectionsRun(r, profile, m, ls)
<1> DEFINE n == Len(ls)
           Of(f) == [s \in SUBSET (DOMAIN ls) |->
                       IF s = {} THEN m
                           ELSE Keys!Section(profile, f[s \ {Keys!Max(s)}], ls[Keys!Max(s)])]
           iter == CHOOSE f : f = Of(f)
           step == [k \in 1 .. n |-> [x \in Outcomes |-> Keys!Section(profile, x, ls[k])]]
           mx == Greatests(n)
<1>1. Keys!Sections(profile, m, ls) = iter[DOMAIN ls]
  BY DEF Keys!Sections, Keys!FoldLeft, Keys!MapThenFoldSet
<1>2. n \in Nat /\ DOMAIN ls = 1 .. n
  OBVIOUS
<1>3. step \in [1 .. n -> [Outcomes -> Outcomes]]
  BY SectionKeeps
<1>4. Greatest(mx, n) /\ \A s \in SUBSET (1 .. n) : mx[s] = Keys!Max(s)
  BY <1>2, GreatestsAre, MaxIsGreatest DEF Greatests
<1>5. \A s \in SUBSET (1 .. n) : s # {} => mx[s] \in 1 .. n
  BY <1>4 DEF Greatest
<1>6. \A k \in 1 .. n : \A x \in Outcomes : step[k][x] = Keys!Section(profile, x, ls[k])
  OBVIOUS
<1> HIDE DEF step, mx
<1>7. PICK f \in [SUBSET (1 .. n) -> Outcomes] : Recurs(f, n, Outcomes, m, step, mx)
  BY <1>2, <1>3, <1>4, FoldDefined
<1>8. f = Of(f)
  <2>1. ASSUME NEW s \in SUBSET (1 .. n), s # {}
        PROVE  f[s] = Keys!Section(profile, f[s \ {Keys!Max(s)}], ls[Keys!Max(s)])
    <3>1. f[s \ {Keys!Max(s)}] \in Outcomes /\ Keys!Max(s) \in 1 .. n
      BY <1>4, <1>5, <2>1
    <3> QED BY <1>4, <1>6, <1>7, <2>1, <3>1 DEF Recurs
  <2>2. f[{}] = m
    BY <1>7 DEF Recurs
  <2> QED BY <1>2, <2>1, <2>2
<1>9. iter = Of(iter)
  BY <1>8
<1> HIDE DEF iter
<1>10. Recurs(iter, n, Outcomes, m, step, mx)
  <2>1. ASSUME NEW s \in SUBSET (1 .. n), s # {}, iter[s \ {mx[s]}] \in Outcomes
        PROVE  iter[s] = step[mx[s]][iter[s \ {mx[s]}]]
    <3>1. mx[s] = Keys!Max(s) /\ mx[s] \in 1 .. n
      BY <1>4, <1>5, <2>1
    <3>2. iter[s] = Keys!Section(profile, iter[s \ {Keys!Max(s)}], ls[Keys!Max(s)])
      BY <1>2, <1>9, <2>1
    <3> QED BY <1>6, <2>1, <3>1, <3>2
  <2>2. iter[{}] = m
    BY <1>9
  <2> QED BY <2>1, <2>2 DEF Recurs
<1>11. m \in Outcomes /\ n \in Nat
  BY <1>2
<1> HIDE DEF n
<1>12. PICK r \in [0 .. n -> Outcomes] :
         r[0] = m /\ iter[1 .. n] = r[n] /\ \A k \in 1 .. n : r[k] = step[k][r[k - 1]]
  <2>1. Folding(n, Outcomes, m, step, mx)
    BY <1>3, <1>4, <1>11 DEF Folding
  <2>2. \E r : Runs(r, iter, n, Outcomes, m, step)
    BY <1>10, <2>1, FoldRun
  <2> QED BY <2>2 DEF Runs
<1>13. \A k \in 1 .. n : r[k] = Keys!Section(profile, r[k - 1], ls[k])
  <2>1. \A k \in 1 .. n : r[k - 1] \in Outcomes
    BY <1>11
  <2> QED BY <1>6, <1>12, <2>1
<1>14. iter[DOMAIN ls] = r[n]
  BY <1>2, <1>12
<1> QED BY <1>1, <1>12, <1>13, <1>14 DEF n, SectionsRun

LEMMA SectionsKeep ==
    ASSUME IsFiniteSet(Commands), NEW f, Keys!IsProfile(f), NEW m \in Outcomes,
           NEW ls \in Seq(Contexts)
    PROVE  Keys!Sections(f, m, ls) \in Outcomes
<1>1. PICK r : SectionsRun(r, f, m, ls)
  BY SectionsRuns
<1> QED BY <1>1 DEF SectionsRun

LEMMA SectionsEmpty ==
    ASSUME IsFiniteSet(Commands), NEW f, Keys!IsProfile(f), NEW m \in Outcomes
    PROVE  Keys!Sections(f, m, <<>>) = m
<1>1. <<>> \in Seq(Contexts) /\ Len(<<>>) = 0
  OBVIOUS
<1>2. PICK r : SectionsRun(r, f, m, <<>>)
  BY <1>1, SectionsRuns
<1> QED BY <1>1, <1>2 DEF SectionsRun

LEMMA SectionsAppend ==
    ASSUME IsFiniteSet(Commands), NEW f, Keys!IsProfile(f), NEW m \in Outcomes,
           NEW ls \in Seq(Contexts), NEW x \in Contexts
    PROVE  Keys!Sections(f, m, Append(ls, x)) = Keys!Section(f, Keys!Sections(f, m, ls), x)
<1> DEFINE more == Append(ls, x)
           n == Len(ls)
<1>1. n \in Nat /\ more \in Seq(Contexts) /\ Len(more) = n + 1 /\ more[n + 1] = x
      /\ \A k \in 1 .. n : more[k] = ls[k]
  OBVIOUS
<1>0. PICK r : SectionsRun(r, f, m, ls)
  BY SectionsRuns
<1>2. /\ r \in [0 .. n -> Outcomes] /\ r[0] = m /\ Keys!Sections(f, m, ls) = r[n]
      /\ \A k \in 1 .. n : r[k] = Keys!Section(f, r[k - 1], ls[k])
  BY <1>0 DEF SectionsRun
<1> HIDE DEF more
<1>9. PICK q : SectionsRun(q, f, m, more)
  BY <1>1, SectionsRuns
<1>3. /\ q \in [0 .. Len(more) -> Outcomes] /\ q[0] = m /\ Keys!Sections(f, m, more) = q[Len(more)]
      /\ \A k \in 1 .. Len(more) : q[k] = Keys!Section(f, q[k - 1], more[k])
  BY <1>9 DEF SectionsRun
<1> HIDE DEF n
<1> DEFINE G == {k \in 0 .. n : q[k] = r[k]}
<1>4. 0 \in G
  BY <1>1, <1>2, <1>3
<1>5. ASSUME NEW k \in 1 .. n, k - 1 \in G
      PROVE  k \in G
  <2>1. k \in 1 .. Len(more) /\ more[k] = ls[k] /\ q[k - 1] = r[k - 1]
    BY <1>1, <1>5
  <2> QED BY <1>1, <1>2, <1>3, <2>1
<1> HIDE DEF G
<1>6. \A k \in 0 .. n : k \in G
  BY <1>1, <1>4, <1>5, UpTo
<1>7. q[n] = r[n]
  BY <1>1, <1>6 DEF G
<1>8. n + 1 \in 1 .. Len(more) /\ (n + 1) - 1 = n
  BY <1>1
<1> QED BY <1>1, <1>2, <1>3, <1>7, <1>8 DEF more

\* The defaults are a keymap.
LEMMA DefaultsAre ==
    ASSUME Keys!ConstantsAssumption
    PROVE  Keys!DefaultKeymap \in Maps
<1> DEFINE b(i) == Keys!Binding(Defaults[i][1], Defaults[i][2], Defaults[i][3], FALSE)
           n == Len(Defaults)
<1>1. Defaults \in Seq(Contexts \X Seq(Strokes) \X Commands) /\ Keys!Apart(Keys!DefaultKeymap)
  BY DEF Keys!ConstantsAssumption
<1>2. n \in Nat /\ DOMAIN Defaults = 1 .. n
      /\ \A i \in 1 .. n : Defaults[i] \in Contexts \X Seq(Strokes) \X Commands
  BY <1>1
<1>3. \A i \in 1 .. n : b(i) \in Keys!Bindings
  BY <1>2 DEF Keys!Binding, Keys!Bindings
<1> HIDE DEF b, n
<1>4. [i \in 1 .. n |-> b(i)] \in Seq(Keys!Bindings)
  BY <1>2, <1>3
<1> QED BY <1>1, <1>2, <1>4 DEF Keys!DefaultKeymap, Maps, b

\* A profile that is not refused makes a keymap of bindings that are apart.
LEMMA ReadKeeps ==
    ASSUME Keys!ConstantsAssumption, NEW f, Keys!IsProfile(f)
    PROVE  Keys!Read(f) \in Outcomes
<1> DEFINE ls == Keys!SetToSeq(Contexts)
           root == Keys!Layered(Keys!DefaultKeymap, f.root, Owner)
           all == Keys!Sections(f, root, ls)
<1>1. IsFiniteSet(Commands) /\ IsFiniteSet(Contexts) /\ Owner \in [Commands -> Contexts]
  BY DEF Keys!ConstantsAssumption, Keys!IsFiniteSet, IsFiniteSet
<1>2. ls \in Seq(Contexts)
  BY <1>1, SetToSeqIs
<1>3. root \in Outcomes
  <2>1. Keys!KeyLists(f.root) /\ Keys!DefaultKeymap \in Outcomes
    BY DefaultsAre DEF Keys!IsProfile, Outcomes
  <2>2. \A c \in DOMAIN f.root : Owner[c] \in Contexts
    BY <1>1, <2>1 DEF Keys!KeyLists
  <2> QED BY <1>1, <2>1, <2>2, LayeredKeeps
<1> HIDE DEF ls, root
<1>4. all \in Outcomes
  BY <1>1, <1>2, <1>3, SectionsKeep
<1> HIDE DEF all
<1>5. Keys!Checked(all) \in {all, Failed}
  BY DEF Keys!Checked
<1> QED BY <1>4, <1>5 DEF Keys!Read, Outcomes, all, root, ls

\* To forget that bindings are explicit changes nothing of what overlaps.
LEMMA InheritedKeeps ==
    ASSUME NEW km \in Maps
    PROVE  Keys!Inherited(km) \in Maps
<1> DEFINE b(i) == [km[i] EXCEPT !.configured = FALSE]
           n == Len(km)
           new == [i \in 1 .. n |-> b(i)]
<1>1. km \in Seq(Keys!Bindings) /\ Keys!Apart(km) /\ n \in Nat /\ DOMAIN km = 1 .. n
  BY DEF Maps
<1>2. \A i \in 1 .. n : km[i] \in Keys!Bindings
  BY <1>1
<1>3. \A i \in 1 .. n :
          b(i) \in Keys!Bindings /\ b(i).context = km[i].context /\ b(i).keys = km[i].keys
  BY <1>2 DEF Keys!Bindings
<1> HIDE DEF b, n
<1>4. new \in Seq(Keys!Bindings) /\ DOMAIN new = 1 .. n
  BY <1>1, <1>3
<1>5. \A i \in 1 .. n : new[i] = b(i)
  OBVIOUS
<1> HIDE DEF new
<1>6. Keys!Apart(new)
  <2> SUFFICES ASSUME NEW i \in 1 .. n, NEW j \in 1 .. n, i # j
               PROVE  ~Keys!Overlaps(new[i], new[j])
    BY <1>4 DEF Keys!Apart
  <2>1. ~Keys!Overlaps(km[i], km[j])
    BY <1>1 DEF Keys!Apart
  <2>2. new[i].context = km[i].context /\ new[i].keys = km[i].keys
        /\ new[j].context = km[j].context /\ new[j].keys = km[j].keys
    BY <1>3, <1>5
  <2> QED BY <2>1, <2>2 DEF Keys!Overlaps
<1>7. Keys!Inherited(km) = new
  BY <1>1 DEF Keys!Inherited, new, b
<1> QED BY <1>4, <1>6, <1>7 DEF Maps

\* The keys of a command are sequences of strokes.
LEMMA KeysOfIs ==
    ASSUME NEW km \in Maps, NEW x, NEW c
    PROVE  Keys!KeysOf(km, x, c) \in Seq(Seq(Strokes))
<1> DEFINE S == {b \in Keys!Range(km) : b.context = x /\ b.command = c}
           mine == Keys!Kept(km, S)
           n == Len(mine)
<1> HIDE DEF S
<1>1. mine \in Seq(Keys!Bindings)
  BY KeptKeeps DEF Maps
<1>2. Keys!KeysOf(km, x, c) = [i \in DOMAIN mine |-> mine[i].keys]
  BY DEF Keys!KeysOf, S
<1> HIDE DEF mine
<1>3. n \in Nat /\ DOMAIN mine = 1 .. n /\ \A i \in 1 .. n : mine[i].keys \in Seq(Strokes)
  <2>1. n \in Nat /\ DOMAIN mine = 1 .. n /\ \A i \in 1 .. n : mine[i] \in Keys!Bindings
    BY <1>1
  <2> QED BY <2>1 DEF Keys!Bindings
<1> HIDE DEF n
<1>4. [i \in 1 .. n |-> mine[i].keys] \in Seq(Seq(Strokes))
  BY <1>3
<1> QED BY <1>2, <1>3, <1>4

\* A table written over another is one.
LEMMA KeyListsJoin ==
    ASSUME NEW f, Keys!KeyLists(f), NEW g, Keys!KeyLists(g)
    PROVE  Keys!KeyLists(Keys!Over(f, g))
<1>1. DOMAIN Keys!Over(f, g) = DOMAIN f \cup DOMAIN g
      /\ \A c \in DOMAIN Keys!Over(f, g) : Keys!Over(f, g)[c] = IF c \in DOMAIN f THEN f[c]
           ELSE g[c]
  BY DEF Keys!Over
<1> DEFINE h == Keys!Over(f, g)
<1> HIDE DEF h
<1>2. DOMAIN h \subseteq Commands
  BY <1>1 DEF Keys!KeyLists, h
<1>3. \A c \in DOMAIN h : h[c] \in Seq(Seq(Strokes))
  BY <1>1 DEF Keys!KeyLists, h
<1> QED BY <1>2, <1>3 DEF Keys!KeyLists, h

\* A profile that is saved is one.
LEMMA UpdateKeeps ==
    ASSUME Keys!ConstantsAssumption, NEW f, Keys!IsProfile(f), keymap \in Maps,
           NEW changed \in SUBSET (Contexts \X Commands)
    PROVE  Keys!IsProfile(Keys!Update(f, changed))
<1> DEFINE scoped == {p \in changed : p[2] \in DOMAIN f.commands[p[1]] \/ p[1] # Owner[p[2]]}
           flat == {p[2] : p \in changed \ scoped}
           flats == [c \in flat |-> Keys!KeysOf(keymap, Owner[c], c)]
           named(x) == {p[2] : p \in {q \in scoped : q[1] = x}}
           owns(x) == [c \in named(x) |-> Keys!KeysOf(keymap, x, c)]
           new == Keys!Update(f, changed)
<1>1. /\ new.root = Keys!Over(flats, f.root)
      /\ new.bindings = Keys!WithoutStale(f, changed)
      /\ \A x \in Contexts : new.commands[x] = Keys!Over(owns(x), f.commands[x])
  BY DEF Keys!Update
<1>2. Keys!KeyLists(flats)
  BY KeysOfIs DEF Keys!KeyLists
<1>3. \A x \in Contexts : Keys!KeyLists(owns(x))
  BY KeysOfIs DEF Keys!KeyLists
<1> HIDE DEF new, flats, owns
<1>4. Keys!KeyLists(new.root)
  BY <1>1, <1>2, KeyListsJoin DEF Keys!IsProfile
<1>5. \A x \in Contexts : Keys!KeyLists(new.commands[x])
  BY <1>1, <1>3, KeyListsJoin DEF Keys!IsProfile
<1>6. ASSUME NEW x \in Contexts
      PROVE  new.bindings[x] \in Seq(Seq(Strokes) \X Commands)
  <2> DEFINE table == f.bindings[x]
             S == {e \in Keys!Range(table) : <<x, e[2]>> \notin changed}
  <2>1. table \in Seq(Seq(Strokes) \X Commands)
    BY DEF Keys!IsProfile
  <2>2. new.bindings[x] = Keys!Kept(table, S)
    BY <1>1 DEF Keys!WithoutStale
  <2> HIDE DEF table, S
  <2> QED BY <2>1, <2>2, KeptIs
<1> QED BY <1>4, <1>5, <1>6 DEF Keys!IsProfile, new

----------------------------------------------------------------------------
(* The editor *)

\* What an edit makes of the keymap.
LEMMA ReplaceKeeps ==
    ASSUME Keys!ConstantsAssumption, keymap \in Maps, NEW x \in Contexts, NEW c \in Commands,
           NEW keyList \in Seq(Seq(Strokes)), Keys!Replace(x, c, keyList)
    PROVE  /\ keymap' \in Maps
           /\ ~asked' => \A b \in Keys!Range(keymap) : <<b.context, b.command>> = <<x, c>>
                                                  \/ b \in Keys!Range(keymap')
<1> DEFINE additions == Keys!BindAll(<<>>, Keys!Explicitly(x, c, keyList))
           S == {b \in Keys!Range(keymap) : b.context # x \/ b.command # c}
           others == Keys!Kept(keymap, S)
           rest == Keys!Kept(others, Keys!Range(others) \ Keys!Taken(others, additions))
<1>1. /\ additions # Failed /\ keymap' = Keys!Joined(rest, additions) /\ keymap' # Failed
      /\ asked' = Keys!Asks(others, additions)
  BY DEF Keys!Replace
<1>2. additions \in Maps
  <2>1. <<>> \in Outcomes
    BY DEF Outcomes, Maps, Keys!Apart
  <2>2. additions \in Outcomes
    BY <2>1, ExplicitlyIs, BindAllKeeps
  <2> HIDE DEF additions
  <2> QED BY <1>1, <2>2 DEF Outcomes
<1> HIDE DEF additions, S
<1>3. others \in Maps /\ Keys!Range(others) = Keys!Range(keymap) \cap S
  BY KeptKeeps
<1> HIDE DEF others
<1>4. rest \in Maps
      /\ Keys!Range(rest) = Keys!Range(others) \cap (Keys!Range(others) \ Keys!Taken(others,
           additions))
  BY <1>3, KeptKeeps
<1> HIDE DEF rest
<1>5. keymap' \in Maps
  <2>1. \A b \in Keys!Range(rest), l \in Keys!Range(additions) : ~Keys!Overlaps(b, l)
    BY <1>4 DEF Keys!Taken
  <2>2. Keys!Joined(rest, additions) \in Outcomes
    BY <1>2, <1>4, <2>1, JoinKeeps
  <2> QED BY <1>1, <2>2 DEF Outcomes
<1>6. ASSUME ~asked', NEW b \in Keys!Range(keymap), <<b.context, b.command>> # <<x, c>>
      PROVE  b \in Keys!Range(keymap')
  <2>1. Keys!Taken(others, additions) = {}
    BY <1>1, <1>6 DEF Keys!Asks
  <2>2. b \in Keys!Range(rest)
    BY <1>3, <1>4, <1>6, <2>1 DEF S
  <2>3. keymap' = rest \o additions
    BY <1>1 DEF Keys!Joined
  <2>4. PICK i \in DOMAIN rest : rest[i] = b
    BY <2>2 DEF Keys!Range
  <2>5. rest \in Seq(Keys!Bindings) /\ additions \in Seq(Keys!Bindings)
    BY <1>2, <1>4 DEF Maps
  <2>6. i \in DOMAIN (rest \o additions) /\ (rest \o additions)[i] = b
    BY <2>4, <2>5
  <2> QED BY <2>3, <2>6 DEF Keys!Range
<1> QED BY <1>5, <1>6

\* The keymap in force, a profile that can be read, and the keymap read from it.
KeymapInv == keymap \in Maps /\ Keys!IsProfile(file) /\ Keys!Read(file) # Failed

\* edit_key ends in such a replacement.
LEMMA EditKeyKeeps ==
    ASSUME Keys!ConstantsAssumption, KeymapInv, NEW x \in Contexts, NEW c \in Commands,
               Keys!EditKey(x, c)
    PROVE  /\ KeymapInv'
           /\ ~asked' => \A b \in Keys!Range(keymap) : <<b.context, b.command>> = edited'
                                                  \/ b \in Keys!Range(keymap')
<1>1. keymap \in Maps /\ edited' = <<x, c>> /\ file' = file
  BY DEF KeymapInv, Keys!EditKey
<1>2. PICK keyList \in Seq(Seq(Strokes)) : Keys!Replace(x, c, keyList)
  <2>1. KeySeqs \subseteq Seq(Strokes) /\ Keys!KeysOf(keymap, x, c) \in Seq(Seq(Strokes))
    BY <1>1, KeysOfIs DEF Keys!ConstantsAssumption
  <2>2. \A k \in KeySeqs : <<k>> \in Seq(Seq(Strokes))
                           /\ Append(Keys!KeysOf(keymap, x, c), k) \in Seq(Seq(Strokes))
    BY <2>1
  <2>3. <<>> \in Seq(Seq(Strokes))
    OBVIOUS
  <2> QED BY <2>2, <2>3 DEF Keys!EditKey
<1>3. keymap' \in Maps
      /\ (~asked' => \A b \in Keys!Range(keymap) : <<b.context, b.command>> = <<x, c>>
                                              \/ b \in Keys!Range(keymap'))
  BY <1>1, <1>2, ReplaceKeeps
<1> QED BY <1>1, <1>3 DEF KeymapInv, Keys!IsProfile, Keys!Read

\* The first keymap is read from a profile that is not refused.
LEMMA KeymapInitHolds == Keys!ConstantsAssumption /\ Keys!Init => KeymapInv
<1> SUFFICES ASSUME Keys!ConstantsAssumption, Keys!Init
             PROVE  KeymapInv
  OBVIOUS
<1>1. file \in Files /\ Keys!Read(file) # Failed /\ keymap = Keys!Inherited(Keys!Read(file))
  BY DEF Keys!Init
<1>2. Keys!IsProfile(file)
  BY <1>1 DEF Keys!ConstantsAssumption
<1>3. Keys!Read(file) \in Maps
  BY <1>1, <1>2, ReadKeeps DEF Outcomes
<1> QED BY <1>1, <1>2, <1>3, InheritedKeeps DEF KeymapInv

\* A save is read back before it counts, a load reads the profile, an edit replaces.
LEMMA KeymapNextHolds ==
    ASSUME Keys!ConstantsAssumption, KeymapInv, [Keys!Next]_(Keys!vars)
    PROVE  KeymapInv'
<1>1. CASE Keys!Save
  <2> DEFINE new == Keys!Update(file, Keys!Changed(Keys!Read(file)))
  <2>1. keymap' = keymap /\ (file' = file \/ (file' = new /\ Keys!Read(new) # Failed))
    BY <1>1 DEF Keys!Save
  <2>2. Keys!Changed(Keys!Read(file)) \in SUBSET (Contexts \X Commands)
    BY DEF Keys!Changed
  <2>3. Keys!IsProfile(new)
    BY <2>2, UpdateKeeps DEF KeymapInv
  <2> HIDE DEF new
  <2> QED BY <2>1, <2>3 DEF KeymapInv
<1>2. CASE Keys!Load
  <2>1. Keys!Read(file) \in Maps
    BY ReadKeeps DEF KeymapInv, Outcomes
  <2> QED BY <1>2, <2>1, InheritedKeeps DEF KeymapInv, Keys!Load
<1>3. CASE \E x \in Contexts, c \in Commands : Keys!EditKey(x, c)
  BY <1>3, EditKeyKeeps
<1>4. CASE UNCHANGED Keys!vars
  BY <1>4 DEF KeymapInv, Keys!vars
<1> QED BY <1>1, <1>2, <1>3, <1>4, Zenon DEF Keys!Next

\* Only an edit can take a key, and it asked.
LEMMA KeymapAsks ==
    ASSUME Keys!ConstantsAssumption, KeymapInv, Keys!Next, edited' # None, ~asked'
    PROVE  \A b \in Keys!Range(keymap) :
             <<b.context, b.command>> = edited' \/ b \in Keys!Range(keymap')
<1>1. ~Keys!Save /\ ~Keys!Load
  BY DEF Keys!Save, Keys!Load
<1>2. PICK x \in Contexts, c \in Commands : Keys!EditKey(x, c)
  BY <1>1 DEF Keys!Next
<1> QED BY <1>2, EditKeyKeeps

LEMMA KeymapInvHolds == Keys!Spec => []KeymapInv
<1>1. Keys!ConstantsAssumption
  BY PartsAssumption
<1>2. Keys!Init => KeymapInv
  BY <1>1, KeymapInitHolds
<1>3. KeymapInv /\ [Keys!Next]_(Keys!vars) => KeymapInv'
  BY <1>1, KeymapNextHolds
<1> QED
  BY <1>2, <1>3, PTL DEF Keys!Spec

(* What is typed in a context never has two meanings, however the profile   *)
(* was written and whatever the Preferences made of the keymap.             *)
THEOREM KeysHaveOneMeaning == Keys!Spec => []OneMeaning
<1>1. KeymapInv => OneMeaning
  BY DEF KeymapInv, Maps, OneMeaning, Keys!OneMeaning
<1> QED
  BY <1>1, KeymapInvHolds, PTL

(* An edit to which the user was not asked to agree leaves every binding of *)
(* every other command and context.                                         *)
THEOREM NoKeyIsTaken == Keys!Spec => NoKeyTakenUnasked
<1>1. Keys!ConstantsAssumption
  BY PartsAssumption
<1>2. KeymapInv /\ [Keys!Next]_(Keys!vars) =>
        [edited' # None /\ ~asked' =>
           \A b \in Keys!Range(keymap) : <<b.context, b.command>> = edited'
                                         \/ b \in Keys!Range(keymap')]_(Keys!vars)
  <2> SUFFICES ASSUME KeymapInv, Keys!Next, edited' # None, ~asked'
               PROVE  \A b \in Keys!Range(keymap) : <<b.context, b.command>> = edited'
                                                      \/ b \in Keys!Range(keymap')
    OBVIOUS
  <2> QED BY <1>1, KeymapAsks
<1> QED
  BY <1>2, KeymapInvHolds, PTL DEF Keys!Spec, NoKeyTakenUnasked, Keys!NoKeyTakenUnasked

----------------------------------------------------------------------------
(* Parts of a keymap *)

LEMMA RangeEmpty == Keys!Range(<<>>) = {}
  BY DEF Keys!Range

LEMMA RangeAppend ==
    ASSUME NEW E, NEW m \in Seq(E), NEW b \in E
    PROVE  Keys!Range(Append(m, b)) = Keys!Range(m) \cup {b}
<1> DEFINE more == Append(m, b)
           n == Len(m)
<1>1. /\ n \in Nat /\ DOMAIN m = 1 .. n /\ DOMAIN more = 1 .. n + 1 /\ more[n + 1] = b
      /\ \A k \in 1 .. n : more[k] = m[k]
  OBVIOUS
<1> HIDE DEF more, n
<1>2. \A i \in 1 .. n + 1 : i \in 1 .. n \/ i = n + 1
  BY <1>1
<1>3. 1 .. n \subseteq 1 .. n + 1 /\ n + 1 \in 1 .. n + 1
  BY <1>1
<1>4. Keys!Range(more) = Keys!Range(m) \cup {b}
  BY <1>1, <1>2, <1>3 DEF Keys!Range
<1> QED BY <1>4 DEF more

LEMMA RangeJoin ==
    ASSUME NEW E, NEW a \in Seq(E), NEW b \in Seq(E)
    PROVE  Keys!Range(a \o b) = Keys!Range(a) \cup Keys!Range(b)
<1> DEFINE both == a \o b
           n == Len(a)
           p == Len(b)
<1>1. /\ n \in Nat /\ p \in Nat /\ DOMAIN a = 1 .. n /\ DOMAIN b = 1 .. p /\ DOMAIN both = 1 .. n + p
      /\ \A k \in 1 .. n : both[k] = a[k]
      /\ \A k \in 1 .. p : both[n + k] = b[k]
  OBVIOUS
<1> HIDE DEF both, n, p
<1>2. \A i \in 1 .. n + p : i \in 1 .. n \/ (i - n \in 1 .. p /\ i = n + (i - n))
  BY <1>1
<1>3. 1 .. n \subseteq 1 .. n + p /\ \A k \in 1 .. p : n + k \in 1 .. n + p
  BY <1>1
<1>4. Keys!Range(both) \subseteq Keys!Range(a) \cup Keys!Range(b)
  <2> SUFFICES ASSUME NEW i \in 1 .. n + p
               PROVE  both[i] \in Keys!Range(a) \cup Keys!Range(b)
    BY <1>1 DEF Keys!Range
  <2>1. CASE i \in 1 .. n
    BY <1>1, <2>1 DEF Keys!Range
  <2>2. CASE i - n \in 1 .. p /\ i = n + (i - n)
    <3>1. both[i] = b[i - n] /\ i - n \in DOMAIN b
      BY <1>1, <2>2
    <3> QED BY <3>1 DEF Keys!Range
  <2> QED BY <1>2, <2>1, <2>2
<1>5. Keys!Range(a) \subseteq Keys!Range(both)
  BY <1>1, <1>3 DEF Keys!Range
<1>6. Keys!Range(b) \subseteq Keys!Range(both)
  <2> SUFFICES ASSUME NEW k \in 1 .. p
               PROVE  b[k] \in Keys!Range(both)
    BY <1>1 DEF Keys!Range
  <2>1. n + k \in DOMAIN both /\ both[n + k] = b[k]
    BY <1>1, <1>3
  <2> QED BY <2>1 DEF Keys!Range
<1> QED BY <1>4, <1>5, <1>6 DEF both

LEMMA JoinLen ==
    ASSUME NEW E, NEW a \in Seq(E), NEW b \in Seq(E)
    PROVE  Len(a \o b) = Len(a) + Len(b) /\ Len(a) \in Nat
  OBVIOUS

LEMMA JoinAppend ==
    ASSUME NEW E, NEW a \in Seq(E), NEW b \in Seq(E), NEW e \in E
    PROVE  a \o Append(b, e) = Append(a \o b, e)
<1>1. Append(b, e) = b \o <<e>> /\ Append(a \o b, e) = (a \o b) \o <<e>> /\ <<e>> \in Seq(E)
  BY AppendIsConcat
<1> QED BY <1>1, ConcatAssociative

\* What is left of two keymaps one after the other.
LEMMA KeptJoin ==
    ASSUME NEW E, NEW a \in Seq(E), NEW b \in Seq(E), NEW S
    PROVE  Keys!Kept(a \o b, S) = Keys!Kept(a, S) \o Keys!Kept(b, S)
<1> DEFINE G == {m \in Seq(E) : Keys!Kept(a \o m, S) = Keys!Kept(a, S) \o Keys!Kept(m, S)}
<1>0. Keys!Kept(a, S) \in Seq(E)
  BY KeptIs
<1>1. <<>> \in G
  <2>1. a \o <<>> = a /\ Keys!Kept(a, S) \o <<>> = Keys!Kept(a, S)
    BY <1>0, ConcatEmptySeq
  <2>2. Keys!Kept(a \o <<>>, S) = Keys!Kept(a, S) \o Keys!Kept(<<>>, S)
    BY <2>1, KeptEmpty, Zenon
  <2>3. <<>> \in Seq(E)
    OBVIOUS
  <2> QED BY <2>2, <2>3
<1>2. ASSUME NEW m \in Seq(E), NEW e \in E, m \in G
      PROVE  Append(m, e) \in G
  <2>1. Keys!Kept(a \o m, S) = Keys!Kept(a, S) \o Keys!Kept(m, S) /\ Keys!Kept(m, S) \in Seq(E)
    BY <1>2, KeptIs
  <2>2. a \o m \in Seq(E) /\ a \o Append(m, e) = Append(a \o m, e)
    BY JoinAppend
  <2>3. Keys!Kept(Append(a \o m, e), S)
          = IF e \in S THEN Append(Keys!Kept(a \o m, S), e) ELSE Keys!Kept(a \o m, S)
    BY <2>2, KeptAppend
  <2>4. Keys!Kept(Append(m, e), S) = IF e \in S THEN Append(Keys!Kept(m, S), e) ELSE Keys!Kept(m, S)
    BY KeptAppend
  <2>5. Keys!Kept(a, S) \o Append(Keys!Kept(m, S), e)
          = Append(Keys!Kept(a, S) \o Keys!Kept(m, S), e)
    BY <1>0, <2>1, JoinAppend
  <2>6. Keys!Kept(a \o Append(m, e), S) = Keys!Kept(a, S) \o Keys!Kept(Append(m, e), S)
    BY <2>1, <2>2, <2>3, <2>4, <2>5, Zenon
  <2> QED BY <2>6
<1> HIDE DEF G
<1>3. \A m \in Seq(E) : m \in G
  BY <1>1, <1>2, Grown
<1>4. b \in G
  BY <1>3
<1> QED BY <1>4 DEF G

\* What is left of what is left.
LEMMA KeptTwice ==
    ASSUME NEW E, NEW a \in Seq(E), NEW S, NEW T
    PROVE  Keys!Kept(Keys!Kept(a, S), T) = Keys!Kept(a, S \cap T)
<1> DEFINE G == {m \in Seq(E) : Keys!Kept(Keys!Kept(m, S), T) = Keys!Kept(m, S \cap T)}
<1>1. <<>> \in G
  BY KeptEmpty
<1>2. ASSUME NEW m \in Seq(E), NEW e \in E, m \in G
      PROVE  Append(m, e) \in G
  <2>1. Keys!Kept(Keys!Kept(m, S), T) = Keys!Kept(m, S \cap T) /\ Keys!Kept(m, S) \in Seq(E)
    BY <1>2, KeptIs
  <2>2. Keys!Kept(Append(m, e), S) = IF e \in S THEN Append(Keys!Kept(m, S), e) ELSE Keys!Kept(m, S)
    BY KeptAppend
  <2>3. Keys!Kept(Append(m, e), S \cap T)
          = IF e \in S \cap T THEN Append(Keys!Kept(m, S \cap T), e) ELSE Keys!Kept(m, S \cap T)
    BY KeptAppend
  <2>4. Keys!Kept(Append(Keys!Kept(m, S), e), T)
          = IF e \in T THEN Append(Keys!Kept(Keys!Kept(m, S), T), e) ELSE Keys!Kept(Keys!Kept(m, S), T)
    BY <2>1, KeptAppend
  <2>5. Keys!Kept(Keys!Kept(Append(m, e), S), T) = Keys!Kept(Append(m, e), S \cap T)
    <3>1. CASE e \in S
      <4>1. e \in S \cap T <=> e \in T
        BY <3>1
      <4> QED BY <2>1, <2>2, <2>3, <2>4, <3>1, <4>1, Zenon
    <3>2. CASE e \notin S
      <4>1. e \notin S \cap T
        BY <3>2
      <4> QED BY <2>1, <2>2, <2>3, <3>2, <4>1, Zenon
    <3> QED BY <3>1, <3>2
  <2> QED BY <2>5
<1> HIDE DEF G
<1>3. \A m \in Seq(E) : m \in G
  BY <1>1, <1>2, Grown
<1>4. a \in G
  BY <1>3
<1> QED BY <1>4 DEF G

\* Sets that agree on the bindings there are leave the same.
LEMMA KeptSame ==
    ASSUME NEW E, NEW a \in Seq(E), NEW S, NEW T, \A b \in Keys!Range(a) : b \in S <=> b \in T
    PROVE  Keys!Kept(a, S) = Keys!Kept(a, T)
<1> DEFINE G == {m \in Seq(E) : (\A b \in Keys!Range(m) : b \in S <=> b \in T)
                                  => Keys!Kept(m, S) = Keys!Kept(m, T)}
<1>1. <<>> \in G
  BY KeptEmpty
<1>2. ASSUME NEW m \in Seq(E), NEW e \in E, m \in G
      PROVE  Append(m, e) \in G
  <2> SUFFICES ASSUME \A b \in Keys!Range(Append(m, e)) : b \in S <=> b \in T
               PROVE  Keys!Kept(Append(m, e), S) = Keys!Kept(Append(m, e), T)
    OBVIOUS
  <2>1. (e \in S <=> e \in T) /\ Keys!Kept(m, S) = Keys!Kept(m, T)
    BY <1>2, RangeAppend
  <2>2. Keys!Kept(Append(m, e), S) = IF e \in S THEN Append(Keys!Kept(m, S), e) ELSE Keys!Kept(m, S)
    BY KeptAppend
  <2>3. Keys!Kept(Append(m, e), T) = IF e \in T THEN Append(Keys!Kept(m, T), e) ELSE Keys!Kept(m, T)
    BY KeptAppend
  <2> QED BY <2>1, <2>2, <2>3
<1> HIDE DEF G
<1>3. \A m \in Seq(E) : m \in G
  BY <1>1, <1>2, Grown
<1>4. a \in G
  BY <1>3
<1> QED BY <1>4 DEF G

LEMMA KeptAll ==
    ASSUME NEW E, NEW a \in Seq(E), NEW S, Keys!Range(a) \subseteq S
    PROVE  Keys!Kept(a, S) = a
<1> DEFINE G == {m \in Seq(E) : Keys!Range(m) \subseteq S => Keys!Kept(m, S) = m}
<1>1. <<>> \in G
  BY KeptEmpty
<1>2. ASSUME NEW m \in Seq(E), NEW e \in E, m \in G
      PROVE  Append(m, e) \in G
  <2> SUFFICES ASSUME Keys!Range(Append(m, e)) \subseteq S
               PROVE  Keys!Kept(Append(m, e), S) = Append(m, e)
    OBVIOUS
  <2>1. e \in S /\ Keys!Kept(m, S) = m
    BY <1>2, RangeAppend
  <2>2. Keys!Kept(Append(m, e), S) = IF e \in S THEN Append(Keys!Kept(m, S), e) ELSE Keys!Kept(m, S)
    BY KeptAppend
  <2> QED BY <2>1, <2>2
<1> HIDE DEF G
<1>3. \A m \in Seq(E) : m \in G
  BY <1>1, <1>2, Grown
<1>4. a \in G
  BY <1>3
<1> QED BY <1>4 DEF G

LEMMA KeptNone ==
    ASSUME NEW E, NEW a \in Seq(E), NEW S, Keys!Range(a) \cap S = {}
    PROVE  Keys!Kept(a, S) = <<>>
<1>1. Keys!Kept(a, S) = Keys!Kept(a, {})
  BY KeptSame
<1> DEFINE G == {m \in Seq(E) : Keys!Kept(m, {}) = <<>>}
<1>2. <<>> \in G
  BY KeptEmpty
<1>3. ASSUME NEW m \in Seq(E), NEW e \in E, m \in G
      PROVE  Append(m, e) \in G
  <2>1. Keys!Kept(Append(m, e), {}) = IF e \in {} THEN Append(Keys!Kept(m, {}), e) ELSE Keys!Kept(m, {})
    BY KeptAppend
  <2> QED BY <1>3, <2>1
<1> HIDE DEF G
<1>4. \A m \in Seq(E) : m \in G
  BY <1>2, <1>3, Grown
<1>5. a \in G
  BY <1>4
<1> QED BY <1>1, <1>5 DEF G

----------------------------------------------------------------------------
(* What competes *)

\* A binding competes with itself, and strokes alone decide.
LEMMA OverlapsItself ==
    ASSUME NEW a \in Keys!Bindings, NEW b \in Keys!Bindings, a.context = b.context, a.keys = b.keys
    PROVE  Keys!Overlaps(a, b)
<1>1. a.keys \in Seq(Strokes)
  BY DEF Keys!Bindings
<1> QED BY <1>1 DEF Keys!Overlaps, Keys!IsPrefix

LEMMA OverlapsAlike ==
    ASSUME NEW a, NEW b, NEW d, a.context = b.context, a.keys = b.keys
    PROVE  Keys!Overlaps(a, d) <=> Keys!Overlaps(b, d)
  BY DEF Keys!Overlaps

\* Of bindings that are apart no two compete, and none is there twice.
LEMMA ApartIs ==
    ASSUME NEW m \in Maps, NEW a \in Keys!Range(m), NEW b \in Keys!Range(m), Keys!Overlaps(a, b)
    PROVE  a = b
  BY DEF Maps, Keys!Apart, Keys!Range

LEMMA ApartOnce ==
    ASSUME NEW m \in Maps, NEW i \in DOMAIN m, NEW j \in DOMAIN m, m[i] = m[j]
    PROVE  i = j
<1>1. m[i] \in Keys!Bindings
  BY DEF Maps
<1>2. Keys!Overlaps(m[i], m[j])
  BY <1>1, OverlapsItself
<1> QED BY <1>2 DEF Maps, Keys!Apart

\* And conversely.
Once(s) == \A i, j \in DOMAIN s : s[i] = s[j] => i = j

LEMMA ApartFrom ==
    ASSUME NEW m \in Seq(Keys!Bindings), Once(m),
           \A a, b \in Keys!Range(m) : Keys!Overlaps(a, b) => a = b
    PROVE  m \in Maps
<1> SUFFICES ASSUME NEW i \in DOMAIN m, NEW j \in DOMAIN m, i # j
             PROVE  ~Keys!Overlaps(m[i], m[j])
  BY DEF Maps, Keys!Apart
<1>1. m[i] # m[j] /\ m[i] \in Keys!Range(m) /\ m[j] \in Keys!Range(m)
  BY DEF Keys!Range, Once
<1> QED BY <1>1

LEMMA MembersAre ==
    ASSUME NEW m \in Maps, NEW b \in Keys!Range(m)
    PROVE  b \in Keys!Bindings
  BY DEF Maps, Keys!Range

\* A binding takes the place of what competes with it.
Substituted(m, b) == [i \in DOMAIN m |-> IF Keys!Overlaps(m[i], b) THEN b ELSE m[i]]

Competes(m, b) == \E a \in Keys!Range(m) : Keys!Overlaps(a, b)

\* nav_keymap_bind, where it does not fail.
LEMMA BindIs ==
    ASSUME NEW m \in Maps, Failed \notin Maps, NEW b \in Keys!Bindings, Keys!Bind(m, b) # Failed
    PROVE  /\ Keys!Bind(m, b) \in Maps
           /\ Keys!Bind(m, b) = IF Competes(m, b) THEN Substituted(m, b) ELSE Append(m, b)
           /\ \A a \in Keys!Range(m) : Keys!Overlaps(a, b) => a.keys = b.keys /\ ~a.configured
<1> DEFINE same == {i \in DOMAIN m : Keys!Overlaps(m[i], b)}
           n == Keys!Bind(m, b)
<1>1. n \in Maps
  BY BindKeeps DEF Outcomes
<1>2. m # Failed
  OBVIOUS
<1>3. \A i \in same : m[i].keys = b.keys /\ ~m[i].configured
  BY <1>2 DEF Keys!Bind
<1>4. n = IF same # {} THEN Substituted(m, b) ELSE Append(m, b)
  BY <1>2 DEF Keys!Bind, Substituted
<1>5. same # {} <=> Competes(m, b)
  BY DEF Competes, Keys!Range
<1>6. \A a \in Keys!Range(m) : Keys!Overlaps(a, b) => \E i \in same : a = m[i]
  BY DEF Keys!Range
<1> HIDE DEF same, n
<1>7. \A a \in Keys!Range(m) : Keys!Overlaps(a, b) => a.keys = b.keys /\ ~a.configured
  BY <1>3, <1>6
<1> QED BY <1>1, <1>4, <1>5, <1>7 DEF n

\* And where it does not.
LEMMA BindSucceeds ==
    ASSUME NEW m \in Maps, Failed \notin Maps, NEW b \in Keys!Bindings,
           \A a \in Keys!Range(m) : Keys!Overlaps(a, b) => a.keys = b.keys /\ ~a.configured,
           Competes(m, b) \/ Len(m) # BindingMax
    PROVE  Keys!Bind(m, b) # Failed
<1> DEFINE same == {i \in DOMAIN m : Keys!Overlaps(m[i], b)}
<1>1. \A i \in DOMAIN m : m[i] \in Keys!Range(m)
  BY DEF Keys!Range
<1>2. \A i \in same : m[i].keys = b.keys /\ ~m[i].configured
  BY <1>1
<1>3. same # {} <=> Competes(m, b)
  BY DEF Competes, Keys!Range
<1>4. m # Failed
  OBVIOUS
<1>5. Substituted(m, b) \in Maps
  <2> DEFINE replaced == [i \in DOMAIN m |-> IF i \in same THEN b ELSE m[i]]
  <2>1. replaced = Substituted(m, b)
    BY DEF Substituted
  <2>2. m \in Seq(Keys!Bindings) /\ Keys!Apart(m) /\ DOMAIN m = 1 .. Len(m)
    BY DEF Maps
  <2>3. replaced \in Seq(Keys!Bindings) /\ DOMAIN replaced = DOMAIN m
    <3>1. \A i \in 1 .. Len(m) : replaced[i] \in Keys!Bindings
      BY <2>2
    <3> QED BY <2>2, <3>1
  <2>4. ASSUME NEW i \in DOMAIN m, NEW j \in DOMAIN m, i # j
        PROVE  ~Keys!Overlaps(replaced[i], replaced[j])
    <3>1. ~Keys!Overlaps(m[i], m[j])
      BY <2>2, <2>4 DEF Keys!Apart
    <3>2. CASE i \in same /\ j \in same
      <4>1. m[i].keys = b.keys /\ m[j].keys = b.keys
        BY <1>2, <3>2
      <4>2. Keys!Overlaps(m[i], b) /\ Keys!Overlaps(m[j], b)
        BY <3>2
      <4> QED BY <3>1, <4>1, <4>2 DEF Keys!Overlaps
    <3>3. CASE i \in same /\ j \notin same
      BY <3>3, OverlapIsMutual
    <3>4. CASE i \notin same
      BY <3>1, <3>4
    <3> QED BY <3>2, <3>3, <3>4
  <2> HIDE DEF replaced, same
  <2> QED BY <2>1, <2>3, <2>4 DEF Maps, Keys!Apart
<1>6. Append(m, b) # Failed \/ same # {}
  <2> SUFFICES ASSUME same = {}
               PROVE  Append(m, b) \in Maps
    OBVIOUS
  <2>1. \A i \in DOMAIN m : ~Keys!Overlaps(m[i], b)
    OBVIOUS
  <2>2. m \in Seq(Keys!Bindings) /\ Append(m, b) \in Seq(Keys!Bindings)
    BY DEF Maps
  <2>3. Keys!Range(Append(m, b)) = Keys!Range(m) \cup {b}
    BY <2>2, RangeAppend
  <2>4. \A a \in Keys!Range(m) : ~Keys!Overlaps(a, b) /\ ~Keys!Overlaps(b, a)
    BY <2>1, OverlapIsMutual DEF Keys!Range
  <2>5. \A a, d \in Keys!Range(Append(m, b)) : Keys!Overlaps(a, d) => a = d
    BY <2>3, <2>4, ApartIs
  <2>6. Once(Append(m, b))
    <3>1. Keys!Overlaps(b, b)
      BY OverlapsItself
    <3>2. b \notin Keys!Range(m)
      BY <2>4, <3>1
    <3>3. \A i \in DOMAIN m : m[i] # b
      BY <3>2 DEF Keys!Range
    <3>4. /\ DOMAIN Append(m, b) = 1 .. Len(m) + 1 /\ Append(m, b)[Len(m) + 1] = b
          /\ DOMAIN m = 1 .. Len(m) /\ Len(m) \in Nat
          /\ \A i \in 1 .. Len(m) : Append(m, b)[i] = m[i]
      BY <2>2
    <3>5. \A i, j \in DOMAIN m : m[i] = m[j] => i = j
      BY ApartOnce
    <3> DEFINE more == Append(m, b)
               n == Len(m)
    <3> HIDE DEF more, n
    <3>6. \A i \in 1 .. n + 1 : i \in 1 .. n \/ i = n + 1
      BY <3>4 DEF n
    <3>7. \A i, j \in 1 .. n + 1 : more[i] = more[j] => i = j
      BY <3>3, <3>4, <3>5, <3>6 DEF more, n
    <3> QED BY <3>4, <3>7 DEF Once, more, n
  <2> QED BY <2>2, <2>5, <2>6, ApartFrom
<1> HIDE DEF same
<1>7. Keys!Bind(m, b) = IF same # {} THEN Substituted(m, b) ELSE Append(m, b)
  <2>1. ~(\E i \in same : m[i].keys # b.keys \/ m[i].configured)
    BY <1>2
  <2>2. same # {} \/ Len(m) # BindingMax
    BY <1>3
  <2> QED BY <1>4, <2>1, <2>2 DEF Keys!Bind, Substituted, same
<1> QED BY <1>5, <1>6, <1>7

\* What a keymap has after a binding.
LEMMA BindRange ==
    ASSUME NEW m \in Maps, Failed \notin Maps, NEW b \in Keys!Bindings, Keys!Bind(m, b) # Failed
    PROVE  Keys!Range(Keys!Bind(m, b)) = {a \in Keys!Range(m) : ~Keys!Overlaps(a, b)} \cup {b}
<1>1. Keys!Bind(m, b) = IF Competes(m, b) THEN Substituted(m, b) ELSE Append(m, b)
  BY BindIs
<1>2. CASE Competes(m, b)
  <2> DEFINE n == Substituted(m, b)
  <2>1. DOMAIN n = DOMAIN m /\ \A i \in DOMAIN m : n[i] = IF Keys!Overlaps(m[i], b) THEN b ELSE m[i]
    BY DEF Substituted
  <2>2. \E i \in DOMAIN m : Keys!Overlaps(m[i], b)
    BY <1>2 DEF Competes, Keys!Range
  <2> HIDE DEF n
  <2>3. Keys!Range(n) = {a \in Keys!Range(m) : ~Keys!Overlaps(a, b)} \cup {b}
    BY <2>1, <2>2 DEF Keys!Range
  <2> QED BY <1>1, <1>2, <2>3 DEF n
<1>3. CASE ~Competes(m, b)
  <2>1. Keys!Range(Append(m, b)) = Keys!Range(m) \cup {b}
    BY RangeAppend DEF Maps
  <2>2. \A a \in Keys!Range(m) : ~Keys!Overlaps(a, b)
    BY <1>3 DEF Competes
  <2> QED BY <1>1, <1>3, <2>1, <2>2
<1> QED BY <1>2, <1>3

\* Bindings of a profile.
Explicits == {b \in Keys!Bindings : b.configured}

LEMMA BindAllFails ==
    ASSUME NEW ls \in Seq(Keys!Bindings)
    PROVE  Keys!BindAll(Failed, ls) = Failed
<1> DEFINE G == {s \in Seq(Keys!Bindings) : Keys!BindAll(Failed, s) = Failed}
<1>0. Failed \in Outcomes
  BY DEF Outcomes
<1>1. <<>> \in G
  BY <1>0, BindAllEmpty
<1>2. ASSUME NEW s \in Seq(Keys!Bindings), NEW b \in Keys!Bindings, s \in G
      PROVE  Append(s, b) \in G
  <2>1. Keys!BindAll(Failed, Append(s, b)) = Keys!Bind(Keys!BindAll(Failed, s), b)
    BY <1>0, BindAllAppend
  <2>2. Keys!Bind(Failed, b) = Failed
    BY DEF Keys!Bind
  <2> QED BY <1>2, <2>1, <2>2
<1> HIDE DEF G
<1>3. \A s \in Seq(Keys!Bindings) : s \in G
  BY <1>1, <1>2, Grown
<1>4. ls \in G
  BY <1>3
<1> QED BY <1>4 DEF G

\* What a keymap has after the bindings of a table: all of them and what none of
\* them competes with.  What they compete with has the same keys and was inherited.
BoundIs(m, ls) ==
    /\ Keys!BindAll(m, ls) \in Maps
    /\ Keys!Range(Keys!BindAll(m, ls))
         = {a \in Keys!Range(m) : \A b \in Keys!Range(ls) : ~Keys!Overlaps(a, b)} \cup Keys!Range(ls)
    /\ \A a \in Keys!Range(m), b \in Keys!Range(ls) :
         Keys!Overlaps(a, b) => a.keys = b.keys /\ ~a.configured

LEMMA BindAllIs ==
    ASSUME NEW m \in Maps, Failed \notin Maps, NEW ls \in Seq(Explicits), Keys!BindAll(m, ls) # Failed
    PROVE  BoundIs(m, ls)
<1> DEFINE G == {s \in Seq(Explicits) : Keys!BindAll(m, s) # Failed => BoundIs(m, s)}
<1>0. m \in Outcomes /\ Explicits \subseteq Keys!Bindings
  BY DEF Outcomes, Explicits
<1>1. <<>> \in G
  <2>1. Keys!BindAll(m, <<>>) = m
    BY <1>0, BindAllEmpty
  <2> QED BY <2>1, RangeEmpty DEF BoundIs
<1>2. ASSUME NEW s \in Seq(Explicits), NEW b \in Explicits, s \in G
      PROVE  Append(s, b) \in G
  <2> SUFFICES ASSUME Keys!BindAll(m, Append(s, b)) # Failed
               PROVE  BoundIs(m, Append(s, b))
    OBVIOUS
  <2> DEFINE n == Keys!BindAll(m, s)
  <2>1. s \in Seq(Keys!Bindings) /\ b \in Keys!Bindings /\ b.configured
    BY <1>0 DEF Explicits
  <2>2. Keys!BindAll(m, Append(s, b)) = Keys!Bind(n, b)
    BY <1>0, <2>1, BindAllAppend
  <2>3. n # Failed
    BY <2>2 DEF Keys!Bind
  <2>4. BoundIs(m, s)
    BY <1>2, <2>3
  <2>5. n \in Maps
    BY <2>4 DEF BoundIs
  <2> HIDE DEF n
  <2>6. /\ Keys!Bind(n, b) \in Maps
        /\ \A a \in Keys!Range(n) : Keys!Overlaps(a, b) => a.keys = b.keys /\ ~a.configured
    BY <2>1, <2>2, <2>5, BindIs
  <2>7. Keys!Range(Keys!Bind(n, b)) = {a \in Keys!Range(n) : ~Keys!Overlaps(a, b)} \cup {b}
    BY <2>1, <2>2, <2>5, BindRange
  <2>8. Keys!Range(Append(s, b)) = Keys!Range(s) \cup {b}
    BY RangeAppend
  <2>9. Keys!Range(n)
          = {a \in Keys!Range(m) : \A d \in Keys!Range(s) : ~Keys!Overlaps(a, d)} \cup Keys!Range(s)
        /\ \A a \in Keys!Range(m), d \in Keys!Range(s) :
             Keys!Overlaps(a, d) => a.keys = d.keys /\ ~a.configured
    BY <2>4 DEF BoundIs, n
  <2>10. \A d \in Keys!Range(s) : ~Keys!Overlaps(d, b)
    <3>1. \A d \in Keys!Range(s) : d \in Explicits
      BY DEF Keys!Range
    <3>2. \A d \in Keys!Range(s) : d \in Keys!Range(n) /\ d.configured
      BY <2>9, <3>1 DEF Explicits
    <3> QED BY <2>6, <3>2
  <2>11. Keys!Range(Keys!Bind(n, b))
           = {a \in Keys!Range(m) : \A d \in Keys!Range(Append(s, b)) : ~Keys!Overlaps(a, d)}
               \cup Keys!Range(Append(s, b))
    BY <2>7, <2>8, <2>9, <2>10
  <2>12. ASSUME NEW a \in Keys!Range(m), NEW d \in Keys!Range(Append(s, b)), Keys!Overlaps(a, d)
         PROVE  a.keys = d.keys /\ ~a.configured
    <3>1. CASE d \in Keys!Range(s)
      BY <2>9, <2>12, <3>1
    <3>2. CASE d = b /\ \E e \in Keys!Range(s) : Keys!Overlaps(a, e)
      <4>1. PICK e \in Keys!Range(s) : Keys!Overlaps(a, e)
        BY <3>2
      <4>2. a.keys = e.keys /\ a.context = e.context /\ ~a.configured
        BY <2>9, <4>1 DEF Keys!Overlaps
      <4>3. ~Keys!Overlaps(e, b)
        BY <2>10
      <4> QED BY <2>12, <3>2, <4>2, <4>3, OverlapsAlike
    <3>3. CASE d = b /\ \A e \in Keys!Range(s) : ~Keys!Overlaps(a, e)
      <4>1. a \in Keys!Range(n)
        BY <2>9, <3>3
      <4> QED BY <2>6, <2>12, <3>3, <4>1
    <3> QED BY <2>8, <3>1, <3>2, <3>3
  <2> QED BY <2>2, <2>6, <2>11, <2>12 DEF BoundIs
<1> HIDE DEF G
<1>3. \A s \in Seq(Explicits) : s \in G
  BY <1>1, <1>2, Grown
<1>4. ls \in G
  BY <1>3
<1> QED BY <1>4 DEF G

----------------------------------------------------------------------------
(* Two keymaps that are alike in a part, bound the same keys *)

LEMMA SubstitutedAppend ==
    ASSUME NEW m \in Seq(Keys!Bindings), NEW a \in Keys!Bindings, NEW b \in Keys!Bindings
    PROVE  /\ Substituted(m, b) \in Seq(Keys!Bindings)
           /\ Substituted(Append(m, a), b)
                = Append(Substituted(m, b), IF Keys!Overlaps(a, b) THEN b ELSE a)
<1> DEFINE n == Len(m)
           r == Substituted(m, b)
           e == IF Keys!Overlaps(a, b) THEN b ELSE a
           more == Append(m, a)
           s == Substituted(more, b)
<1>1. n \in Nat /\ DOMAIN m = 1 .. n /\ DOMAIN more = 1 .. n + 1 /\ more[n + 1] = a
      /\ \A k \in 1 .. n : more[k] = m[k]
  OBVIOUS
<1>2. DOMAIN r = 1 .. n /\ \A k \in 1 .. n : r[k] = IF Keys!Overlaps(m[k], b) THEN b ELSE m[k]
  BY <1>1 DEF Substituted
<1>3. r \in Seq(Keys!Bindings)
  <2>1. \A k \in 1 .. n : (IF Keys!Overlaps(m[k], b) THEN b ELSE m[k]) \in Keys!Bindings
    BY <1>1
  <2>2. r = [k \in 1 .. n |-> IF Keys!Overlaps(m[k], b) THEN b ELSE m[k]]
    BY <1>1 DEF Substituted
  <2> QED BY <1>1, <2>1, <2>2
<1>4. e \in Keys!Bindings
  OBVIOUS
<1>5. s = [k \in 1 .. n + 1 |-> IF Keys!Overlaps(more[k], b) THEN b ELSE more[k]]
  BY <1>1 DEF Substituted
<1> HIDE DEF n, more, s, r
<1>6. Len(r) = n
  BY <1>1, <1>2, <1>3
<1>7. s[n + 1] = e /\ \A k \in 1 .. n : s[k] = r[k]
  BY <1>1, <1>2, <1>5
<1>8. \A k \in 1 .. n + 1 : s[k] \in Keys!Bindings
  <2>1. \A k \in 1 .. n : r[k] \in Keys!Bindings
    <3>1. \A k \in DOMAIN r : r[k] \in Keys!Bindings
      BY <1>3
    <3> QED BY <1>2, <3>1
  <2>2. \A k \in 1 .. n + 1 : k \in 1 .. n \/ k = n + 1
    BY <1>1
  <2> QED BY <1>4, <1>7, <2>1, <2>2
<1>9. s \in Seq(Keys!Bindings) /\ Len(s) = n + 1
  BY <1>1, <1>5, <1>8
<1> HIDE DEF e
<1>10. s = Append(r, e)
  BY <1>1, <1>3, <1>4, <1>6, <1>7, <1>9
<1> QED BY <1>3, <1>10 DEF s, r, e, more

\* Where nothing competes nothing is replaced.
LEMMA SubstitutedNone ==
    ASSUME NEW m \in Seq(Keys!Bindings), NEW b, \A a \in Keys!Range(m) : ~Keys!Overlaps(a, b)
    PROVE  Substituted(m, b) = m
<1>1. \A i \in DOMAIN m : ~Keys!Overlaps(m[i], b)
  BY DEF Keys!Range
<1>2. Substituted(m, b) = [i \in DOMAIN m |-> m[i]]
  BY <1>1 DEF Substituted
<1> QED BY <1>2

\* A part to which the new binding belongs as much as what it replaces.
LEMMA KeptSubstituted ==
    ASSUME NEW m \in Seq(Keys!Bindings), NEW b \in Keys!Bindings, NEW S,
           \A a \in Keys!Range(m) : Keys!Overlaps(a, b) => (a \in S <=> b \in S)
    PROVE  Keys!Kept(Substituted(m, b), S) = Substituted(Keys!Kept(m, S), b)
<1> DEFINE G == {s \in Seq(Keys!Bindings) :
                   (\A a \in Keys!Range(s) : Keys!Overlaps(a, b) => (a \in S <=> b \in S))
                     => Keys!Kept(Substituted(s, b), S) = Substituted(Keys!Kept(s, S), b)}
<1>1. <<>> \in G
  <2>1. <<>> \in Seq(Keys!Bindings) /\ \A a \in Keys!Range(<<>>) : ~Keys!Overlaps(a, b)
    BY RangeEmpty
  <2>2. Substituted(<<>>, b) = <<>>
    BY <2>1, SubstitutedNone
  <2>3. Keys!Kept(Substituted(<<>>, b), S) = Substituted(Keys!Kept(<<>>, S), b)
    BY <2>2, KeptEmpty, Zenon
  <2> QED BY <2>1, <2>3
<1>2. ASSUME NEW s \in Seq(Keys!Bindings), NEW a \in Keys!Bindings, s \in G
      PROVE  Append(s, a) \in G
  <2> SUFFICES ASSUME \A d \in Keys!Range(Append(s, a)) : Keys!Overlaps(d, b) => (d \in S <=> b \in S)
               PROVE  Keys!Kept(Substituted(Append(s, a), b), S)
                        = Substituted(Keys!Kept(Append(s, a), S), b)
    OBVIOUS
  <2> DEFINE e == IF Keys!Overlaps(a, b) THEN b ELSE a
  <2>1. /\ \A d \in Keys!Range(s) : Keys!Overlaps(d, b) => (d \in S <=> b \in S)
        /\ Keys!Overlaps(a, b) => (a \in S <=> b \in S)
    BY RangeAppend
  <2>2. Keys!Kept(Substituted(s, b), S) = Substituted(Keys!Kept(s, S), b)
    BY <1>2, <2>1
  <2>3. Substituted(s, b) \in Seq(Keys!Bindings) /\ Keys!Kept(s, S) \in Seq(Keys!Bindings)
        /\ e \in Keys!Bindings
    BY SubstitutedAppend, KeptIs
  <2>4. Substituted(Append(s, a), b) = Append(Substituted(s, b), e)
    BY SubstitutedAppend
  <2>5. Keys!Kept(Append(Substituted(s, b), e), S)
          = IF e \in S THEN Append(Keys!Kept(Substituted(s, b), S), e)
            ELSE Keys!Kept(Substituted(s, b), S)
    <3> HIDE DEF e
    <3> QED BY <2>3, KeptAppend
  <2>6. Keys!Kept(Append(s, a), S) = IF a \in S THEN Append(Keys!Kept(s, S), a) ELSE Keys!Kept(s, S)
    BY KeptAppend
  <2>7. Substituted(Append(Keys!Kept(s, S), a), b) = Append(Substituted(Keys!Kept(s, S), b), e)
    BY <2>3, SubstitutedAppend
  <2>8. e \in S <=> a \in S
    BY <2>1
  <2> HIDE DEF e
  <2> QED BY <2>2, <2>4, <2>5, <2>6, <2>7, <2>8
<1> HIDE DEF G
<1>3. \A s \in Seq(Keys!Bindings) : s \in G
  BY <1>1, <1>2, Grown
<1>4. m \in G
  BY <1>3
<1> QED BY <1>4 DEF G

\* A binding outside of the part leaves it as it was.
LEMMA BindSkips ==
    ASSUME NEW m \in Maps, Failed \notin Maps, NEW b \in Keys!Bindings, Keys!Bind(m, b) # Failed,
           NEW S, b \notin S, \A a \in Keys!Range(m) : Keys!Overlaps(a, b) => a \notin S
    PROVE  Keys!Kept(Keys!Bind(m, b), S) = Keys!Kept(m, S)
<1>1. Keys!Bind(m, b) = IF Competes(m, b) THEN Substituted(m, b) ELSE Append(m, b)
  BY BindIs
<1>2. Keys!Kept(Append(m, b), S) = Keys!Kept(m, S)
  BY KeptAppend DEF Maps
<1>3. Keys!Kept(Substituted(m, b), S) = Substituted(Keys!Kept(m, S), b)
  BY KeptSubstituted DEF Maps
<1>4. Substituted(Keys!Kept(m, S), b) = Keys!Kept(m, S)
  <2>1. Keys!Kept(m, S) \in Maps /\ Keys!Range(Keys!Kept(m, S)) = Keys!Range(m) \cap S
    BY KeptKeeps
  <2>2. Keys!Kept(m, S) \in Seq(Keys!Bindings)
        /\ \A a \in Keys!Range(Keys!Kept(m, S)) : ~Keys!Overlaps(a, b)
    BY <2>1 DEF Maps
  <2> QED BY <2>2, SubstitutedNone
<1> QED BY <1>1, <1>2, <1>3, <1>4

\* A binding of the part does the same to both.
LEMMA BindAlike ==
    ASSUME NEW m \in Maps, NEW n \in Maps, Failed \notin Maps, NEW b \in Keys!Bindings,
           Keys!Bind(m, b) # Failed, Keys!Bind(n, b) # Failed,
           NEW S, b \in S, Keys!Kept(m, S) = Keys!Kept(n, S),
           \A a \in Keys!Range(m) \cup Keys!Range(n) : Keys!Overlaps(a, b) => a \in S
    PROVE  Keys!Kept(Keys!Bind(m, b), S) = Keys!Kept(Keys!Bind(n, b), S)
<1>1. /\ Keys!Bind(m, b) = IF Competes(m, b) THEN Substituted(m, b) ELSE Append(m, b)
      /\ Keys!Bind(n, b) = IF Competes(n, b) THEN Substituted(n, b) ELSE Append(n, b)
  BY BindIs
<1>2. /\ Keys!Range(Keys!Kept(m, S)) = Keys!Range(m) \cap S
      /\ Keys!Range(Keys!Kept(n, S)) = Keys!Range(n) \cap S
  BY KeptKeeps
<1>3. Competes(m, b) <=> Competes(n, b)
  BY <1>2 DEF Competes
<1>4. /\ Keys!Kept(Substituted(m, b), S) = Substituted(Keys!Kept(m, S), b)
      /\ Keys!Kept(Substituted(n, b), S) = Substituted(Keys!Kept(n, S), b)
  BY KeptSubstituted DEF Maps
<1>5. /\ Keys!Kept(Append(m, b), S) = Append(Keys!Kept(m, S), b)
      /\ Keys!Kept(Append(n, b), S) = Append(Keys!Kept(n, S), b)
  BY KeptAppend DEF Maps
<1> QED BY <1>1, <1>3, <1>4, <1>5

\* So do all the bindings of a table.
LEMMA BindAllSkips ==
    ASSUME NEW m \in Maps, Failed \notin Maps, NEW ls \in Seq(Explicits),
           Keys!BindAll(m, ls) # Failed, NEW S, Keys!Range(ls) \cap S = {},
           \A a \in Keys!Range(m), b \in Keys!Range(ls) : Keys!Overlaps(a, b) => a \notin S
    PROVE  Keys!Kept(Keys!BindAll(m, ls), S) = Keys!Kept(m, S)
<1> DEFINE Fits(s) == /\ Keys!BindAll(m, s) # Failed /\ Keys!Range(s) \cap S = {}
                      /\ \A a \in Keys!Range(m), b \in Keys!Range(s) :
                           Keys!Overlaps(a, b) => a \notin S
           G == {s \in Seq(Explicits) :
                   Fits(s) => Keys!Kept(Keys!BindAll(m, s), S) = Keys!Kept(m, S)}
<1>0. m \in Outcomes /\ Explicits \subseteq Keys!Bindings
  BY DEF Outcomes, Explicits
<1>1. <<>> \in G
  <2>1. Keys!BindAll(m, <<>>) = m
    BY <1>0, BindAllEmpty
  <2>2. <<>> \in Seq(Explicits)
    OBVIOUS
  <2> QED BY <2>1, <2>2
<1>2. ASSUME NEW s \in Seq(Explicits), NEW b \in Explicits, s \in G
      PROVE  Append(s, b) \in G
  <2> SUFFICES ASSUME Fits(Append(s, b))
               PROVE  Keys!Kept(Keys!BindAll(m, Append(s, b)), S) = Keys!Kept(m, S)
    OBVIOUS
  <2> DEFINE n == Keys!BindAll(m, s)
  <2>1. s \in Seq(Keys!Bindings) /\ b \in Keys!Bindings
    BY <1>0
  <2>2. Keys!BindAll(m, Append(s, b)) = Keys!Bind(n, b)
    BY <1>0, <2>1, BindAllAppend
  <2>3. n # Failed /\ Keys!Bind(n, b) # Failed
    BY <2>2 DEF Keys!Bind
  <2>4. Keys!Range(Append(s, b)) = Keys!Range(s) \cup {b}
    BY RangeAppend
  <2>5. Fits(s)
    BY <2>3, <2>4
  <2>6. BoundIs(m, s)
    BY <2>3, BindAllIs
  <2>7. n \in Maps /\ Keys!Range(n) \subseteq Keys!Range(m) \cup Keys!Range(s)
    BY <2>6 DEF BoundIs
  <2>8. b \notin S /\ \A a \in Keys!Range(n) : Keys!Overlaps(a, b) => a \notin S
    BY <2>4, <2>7
  <2>9. Keys!Kept(n, S) = Keys!Kept(m, S)
    BY <1>2, <2>5
  <2> HIDE DEF n
  <2>10. Keys!Kept(Keys!Bind(n, b), S) = Keys!Kept(n, S)
    BY <2>1, <2>3, <2>7, <2>8, BindSkips
  <2> QED BY <2>2, <2>9, <2>10
<1>3. Fits(ls)
  OBVIOUS
<1> HIDE DEF G, Fits
<1>4. \A s \in Seq(Explicits) : s \in G
  BY <1>1, <1>2, Grown
<1>5. ls \in G
  BY <1>4
<1> QED BY <1>3, <1>5 DEF G

\* A table, and what is left of it, bound to keymaps that are alike in a part: they
\* still are, if what has gone was not of the part.
Parallel(m, n, ls, U, S) ==
    /\ Keys!BindAll(m, ls) # Failed /\ Keys!BindAll(n, Keys!Kept(ls, U)) # Failed
    /\ Keys!Range(ls) \cap S \subseteq U
    /\ \A a \in Keys!Range(m) \cup Keys!Range(n), b \in Keys!Range(ls) :
         Keys!Overlaps(a, b) => (a \in S <=> b \in S)

LEMMA BindAllAlike ==
    ASSUME NEW m \in Maps, NEW n \in Maps, Failed \notin Maps, NEW ls \in Seq(Explicits),
           NEW S, NEW U, Keys!Kept(m, S) = Keys!Kept(n, S), Parallel(m, n, ls, U, S)
    PROVE  Keys!Kept(Keys!BindAll(m, ls), S) = Keys!Kept(Keys!BindAll(n, Keys!Kept(ls, U)), S)
<1> DEFINE G == {s \in Seq(Explicits) :
                   Parallel(m, n, s, U, S)
                     => Keys!Kept(Keys!BindAll(m, s), S)
                          = Keys!Kept(Keys!BindAll(n, Keys!Kept(s, U)), S)}
<1>0. m \in Outcomes /\ n \in Outcomes /\ Explicits \subseteq Keys!Bindings
  BY DEF Outcomes, Explicits
<1>1. <<>> \in G
  <2>1. Keys!BindAll(m, <<>>) = m /\ Keys!BindAll(n, <<>>) = n /\ Keys!Kept(<<>>, U) = <<>>
    BY <1>0, BindAllEmpty, KeptEmpty
  <2>2. <<>> \in Seq(Explicits)
    OBVIOUS
  <2>3. Keys!Kept(Keys!BindAll(m, <<>>), S) = Keys!Kept(Keys!BindAll(n, Keys!Kept(<<>>, U)), S)
    BY <2>1, Zenon
  <2> QED BY <2>2, <2>3
<1>2. ASSUME NEW s \in Seq(Explicits), NEW b \in Explicits, s \in G
      PROVE  Append(s, b) \in G
  <2> SUFFICES ASSUME Parallel(m, n, Append(s, b), U, S)
               PROVE  Keys!Kept(Keys!BindAll(m, Append(s, b)), S)
                        = Keys!Kept(Keys!BindAll(n, Keys!Kept(Append(s, b), U)), S)
    OBVIOUS
  <2> DEFINE ms == Keys!BindAll(m, s)
             left == Keys!Kept(s, U)
             ns == Keys!BindAll(n, left)
  <2>1. /\ s \in Seq(Keys!Bindings) /\ b \in Keys!Bindings
        /\ left \in Seq(Explicits) /\ left \in Seq(Keys!Bindings)
    BY <1>0, KeptIs
  <2>2. Keys!BindAll(m, Append(s, b)) = Keys!Bind(ms, b)
    BY <1>0, <2>1, BindAllAppend
  <2>3. Keys!Kept(Append(s, b), U) = IF b \in U THEN Append(left, b) ELSE left
    BY KeptAppend
  <2>4. Keys!BindAll(n, Append(left, b)) = Keys!Bind(ns, b)
    BY <1>0, <2>1, BindAllAppend
  <2>5. Keys!Range(Append(s, b)) = Keys!Range(s) \cup {b}
    BY RangeAppend
  <2>6. /\ Keys!Bind(ms, b) # Failed /\ ms # Failed /\ ns # Failed
        /\ b \in U => Keys!Bind(ns, b) # Failed
    <3>1. Keys!Bind(ms, b) # Failed /\ ms # Failed
      BY <2>2 DEF Parallel, Keys!Bind
    <3>2. CASE b \in U
      BY <2>3, <2>4, <3>1, <3>2 DEF Parallel, Keys!Bind
    <3>3. CASE b \notin U
      BY <2>3, <3>1, <3>3 DEF Parallel
    <3> QED BY <3>2, <3>3
  <2>7. Parallel(m, n, s, U, S)
    BY <2>5, <2>6 DEF Parallel
  <2>8. Keys!Kept(ms, S) = Keys!Kept(ns, S)
    BY <1>2, <2>7
  <2>9. BoundIs(m, s) /\ BoundIs(n, left)
    BY <2>1, <2>6, BindAllIs
  <2>10. Keys!Range(left) \subseteq Keys!Range(s)
    <3>1. \E h : Selection(left, s, Len(s), U, h)
      BY KeptIs
    <3>2. PICK h : Selection(left, s, Len(s), U, h)
      BY <3>1
    <3>3. DOMAIN left = 1 .. Len(left) /\ DOMAIN s = 1 .. Len(s)
      BY <2>1
    <3>4. \A i \in DOMAIN left : h[i] \in DOMAIN s /\ left[i] = s[h[i]]
      BY <3>2, <3>3 DEF Selection
    <3> QED BY <3>4 DEF Keys!Range
  <2>11. /\ ms \in Maps /\ Keys!Range(ms) \subseteq Keys!Range(m) \cup Keys!Range(s)
         /\ ns \in Maps /\ Keys!Range(ns) \subseteq Keys!Range(n) \cup Keys!Range(s)
         /\ Keys!Range(s) \subseteq Explicits
    <3>1. ms \in Maps /\ Keys!Range(ms) \subseteq Keys!Range(m) \cup Keys!Range(s)
      BY <2>9 DEF BoundIs
    <3>2. ns \in Maps /\ Keys!Range(ns) \subseteq Keys!Range(n) \cup Keys!Range(left)
      BY <2>9 DEF BoundIs
    <3>3. Keys!Range(s) \subseteq Explicits
      BY DEF Keys!Range
    <3> HIDE DEF ms, ns, left
    <3> QED BY <2>10, <3>1, <3>2, <3>3
  <2> HIDE DEF ms, ns, left
  <2>12. \A a \in Keys!Range(ms) : Keys!Overlaps(a, b) => (a \in S <=> b \in S)
    <3>1. \A a \in Keys!Range(ms) : Keys!Overlaps(a, b) => ~a.configured
      BY <2>1, <2>6, <2>11, BindIs
    <3>2. \A a \in Keys!Range(ms) : Keys!Overlaps(a, b) => a \in Keys!Range(m)
      BY <2>11, <3>1 DEF Explicits
    <3> QED BY <2>5, <3>2 DEF Parallel
  <2>13. CASE b \in S
    <3>1. b \in U
      BY <2>5, <2>13 DEF Parallel
    <3>2. \A a \in Keys!Range(ns) : Keys!Overlaps(a, b) => (a \in S <=> b \in S)
      <4>1. \A a \in Keys!Range(ns) : Keys!Overlaps(a, b) => ~a.configured
        BY <2>1, <2>6, <2>11, <3>1, BindIs
      <4>2. \A a \in Keys!Range(ns) : Keys!Overlaps(a, b) => a \in Keys!Range(n)
        BY <2>11, <4>1 DEF Explicits
      <4> QED BY <2>5, <4>2 DEF Parallel
    <3>3. Keys!Kept(Keys!Bind(ms, b), S) = Keys!Kept(Keys!Bind(ns, b), S)
      BY <2>1, <2>6, <2>8, <2>11, <2>12, <2>13, <3>1, <3>2, BindAlike
    <3> QED BY <2>2, <2>3, <2>4, <3>1, <3>3
  <2>14. CASE b \notin S
    <3>1. Keys!Kept(Keys!Bind(ms, b), S) = Keys!Kept(ms, S)
      BY <2>1, <2>6, <2>11, <2>12, <2>14, BindSkips
    <3>2. CASE b \in U
      <4>1. \A a \in Keys!Range(ns) : Keys!Overlaps(a, b) => a \notin S
        <5>1. \A a \in Keys!Range(ns) : Keys!Overlaps(a, b) => ~a.configured
          BY <2>1, <2>6, <2>11, <3>2, BindIs
        <5>2. \A a \in Keys!Range(ns) : Keys!Overlaps(a, b) => a \in Keys!Range(n)
          BY <2>11, <5>1 DEF Explicits
        <5> QED BY <2>5, <2>14, <5>2 DEF Parallel
      <4>2. Keys!Kept(Keys!Bind(ns, b), S) = Keys!Kept(ns, S)
        BY <2>1, <2>6, <2>11, <2>14, <3>2, <4>1, BindSkips
      <4> QED BY <2>2, <2>3, <2>4, <2>8, <3>1, <3>2, <4>2
    <3>3. CASE b \notin U
      BY <2>2, <2>3, <2>8, <3>1, <3>3 DEF ns
    <3> QED BY <3>2, <3>3
  <2> QED BY <2>13, <2>14
<1> HIDE DEF G
<1>3. \A s \in Seq(Explicits) : s \in G
  BY <1>1, <1>2, Grown
<1>4. ls \in G
  BY <1>3
<1> QED BY <1>4 DEF G

----------------------------------------------------------------------------
(* Tables *)

\* [keys.CONTEXT], entry by entry.
Table == Seq(Strokes) \X Commands

EntriesOf(t, x) == [k \in DOMAIN t |-> Keys!Binding(x, t[k][1], t[k][2], TRUE)]

LEMMA EntryIs ==
    ASSUME NEW x \in Contexts, NEW e \in Table
    PROVE  Keys!Binding(x, e[1], e[2], TRUE) \in Explicits
  BY DEF Keys!Binding, Keys!Bindings, Explicits, Table

LEMMA EntriesAre ==
    ASSUME NEW x \in Contexts, NEW t \in Seq(Table)
    PROVE  /\ EntriesOf(t, x) \in Seq(Explicits)
           /\ \A b \in Keys!Range(EntriesOf(t, x)) : b.context = x /\ b \in Explicits
<1> DEFINE b(k) == Keys!Binding(x, t[k][1], t[k][2], TRUE)
           n == Len(t)
<1>1. n \in Nat /\ DOMAIN t = 1 .. n /\ \A k \in 1 .. n : b(k) \in Explicits
  <2>1. n \in Nat /\ DOMAIN t = 1 .. n /\ \A k \in 1 .. n : t[k] \in Table
    OBVIOUS
  <2> HIDE DEF n
  <2> QED BY <2>1, EntryIs
<1>2. \A k \in 1 .. n : b(k).context = x
  BY DEF Keys!Binding
<1> HIDE DEF b, n
<1>3. [k \in 1 .. n |-> b(k)] \in Seq(Explicits)
  BY <1>1
<1>4. EntriesOf(t, x) = [k \in 1 .. n |-> b(k)]
  BY <1>1 DEF EntriesOf, b
<1> QED BY <1>1, <1>2, <1>3, <1>4 DEF Keys!Range

LEMMA EntriesAppend ==
    ASSUME NEW x \in Contexts, NEW t \in Seq(Table), NEW e \in Table
    PROVE  EntriesOf(Append(t, e), x) = Append(EntriesOf(t, x), Keys!Binding(x, e[1], e[2], TRUE))
<1> DEFINE n == Len(t)
           more == Append(t, e)
           s == EntriesOf(t, x)
           b == Keys!Binding(x, e[1], e[2], TRUE)
           r == EntriesOf(more, x)
<1>1. n \in Nat /\ DOMAIN t = 1 .. n /\ DOMAIN more = 1 .. n + 1 /\ more[n + 1] = e
      /\ more \in Seq(Table) /\ \A k \in 1 .. n : more[k] = t[k]
  OBVIOUS
<1>2. s \in Seq(Explicits) /\ r \in Seq(Explicits) /\ b \in Explicits
  BY <1>1, EntriesAre, EntryIs
<1>3. DOMAIN s = 1 .. n /\ DOMAIN r = 1 .. n + 1
  BY <1>1 DEF EntriesOf
<1>4. r[n + 1] = b /\ \A k \in 1 .. n : r[k] = s[k]
  <2> HIDE DEF n, more
  <2>1. n + 1 \in 1 .. n + 1 /\ \A k \in 1 .. n : k \in 1 .. n + 1
    BY <1>1
  <2>2. \A k \in 1 .. n + 1 : r[k] = Keys!Binding(x, more[k][1], more[k][2], TRUE)
    BY <1>1 DEF EntriesOf
  <2>3. \A k \in 1 .. n : s[k] = Keys!Binding(x, t[k][1], t[k][2], TRUE)
    BY <1>1 DEF EntriesOf
  <2> HIDE DEF r, s
  <2> QED BY <1>1, <2>1, <2>2, <2>3
<1> HIDE DEF n, more, s, b, r
<1>5. Len(s) = n /\ Len(r) = n + 1
  BY <1>1, <1>2, <1>3
<1>6. r = Append(s, b)
  BY <1>1, <1>2, <1>4, <1>5
<1> QED BY <1>6 DEF r, s, b, more

\* The bindings of the commands that did not change.
Unchanged(x, changed) == {b \in Keys!Bindings : <<x, b.command>> \notin changed}

\* What is left of the table is what is left of its bindings.
LEMMA EntriesLeft ==
    ASSUME NEW x \in Contexts, NEW t \in Seq(Table), NEW changed,
           NEW V, V = {e \in Table : <<x, e[2]>> \notin changed}
    PROVE  EntriesOf(Keys!Kept(t, V), x) = Keys!Kept(EntriesOf(t, x), Unchanged(x, changed))
<1> DEFINE U == Unchanged(x, changed)
           G == {s \in Seq(Table) : EntriesOf(Keys!Kept(s, V), x) = Keys!Kept(EntriesOf(s, x), U)}
<1>1. <<>> \in G
  <2>1. EntriesOf(<<>>, x) = <<>>
    <3>1. <<>> \in Seq(Table) /\ DOMAIN <<>> = {}
      OBVIOUS
    <3>2. EntriesOf(<<>>, x) \in Seq(Explicits) /\ DOMAIN EntriesOf(<<>>, x) = {}
      <4>1. EntriesOf(<<>>, x) \in Seq(Explicits)
        BY <3>1, EntriesAre
      <4> QED BY <3>1, <4>1 DEF EntriesOf
    <3> QED BY <3>2
  <2>2. EntriesOf(Keys!Kept(<<>>, V), x) = Keys!Kept(EntriesOf(<<>>, x), U)
    BY <2>1, KeptEmpty, Zenon
  <2>3. <<>> \in Seq(Table)
    OBVIOUS
  <2> QED BY <2>2, <2>3
<1>2. ASSUME NEW s \in Seq(Table), NEW e \in Table, s \in G
      PROVE  Append(s, e) \in G
  <2> DEFINE b == Keys!Binding(x, e[1], e[2], TRUE)
  <2>1. EntriesOf(Append(s, e), x) = Append(EntriesOf(s, x), b)
    BY EntriesAppend
  <2>2. EntriesOf(s, x) \in Seq(Explicits) /\ b \in Explicits
    BY EntriesAre, EntryIs
  <2>3. b \in U <=> e \in V
    BY <2>2 DEF Unchanged, Explicits, Keys!Binding
  <2> HIDE DEF b
  <2>4. Keys!Kept(Append(EntriesOf(s, x), b), U)
          = IF b \in U THEN Append(Keys!Kept(EntriesOf(s, x), U), b)
            ELSE Keys!Kept(EntriesOf(s, x), U)
    BY <2>2, KeptAppend
  <2>5. Keys!Kept(Append(s, e), V) = IF e \in V THEN Append(Keys!Kept(s, V), e) ELSE Keys!Kept(s, V)
    BY KeptAppend
  <2>6. Keys!Kept(s, V) \in Seq(Table)
    BY KeptIs
  <2>7. EntriesOf(Append(Keys!Kept(s, V), e), x) = Append(EntriesOf(Keys!Kept(s, V), x), b)
    BY <2>6, EntriesAppend DEF b
  <2>8. EntriesOf(Keys!Kept(s, V), x) = Keys!Kept(EntriesOf(s, x), U)
    BY <1>2
  <2>9. EntriesOf(Keys!Kept(Append(s, e), V), x) = Keys!Kept(EntriesOf(Append(s, e), x), U)
    BY <2>1, <2>3, <2>4, <2>5, <2>7, <2>8, Zenon
  <2> QED BY <2>9
<1> HIDE DEF G
<1>3. \A s \in Seq(Table) : s \in G
  BY <1>1, <1>2, Grown
<1>4. t \in G
  BY <1>3
<1> QED BY <1>4 DEF G

LEMMA SinglesAre ==
    ASSUME NEW f, Keys!IsProfile(f), NEW x \in Contexts
    PROVE  /\ f.bindings[x] \in Seq(Table)
           /\ Keys!Single(f, x) = EntriesOf(f.bindings[x], x)
           /\ Keys!Single(f, x) \in Seq(Explicits)
           /\ \A b \in Keys!Range(Keys!Single(f, x)) : b.context = x /\ b \in Explicits
<1>1. f.bindings[x] \in Seq(Table)
  BY DEF Keys!IsProfile, Table
<1>2. Keys!Single(f, x) = EntriesOf(f.bindings[x], x)
  BY DEF Keys!Single, EntriesOf
<1> QED BY <1>1, <1>2, EntriesAre

\* The entries that a saved profile has left.
LEMMA SinglesLeft ==
    ASSUME NEW f, Keys!IsProfile(f), NEW x \in Contexts, NEW changed, NEW g,
           g.bindings = Keys!WithoutStale(f, changed), Keys!IsProfile(g)
    PROVE  Keys!Single(g, x) = Keys!Kept(Keys!Single(f, x), Unchanged(x, changed))
<1> DEFINE t == f.bindings[x]
           S == {e \in Keys!Range(t) : <<x, e[2]>> \notin changed}
           V == {e \in Table : <<x, e[2]>> \notin changed}
<1>1. t \in Seq(Table) /\ Keys!Single(f, x) = EntriesOf(t, x)
  BY SinglesAre
<1>2. g.bindings[x] = Keys!Kept(t, S)
  BY DEF Keys!WithoutStale
<1>3. \A e \in Keys!Range(t) : e \in Table
  BY <1>1 DEF Keys!Range
<1>4. \A e \in Keys!Range(t) : e \in S <=> e \in V
  BY <1>3
<1>5. Keys!Single(g, x) = EntriesOf(g.bindings[x], x)
  BY SinglesAre
<1>6. V = {e \in Table : <<x, e[2]>> \notin changed}
  OBVIOUS
<1> HIDE DEF t, S, V
<1>7. Keys!Kept(t, S) = Keys!Kept(t, V)
  BY <1>1, <1>4, KeptSame
<1>8. EntriesOf(Keys!Kept(t, V), x) = Keys!Kept(EntriesOf(t, x), Unchanged(x, changed))
  BY <1>1, <1>6, EntriesLeft
<1> QED BY <1>1, <1>2, <1>5, <1>7, <1>8, Zenon

\* A finite set is put in an order without repeating or leaving out an element.
LEMMA SetToSeqOnce ==
    ASSUME NEW A, IsFiniteSet(A)
    PROVE  /\ Keys!SetToSeq(A) \in Seq(A) /\ Once(Keys!SetToSeq(A))
           /\ Keys!Range(Keys!SetToSeq(A)) = A
<1> DEFINE n == Cardinality(A)
           s == Keys!SetToSeq(A)
<1>1. n \in Nat /\ ExistsBijection(1 .. n, A)
  BY FS_CardinalityType
<1>2. PICK g \in [1 .. n -> A] : Keys!IsInjective(g)
  BY <1>1 DEF ExistsBijection, Bijection, Injection, IsInjective, Keys!IsInjective
<1>3. s \in [1 .. n -> A] /\ Keys!IsInjective(s)
  BY <1>2 DEF Keys!SetToSeq, Keys!Cardinality, Cardinality
<1> HIDE DEF n, s
<1>4. Once(s) /\ s \in Injection(1 .. n, A)
  BY <1>3 DEF Once, Keys!IsInjective, Injection, IsInjective
<1>5. IsFiniteSet(1 .. n) /\ Cardinality(1 .. n) = n
  BY <1>1, FS_Interval
<1>6. s \in Surjection(1 .. n, A)
  BY <1>4, <1>5, FS_Injection DEF n
<1>7. Keys!Range(s) = A
  BY <1>3, <1>6 DEF Surjection, Keys!Range
<1>8. s \in Seq(A)
  BY <1>1, <1>3
<1> QED BY <1>4, <1>7, <1>8 DEF s

----------------------------------------------------------------------------
(* Layers *)

\* The bindings of a command in a context.
BindingsOf(x, c) == {b \in Keys!Bindings : b.context = x /\ b.command = c}

LEMMA ExplicitlyAre ==
    ASSUME NEW x \in Contexts, NEW c \in Commands, NEW ls \in Seq(Seq(Strokes))
    PROVE  /\ Keys!Explicitly(x, c, ls) \in Seq(Explicits)
           /\ Keys!Range(Keys!Explicitly(x, c, ls)) = {Keys!Binding(x, k, c, TRUE) : k \in Keys!Range(ls)}
           /\ Keys!Range(Keys!Explicitly(x, c, ls)) \subseteq BindingsOf(x, c)
<1> DEFINE b(k) == Keys!Binding(x, k, c, TRUE)
           n == Len(ls)
           E == Keys!Explicitly(x, c, ls)
<1>1. n \in Nat /\ DOMAIN ls = 1 .. n /\ \A k \in 1 .. n : ls[k] \in Seq(Strokes)
  OBVIOUS
<1>2. \A k \in Seq(Strokes) : b(k) \in Explicits /\ b(k) \in BindingsOf(x, c)
  BY DEF Keys!Binding, Keys!Bindings, Explicits, BindingsOf
<1>3. E = [k \in 1 .. n |-> b(ls[k])]
  BY <1>1 DEF Keys!Explicitly
<1> HIDE DEF b, n, E
<1>4. E \in Seq(Explicits)
  <2>1. \A k \in 1 .. n : b(ls[k]) \in Explicits
    BY <1>1, <1>2
  <2>2. [k \in 1 .. n |-> b(ls[k])] \in Seq(Explicits)
    BY <1>1, <2>1
  <2> QED BY <1>3, <2>2
<1>5. Keys!Range(E) = {b(k) : k \in Keys!Range(ls)}
  BY <1>1, <1>3 DEF Keys!Range
<1>6. Keys!Range(E) \subseteq BindingsOf(x, c)
  <2>1. \A k \in Keys!Range(ls) : k \in Seq(Strokes)
    BY <1>1 DEF Keys!Range
  <2> QED BY <1>2, <1>5, <2>1
<1> QED BY <1>4, <1>5, <1>6 DEF E, b

\* Explicit bindings take no place of each other: a table comes after what is there.
LEMMA BindAllJoins ==
    ASSUME NEW m \in Maps, Failed \notin Maps, Keys!Range(m) \subseteq Explicits,
           NEW ls \in Seq(Explicits), Keys!BindAll(m, ls) # Failed
    PROVE  Keys!BindAll(m, ls) = m \o ls
<1> DEFINE Joins(s) == Keys!BindAll(m, s) = m \o s
           G == {s \in Seq(Explicits) : Keys!BindAll(m, s) # Failed => Joins(s)}
<1>0. m \in Outcomes /\ Explicits \subseteq Keys!Bindings /\ m \in Seq(Keys!Bindings)
  BY DEF Outcomes, Explicits, Maps
<1>1. <<>> \in G
  <2>1. Keys!BindAll(m, <<>>) = m
    BY <1>0, BindAllEmpty
  <2>2. m \o <<>> = m
    BY <1>0, ConcatEmptySeq
  <2>3. <<>> \in Seq(Explicits)
    OBVIOUS
  <2>4. Keys!BindAll(m, <<>>) = m \o <<>>
    BY <2>1, <2>2, Zenon
  <2> QED BY <2>3, <2>4
<1>2. ASSUME NEW s \in Seq(Explicits), NEW b \in Explicits, s \in G
      PROVE  Append(s, b) \in G
  <2> SUFFICES ASSUME Keys!BindAll(m, Append(s, b)) # Failed
               PROVE  Joins(Append(s, b))
    <3> HIDE DEF Joins
    <3> QED OBVIOUS
  <2> DEFINE n == Keys!BindAll(m, s)
  <2>1. s \in Seq(Keys!Bindings) /\ b \in Keys!Bindings
    BY <1>0
  <2>2. Keys!BindAll(m, Append(s, b)) = Keys!Bind(n, b)
    BY <1>0, <2>1, BindAllAppend
  <2>3. n # Failed
    BY <2>2 DEF Keys!Bind
  <2>4. BoundIs(m, s)
    BY <2>3, BindAllIs
  <2>5. n \in Maps /\ \A a \in Keys!Range(n) : a \in Explicits
    <3>1. n \in Maps /\ Keys!Range(n) \subseteq Keys!Range(m) \cup Keys!Range(s)
      BY <2>4 DEF BoundIs
    <3>2. Keys!Range(s) \subseteq Explicits
      BY DEF Keys!Range
    <3> HIDE DEF n
    <3> QED BY <3>1, <3>2
  <2>6. n = m \o s
    BY <1>2, <2>3
  <2> HIDE DEF n
  <2>7. Keys!Bind(n, b) = IF Competes(n, b) THEN Substituted(n, b) ELSE Append(n, b)
    BY <2>1, <2>2, <2>5, BindIs
  <2>8. ~Competes(n, b)
    <3>1. \A a \in Keys!Range(n) : Keys!Overlaps(a, b) => ~a.configured
      BY <2>1, <2>2, <2>5, BindIs
    <3> QED BY <2>5, <3>1 DEF Competes, Explicits
  <2>9. m \o Append(s, b) = Append(m \o s, b)
    BY <1>0, <2>1, JoinAppend
  <2> QED BY <2>2, <2>6, <2>7, <2>8, <2>9
<1> HIDE DEF G
<1>3. \A s \in Seq(Explicits) : s \in G
  BY <1>1, <1>2, Grown
<1>4. ls \in G
  BY <1>3
<1> QED BY <1>4 DEF G

\* What a table of commands makes: the bindings of each of its commands, in the
\* order of their list, and no others.
LayerIs(m, S, entries, context) ==
    /\ m \in Maps /\ Keys!Range(m) \subseteq Explicits
    /\ \A b \in Keys!Range(m) : b.command \in S /\ b.context = context[b.command]
    /\ \A c \in S :
         Keys!Kept(m, BindingsOf(context[c], c)) = Keys!Explicitly(context[c], c, entries[c])

LEMMA OnceAppend ==
    ASSUME NEW E, NEW s \in Seq(E), NEW e \in E, Once(Append(s, e))
    PROVE  Once(s) /\ e \notin Keys!Range(s)
<1> DEFINE n == Len(s)
           more == Append(s, e)
<1>1. n \in Nat /\ DOMAIN s = 1 .. n /\ DOMAIN more = 1 .. n + 1 /\ more[n + 1] = e
      /\ \A k \in 1 .. n : more[k] = s[k]
  OBVIOUS
<1>2. Once(more)
  OBVIOUS
<1> HIDE DEF n, more
<1>3. n + 1 \in 1 .. n + 1 /\ \A k \in 1 .. n : k \in 1 .. n + 1 /\ k # n + 1
  BY <1>1
<1> QED BY <1>1, <1>2, <1>3 DEF Once, Keys!Range

LEMMA LayerOfIs ==
    ASSUME Failed \notin Maps, NEW entries, NEW context,
           NEW ls \in Seq(Named(entries, context)), Once(ls), Keys!LayerOf(ls, entries, context) # Failed
    PROVE  LayerIs(Keys!LayerOf(ls, entries, context), Keys!Range(ls), entries, context)
<1> DEFINE N == Named(entries, context)
           of(s) == Keys!LayerOf(s, entries, context)
           given(c) == Keys!Explicitly(context[c], c, entries[c])
           P(c) == BindingsOf(context[c], c)
           G == {s \in Seq(N) : Once(s) /\ of(s) # Failed
                                  => LayerIs(of(s), Keys!Range(s), entries, context)}
<1>1. <<>> \in G
  <2>1. of(<<>>) = <<>>
    BY LayerEmpty
  <2>2. <<>> \in Maps /\ <<>> \in Seq(N)
    BY DEF Maps, Keys!Apart
  <2> HIDE DEF of
  <2>3. LayerIs(of(<<>>), Keys!Range(<<>>), entries, context)
    BY <2>1, <2>2, RangeEmpty DEF LayerIs
  <2> QED BY <2>2, <2>3
<1>2. ASSUME NEW s \in Seq(N), NEW c \in N, s \in G
      PROVE  Append(s, c) \in G
  <2> SUFFICES ASSUME Once(Append(s, c)), of(Append(s, c)) # Failed
               PROVE  LayerIs(of(Append(s, c)), Keys!Range(Append(s, c)), entries, context)
    OBVIOUS
  <2> DEFINE m == of(s)
             E == given(c)
             R == Keys!Range(s)
  <2>1. Once(s) /\ c \notin R
    BY OnceAppend
  <2>2. of(Append(s, c)) = Keys!BindAll(m, E)
    BY LayerAppend
  <2>3. c \in Commands /\ entries[c] \in Seq(Seq(Strokes)) /\ context[c] \in Contexts
    BY DEF Named
  <2>4. E \in Seq(Explicits) /\ Keys!Range(E) \subseteq P(c)
    BY <2>3, ExplicitlyAre
  <2>5. E \in Seq(Keys!Bindings)
    BY <2>4 DEF Explicits
  <2> HIDE DEF E
  <2>6. m # Failed
    BY <2>2, <2>5, BindAllFails
  <2>7. LayerIs(m, R, entries, context)
    BY <1>2, <2>1, <2>6
  <2> HIDE DEF m, R
  <2>8. m \in Maps /\ Keys!Range(m) \subseteq Explicits
    BY <2>7 DEF LayerIs
  <2> DEFINE both == m \o E
  <2>9. Keys!BindAll(m, E) = both
    BY <2>2, <2>4, <2>8, BindAllJoins
  <2>10. both \in Maps
    <3>1. m \in Outcomes
      BY <2>8 DEF Outcomes
    <3>2. Keys!BindAll(m, E) \in Outcomes
      BY <2>5, <3>1, BindAllKeeps
    <3> QED BY <2>2, <2>9, <3>2 DEF Outcomes
  <2>11. m \in Seq(Keys!Bindings)
    BY <2>8 DEF Maps
  <2>12. Keys!Range(both) = Keys!Range(m) \cup Keys!Range(E)
    BY <2>5, <2>11, RangeJoin
  <2>13. \A S : Keys!Kept(both, S) = Keys!Kept(m, S) \o Keys!Kept(E, S)
    BY <2>5, <2>11, KeptJoin
  <2>14. Keys!Range(E) \subseteq Explicits
    BY <2>4 DEF Keys!Range
  <2>15. Keys!Range(Append(s, c)) = R \cup {c}
    BY RangeAppend DEF R
  <2> HIDE DEF both, of, N
  <2>16. \A b \in Keys!Range(both) : b.command \in R \cup {c} /\ b.context = context[b.command]
    BY <2>4, <2>7, <2>12 DEF LayerIs, BindingsOf
  <2>17. Keys!Kept(both, P(c)) = given(c)
    <3>1. Keys!Range(m) \cap P(c) = {}
      BY <2>1, <2>7 DEF LayerIs, BindingsOf
    <3> DEFINE S == P(c)
    <3>2. Keys!Kept(both, S) = Keys!Kept(m, S) \o Keys!Kept(E, S)
      BY <2>13
    <3>3. Keys!Range(m) \cap S = {} /\ Keys!Range(E) \subseteq S
      BY <2>4, <3>1
    <3> HIDE DEF S
    <3>4. Keys!Kept(m, S) = <<>> /\ Keys!Kept(E, S) = E
      BY <2>5, <2>11, <3>3, KeptNone, KeptAll
    <3>5. <<>> \o E = E
      BY <2>5, ConcatEmptySeq
    <3>6. Keys!Kept(both, S) = E
      BY <3>2, <3>4, <3>5
    <3> QED BY <3>6 DEF S, E
  <2>18. ASSUME NEW d \in R
         PROVE  Keys!Kept(both, P(d)) = given(d)
    <3> DEFINE S == P(d)
    <3>1. Keys!Range(E) \cap S = {}
      BY <2>1, <2>4 DEF BindingsOf
    <3>2. Keys!Kept(m, S) = given(d)
      BY <2>7 DEF LayerIs
    <3>3. Keys!Kept(both, S) = Keys!Kept(m, S) \o Keys!Kept(E, S)
      BY <2>13
    <3> HIDE DEF S, given
    <3>4. Keys!Kept(E, S) = <<>>
      BY <2>5, <3>1, KeptNone
    <3>5. Keys!Kept(m, S) \in Seq(Keys!Bindings)
      BY <2>11, KeptIs
    <3>6. Keys!Kept(m, S) \o <<>> = Keys!Kept(m, S)
      BY <3>5, ConcatEmptySeq
    <3>7. Keys!Kept(both, S) = given(d)
      BY <3>2, <3>3, <3>4, <3>6
    <3> QED BY <3>7 DEF S
  <2>19. \A d \in R \cup {c} : Keys!Kept(both, P(d)) = given(d)
    BY <2>17, <2>18
  <2>20. LayerIs(both, R \cup {c}, entries, context)
    BY <2>8, <2>10, <2>12, <2>14, <2>16, <2>19 DEF LayerIs
  <2> QED BY <2>2, <2>9, <2>15, <2>20
<1> HIDE DEF G
<1>3. \A s \in Seq(N) : s \in G
  BY <1>1, <1>2, Grown
<1>4. ls \in G
  BY <1>3
<1> QED BY <1>4 DEF G

\* So what a layer has are the keys of its commands.
LEMMA LayerMembers ==
    ASSUME NEW m, NEW S, NEW entries, NEW context, LayerIs(m, S, entries, context),
           S \subseteq Named(entries, context)
    PROVE  \A b : b \in Keys!Range(m) <=>
                    \E c \in S : b \in Keys!Range(Keys!Explicitly(context[c], c, entries[c]))
<1>1. m \in Maps /\ \A b \in Keys!Range(m) : b \in Keys!Bindings
  BY MembersAre DEF LayerIs
<1>2. ASSUME NEW c \in S
      PROVE  Keys!Range(Keys!Explicitly(context[c], c, entries[c]))
               = Keys!Range(m) \cap BindingsOf(context[c], c)
  <2>1. Keys!Range(Keys!Kept(m, BindingsOf(context[c], c)))
          = Keys!Range(m) \cap BindingsOf(context[c], c)
    BY <1>1, KeptKeeps
  <2> QED BY <2>1 DEF LayerIs
<1>3. \A b \in Keys!Range(m) : b.command \in S /\ b \in BindingsOf(context[b.command], b.command)
  BY <1>1 DEF LayerIs, BindingsOf
<1> QED BY <1>2, <1>3

----------------------------------------------------------------------------
(* Room for what is read *)

\* A binding, whoever it is from.
Bare(b) == [b EXCEPT !.configured = FALSE]

\* A keymap of these bindings, and room for all of them.
Fits(m, B) == m \in Maps /\ \A b \in Keys!Range(m) : Bare(b) \in B

Room(B) ==
    /\ IsFiniteSet(B) /\ Cardinality(B) <= BindingMax /\ BindingMax \in Nat
    /\ Failed \notin Maps

LEMMA BareIs ==
    ASSUME NEW b \in Keys!Bindings
    PROVE  /\ Bare(b) \in Keys!Bindings
           /\ Bare(b).context = b.context /\ Bare(b).keys = b.keys /\ Bare(b).command = b.command
           /\ ~b.configured => Bare(b) = b
  BY DEF Bare, Keys!Bindings

\* No two bindings of a keymap are the same but for who made them.
LEMMA FitLen ==
    ASSUME NEW B, IsFiniteSet(B), NEW m, Fits(m, B)
    PROVE  Len(m) \in Nat /\ Cardinality(B) \in Nat /\ Len(m) <= Cardinality(B)
<1> DEFINE n == Len(m)
           g == [i \in 1 .. n |-> Bare(m[i])]
<1>1. m \in Maps /\ \A b \in Keys!Range(m) : Bare(b) \in B
  BY DEF Fits
<1>2. m \in Seq(Keys!Bindings) /\ n \in Nat /\ DOMAIN m = 1 .. n /\ Keys!Apart(m)
  BY <1>1 DEF Maps
<1>3. \A i \in 1 .. n : m[i] \in Keys!Range(m) /\ m[i] \in Keys!Bindings
  BY <1>2 DEF Keys!Range
<1> HIDE DEF n
<1>4. g \in [1 .. n -> B] /\ \A i \in 1 .. n : g[i] = Bare(m[i])
  BY <1>1, <1>3
<1> HIDE DEF g
<1>5. ASSUME NEW i \in 1 .. n, NEW j \in 1 .. n, g[i] = g[j]
      PROVE  i = j
  <2>1. Bare(m[i]) = Bare(m[j])
    BY <1>4, <1>5
  <2>2. m[i].context = m[j].context /\ m[i].keys = m[j].keys
    BY <1>3, <2>1, BareIs
  <2>3. Keys!Overlaps(m[i], m[j])
    BY <1>3, <2>2, OverlapsItself
  <2> QED BY <1>2, <2>3 DEF Keys!Apart
<1>6. g \in Injection(1 .. n, B)
  BY <1>4, <1>5 DEF Injection, IsInjective
<1>7. Cardinality(1 .. n) <= Cardinality(B)
  BY <1>6, FS_Injection
<1>8. Cardinality(1 .. n) = n /\ Cardinality(B) \in Nat
  <2>1. Cardinality(1 .. n) = IF 1 > n THEN 0 ELSE n - 1 + 1
    BY <1>2, FS_Interval
  <2> QED BY <1>2, <2>1, FS_CardinalityType
<1> QED BY <1>2, <1>7, <1>8 DEF n

\* A binding that competes with no explicit one, nor with a prefix, finds room.
LEMMA BindFits ==
    ASSUME NEW B, Room(B), NEW m, Fits(m, B), NEW b \in Keys!Bindings, Bare(b) \in B,
           \A a \in Keys!Range(m) : Keys!Overlaps(a, b) => a.keys = b.keys /\ ~a.configured
    PROVE  Keys!Bind(m, b) # Failed /\ Fits(Keys!Bind(m, b), B)
<1>1. m \in Maps /\ Failed \notin Maps
  BY DEF Fits, Room
<1>2. Competes(m, b) \/ Len(m) # BindingMax
  <2> SUFFICES ASSUME ~Competes(m, b), Len(m) = BindingMax
               PROVE  FALSE
    OBVIOUS
  <2> DEFINE more == m \o <<b>>
             one == <<b>>
  <2>1. m \in Seq(Keys!Bindings) /\ Append(m, b) = more
    BY <1>1, AppendIsConcat DEF Maps
  <2>2. one \in Maps /\ Keys!Range(one) = {b} /\ one \in Seq(Keys!Bindings)
    <3>1. one \in Seq(Keys!Bindings) /\ DOMAIN one = {1} /\ one[1] = b
      OBVIOUS
    <3> HIDE DEF one
    <3> QED BY <3>1 DEF Maps, Keys!Apart, Keys!Range
  <2> HIDE DEF one
  <2>3. \A a \in Keys!Range(m), l \in Keys!Range(one) : ~Keys!Overlaps(a, l)
    BY <2>2 DEF Competes
  <2>4. m \o one \in Maps
    BY <1>1, <2>2, <2>3, JoinApart
  <2>5. Keys!Range(m \o one) = Keys!Range(m) \cup {b}
    BY <2>1, <2>2, RangeJoin
  <2>6. Fits(m \o one, B)
    BY <2>4, <2>5 DEF Fits
  <2>7. Len(m \o one) = Len(m) + 1 /\ Len(m) \in Nat
    <3>1. Len(one) = 1
      BY DEF one
    <3>2. Len(m \o one) = Len(m) + Len(one) /\ Len(m) \in Nat
      BY <2>1, <2>2, JoinLen
    <3> QED BY <3>1, <3>2
  <2>8. IsFiniteSet(B) /\ Cardinality(B) <= BindingMax /\ BindingMax \in Nat
    BY DEF Room
  <2>9. Len(m \o one) <= Cardinality(B) /\ Cardinality(B) \in Nat
    BY <2>6, <2>8, FitLen
  <2> QED BY <2>7, <2>8, <2>9
<1>3. Keys!Bind(m, b) # Failed
  BY <1>1, <1>2, BindSucceeds
<1>4. Keys!Bind(m, b) \in Maps
  BY <1>1, <1>3, BindIs
<1>5. Keys!Range(Keys!Bind(m, b)) = {a \in Keys!Range(m) : ~Keys!Overlaps(a, b)} \cup {b}
  BY <1>1, <1>3, BindRange
<1> QED BY <1>3, <1>4, <1>5 DEF Fits

\* What is in no one's way is none of it in the way of the rest.
LEMMA ApartAppend ==
    ASSUME NEW s \in Seq(Explicits), NEW b \in Explicits, Append(s, b) \in Maps
    PROVE  s \in Maps /\ \A a \in Keys!Range(s) : ~Keys!Overlaps(a, b)
<1> DEFINE n == Len(s)
           more == Append(s, b)
<1>1. n \in Nat /\ DOMAIN s = 1 .. n /\ DOMAIN more = 1 .. n + 1 /\ more[n + 1] = b
      /\ \A k \in 1 .. n : more[k] = s[k]
  OBVIOUS
<1>2. more \in Maps /\ s \in Seq(Keys!Bindings)
  BY DEF Explicits
<1> HIDE DEF n, more
<1>3. n + 1 \in 1 .. n + 1 /\ \A k \in 1 .. n : k \in 1 .. n + 1 /\ k # n + 1
  BY <1>1
<1>4. \A i, j \in 1 .. n + 1 : i # j => ~Keys!Overlaps(more[i], more[j])
  BY <1>1, <1>2 DEF Maps, Keys!Apart
<1>5. \A i, j \in 1 .. n : i # j => ~Keys!Overlaps(s[i], s[j])
  BY <1>1, <1>3, <1>4
<1>6. \A i \in 1 .. n : ~Keys!Overlaps(s[i], b)
  BY <1>1, <1>3, <1>4
<1> QED BY <1>1, <1>2, <1>5, <1>6 DEF Maps, Keys!Apart, Keys!Range

\* A table of bindings that are apart, and apart from what is not an inherited
\* binding of the same keys, is bound.
Fitting(m, ls, B) ==
    /\ ls \in Maps /\ \A b \in Keys!Range(ls) : Bare(b) \in B
    /\ \A a \in Keys!Range(m), b \in Keys!Range(ls) :
         Keys!Overlaps(a, b) => a.keys = b.keys /\ ~a.configured

LEMMA BindAllFits ==
    ASSUME NEW B, Room(B), NEW m, Fits(m, B), NEW ls \in Seq(Explicits), Fitting(m, ls, B)
    PROVE  Keys!BindAll(m, ls) # Failed /\ Fits(Keys!BindAll(m, ls), B)
<1> DEFINE Bound(s) == Keys!BindAll(m, s) # Failed /\ Fits(Keys!BindAll(m, s), B)
           G == {s \in Seq(Explicits) : Fitting(m, s, B) => Bound(s)}
<1>0. m \in Maps /\ m \in Outcomes /\ Explicits \subseteq Keys!Bindings /\ Failed \notin Maps
  BY DEF Outcomes, Explicits, Fits, Room
<1>1. <<>> \in G
  <2>1. Keys!BindAll(m, <<>>) = m
    BY <1>0, BindAllEmpty
  <2>2. <<>> \in Seq(Explicits) /\ Bound(<<>>)
    BY <1>0, <2>1
  <2> HIDE DEF Bound
  <2> QED BY <2>2
<1>2. ASSUME NEW s \in Seq(Explicits), NEW b \in Explicits, s \in G
      PROVE  Append(s, b) \in G
  <2> SUFFICES ASSUME Fitting(m, Append(s, b), B)
               PROVE  Bound(Append(s, b))
    <3> HIDE DEF Bound
    <3> QED OBVIOUS
  <2> DEFINE n == Keys!BindAll(m, s)
  <2>1. s \in Seq(Keys!Bindings) /\ b \in Keys!Bindings
    BY <1>0
  <2>2. Keys!BindAll(m, Append(s, b)) = Keys!Bind(n, b)
    BY <1>0, <2>1, BindAllAppend
  <2>3. Keys!Range(Append(s, b)) = Keys!Range(s) \cup {b}
    BY RangeAppend
  <2>4. s \in Maps /\ \A a \in Keys!Range(s) : ~Keys!Overlaps(a, b)
    BY ApartAppend DEF Fitting
  <2>5. Fitting(m, s, B)
    BY <2>3, <2>4 DEF Fitting
  <2>6. n # Failed /\ Fits(n, B)
    BY <1>2, <2>5
  <2>7. BoundIs(m, s)
    BY <1>0, <2>6, BindAllIs
  <2>8. Keys!Range(n) \subseteq Keys!Range(m) \cup Keys!Range(s)
    BY <2>7 DEF BoundIs
  <2> HIDE DEF n
  <2>9. \A a \in Keys!Range(n) : Keys!Overlaps(a, b) => a.keys = b.keys /\ ~a.configured
    BY <2>3, <2>4, <2>8 DEF Fitting
  <2>10. Bare(b) \in B
    BY <2>3 DEF Fitting
  <2>11. Keys!Bind(n, b) # Failed /\ Fits(Keys!Bind(n, b), B)
    BY <2>1, <2>6, <2>9, <2>10, BindFits
  <2> QED BY <2>2, <2>11
<1> HIDE DEF G
<1>3. \A s \in Seq(Explicits) : s \in G
  BY <1>1, <1>2, Grown
<1>4. ls \in G
  BY <1>3
<1> QED BY <1>4 DEF G

\* The tables of several commands, of which none is in the way of another.
Orderly(S, entries, context, B) ==
    /\ \A c \in S :
         /\ Keys!Explicitly(context[c], c, entries[c]) \in Maps
         /\ \A b \in Keys!Range(Keys!Explicitly(context[c], c, entries[c])) : Bare(b) \in B
    /\ \A c, d \in S :
         c # d => \A a \in Keys!Range(Keys!Explicitly(context[c], c, entries[c])),
                     b \in Keys!Range(Keys!Explicitly(context[d], d, entries[d])) : ~Keys!Overlaps(a, b)

LEMMA LayerFits ==
    ASSUME NEW B, Room(B), NEW entries, NEW context, NEW ls \in Seq(Named(entries, context)),
           Once(ls), Orderly(Keys!Range(ls), entries, context, B)
    PROVE  /\ Keys!LayerOf(ls, entries, context) # Failed
           /\ Fits(Keys!LayerOf(ls, entries, context), B)
<1> DEFINE N == Named(entries, context)
           of(s) == Keys!LayerOf(s, entries, context)
           given(c) == Keys!Explicitly(context[c], c, entries[c])
           Fit(s) == of(s) # Failed /\ Fits(of(s), B)
           G == {s \in Seq(N) : Once(s) /\ Orderly(Keys!Range(s), entries, context, B) => Fit(s)}
<1>0. Failed \notin Maps
  BY DEF Room
<1>1. <<>> \in G
  <2>1. of(<<>>) = <<>>
    BY LayerEmpty
  <2>2. <<>> \in Maps /\ <<>> \in Seq(N)
    BY DEF Maps, Keys!Apart
  <2>3. Fit(<<>>)
    BY <1>0, <2>1, <2>2, RangeEmpty DEF Fits
  <2> HIDE DEF Fit
  <2> QED BY <2>2, <2>3
<1>2. ASSUME NEW s \in Seq(N), NEW c \in N, s \in G
      PROVE  Append(s, c) \in G
  <2> SUFFICES ASSUME Once(Append(s, c)), Orderly(Keys!Range(Append(s, c)), entries, context, B)
               PROVE  Fit(Append(s, c))
    <3> HIDE DEF Fit
    <3> QED OBVIOUS
  <2> DEFINE m == of(s)
             E == given(c)
             R == Keys!Range(s)
  <2>1. Once(s) /\ c \notin R /\ Keys!Range(Append(s, c)) = R \cup {c} /\ R \subseteq N
    <3>1. Once(s) /\ c \notin R
      BY OnceAppend
    <3>2. Keys!Range(Append(s, c)) = R \cup {c}
      BY RangeAppend
    <3>3. \A i \in DOMAIN s : s[i] \in N
      OBVIOUS
    <3>4. R \subseteq N
      BY <3>3 DEF Keys!Range
    <3> QED BY <3>1, <3>2, <3>4
  <2>2. of(Append(s, c)) = Keys!BindAll(m, E)
    BY LayerAppend
  <2>3. c \in Commands /\ entries[c] \in Seq(Seq(Strokes)) /\ context[c] \in Contexts
    BY DEF Named
  <2>4. E \in Seq(Explicits)
    BY <2>3, ExplicitlyAre
  <2>5. Orderly(R \cup {c}, entries, context, B)
    BY <2>1
  <2> HIDE DEF E
  <2>6. Orderly(R, entries, context, B)
    BY <2>5 DEF Orderly
  <2>7. m # Failed /\ Fits(m, B)
    BY <1>2, <2>1, <2>6
  <2>8. LayerIs(m, R, entries, context)
    BY <1>0, <2>1, <2>7, LayerOfIs
  <2> HIDE DEF m, R
  <2>9. \A b \in Keys!Range(m) : \E d \in R : b \in Keys!Range(given(d))
    BY <2>1, <2>8, LayerMembers
  <2>10. \A a \in Keys!Range(m), b \in Keys!Range(E) : ~Keys!Overlaps(a, b)
    <3> SUFFICES ASSUME NEW a \in Keys!Range(m), NEW b \in Keys!Range(E)
                 PROVE  ~Keys!Overlaps(a, b)
      OBVIOUS
    <3>1. PICK d \in R : a \in Keys!Range(given(d))
      BY <2>9
    <3>2. d \in R \cup {c} /\ c \in R \cup {c} /\ d # c
      BY <2>1
    <3> QED BY <2>5, <3>1, <3>2 DEF Orderly, E
  <2>11. E \in Maps /\ \A b \in Keys!Range(E) : Bare(b) \in B
    BY <2>5 DEF Orderly, E
  <2>12. Fitting(m, E, B)
    BY <2>10, <2>11 DEF Fitting
  <2>13. Keys!BindAll(m, E) # Failed /\ Fits(Keys!BindAll(m, E), B)
    BY <2>4, <2>7, <2>12, BindAllFits
  <2> QED BY <2>2, <2>13
<1> HIDE DEF G
<1>3. \A s \in Seq(N) : s \in G
  BY <1>1, <1>2, Grown
<1>4. ls \in G
  BY <1>3
<1> QED BY <1>4 DEF G

\* What is left of a keymap under a layer, and the layer, find room.
LEMMA UnderFits ==
    ASSUME NEW B, Room(B), NEW m, Fits(m, B), NEW layer, Fits(layer, B), NEW entries, NEW context
    PROVE  /\ Keys!Under(m, layer, entries, context) # Failed
           /\ Fits(Keys!Under(m, layer, entries, context), B)
<1> DEFINE old == {b \in Keys!Range(m) : b.command \in DOMAIN entries
                                           /\ context[b.command] = b.context}
           S == Keys!Range(m) \ (old \cup Keys!Taken(m, layer))
           kept == Keys!Kept(m, S)
           both == kept \o layer
<1>1. m \in Maps /\ layer \in Maps /\ Failed \notin Maps
  BY DEF Fits, Room
<1>2. kept \in Maps /\ Keys!Range(kept) = Keys!Range(m) \cap S
  BY <1>1, KeptKeeps
<1>3. \A a \in Keys!Range(kept), b \in Keys!Range(layer) : ~Keys!Overlaps(a, b)
  BY <1>2 DEF Keys!Taken
<1>4. Keys!Under(m, layer, entries, context) = Keys!Joined(kept, layer)
  BY <1>1 DEF Keys!Under
<1> HIDE DEF kept, S
<1>5. both \in Maps
  BY <1>1, <1>2, <1>3, JoinApart
<1>6. kept \in Seq(Keys!Bindings) /\ layer \in Seq(Keys!Bindings)
  BY <1>1, <1>2 DEF Maps
<1>7. Keys!Range(both) = Keys!Range(kept) \cup Keys!Range(layer) /\ Len(both) = Len(kept) + Len(layer)
  BY <1>6, RangeJoin
<1> HIDE DEF both
<1>8. Fits(both, B)
  BY <1>2, <1>5, <1>7 DEF Fits
<1>9. Len(both) <= BindingMax
  <2>1. IsFiniteSet(B) /\ Cardinality(B) <= BindingMax /\ BindingMax \in Nat
    BY DEF Room
  <2>2. Len(both) \in Nat /\ Len(both) <= Cardinality(B) /\ Cardinality(B) \in Nat
    BY <1>8, <2>1, FitLen
  <2> QED BY <2>1, <2>2
<1>10. Keys!Joined(kept, layer) = both
  <2>1. Len(kept) \in Nat /\ Len(layer) \in Nat /\ BindingMax \in Nat
    BY <1>6 DEF Room
  <2>2. ~(Len(kept) + Len(layer) > BindingMax)
    BY <1>7, <1>9, <2>1
  <2> QED BY <2>2 DEF Keys!Joined, both
<1>11. both # Failed
  BY <1>1, <1>5
<1> QED BY <1>4, <1>8, <1>10, <1>11

----------------------------------------------------------------------------
(* What is read, one context at a time *)

In(x) == {b \in Keys!Bindings : b.context = x}

\* What a layer leaves of the keymap under it.
Free(m, layer, entries, context) ==
    {b \in Keys!Range(m) :
        /\ ~(b.command \in DOMAIN entries /\ context[b.command] = b.context)
        /\ \A l \in Keys!Range(layer) : ~Keys!Overlaps(b, l)}

\* A table of commands is laid over a keymap.
Laid(r, m, layer, entries, context) ==
    /\ r \in Maps /\ m \in Maps /\ LayerIs(layer, DOMAIN entries, entries, context)
    /\ r = Keys!Kept(m, Free(m, layer, entries, context)) \o layer
    /\ Keys!Range(r) = Free(m, layer, entries, context) \cup Keys!Range(layer)

LEMMA KeyListsNamed ==
    ASSUME NEW entries, Keys!KeyLists(entries),
           NEW context, \A c \in DOMAIN entries : context[c] \in Contexts
    PROVE  DOMAIN entries \subseteq Commands /\ DOMAIN entries \subseteq Named(entries, context)
  BY DEF Keys!KeyLists, Named

LEMMA ListNamed ==
    ASSUME IsFiniteSet(Commands), NEW entries, Keys!KeyLists(entries),
           NEW context, \A c \in DOMAIN entries : context[c] \in Contexts
    PROVE  /\ Keys!SetToSeq(DOMAIN entries) \in Seq(Named(entries, context))
           /\ Once(Keys!SetToSeq(DOMAIN entries))
           /\ Keys!Range(Keys!SetToSeq(DOMAIN entries)) = DOMAIN entries
<1> DEFINE A == DOMAIN entries
           s == Keys!SetToSeq(A)
<1>1. A \subseteq Commands /\ A \subseteq Named(entries, context)
  BY KeyListsNamed
<1>2. IsFiniteSet(A)
  BY <1>1, FS_Subset
<1>3. s \in Seq(A) /\ Once(s) /\ Keys!Range(s) = A
  BY <1>2, SetToSeqOnce
<1> HIDE DEF s, A
<1>4. s \in Seq(Named(entries, context))
  BY <1>1, <1>3
<1> QED BY <1>3, <1>4 DEF s, A

LEMMA UnderIs ==
    ASSUME NEW m \in Maps, NEW layer \in Maps, NEW entries, NEW context,
           Keys!Under(m, layer, entries, context) # Failed, Failed \notin Maps
    PROVE  LET r == Keys!Under(m, layer, entries, context)
           IN  /\ r \in Maps
               /\ r = Keys!Kept(m, Free(m, layer, entries, context)) \o layer
               /\ Keys!Range(r) = Free(m, layer, entries, context) \cup Keys!Range(layer)
<1> DEFINE old == {b \in Keys!Range(m) : b.command \in DOMAIN entries
                                           /\ context[b.command] = b.context}
           S == Keys!Range(m) \ (old \cup Keys!Taken(m, layer))
           F == Free(m, layer, entries, context)
           r == Keys!Under(m, layer, entries, context)
           kept == Keys!Kept(m, F)
<1>1. S = F
  BY DEF Free, Keys!Taken
<1>2. m # Failed /\ layer # Failed
  OBVIOUS
<1>3. r = Keys!Joined(Keys!Kept(m, S), layer)
  BY <1>2 DEF Keys!Under
<1> HIDE DEF S
<1>4. r = kept \o layer
  BY <1>1, <1>3 DEF Keys!Joined
<1>5. r \in Outcomes
  BY UnderKeeps DEF Outcomes
<1>6. kept \in Maps /\ Keys!Range(kept) = Keys!Range(m) \cap F
  BY KeptKeeps
<1>7. F \subseteq Keys!Range(m)
  BY DEF Free
<1> HIDE DEF kept, F, r
<1>8. kept \in Seq(Keys!Bindings) /\ layer \in Seq(Keys!Bindings)
  BY <1>6 DEF Maps
<1>9. Keys!Range(kept \o layer) = Keys!Range(kept) \cup Keys!Range(layer)
  BY <1>8, RangeJoin
<1>10. r # Failed
  BY DEF r
<1>11. r \in Maps /\ r = kept \o layer /\ Keys!Range(r) = F \cup Keys!Range(layer)
  BY <1>4, <1>5, <1>6, <1>7, <1>9, <1>10 DEF Outcomes
<1> QED BY <1>11 DEF r, kept, F

LEMMA LayeredIs ==
    ASSUME IsFiniteSet(Commands), Failed \notin Maps, NEW m \in Outcomes,
           NEW entries, Keys!KeyLists(entries),
           NEW context, \A c \in DOMAIN entries : context[c] \in Contexts,
           Keys!Layered(m, entries, context) # Failed
    PROVE  \E layer : Laid(Keys!Layered(m, entries, context), m, layer, entries, context)
<1> DEFINE s == Keys!SetToSeq(DOMAIN entries)
           layer == Keys!LayerOf(s, entries, context)
           r == Keys!Under(m, layer, entries, context)
<1>1. s \in Seq(Named(entries, context)) /\ Once(s) /\ Keys!Range(s) = DOMAIN entries
  BY ListNamed
<1>2. Keys!Layered(m, entries, context) = r
  BY DEF Keys!Layered
<1> HIDE DEF s
<1>3. m # Failed /\ layer # Failed
  BY <1>2 DEF Keys!Under
<1>4. LayerIs(layer, DOMAIN entries, entries, context)
  BY <1>1, <1>3, LayerOfIs
<1> HIDE DEF layer
<1>5. layer \in Maps /\ m \in Maps
  BY <1>3, <1>4 DEF LayerIs, Outcomes
<1>6. /\ r \in Maps
      /\ r = Keys!Kept(m, Free(m, layer, entries, context)) \o layer
      /\ Keys!Range(r) = Free(m, layer, entries, context) \cup Keys!Range(layer)
  BY <1>2, <1>5, UnderIs
<1> QED BY <1>2, <1>4, <1>5, <1>6 DEF Laid

\* The tables of a context.
Here(h, x) == [c \in DOMAIN h.commands[x] |-> x]

SectionIs(h, m, x, layer) ==
    /\ BoundIs(m, Keys!Single(h, x))
    /\ Laid(Keys!Section(h, m, x), Keys!BindAll(m, Keys!Single(h, x)), layer, h.commands[x], Here(h, x))

LEMMA SectionMakes ==
    ASSUME IsFiniteSet(Commands), Failed \notin Maps, NEW h, Keys!IsProfile(h),
           NEW m \in Maps, NEW x \in Contexts, Keys!Section(h, m, x) # Failed
    PROVE  \E layer : SectionIs(h, m, x, layer)
<1> DEFINE s == Keys!Single(h, x)
           n == Keys!BindAll(m, s)
<1>1. s \in Seq(Explicits) /\ s \in Seq(Keys!Bindings) /\ m \in Outcomes
  <2>1. s \in Seq(Explicits)
    BY SinglesAre
  <2>2. s \in Seq(Keys!Bindings)
    BY SingleIs
  <2> QED BY <2>1, <2>2 DEF Outcomes
<1> HIDE DEF s
<1>2. n \in Outcomes
  BY <1>1, BindAllKeeps
<1>3. Keys!KeyLists(h.commands[x])
  BY DEF Keys!IsProfile
<1>4. \A c \in DOMAIN h.commands[x] : Here(h, x)[c] \in Contexts
  BY DEF Here
<1>5. Keys!Section(h, m, x) = Keys!Layered(n, h.commands[x], Here(h, x))
  BY DEF Keys!Section, s, Here
<1> HIDE DEF n
<1>6. PICK layer : Laid(Keys!Section(h, m, x), n, layer, h.commands[x], Here(h, x))
  BY <1>2, <1>3, <1>4, <1>5, LayeredIs
<1>7. n # Failed
  BY <1>6 DEF Laid
<1>8. BoundIs(m, s)
  BY <1>1, <1>7, BindAllIs DEF n
<1> QED BY <1>6, <1>8 DEF SectionIs, n, s

LEMMA FailedStays ==
    ASSUME NEW h, Keys!IsProfile(h), NEW x \in Contexts
    PROVE  Keys!Section(h, Failed, x) = Failed
<1>1. Keys!BindAll(Failed, Keys!Single(h, x)) = Failed
  BY SingleIs, BindAllFails
<1> QED BY <1>1 DEF Keys!Section, Keys!Layered, Keys!Under

\* They change nothing of another context.
LEMMA SectionLocal ==
    ASSUME IsFiniteSet(Commands), Failed \notin Maps, NEW h, Keys!IsProfile(h),
           NEW m \in Maps, NEW y \in Contexts, Keys!Section(h, m, y) # Failed,
           NEW x \in Contexts, x # y
    PROVE  Keys!Kept(Keys!Section(h, m, y), In(x)) = Keys!Kept(m, In(x))
<1> DEFINE s == Keys!Single(h, y)
           n == Keys!BindAll(m, s)
           S == In(x)
           r == Keys!Section(h, m, y)
<1>1. PICK layer : SectionIs(h, m, y, layer)
  BY SectionMakes
<1>2. s \in Seq(Explicits) /\ \A b \in Keys!Range(s) : b.context = y /\ b \in Explicits
  BY SinglesAre
<1>3. n \in Maps
  BY <1>1 DEF SectionIs, BoundIs
<1>4. Keys!Kept(n, S) = Keys!Kept(m, S)
  <2>1. n # Failed /\ Keys!Range(s) \cap S = {}
    BY <1>2, <1>3 DEF In
  <2>2. \A a \in Keys!Range(m), b \in Keys!Range(s) : Keys!Overlaps(a, b) => a \notin S
    BY <1>2 DEF In, Keys!Overlaps
  <2> HIDE DEF S, s
  <2> QED BY <1>2, <2>1, <2>2, BindAllSkips
<1> DEFINE F == Free(n, layer, h.commands[y], Here(h, y))
           kept == Keys!Kept(n, F)
<1>5. /\ r = kept \o layer /\ layer \in Maps
      /\ \A b \in Keys!Range(layer) : b.context = y
  <2>1. LayerIs(layer, DOMAIN h.commands[y], h.commands[y], Here(h, y)) /\ r = kept \o layer
    BY <1>1 DEF SectionIs, Laid
  <2>2. \A b \in Keys!Range(layer) : b.command \in DOMAIN h.commands[y]
                                      /\ b.context = Here(h, y)[b.command]
    BY <2>1 DEF LayerIs
  <2>3. \A c \in DOMAIN h.commands[y] : Here(h, y)[c] = y
    BY DEF Here
  <2> QED BY <2>1, <2>2, <2>3 DEF LayerIs
<1>6. \A b \in Keys!Range(n) : b \in F \cap S <=> b \in S
  <2>1. \A c \in DOMAIN h.commands[y] : Here(h, y)[c] = y
    BY DEF Here
  <2> QED BY <1>5, <2>1 DEF Free, In, Keys!Overlaps
<1> HIDE DEF s, n, S, r, F, kept
<1>7. n \in Seq(Keys!Bindings) /\ layer \in Seq(Keys!Bindings)
  BY <1>3, <1>5 DEF Maps
<1>8. kept \in Seq(Keys!Bindings) /\ Keys!Kept(kept, S) = Keys!Kept(n, F \cap S)
  BY <1>7, KeptIs, KeptTwice DEF kept
<1>9. Keys!Kept(n, F \cap S) = Keys!Kept(n, S)
  BY <1>6, <1>7, KeptSame
<1>10. Keys!Kept(layer, S) = <<>>
  <2>1. Keys!Range(layer) \cap S = {}
    BY <1>5 DEF S, In
  <2> QED BY <1>7, <2>1, KeptNone
<1>11. Keys!Kept(r, S) = Keys!Kept(kept, S) \o Keys!Kept(layer, S)
  <2>1. r = kept \o layer
    BY <1>5
  <2>2. kept \in Seq(Keys!Bindings) /\ layer \in Seq(Keys!Bindings)
    BY <1>7, <1>8
  <2>3. \A A : Keys!Kept(kept \o layer, A) = Keys!Kept(kept, A) \o Keys!Kept(layer, A)
    BY <2>2, KeptJoin
  <2> QED BY <2>1, <2>3
<1>12. Keys!Kept(n, S) \o <<>> = Keys!Kept(n, S)
  BY <1>7, KeptIs, ConcatEmptySeq
<1>13. Keys!Kept(r, S) = Keys!Kept(m, S)
  BY <1>4, <1>8, <1>9, <1>10, <1>11, <1>12
<1> QED BY <1>13 DEF r, S

\* One context after another.
Visited(h, m, x, r, n) ==
    /\ n \in Maps /\ Keys!Kept(n, In(x)) = Keys!Kept(m, In(x))
    /\ Keys!Section(h, n, x) # Failed
    /\ Keys!Kept(r, In(x)) = Keys!Kept(Keys!Section(h, n, x), In(x))

VisitsAre(h, m, ls) ==
    /\ Keys!Sections(h, m, ls) \in Maps
    /\ \A x \in Contexts \ Keys!Range(ls) :
         Keys!Kept(Keys!Sections(h, m, ls), In(x)) = Keys!Kept(m, In(x))
    /\ \A x \in Keys!Range(ls) : \E n : Visited(h, m, x, Keys!Sections(h, m, ls), n)

LEMMA SectionsLocal ==
    ASSUME IsFiniteSet(Commands), Failed \notin Maps, NEW h, Keys!IsProfile(h),
           NEW m \in Maps, NEW ls \in Seq(Contexts), Once(ls), Keys!Sections(h, m, ls) # Failed
    PROVE  VisitsAre(h, m, ls)
<1> DEFINE of(s) == Keys!Sections(h, m, s)
           G == {s \in Seq(Contexts) : Once(s) /\ of(s) # Failed => VisitsAre(h, m, s)}
<1>0. m \in Outcomes
  BY DEF Outcomes
<1>1. <<>> \in G
  <2>1. of(<<>>) = m
    BY <1>0, SectionsEmpty
  <2>2. VisitsAre(h, m, <<>>)
    BY <2>1, RangeEmpty DEF VisitsAre
  <2>3. <<>> \in Seq(Contexts)
    OBVIOUS
  <2> QED BY <2>2, <2>3
<1>2. ASSUME NEW s \in Seq(Contexts), NEW y \in Contexts, s \in G
      PROVE  Append(s, y) \in G
  <2> SUFFICES ASSUME Once(Append(s, y)), of(Append(s, y)) # Failed
               PROVE  VisitsAre(h, m, Append(s, y))
    OBVIOUS
  <2> DEFINE n == of(s)
             R == Keys!Range(s)
             r == of(Append(s, y))
  <2>1. Once(s) /\ y \notin R /\ Keys!Range(Append(s, y)) = R \cup {y}
    BY OnceAppend, RangeAppend
  <2>2. r = Keys!Section(h, n, y)
    BY <1>0, SectionsAppend
  <2>3. n # Failed
    BY <2>2, FailedStays
  <2>4. VisitsAre(h, m, s)
    BY <1>2, <2>1, <2>3
  <2>5. n \in Maps /\ r # Failed
    BY <2>4 DEF VisitsAre
  <2>6. r \in Maps
    <3>1. r \in Outcomes
      BY <1>0, <2>2, <2>5, SectionKeeps DEF Outcomes
    <3> QED BY <2>5, <3>1 DEF Outcomes
  <2>7. \A x \in Contexts : x # y => Keys!Kept(r, In(x)) = Keys!Kept(n, In(x))
    BY <2>2, <2>5, SectionLocal
  <2>8. \A x \in Contexts \ R : Keys!Kept(n, In(x)) = Keys!Kept(m, In(x))
    BY <2>4 DEF VisitsAre
  <2>9. \A x \in R : x \in Contexts /\ \E k : Visited(h, m, x, n, k)
    <3>1. \A i \in DOMAIN s : s[i] \in Contexts
      OBVIOUS
    <3>2. R \subseteq Contexts
      BY <3>1 DEF Keys!Range
    <3> QED BY <2>4, <3>2 DEF VisitsAre
  <2> HIDE DEF n, R, r
  <2>10. \A x \in Contexts \ (R \cup {y}) : Keys!Kept(r, In(x)) = Keys!Kept(m, In(x))
    BY <2>7, <2>8
  <2>11. ASSUME NEW x \in R
         PROVE  \E k : Visited(h, m, x, r, k)
    <3>1. PICK k : Visited(h, m, x, n, k)
      BY <2>9
    <3>2. Keys!Kept(r, In(x)) = Keys!Kept(n, In(x))
      BY <2>1, <2>7, <2>9
    <3>3. Visited(h, m, x, r, k)
      BY <3>1, <3>2 DEF Visited
    <3> QED BY <3>3
  <2>12. Visited(h, m, y, r, n)
    BY <2>1, <2>2, <2>5, <2>8 DEF Visited
  <2>13. \A x \in R \cup {y} : \E k : Visited(h, m, x, r, k)
    BY <2>11, <2>12
  <2> QED BY <2>1, <2>6, <2>10, <2>13 DEF VisitsAre, r
<1> HIDE DEF G
<1>3. \A s \in Seq(Contexts) : s \in G
  BY <1>1, <1>2, Grown
<1>4. ls \in G
  BY <1>3
<1> QED BY <1>4 DEF G

\* A profile that is read, seen from one context: the keymap over the defaults,
\* the tables of the context, and what is read.
Root(h) == Keys!Layered(Keys!DefaultKeymap, h.root, Owner)

Reading(h, x, L, m, K) ==
    /\ Keys!Read(h) \in Maps
    /\ Laid(Root(h), Keys!DefaultKeymap, L, h.root, Owner)
    /\ m \in Maps /\ Keys!Kept(m, In(x)) = Keys!Kept(Root(h), In(x))
    /\ SectionIs(h, m, x, K)
    /\ Keys!Kept(Keys!Read(h), In(x)) = Keys!Kept(Keys!Section(h, m, x), In(x))

Constants ==
    /\ IsFiniteSet(Contexts) /\ IsFiniteSet(Commands) /\ Owner \in [Commands -> Contexts]
    /\ Keys!DefaultKeymap \in Maps /\ Failed \notin Maps /\ BindingMax \in Nat

LEMMA ConstantsAre ==
    ASSUME Keys!ConstantsAssumption
    PROVE  Constants
<1>1. Keys!DefaultKeymap \in Maps
  BY DefaultsAre
<1>2. Failed \notin Maps
  BY DEF Keys!ConstantsAssumption, Maps
<1> QED BY <1>1, <1>2 DEF Constants, Keys!ConstantsAssumption, Keys!IsFiniteSet, IsFiniteSet

LEMMA ReadIs ==
    ASSUME Constants, NEW h, Keys!IsProfile(h), Keys!Read(h) # Failed, NEW x \in Contexts
    PROVE  \E L, m, K : Reading(h, x, L, m, K)
<1> DEFINE ls == Keys!SetToSeq(Contexts)
           root == Root(h)
           all == Keys!Sections(h, root, ls)
<1>0. IsFiniteSet(Contexts) /\ IsFiniteSet(Commands) /\ Owner \in [Commands -> Contexts]
      /\ Keys!DefaultKeymap \in Maps /\ Failed \notin Maps
  BY DEF Constants
<1>1. ls \in Seq(Contexts) /\ Once(ls) /\ Keys!Range(ls) = Contexts
  BY <1>0, SetToSeqOnce
<1>2. Keys!Read(h) = Keys!Checked(all)
  BY DEF Keys!Read, Root
<1>3. Keys!KeyLists(h.root) /\ \A c \in DOMAIN h.root : Owner[c] \in Contexts
  BY <1>0 DEF Keys!IsProfile, Keys!KeyLists
<1>4. root \in Outcomes
  BY <1>0, <1>3, LayeredKeeps DEF Outcomes, Root
<1> HIDE DEF ls, root
<1>5. all # Failed /\ Keys!Read(h) = all
  BY <1>2 DEF Keys!Checked
<1>6. root # Failed
  <2> SUFFICES ASSUME root = Failed
               PROVE  all = Failed
    BY <1>5
  <2> DEFINE G == {s \in Seq(Contexts) : Keys!Sections(h, Failed, s) = Failed}
  <2>0. Failed \in Outcomes
    BY DEF Outcomes
  <2>1. <<>> \in G
    BY <1>0, <2>0, SectionsEmpty
  <2>2. ASSUME NEW s \in Seq(Contexts), NEW y \in Contexts, s \in G
        PROVE  Append(s, y) \in G
    BY <1>0, <2>0, <2>2, SectionsAppend, FailedStays
  <2> HIDE DEF G
  <2>3. \A s \in Seq(Contexts) : s \in G
    BY <2>1, <2>2, Grown
  <2>4. ls \in G
    BY <1>1, <2>3
  <2> QED BY <2>4 DEF G
<1>7. root \in Maps
  BY <1>4, <1>6 DEF Outcomes
<1>8. VisitsAre(h, root, ls)
  BY <1>0, <1>1, <1>5, <1>7, SectionsLocal
<1>9. PICK m : Visited(h, root, x, all, m)
  BY <1>1, <1>8 DEF VisitsAre
<1>10. all \in Maps
  BY <1>8 DEF VisitsAre
<1>11. PICK L : Laid(root, Keys!DefaultKeymap, L, h.root, Owner)
  BY <1>0, <1>3, <1>6, LayeredIs DEF Outcomes, root, Root
<1>12. PICK K : SectionIs(h, m, x, K)
  BY <1>0, <1>9, SectionMakes DEF Visited
<1> HIDE DEF all
<1>13. Reading(h, x, L, m, K)
  BY <1>5, <1>9, <1>10, <1>11, <1>12 DEF Reading, Visited, root
<1> QED BY <1>13

----------------------------------------------------------------------------
(* A profile that can be read *)

LEMMA LayeredFits ==
    ASSUME IsFiniteSet(Commands), NEW B, Room(B), NEW m, Fits(m, B),
           NEW entries, Keys!KeyLists(entries),
           NEW context, \A c \in DOMAIN entries : context[c] \in Contexts,
           Orderly(DOMAIN entries, entries, context, B)
    PROVE  Keys!Layered(m, entries, context) # Failed /\ Fits(Keys!Layered(m, entries, context), B)
<1> DEFINE s == Keys!SetToSeq(DOMAIN entries)
           layer == Keys!LayerOf(s, entries, context)
<1>1. s \in Seq(Named(entries, context)) /\ Once(s) /\ Keys!Range(s) = DOMAIN entries
  BY ListNamed
<1>2. Keys!Layered(m, entries, context) = Keys!Under(m, layer, entries, context)
  BY DEF Keys!Layered
<1> HIDE DEF s
<1>3. Fits(layer, B)
  BY <1>1, LayerFits
<1> HIDE DEF layer
<1> QED BY <1>2, <1>3, UnderFits

LEMMA DefaultsInherit == \A d \in Keys!Range(Keys!DefaultKeymap) : d.configured = FALSE
  BY DEF Keys!Range, Keys!DefaultKeymap, Keys!Binding

\* There is room for the defaults and all that the profile has, and nothing of it is
\* in the way of the rest: at most the entry of a key takes the place of a default
\* of the same keys.
Readable(h, B) ==
    /\ \A d \in Keys!Range(Keys!DefaultKeymap) : Bare(d) \in B
    /\ Orderly(DOMAIN h.root, h.root, Owner, B)
    /\ \A x \in Contexts :
         /\ Orderly(DOMAIN h.commands[x], h.commands[x], Here(h, x), B)
         /\ Keys!Single(h, x) \in Maps
         /\ \A b \in Keys!Range(Keys!Single(h, x)) :
              /\ Bare(b) \in B
              /\ \A d \in Keys!Range(Keys!DefaultKeymap) : Keys!Overlaps(d, b) => d.keys = b.keys
              /\ \A c \in DOMAIN h.root :
                   \A a \in Keys!Range(Keys!Explicitly(Owner[c], c, h.root[c])) : ~Keys!Overlaps(a, b)

LEMMA RootFits ==
    ASSUME Constants, NEW h, Keys!IsProfile(h), NEW B, Room(B), Readable(h, B)
    PROVE  /\ Root(h) # Failed /\ Fits(Root(h), B)
           /\ \A x \in Contexts : \A a \in Keys!Range(Root(h)), b \in Keys!Range(Keys!Single(h, x)) :
                Keys!Overlaps(a, b) => a.keys = b.keys /\ ~a.configured
<1>0. IsFiniteSet(Commands) /\ Owner \in [Commands -> Contexts]
      /\ Keys!DefaultKeymap \in Maps /\ Failed \notin Maps
  BY DEF Constants
<1>1. Keys!KeyLists(h.root) /\ \A c \in DOMAIN h.root : Owner[c] \in Contexts
  BY <1>0 DEF Keys!IsProfile, Keys!KeyLists
<1>2. Fits(Keys!DefaultKeymap, B) /\ Orderly(DOMAIN h.root, h.root, Owner, B)
  BY <1>0 DEF Fits, Readable
<1>3. Root(h) # Failed /\ Fits(Root(h), B)
  BY <1>0, <1>1, <1>2, LayeredFits DEF Root
<1>4. PICK L : Laid(Root(h), Keys!DefaultKeymap, L, h.root, Owner)
  <2>1. Keys!DefaultKeymap \in Outcomes
    BY <1>0 DEF Outcomes
  <2> QED BY <1>0, <1>1, <1>3, <2>1, LayeredIs DEF Root
<1>5. Keys!Range(Root(h)) \subseteq Keys!Range(Keys!DefaultKeymap) \cup Keys!Range(L)
  BY <1>4 DEF Laid, Free
<1>6. \A b \in Keys!Range(L) :
        \E c \in DOMAIN h.root : b \in Keys!Range(Keys!Explicitly(Owner[c], c, h.root[c]))
  <2>1. DOMAIN h.root \subseteq Named(h.root, Owner)
    BY <1>1, KeyListsNamed
  <2> QED BY <1>4, <2>1, LayerMembers DEF Laid
<1>7. ASSUME NEW x \in Contexts, NEW a \in Keys!Range(Root(h)),
             NEW b \in Keys!Range(Keys!Single(h, x)), Keys!Overlaps(a, b)
      PROVE  a.keys = b.keys /\ ~a.configured
  <2>1. CASE a \in Keys!Range(Keys!DefaultKeymap)
    BY <1>7, <2>1, DefaultsInherit DEF Readable
  <2>2. CASE a \in Keys!Range(L)
    BY <1>6, <1>7, <2>2 DEF Readable
  <2> QED BY <1>5, <2>1, <2>2
<1> QED BY <1>3, <1>7

LEMMA SectionFits ==
    ASSUME Constants, NEW h, Keys!IsProfile(h), NEW B, Room(B), Readable(h, B),
           NEW m, Fits(m, B), NEW x \in Contexts, Keys!Kept(m, In(x)) = Keys!Kept(Root(h), In(x))
    PROVE  Keys!Section(h, m, x) # Failed /\ Fits(Keys!Section(h, m, x), B)
<1> DEFINE s == Keys!Single(h, x)
           n == Keys!BindAll(m, s)
<1>0. IsFiniteSet(Commands) /\ Failed \notin Maps /\ m \in Maps
  BY DEF Constants, Fits
<1>1. s \in Seq(Explicits) /\ \A b \in Keys!Range(s) : b.context = x
  BY SinglesAre
<1>2. Root(h) \in Maps
  BY RootFits DEF Fits
<1>3. \A a \in Keys!Range(m) : a \in In(x) => a \in Keys!Range(Root(h))
  <2>1. /\ Keys!Range(Keys!Kept(m, In(x))) = Keys!Range(m) \cap In(x)
        /\ Keys!Range(Keys!Kept(Root(h), In(x))) = Keys!Range(Root(h)) \cap In(x)
    BY <1>0, <1>2, KeptKeeps
  <2> QED BY <2>1
<1>4. \A a \in Keys!Range(m) : a \in Keys!Bindings
  BY <1>0, MembersAre
<1>5. \A a \in Keys!Range(m), b \in Keys!Range(s) :
        Keys!Overlaps(a, b) => a.keys = b.keys /\ ~a.configured
  <2>1. \A a \in Keys!Range(m), b \in Keys!Range(s) : Keys!Overlaps(a, b) => a \in In(x)
    BY <1>1, <1>4 DEF In, Keys!Overlaps
  <2> QED BY <1>3, <2>1, RootFits
<1>6. s \in Maps /\ \A b \in Keys!Range(s) : Bare(b) \in B
  BY DEF Readable
<1>7. Fitting(m, s, B)
  BY <1>5, <1>6 DEF Fitting
<1> HIDE DEF s
<1>8. Fits(n, B)
  BY <1>1, <1>7, BindAllFits
<1>9. /\ Keys!KeyLists(h.commands[x])
      /\ \A c \in DOMAIN h.commands[x] : Here(h, x)[c] \in Contexts
      /\ Orderly(DOMAIN h.commands[x], h.commands[x], Here(h, x), B)
  BY DEF Keys!IsProfile, Here, Readable
<1>10. Keys!Section(h, m, x) = Keys!Layered(n, h.commands[x], Here(h, x))
  BY DEF Keys!Section, Here, s
<1> HIDE DEF n
<1> QED BY <1>0, <1>8, <1>9, <1>10, LayeredFits

LEMMA ReadFits ==
    ASSUME Constants, NEW h, Keys!IsProfile(h), NEW B, Room(B), Readable(h, B)
    PROVE  Keys!Read(h) # Failed
<1> DEFINE ls == Keys!SetToSeq(Contexts)
           root == Root(h)
           of(s) == Keys!Sections(h, root, s)
           Fit(s) == of(s) # Failed /\ Fits(of(s), B)
           G == {s \in Seq(Contexts) : Once(s) => Fit(s)}
<1>0. IsFiniteSet(Contexts) /\ IsFiniteSet(Commands) /\ Failed \notin Maps
  BY DEF Constants
<1>1. ls \in Seq(Contexts) /\ Once(ls)
  BY <1>0, SetToSeqOnce
<1>2. root # Failed /\ Fits(root, B) /\ root \in Maps /\ root \in Outcomes
  BY RootFits DEF Fits, Outcomes
<1>3. Keys!Read(h) = Keys!Checked(of(ls))
  BY DEF Keys!Read, Root
<1> HIDE DEF ls
<1>4. <<>> \in G
  <2>1. of(<<>>) = root
    BY <1>0, <1>2, SectionsEmpty
  <2>2. Fit(<<>>) /\ <<>> \in Seq(Contexts)
    BY <1>2, <2>1
  <2> HIDE DEF Fit
  <2> QED BY <2>2
<1>5. ASSUME NEW s \in Seq(Contexts), NEW y \in Contexts, s \in G
      PROVE  Append(s, y) \in G
  <2> SUFFICES ASSUME Once(Append(s, y))
               PROVE  Fit(Append(s, y))
    <3> HIDE DEF Fit
    <3> QED OBVIOUS
  <2>1. Once(s) /\ y \notin Keys!Range(s)
    BY OnceAppend
  <2>2. of(s) # Failed /\ Fits(of(s), B)
    BY <1>5, <2>1
  <2>3. VisitsAre(h, root, s)
    BY <1>0, <1>2, <2>1, <2>2, SectionsLocal
  <2>4. Keys!Kept(of(s), In(y)) = Keys!Kept(root, In(y))
    BY <2>1, <2>3 DEF VisitsAre
  <2>5. of(Append(s, y)) = Keys!Section(h, of(s), y)
    BY <1>0, <1>2, SectionsAppend
  <2> DEFINE n == of(s)
  <2>6. Fits(n, B) /\ Keys!Kept(n, In(y)) = Keys!Kept(Root(h), In(y))
    BY <2>2, <2>4
  <2> HIDE DEF n
  <2>7. Keys!Section(h, n, y) # Failed /\ Fits(Keys!Section(h, n, y), B)
    BY <2>6, SectionFits
  <2> QED BY <2>5, <2>7 DEF n
<1> HIDE DEF G
<1>6. \A s \in Seq(Contexts) : s \in G
  BY <1>4, <1>5, Grown
<1>7. ls \in G
  BY <1>1, <1>6
<1> DEFINE all == of(ls)
<1>8. all # Failed /\ all \in Maps
  BY <1>1, <1>7 DEF G, Fits
<1> HIDE DEF all
<1>9. Keys!Checked(all) = all
  BY <1>8 DEF Keys!Checked, Keys!Explicit, Maps, Keys!Apart
<1> QED BY <1>3, <1>8, <1>9 DEF all

----------------------------------------------------------------------------
(* The profile that a save writes *)

LEMMA OverIs ==
    ASSUME NEW f, NEW g
    PROVE  /\ DOMAIN Keys!Over(f, g) = DOMAIN f \cup DOMAIN g
           /\ \A c \in DOMAIN f : Keys!Over(f, g)[c] = f[c]
           /\ \A c \in DOMAIN g : c \notin DOMAIN f => Keys!Over(f, g)[c] = g[c]
  BY DEF Keys!Over

Updated(f, g, changed) ==
    /\ \A x \in Contexts, c \in Commands :
         /\ c \in DOMAIN g.commands[x]
              <=> c \in DOMAIN f.commands[x] \/ (<<x, c>> \in changed /\ x # Owner[c])
         /\ c \in DOMAIN g.commands[x] =>
              g.commands[x][c] = IF <<x, c>> \in changed THEN Keys!KeysOf(keymap, x, c)
                                 ELSE f.commands[x][c]
    /\ \A c \in Commands :
         /\ c \in DOMAIN g.root
              <=> \/ c \in DOMAIN f.root
                  \/ <<Owner[c], c>> \in changed /\ c \notin DOMAIN f.commands[Owner[c]]
         /\ c \in DOMAIN g.root =>
              g.root[c] = IF <<Owner[c], c>> \in changed THEN Keys!KeysOf(keymap, Owner[c], c)
                          ELSE f.root[c]

LEMMA UpdateIs ==
    ASSUME Owner \in [Commands -> Contexts], NEW f, Keys!IsProfile(f), ~Keys!Shadowed(f),
           NEW changed \in SUBSET (Contexts \X Commands)
    PROVE  Updated(f, Keys!Update(f, changed), changed)
<1> DEFINE scoped == {p \in changed : p[2] \in DOMAIN f.commands[p[1]] \/ p[1] # Owner[p[2]]}
           flat == {p[2] : p \in changed \ scoped}
           flats == [c \in flat |-> Keys!KeysOf(keymap, Owner[c], c)]
           named(x) == {p[2] : p \in {q \in scoped : q[1] = x}}
           owns(x) == [c \in named(x) |-> Keys!KeysOf(keymap, x, c)]
           g == Keys!Update(f, changed)
<1>1. /\ g.root = Keys!Over(flats, f.root)
      /\ \A x \in Contexts : g.commands[x] = Keys!Over(owns(x), f.commands[x])
  BY DEF Keys!Update
<1>2. \A p \in changed : p = <<p[1], p[2]>> /\ p[1] \in Contexts /\ p[2] \in Commands
  OBVIOUS
<1>3. \A c \in Commands :
        c \in flat <=> <<Owner[c], c>> \in changed /\ c \notin DOMAIN f.commands[Owner[c]]
  <2> SUFFICES ASSUME NEW c \in Commands
               PROVE  c \in flat <=> <<Owner[c], c>> \in changed
                                       /\ c \notin DOMAIN f.commands[Owner[c]]
    OBVIOUS
  <2>1. ASSUME c \in flat
        PROVE  <<Owner[c], c>> \in changed /\ c \notin DOMAIN f.commands[Owner[c]]
    <3>1. PICK p \in changed \ scoped : c = p[2]
      BY <2>1
    <3>2. p[1] = Owner[p[2]] /\ p[2] \notin DOMAIN f.commands[p[1]]
      BY <3>1
    <3> QED BY <1>2, <3>1, <3>2
  <2>2. ASSUME <<Owner[c], c>> \in changed, c \notin DOMAIN f.commands[Owner[c]]
        PROVE  c \in flat
    <3> DEFINE p == <<Owner[c], c>>
    <3>1. p[1] = Owner[c] /\ p[2] = c
      OBVIOUS
    <3>2. p \in changed \ scoped
      BY <2>2, <3>1
    <3> QED BY <3>1, <3>2
  <2> QED BY <2>1, <2>2
<1>4. \A x \in Contexts, c \in Commands :
        c \in named(x) <=> <<x, c>> \in changed /\ (c \in DOMAIN f.commands[x] \/ x # Owner[c])
  <2> SUFFICES ASSUME NEW x \in Contexts, NEW c \in Commands
               PROVE  c \in named(x)
                        <=> <<x, c>> \in changed /\ (c \in DOMAIN f.commands[x] \/ x # Owner[c])
    OBVIOUS
  <2>1. ASSUME c \in named(x)
        PROVE  <<x, c>> \in changed /\ (c \in DOMAIN f.commands[x] \/ x # Owner[c])
    <3>1. PICK p \in scoped : c = p[2] /\ x = p[1]
      BY <2>1
    <3> QED BY <1>2, <3>1
  <2>2. ASSUME <<x, c>> \in changed, c \in DOMAIN f.commands[x] \/ x # Owner[c]
        PROVE  c \in named(x)
    <3> DEFINE p == <<x, c>>
    <3>1. p[1] = x /\ p[2] = c
      OBVIOUS
    <3>2. p \in scoped /\ p[1] = x
      BY <2>2, <3>1
    <3> QED BY <3>1, <3>2
  <2> QED BY <2>1, <2>2
<1>5. DOMAIN flats = flat /\ \A c \in flat : flats[c] = Keys!KeysOf(keymap, Owner[c], c)
  OBVIOUS
<1>6. \A x : DOMAIN owns(x) = named(x) /\ \A c \in named(x) : owns(x)[c] = Keys!KeysOf(keymap, x, c)
  OBVIOUS
<1> HIDE DEF flat, flats, named, owns, g
<1>7. ASSUME NEW x \in Contexts, NEW c \in Commands
      PROVE  /\ c \in DOMAIN g.commands[x]
                  <=> c \in DOMAIN f.commands[x] \/ (<<x, c>> \in changed /\ x # Owner[c])
             /\ c \in DOMAIN g.commands[x] =>
                  g.commands[x][c] = IF <<x, c>> \in changed THEN Keys!KeysOf(keymap, x, c)
                                     ELSE f.commands[x][c]
  <2> DEFINE new == owns(x)
             old == f.commands[x]
             both == g.commands[x]
  <2>0. both = Keys!Over(new, old) /\ DOMAIN new = named(x)
        /\ \A d \in named(x) : new[d] = Keys!KeysOf(keymap, x, d)
    BY <1>1, <1>6
  <2> HIDE DEF new, old, both
  <2>4. /\ DOMAIN both = DOMAIN new \cup DOMAIN old
        /\ \A d \in DOMAIN new : both[d] = new[d]
        /\ \A d \in DOMAIN old : d \notin DOMAIN new => both[d] = old[d]
    <3>1. DOMAIN Keys!Over(new, old) = DOMAIN new \cup DOMAIN old
      BY OverIs
    <3>2. \A d \in DOMAIN new : Keys!Over(new, old)[d] = new[d]
      BY OverIs
    <3>3. \A d \in DOMAIN old : d \notin DOMAIN new => Keys!Over(new, old)[d] = old[d]
      BY OverIs
    <3> QED BY <2>0, <3>1, <3>2, <3>3
  <2>1. DOMAIN g.commands[x] = named(x) \cup DOMAIN f.commands[x]
    BY <2>0, <2>4 DEF both, old
  <2>2. c \in named(x) => g.commands[x][c] = Keys!KeysOf(keymap, x, c)
    BY <2>0, <2>4 DEF both
  <2>3. c \in DOMAIN f.commands[x] /\ c \notin named(x) => g.commands[x][c] = f.commands[x][c]
    BY <2>0, <2>4 DEF both, old
  <2> QED BY <1>4, <2>1, <2>2, <2>3
<1>8. ASSUME NEW c \in Commands
      PROVE  /\ c \in DOMAIN g.root
                  <=> \/ c \in DOMAIN f.root
                      \/ <<Owner[c], c>> \in changed /\ c \notin DOMAIN f.commands[Owner[c]]
             /\ c \in DOMAIN g.root =>
                  g.root[c] = IF <<Owner[c], c>> \in changed THEN Keys!KeysOf(keymap, Owner[c], c)
                              ELSE f.root[c]
  <2> DEFINE old == f.root
             both == g.root
  <2>0. both = Keys!Over(flats, old)
    BY <1>1
  <2> HIDE DEF old, both
  <2>5. /\ DOMAIN both = DOMAIN flats \cup DOMAIN old
        /\ \A d \in DOMAIN flats : both[d] = flats[d]
        /\ \A d \in DOMAIN old : d \notin DOMAIN flats => both[d] = old[d]
    <3>1. DOMAIN Keys!Over(flats, old) = DOMAIN flats \cup DOMAIN old
      BY OverIs
    <3>2. \A d \in DOMAIN flats : Keys!Over(flats, old)[d] = flats[d]
      BY OverIs
    <3>3. \A d \in DOMAIN old : d \notin DOMAIN flats => Keys!Over(flats, old)[d] = old[d]
      BY OverIs
    <3> QED BY <2>0, <3>1, <3>2, <3>3
  <2>1. DOMAIN g.root = flat \cup DOMAIN f.root
    BY <1>5, <2>5 DEF both, old
  <2>2. c \in flat => g.root[c] = Keys!KeysOf(keymap, Owner[c], c)
    BY <1>5, <2>5 DEF both
  <2>3. c \in DOMAIN f.root /\ c \notin flat => g.root[c] = f.root[c]
    BY <1>5, <2>5 DEF both, old
  <2>4. c \in DOMAIN f.root => c \notin DOMAIN f.commands[Owner[c]]
    BY DEF Keys!Shadowed
  <2> QED BY <1>3, <2>1, <2>2, <2>3, <2>4
<1> QED BY <1>7, <1>8 DEF Updated, g

\* A save that there is no cause to refuse.
Saves(f, g) ==
    /\ Constants /\ keymap \in Maps /\ Keys!IsProfile(f) /\ Keys!IsProfile(g)
    /\ Keys!Read(f) # Failed /\ Keys!Read(f) \in Maps
    /\ Updated(f, g, Keys!Changed(Keys!Read(f)))
    /\ g.bindings = Keys!WithoutStale(f, Keys!Changed(Keys!Read(f)))
    /\ ~Keys!Void(f) /\ ~Keys!Regained(f) /\ ~Keys!Misplaced(f) /\ ~Keys!Crowded

\* The keys of a command are those of its bindings.
LEMMA KeysOfRange ==
    ASSUME NEW m \in Maps, NEW x, NEW c
    PROVE  \A k : k \in Keys!Range(Keys!KeysOf(m, x, c))
                    <=> \E b \in Keys!Range(m) : b \in BindingsOf(x, c) /\ b.keys = k
<1> DEFINE S == {b \in Keys!Range(m) : b.context = x /\ b.command = c}
           mine == Keys!Kept(m, S)
<1>1. mine \in Maps /\ Keys!Range(mine) = Keys!Range(m) \cap S
  BY KeptKeeps
<1>2. \A b \in Keys!Range(m) : b \in Keys!Bindings
  BY MembersAre
<1>3. \A b : b \in Keys!Range(mine) <=> b \in Keys!Range(m) /\ b \in BindingsOf(x, c)
  BY <1>1, <1>2 DEF BindingsOf
<1>4. Keys!KeysOf(m, x, c) = [i \in DOMAIN mine |-> mine[i].keys]
  BY DEF Keys!KeysOf
<1> HIDE DEF mine, S
<1>5. \A k : k \in Keys!Range(Keys!KeysOf(m, x, c)) <=> \E i \in DOMAIN mine : mine[i].keys = k
  BY <1>4 DEF Keys!Range
<1>6. \A b : b \in Keys!Range(mine) <=> \E i \in DOMAIN mine : mine[i] = b
  BY DEF Keys!Range
<1> QED BY <1>3, <1>5, <1>6

\* They are told by what is kept of the command.
LEMMA KeysOfKept ==
    ASSUME NEW m \in Maps, NEW x, NEW c
    PROVE  Keys!KeysOf(m, x, c)
             = [i \in DOMAIN Keys!Kept(m, BindingsOf(x, c)) |-> Keys!Kept(m, BindingsOf(x, c))[i].keys]
<1> DEFINE S == {b \in Keys!Range(m) : b.context = x /\ b.command = c}
           P == BindingsOf(x, c)
<1>1. \A b \in Keys!Range(m) : b \in S <=> b \in P
  BY MembersAre DEF BindingsOf
<1>2. Keys!KeysOf(m, x, c) = [i \in DOMAIN Keys!Kept(m, S) |-> Keys!Kept(m, S)[i].keys]
  BY DEF Keys!KeysOf
<1>3. m \in Seq(Keys!Bindings)
  BY DEF Maps
<1> HIDE DEF S, P
<1>4. Keys!Kept(m, S) = Keys!Kept(m, P)
  BY <1>1, <1>3, KeptSame
<1> QED BY <1>2, <1>4 DEF P

LEMMA KeysOfListed ==
    ASSUME NEW m \in Maps, NEW x \in Contexts, NEW c \in Commands, NEW ls \in Seq(Seq(Strokes)),
           Keys!Kept(m, BindingsOf(x, c)) = Keys!Explicitly(x, c, ls)
    PROVE  Keys!KeysOf(m, x, c) = ls
<1> DEFINE E == Keys!Explicitly(x, c, ls)
<1>1. Keys!KeysOf(m, x, c) = [i \in DOMAIN E |-> E[i].keys]
  BY KeysOfKept
<1>2. DOMAIN E = DOMAIN ls /\ \A i \in DOMAIN ls : E[i].keys = ls[i]
  BY DEF Keys!Explicitly, Keys!Binding
<1> HIDE DEF E
<1>3. Keys!KeysOf(m, x, c) = [i \in DOMAIN ls |-> ls[i]]
  BY <1>1, <1>2
<1>4. [i \in DOMAIN ls |-> ls[i]] = ls
  OBVIOUS
<1> QED BY <1>3, <1>4

\* The keymap has these keys for the command, whoever gave them.
Holds(b) == b.keys \in Keys!Range(Keys!KeysOf(keymap, b.context, b.command))

LEMMA HoldsIs ==
    ASSUME keymap \in Maps, NEW b \in Keys!Bindings
    PROVE  Holds(b) <=> \E a \in Keys!Range(keymap) :
                          /\ a \in Keys!Bindings
                          /\ a.context = b.context /\ a.command = b.command /\ a.keys = b.keys
<1>1. \A a \in Keys!Range(keymap) : a \in Keys!Bindings
  BY MembersAre
<1> QED BY <1>1, KeysOfRange DEF Holds, BindingsOf

\* What the keymap holds competes with nothing else it holds.
LEMMA HoldsApart ==
    ASSUME keymap \in Maps, NEW b \in Keys!Bindings, NEW d \in Keys!Bindings,
           Holds(b), Holds(d), Keys!Overlaps(b, d)
    PROVE  b.context = d.context /\ b.command = d.command /\ b.keys = d.keys
<1>1. PICK a \in Keys!Range(keymap) :
        a \in Keys!Bindings /\ a.context = b.context /\ a.command = b.command /\ a.keys = b.keys
  BY HoldsIs
<1>2. PICK e \in Keys!Range(keymap) :
        e \in Keys!Bindings /\ e.context = d.context /\ e.command = d.command /\ e.keys = d.keys
  BY HoldsIs
<1>3. Keys!Overlaps(a, e)
  BY <1>1, <1>2 DEF Keys!Overlaps
<1>4. a = e
  BY <1>3, ApartIs
<1> QED BY <1>1, <1>2, <1>4

\* The keys of a command that did not change.
LEMMA HoldsSame ==
    ASSUME NEW m \in Maps, NEW b \in Keys!Bindings, b \in Keys!Range(m),
           Keys!KeysOf(keymap, b.context, b.command) = Keys!KeysOf(m, b.context, b.command)
    PROVE  Holds(b)
<1>1. b \in BindingsOf(b.context, b.command)
  BY DEF BindingsOf
<1> QED BY <1>1, KeysOfRange DEF Holds

----------------------------------------------------------------------------
(* Where what is read comes from *)

\* The bindings of the root layer, of the tables of a context, and of the defaults.
RootGives(h, b) ==
    \E c \in DOMAIN h.root : b \in Keys!Range(Keys!Explicitly(Owner[c], c, h.root[c]))
CommandsGive(h, x, b) ==
    \E c \in DOMAIN h.commands[x] : b \in Keys!Range(Keys!Explicitly(x, c, h.commands[x][c]))
SingleGives(h, x, b) == b \in Keys!Range(Keys!Single(h, x))

\* A default that the root layer leaves.
Left(h, d) ==
    /\ d \in Keys!Range(Keys!DefaultKeymap)
    /\ ~(d.command \in DOMAIN h.root /\ Owner[d.command] = d.context)
    /\ \A b : RootGives(h, b) => ~Keys!Overlaps(d, b)

Bound(h, m, x) == Keys!BindAll(m, Keys!Single(h, x))

Sources(h, x, m) ==
    /\ m \in Maps /\ Bound(h, m, x) \in Maps /\ Keys!Read(h) \in Maps
    /\ \A b \in Keys!Bindings : b.context = x => (b \in Keys!Range(m) <=> Left(h, b) \/ RootGives(h, b))
    /\ \A b : b \in Keys!Range(Bound(h, m, x))
                <=> \/ SingleGives(h, x, b)
                    \/ b \in Keys!Range(m) /\ \A s : SingleGives(h, x, s) => ~Keys!Overlaps(b, s)
    /\ \A a \in Keys!Range(m) : \A s : SingleGives(h, x, s) /\ Keys!Overlaps(a, s)
                                     => a.keys = s.keys /\ ~a.configured
    /\ \A b \in Keys!Bindings :
         b.context = x =>
           (b \in Keys!Range(Keys!Read(h))
              <=> \/ CommandsGive(h, x, b)
                  \/ /\ b \in Keys!Range(Bound(h, m, x)) /\ b.command \notin DOMAIN h.commands[x]
                     /\ \A k : CommandsGive(h, x, k) => ~Keys!Overlaps(b, k))

\* Parts of parts that are alike are alike.
LEMMA PartKept ==
    ASSUME NEW a \in Maps, NEW b \in Maps, NEW S, NEW T, Keys!Kept(a, S) = Keys!Kept(b, S), T \subseteq S
    PROVE  Keys!Kept(a, T) = Keys!Kept(b, T)
<1>1. a \in Seq(Keys!Bindings) /\ b \in Seq(Keys!Bindings)
  BY DEF Maps
<1>2. Keys!Kept(Keys!Kept(a, S), T) = Keys!Kept(a, S \cap T)
      /\ Keys!Kept(Keys!Kept(b, S), T) = Keys!Kept(b, S \cap T)
  BY <1>1, KeptTwice
<1>3. S \cap T = T
  OBVIOUS
<1> QED BY <1>2, <1>3

LEMMA PartRange ==
    ASSUME NEW a \in Maps, NEW b \in Maps, NEW S, Keys!Kept(a, S) = Keys!Kept(b, S)
    PROVE  \A e \in S : e \in Keys!Range(a) <=> e \in Keys!Range(b)
<1>1. /\ Keys!Range(Keys!Kept(a, S)) = Keys!Range(a) \cap S
      /\ Keys!Range(Keys!Kept(b, S)) = Keys!Range(b) \cap S
  BY KeptKeeps
<1> QED BY <1>1

LEMMA RootNamed ==
    ASSUME Constants, NEW h, Keys!IsProfile(h)
    PROVE  /\ DOMAIN h.root \subseteq Commands /\ DOMAIN h.root \subseteq Named(h.root, Owner)
           /\ \A c \in DOMAIN h.root : h.root[c] \in Seq(Seq(Strokes)) /\ Owner[c] \in Contexts
  BY DEF Constants, Keys!IsProfile, Keys!KeyLists, Named

LEMMA CommandsNamed ==
    ASSUME NEW h, Keys!IsProfile(h), NEW x \in Contexts
    PROVE  /\ DOMAIN h.commands[x] \subseteq Commands
           /\ DOMAIN h.commands[x] \subseteq Named(h.commands[x], Here(h, x))
           /\ \A c \in DOMAIN h.commands[x] :
                h.commands[x][c] \in Seq(Seq(Strokes)) /\ Here(h, x)[c] = x
  BY DEF Keys!IsProfile, Keys!KeyLists, Named, Here

\* What tables give are explicit bindings of their contexts.
LEMMA GivenAre ==
    ASSUME Constants, NEW h, Keys!IsProfile(h)
    PROVE  /\ \A b : RootGives(h, b) =>
                /\ b \in Explicits /\ b \in Keys!Bindings /\ b.configured
                /\ b.command \in DOMAIN h.root /\ Owner[b.command] = b.context
                /\ b \in Keys!Range(Keys!Explicitly(b.context, b.command, h.root[b.command]))
           /\ \A x \in Contexts : \A b :
                /\ CommandsGive(h, x, b) =>
                     /\ b \in Explicits /\ b \in Keys!Bindings /\ b.configured /\ b.context = x
                     /\ b.command \in DOMAIN h.commands[x]
                     /\ b \in Keys!Range(Keys!Explicitly(x, b.command, h.commands[x][b.command]))
                /\ SingleGives(h, x, b) =>
                     b \in Explicits /\ b \in Keys!Bindings /\ b.configured /\ b.context = x
<1>1. ASSUME NEW b, RootGives(h, b)
      PROVE  /\ b \in Explicits /\ b \in Keys!Bindings /\ b.configured
             /\ b.command \in DOMAIN h.root /\ Owner[b.command] = b.context
             /\ b \in Keys!Range(Keys!Explicitly(b.context, b.command, h.root[b.command]))
  <2>1. PICK c \in DOMAIN h.root : b \in Keys!Range(Keys!Explicitly(Owner[c], c, h.root[c]))
    BY <1>1 DEF RootGives
  <2>2. c \in Commands /\ h.root[c] \in Seq(Seq(Strokes)) /\ Owner[c] \in Contexts
    BY RootNamed
  <2> DEFINE E == Keys!Explicitly(Owner[c], c, h.root[c])
  <2>3. E \in Seq(Explicits) /\ Keys!Range(E) \subseteq BindingsOf(Owner[c], c)
    BY <2>2, ExplicitlyAre
  <2>4. b \in Explicits
    <3> HIDE DEF E
    <3>1. \A i \in DOMAIN E : E[i] \in Explicits
      BY <2>3
    <3> QED BY <2>1, <3>1 DEF Keys!Range, E
  <2>5. b.context = Owner[c] /\ b.command = c
    BY <2>1, <2>3 DEF BindingsOf
  <2> QED BY <2>1, <2>4, <2>5 DEF Explicits
<1>2. ASSUME NEW x \in Contexts, NEW b, CommandsGive(h, x, b)
      PROVE  /\ b \in Explicits /\ b \in Keys!Bindings /\ b.configured /\ b.context = x
             /\ b.command \in DOMAIN h.commands[x]
             /\ b \in Keys!Range(Keys!Explicitly(x, b.command, h.commands[x][b.command]))
  <2>1. PICK c \in DOMAIN h.commands[x] : b \in Keys!Range(Keys!Explicitly(x, c, h.commands[x][c]))
    BY <1>2 DEF CommandsGive
  <2>2. c \in Commands /\ h.commands[x][c] \in Seq(Seq(Strokes))
    BY CommandsNamed
  <2> DEFINE E == Keys!Explicitly(x, c, h.commands[x][c])
  <2>3. E \in Seq(Explicits) /\ Keys!Range(E) \subseteq BindingsOf(x, c)
    BY <2>2, ExplicitlyAre
  <2>4. b \in Explicits
    <3> HIDE DEF E
    <3>1. \A i \in DOMAIN E : E[i] \in Explicits
      BY <2>3
    <3> QED BY <2>1, <3>1 DEF Keys!Range, E
  <2>5. b.context = x /\ b.command = c
    BY <2>1, <2>3 DEF BindingsOf
  <2> QED BY <2>1, <2>4, <2>5 DEF Explicits
<1>3. ASSUME NEW x \in Contexts, NEW b, SingleGives(h, x, b)
      PROVE  b \in Explicits /\ b \in Keys!Bindings /\ b.configured /\ b.context = x
  BY <1>3, SinglesAre DEF SingleGives, Explicits
<1> QED BY <1>1, <1>2, <1>3

\* The layers of a reading.
LEMMA RootLayer ==
    ASSUME Constants, NEW h, Keys!IsProfile(h), NEW L,
           Laid(Root(h), Keys!DefaultKeymap, L, h.root, Owner)
    PROVE  /\ \A b : b \in Keys!Range(L) <=> RootGives(h, b)
           /\ \A b : b \in Free(Keys!DefaultKeymap, L, h.root, Owner) <=> Left(h, b)
<1>1. LayerIs(L, DOMAIN h.root, h.root, Owner) /\ DOMAIN h.root \subseteq Named(h.root, Owner)
  BY RootNamed DEF Laid
<1>2. \A b : b \in Keys!Range(L) <=> RootGives(h, b)
  BY <1>1, LayerMembers DEF RootGives
<1> QED BY <1>2 DEF Free, Left

LEMMA CommandsLayer ==
    ASSUME Constants, NEW h, Keys!IsProfile(h), NEW x \in Contexts, NEW r, NEW n, NEW K,
           Laid(r, n, K, h.commands[x], Here(h, x))
    PROVE  /\ \A b : b \in Keys!Range(K) <=> CommandsGive(h, x, b)
           /\ \A b \in Keys!Bindings :
                b.context = x =>
                  (b \in Free(n, K, h.commands[x], Here(h, x))
                     <=> /\ b \in Keys!Range(n) /\ b.command \notin DOMAIN h.commands[x]
                         /\ \A k : CommandsGive(h, x, k) => ~Keys!Overlaps(b, k))
<1>1. LayerIs(K, DOMAIN h.commands[x], h.commands[x], Here(h, x))
      /\ DOMAIN h.commands[x] \subseteq Named(h.commands[x], Here(h, x))
      /\ \A c \in DOMAIN h.commands[x] : Here(h, x)[c] = x
  BY CommandsNamed DEF Laid
<1>2. \A b : b \in Keys!Range(K) <=> CommandsGive(h, x, b)
  BY <1>1, LayerMembers DEF CommandsGive
<1> QED BY <1>1, <1>2 DEF Free

LEMMA SourcesAre ==
    ASSUME Constants, NEW h, Keys!IsProfile(h), NEW x \in Contexts, NEW L, NEW m, NEW K,
           Reading(h, x, L, m, K)
    PROVE  Sources(h, x, m)
<1> DEFINE n == Bound(h, m, x)
           e == Keys!Read(h)
           r == Keys!Section(h, m, x)
           s == Keys!Single(h, x)
<1>1. /\ e \in Maps /\ Laid(Root(h), Keys!DefaultKeymap, L, h.root, Owner) /\ m \in Maps
      /\ Keys!Kept(m, In(x)) = Keys!Kept(Root(h), In(x))
      /\ Keys!Kept(e, In(x)) = Keys!Kept(r, In(x))
      /\ BoundIs(m, s) /\ Laid(r, n, K, h.commands[x], Here(h, x))
  BY DEF Reading, SectionIs, Bound
<1>2. Root(h) \in Maps /\ r \in Maps /\ n \in Maps
  BY <1>1 DEF Laid
<1>3. \A b \in Keys!Bindings : b.context = x => (b \in Keys!Range(m) <=> Left(h, b) \/ RootGives(h, b))
  <2>1. \A b \in In(x) : b \in Keys!Range(m) <=> b \in Keys!Range(Root(h))
    BY <1>1, <1>2, PartRange
  <2>2. Keys!Range(Root(h)) = Free(Keys!DefaultKeymap, L, h.root, Owner) \cup Keys!Range(L)
    BY <1>1 DEF Laid
  <2>3. \A b : b \in Keys!Range(Root(h)) <=> Left(h, b) \/ RootGives(h, b)
    BY <1>1, <2>2, RootLayer
  <2> QED BY <2>1, <2>3 DEF In
<1>4. \A b : b \in Keys!Range(n)
               <=> \/ SingleGives(h, x, b)
                   \/ b \in Keys!Range(m) /\ \A k : SingleGives(h, x, k) => ~Keys!Overlaps(b, k)
  BY <1>1 DEF BoundIs, SingleGives, Bound
<1>5. \A a \in Keys!Range(m) : \A k : SingleGives(h, x, k) /\ Keys!Overlaps(a, k)
                                    => a.keys = k.keys /\ ~a.configured
  BY <1>1 DEF BoundIs, SingleGives
<1>6. \A b \in Keys!Bindings :
         b.context = x =>
           (b \in Keys!Range(e)
              <=> \/ CommandsGive(h, x, b)
                  \/ /\ b \in Keys!Range(n) /\ b.command \notin DOMAIN h.commands[x]
                     /\ \A k : CommandsGive(h, x, k) => ~Keys!Overlaps(b, k))
  <2>1. \A b \in In(x) : b \in Keys!Range(e) <=> b \in Keys!Range(r)
    BY <1>1, <1>2, PartRange
  <2>2. Keys!Range(r) = Free(n, K, h.commands[x], Here(h, x)) \cup Keys!Range(K)
    BY <1>1 DEF Laid
  <2> HIDE DEF n, e, r
  <2> QED BY <1>1, <2>1, <2>2, CommandsLayer DEF In
<1> QED BY <1>1, <1>2, <1>3, <1>4, <1>5, <1>6 DEF Sources

\* The bindings of a command, in their order: the list of [keys.CONTEXT.commands] ...
LEMMA ReadListed ==
    ASSUME Constants, NEW h, Keys!IsProfile(h), NEW x \in Contexts, NEW L, NEW m, NEW K,
           Reading(h, x, L, m, K), NEW c \in DOMAIN h.commands[x]
    PROVE  /\ Keys!Kept(Keys!Read(h), BindingsOf(x, c)) = Keys!Explicitly(x, c, h.commands[x][c])
           /\ Keys!KeysOf(Keys!Read(h), x, c) = h.commands[x][c]
<1> DEFINE n == Bound(h, m, x)
           e == Keys!Read(h)
           r == Keys!Section(h, m, x)
           P == BindingsOf(x, c)
           F == Free(n, K, h.commands[x], Here(h, x))
           kept == Keys!Kept(n, F)
<1>1. /\ e \in Maps /\ Keys!Kept(e, In(x)) = Keys!Kept(r, In(x))
      /\ Laid(r, n, K, h.commands[x], Here(h, x))
  BY DEF Reading, SectionIs, Bound
<1>2. r \in Maps /\ n \in Maps /\ LayerIs(K, DOMAIN h.commands[x], h.commands[x], Here(h, x))
      /\ r = kept \o K
  BY <1>1 DEF Laid
<1>3. P \subseteq In(x) /\ F \cap P = {} /\ Here(h, x)[c] = x /\ c \in Commands
      /\ h.commands[x][c] \in Seq(Seq(Strokes))
  BY CommandsNamed DEF In, BindingsOf, Free
<1>4. Keys!Kept(K, P) = Keys!Explicitly(x, c, h.commands[x][c])
  BY <1>2, <1>3 DEF LayerIs
<1> HIDE DEF n, e, r, P, F
<1>5. Keys!Kept(e, P) = Keys!Kept(r, P)
  BY <1>1, <1>2, <1>3, PartKept
<1>6. n \in Seq(Keys!Bindings) /\ K \in Seq(Keys!Bindings)
  BY <1>2 DEF LayerIs, Maps
<1>7. kept \in Seq(Keys!Bindings) /\ Keys!Kept(kept, P) = Keys!Kept(n, F \cap P)
  BY <1>6, KeptIs, KeptTwice
<1>8. Keys!Kept(n, F \cap P) = <<>>
  BY <1>3, <1>6, KeptNone
<1> HIDE DEF kept
<1>9. Keys!Kept(r, P) = Keys!Kept(kept, P) \o Keys!Kept(K, P)
  <2>1. r = kept \o K
    BY <1>2
  <2>2. kept \in Seq(Keys!Bindings) /\ K \in Seq(Keys!Bindings)
    BY <1>6, <1>7
  <2>3. \A S : Keys!Kept(kept \o K, S) = Keys!Kept(kept, S) \o Keys!Kept(K, S)
    BY <2>2, KeptJoin
  <2> QED BY <2>1, <2>3
<1>10. <<>> \o Keys!Kept(K, P) = Keys!Kept(K, P)
  BY <1>6, KeptIs, ConcatEmptySeq
<1>11. Keys!Kept(e, P) = Keys!Explicitly(x, c, h.commands[x][c])
  BY <1>4, <1>5, <1>7, <1>8, <1>9, <1>10
<1>12. Keys!KeysOf(e, x, c) = h.commands[x][c]
  BY <1>1, <1>3, <1>11, KeysOfListed DEF P
<1> QED BY <1>11, <1>12 DEF e, P

\* ... or what the tables before left of it.
LEMMA ReadUnlisted ==
    ASSUME Constants, NEW h, Keys!IsProfile(h), NEW x \in Contexts, NEW L, NEW m, NEW K,
           Reading(h, x, L, m, K), NEW c \in Commands, c \notin DOMAIN h.commands[x],
           NEW T, \A b \in Keys!Range(Bound(h, m, x)) :
                    b \in BindingsOf(x, c)
                      => (b \in T <=> \A k : CommandsGive(h, x, k) => ~Keys!Overlaps(b, k))
    PROVE  Keys!Kept(Keys!Read(h), BindingsOf(x, c)) = Keys!Kept(Bound(h, m, x), BindingsOf(x, c) \cap T)
<1> DEFINE n == Bound(h, m, x)
           e == Keys!Read(h)
           r == Keys!Section(h, m, x)
           P == BindingsOf(x, c)
           F == Free(n, K, h.commands[x], Here(h, x))
           kept == Keys!Kept(n, F)
<1>1. /\ e \in Maps /\ Keys!Kept(e, In(x)) = Keys!Kept(r, In(x))
      /\ Laid(r, n, K, h.commands[x], Here(h, x))
  BY DEF Reading, SectionIs, Bound
<1>2. r \in Maps /\ n \in Maps /\ LayerIs(K, DOMAIN h.commands[x], h.commands[x], Here(h, x))
      /\ r = kept \o K
  BY <1>1 DEF Laid
<1>3. P \subseteq In(x) /\ P \subseteq Keys!Bindings
  BY DEF In, BindingsOf
<1>4. Keys!Range(K) \cap P = {}
  BY <1>2 DEF LayerIs, BindingsOf
<1>5. \A b \in Keys!Range(n) : b \in F \cap P <=> b \in P \cap T
  <2> SUFFICES ASSUME NEW b \in Keys!Range(n), b \in P
               PROVE  b \in F <=> b \in T
    OBVIOUS
  <2>1. b \in Keys!Bindings /\ b.context = x /\ b.command = c
    BY DEF BindingsOf
  <2>2. b \in F <=> /\ b \in Keys!Range(n) /\ b.command \notin DOMAIN h.commands[x]
                    /\ \A k : CommandsGive(h, x, k) => ~Keys!Overlaps(b, k)
    BY <1>1, <2>1, CommandsLayer
  <2> QED BY <2>1, <2>2
<1> HIDE DEF n, e, r, P, F
<1>6. Keys!Kept(e, P) = Keys!Kept(r, P)
  BY <1>1, <1>2, <1>3, PartKept
<1>7. n \in Seq(Keys!Bindings) /\ K \in Seq(Keys!Bindings)
  BY <1>2 DEF LayerIs, Maps
<1>8. kept \in Seq(Keys!Bindings) /\ Keys!Kept(kept, P) = Keys!Kept(n, F \cap P)
  BY <1>7, KeptIs, KeptTwice
<1>9. Keys!Kept(n, F \cap P) = Keys!Kept(n, P \cap T)
  BY <1>5, <1>7, KeptSame
<1>10. Keys!Kept(K, P) = <<>>
  BY <1>4, <1>7, KeptNone
<1> HIDE DEF kept
<1>11. Keys!Kept(r, P) = Keys!Kept(kept, P) \o Keys!Kept(K, P)
  <2>1. r = kept \o K
    BY <1>2
  <2>2. kept \in Seq(Keys!Bindings) /\ K \in Seq(Keys!Bindings)
    BY <1>7, <1>8
  <2>3. \A S : Keys!Kept(kept \o K, S) = Keys!Kept(kept, S) \o Keys!Kept(K, S)
    BY <2>2, KeptJoin
  <2> QED BY <2>1, <2>3
<1>12. Keys!Kept(kept, P) \o <<>> = Keys!Kept(kept, P)
  BY <1>8, KeptIs, ConcatEmptySeq
<1>13. Keys!Kept(e, P) = Keys!Kept(n, P \cap T)
  BY <1>6, <1>8, <1>9, <1>10, <1>11, <1>12
<1> QED BY <1>13 DEF e, P, n

----------------------------------------------------------------------------
(* What a save writes is held by the keymap *)

\* The bindings of a table that is bound are apart.
LEMMA BoundApart ==
    ASSUME NEW m \in Maps, Failed \notin Maps, NEW ls \in Seq(Explicits), Keys!BindAll(m, ls) # Failed
    PROVE  ls \in Maps
<1> DEFINE G == {s \in Seq(Explicits) : Keys!BindAll(m, s) # Failed => s \in Maps}
<1>0. m \in Outcomes /\ Explicits \subseteq Keys!Bindings
  BY DEF Outcomes, Explicits
<1>1. <<>> \in G
  <2>1. <<>> \in Maps /\ <<>> \in Seq(Explicits)
    BY DEF Maps, Keys!Apart
  <2> QED BY <2>1
<1>2. ASSUME NEW s \in Seq(Explicits), NEW b \in Explicits, s \in G
      PROVE  Append(s, b) \in G
  <2> SUFFICES ASSUME Keys!BindAll(m, Append(s, b)) # Failed
               PROVE  Append(s, b) \in Maps
    OBVIOUS
  <2> DEFINE n == Keys!BindAll(m, s)
             one == <<b>>
  <2>1. s \in Seq(Keys!Bindings) /\ b \in Keys!Bindings /\ Append(s, b) = s \o one
    BY <1>0, AppendIsConcat
  <2>2. Keys!BindAll(m, Append(s, b)) = Keys!Bind(n, b)
    BY <1>0, <2>1, BindAllAppend
  <2>3. n # Failed
    BY <2>2 DEF Keys!Bind
  <2>4. BoundIs(m, s) /\ s \in Maps
    BY <1>2, <2>3, BindAllIs
  <2>5. n \in Maps /\ Keys!Range(s) \subseteq Keys!Range(n)
    BY <2>4 DEF BoundIs
  <2> HIDE DEF n
  <2>6. \A a \in Keys!Range(n) : Keys!Overlaps(a, b) => ~a.configured
    BY <2>1, <2>2, <2>5, BindIs
  <2>7. \A a \in Keys!Range(s) : a.configured
    <3>1. \A i \in DOMAIN s : s[i] \in Explicits
      OBVIOUS
    <3> QED BY <3>1 DEF Keys!Range, Explicits
  <2>8. one \in Maps /\ Keys!Range(one) = {b}
    <3>1. one \in Seq(Keys!Bindings) /\ DOMAIN one = {1} /\ one[1] = b
      BY <2>1
    <3> HIDE DEF one
    <3> QED BY <3>1 DEF Maps, Keys!Apart, Keys!Range
  <2> HIDE DEF one
  <2>9. s \o one \in Maps
    BY <2>4, <2>5, <2>6, <2>7, <2>8, JoinApart
  <2> QED BY <2>1, <2>9
<1> HIDE DEF G
<1>3. \A s \in Seq(Explicits) : s \in G
  BY <1>1, <1>2, Grown
<1>4. ls \in G
  BY <1>3
<1> QED BY <1>4 DEF G

LEMMA SinglesApart ==
    ASSUME Constants, NEW h, Keys!IsProfile(h), Keys!Read(h) # Failed, NEW x \in Contexts
    PROVE  Keys!Single(h, x) \in Maps
<1>1. PICK L, m, K : Reading(h, x, L, m, K)
  BY ReadIs
<1>2. m \in Maps /\ Keys!BindAll(m, Keys!Single(h, x)) \in Maps
  BY <1>1 DEF Reading, SectionIs, BoundIs
<1>3. Failed \notin Maps /\ Keys!BindAll(m, Keys!Single(h, x)) # Failed
  BY <1>2 DEF Constants
<1>4. Keys!Single(h, x) \in Seq(Explicits)
  BY SinglesAre
<1> QED BY <1>2, <1>3, <1>4, BoundApart

\* The keys a profile gives, given again, are apart.
LEMMA ExplicitlyApart ==
    ASSUME NEW m \in Maps, NEW x \in Contexts, NEW c \in Commands
    PROVE  Keys!Explicitly(x, c, Keys!KeysOf(m, x, c)) \in Maps
<1> DEFINE mine == Keys!Kept(m, BindingsOf(x, c))
           ls == Keys!KeysOf(m, x, c)
           E == Keys!Explicitly(x, c, ls)
<1>1. mine \in Maps /\ Keys!Range(mine) = Keys!Range(m) \cap BindingsOf(x, c)
  BY KeptKeeps
<1>2. ls = [i \in DOMAIN mine |-> mine[i].keys]
  BY KeysOfKept
<1>3. \A i \in DOMAIN mine : mine[i].context = x
  BY <1>1 DEF Keys!Range, BindingsOf
<1>4. ls \in Seq(Seq(Strokes))
  BY KeysOfIs
<1> HIDE DEF mine, ls
<1>5. E \in Seq(Explicits)
  BY <1>4, ExplicitlyAre
<1>6. DOMAIN E = DOMAIN mine /\ \A i \in DOMAIN mine : E[i].context = x /\ E[i].keys = mine[i].keys
  BY <1>2 DEF Keys!Explicitly, Keys!Binding
<1> HIDE DEF E
<1>7. \A i, j \in DOMAIN mine : Keys!Overlaps(E[i], E[j]) <=> Keys!Overlaps(mine[i], mine[j])
  BY <1>3, <1>6 DEF Keys!Overlaps
<1>8. Keys!Apart(E)
  BY <1>1, <1>6, <1>7 DEF Maps, Keys!Apart
<1>9. E \in Seq(Keys!Bindings)
  BY <1>5 DEF Explicits
<1>10. E \in Maps
  BY <1>8, <1>9 DEF Maps
<1> QED BY <1>10 DEF E, ls

\* A command that did not change.
Untouched(f, b) == <<b.context, b.command>> \notin Keys!Changed(Keys!Read(f))

LEMMA UnchangedIs ==
    ASSUME NEW f, NEW x \in Contexts, NEW c \in Commands, <<x, c>> \notin Keys!Changed(Keys!Read(f))
    PROVE  Keys!KeysOf(keymap, x, c) = Keys!KeysOf(Keys!Read(f), x, c)
<1> DEFINE p == <<x, c>>
<1>1. p \in Contexts \X Commands /\ p[1] = x /\ p[2] = c
  OBVIOUS
<1>2. p \notin Keys!Changed(Keys!Read(f))
  OBVIOUS
<1> HIDE DEF p
<1> QED BY <1>1, <1>2 DEF Keys!Changed

LEMMA BaseHeld ==
    ASSUME NEW f, NEW g, Saves(f, g), NEW b \in Keys!Range(Keys!Read(f)), Untouched(f, b)
    PROVE  Holds(b)
<1>1. Keys!Read(f) \in Maps
  BY DEF Saves
<1>2. b \in Keys!Bindings
  BY <1>1, MembersAre
<1>3. Keys!KeysOf(keymap, b.context, b.command) = Keys!KeysOf(Keys!Read(f), b.context, b.command)
  BY <1>2, UnchangedIs DEF Untouched, Keys!Bindings
<1> QED BY <1>1, <1>2, <1>3, HoldsSame

\* Nothing of the profile is void.
LEMMA NothingVoid ==
    ASSUME NEW f, NEW g, Saves(f, g)
    PROVE  /\ \A b : RootGives(f, b) => b \in Keys!Range(Keys!Read(f))
           /\ \A x \in Contexts : \A b : SingleGives(f, x, b) => b \in Keys!Range(Keys!Read(f))
<1>1. Keys!RootEntries(f) \cup Keys!SingleEntries(f) \subseteq Keys!Range(Keys!Read(f))
  BY DEF Saves, Keys!Void
<1>2. \A b : RootGives(f, b) => b \in Keys!RootEntries(f)
  BY DEF RootGives, Keys!RootEntries
<1>3. \A x \in Contexts : \A b : SingleGives(f, x, b) => b \in Keys!SingleEntries(f)
  BY DEF SingleGives, Keys!SingleEntries
<1> QED BY <1>1, <1>2, <1>3

\* The entries of [keys.CONTEXT] that are left are those of commands that did not change.
LEMMA SinglesOfSaved ==
    ASSUME NEW f, NEW g, Saves(f, g), NEW x \in Contexts
    PROVE  /\ \A b : SingleGives(g, x, b) <=> SingleGives(f, x, b) /\ Untouched(f, b)
           /\ Keys!Single(g, x) \in Maps
           /\ Keys!Single(g, x)
                = Keys!Kept(Keys!Single(f, x), Unchanged(x, Keys!Changed(Keys!Read(f))))
<1> DEFINE changed == Keys!Changed(Keys!Read(f))
           U == Unchanged(x, changed)
           s == Keys!Single(f, x)
<1>1. Constants /\ Keys!IsProfile(f) /\ Keys!IsProfile(g) /\ Keys!Read(f) # Failed
      /\ g.bindings = Keys!WithoutStale(f, changed)
  BY DEF Saves
<1>2. Keys!Single(g, x) = Keys!Kept(s, U)
  BY <1>1, SinglesLeft
<1>3. s \in Maps
  BY <1>1, SinglesApart
<1>4. Keys!Kept(s, U) \in Maps /\ Keys!Range(Keys!Kept(s, U)) = Keys!Range(s) \cap U
  BY <1>3, KeptKeeps
<1>5. \A b \in Keys!Range(s) : b \in U <=> Untouched(f, b)
  BY <1>1, SinglesAre DEF Unchanged, Untouched, Explicits
<1> QED BY <1>2, <1>4, <1>5 DEF SingleGives

\* The lists that are written are those of the keymap.
LEMMA ListsOfSaved ==
    ASSUME NEW f, NEW g, Saves(f, g), NEW x \in Contexts, NEW c \in DOMAIN g.commands[x]
    PROVE  c \in Commands /\ g.commands[x][c] = Keys!KeysOf(keymap, x, c)
<1> DEFINE changed == Keys!Changed(Keys!Read(f))
<1>1. Constants /\ Keys!IsProfile(f) /\ Keys!IsProfile(g) /\ Keys!Read(f) # Failed
      /\ Updated(f, g, changed)
  BY DEF Saves
<1>2. c \in Commands
  BY <1>1, CommandsNamed
<1> HIDE DEF changed
<1>3. /\ c \in DOMAIN f.commands[x] \/ (<<x, c>> \in changed /\ x # Owner[c])
      /\ g.commands[x][c] = IF <<x, c>> \in changed THEN Keys!KeysOf(keymap, x, c)
                            ELSE f.commands[x][c]
  BY <1>1, <1>2 DEF Updated
<1>4. CASE <<x, c>> \notin changed
  <2>1. c \in DOMAIN f.commands[x]
    BY <1>3, <1>4
  <2>2. PICK L, m, K : Reading(f, x, L, m, K)
    BY <1>1, ReadIs
  <2>3. Keys!KeysOf(Keys!Read(f), x, c) = f.commands[x][c]
    BY <1>1, <2>1, <2>2, ReadListed
  <2>4. Keys!KeysOf(keymap, x, c) = Keys!KeysOf(Keys!Read(f), x, c)
    BY <1>2, <1>4, UnchangedIs DEF changed
  <2> QED BY <1>2, <1>3, <1>4, <2>3, <2>4
<1> QED BY <1>2, <1>3, <1>4

\* A list given again is held by the keymap it is from.
LEMMA GivenHeld ==
    ASSUME keymap \in Maps, NEW x \in Contexts, NEW c \in Commands,
           NEW b \in Keys!Range(Keys!Explicitly(x, c, Keys!KeysOf(keymap, x, c)))
    PROVE  Holds(b)
<1> DEFINE ls == Keys!KeysOf(keymap, x, c)
<1>1. ls \in Seq(Seq(Strokes))
  BY KeysOfIs
<1>2. b \in BindingsOf(x, c) /\ \E k \in Keys!Range(ls) : b = Keys!Binding(x, k, c, TRUE)
  <2> HIDE DEF ls
  <2>1. b \in Keys!Range(Keys!Explicitly(x, c, ls))
    BY DEF ls
  <2>2. Keys!Range(Keys!Explicitly(x, c, ls)) = {Keys!Binding(x, k, c, TRUE) : k \in Keys!Range(ls)}
    BY <1>1, ExplicitlyAre
  <2>3. Keys!Range(Keys!Explicitly(x, c, ls)) \subseteq BindingsOf(x, c)
    BY <1>1, ExplicitlyAre
  <2> QED BY <2>1, <2>2, <2>3
<1> HIDE DEF ls
<1>3. b.keys \in Keys!Range(ls) /\ b.context = x /\ b.command = c
  BY <1>2 DEF Keys!Binding, BindingsOf
<1> QED BY <1>3 DEF Holds, ls

LEMMA CommandsHeld ==
    ASSUME NEW f, NEW g, Saves(f, g), NEW x \in Contexts, NEW b, CommandsGive(g, x, b)
    PROVE  Holds(b)
<1>1. Constants /\ Keys!IsProfile(g) /\ keymap \in Maps
  BY DEF Saves
<1>2. /\ b.command \in DOMAIN g.commands[x]
      /\ b \in Keys!Range(Keys!Explicitly(x, b.command, g.commands[x][b.command]))
  BY <1>1, GivenAre
<1>3. b.command \in Commands /\ g.commands[x][b.command] = Keys!KeysOf(keymap, x, b.command)
  BY <1>2, ListsOfSaved
<1> QED BY <1>1, <1>2, <1>3, GivenHeld

\* [keys] is what it was for a command that did not change.
LEMMA RootOfSaved ==
    ASSUME NEW f, NEW g, Saves(f, g)
    PROVE  /\ \A b : RootGives(g, b) => Holds(b)
           /\ \A b : Untouched(f, b) => (RootGives(g, b) <=> RootGives(f, b))
<1> DEFINE changed == Keys!Changed(Keys!Read(f))
<1>1. Constants /\ Keys!IsProfile(f) /\ Keys!IsProfile(g) /\ Keys!Read(f) # Failed
      /\ Updated(f, g, changed) /\ keymap \in Maps
  BY DEF Saves
<1>2. ASSUME NEW b, RootGives(g, b), Untouched(f, b)
      PROVE  RootGives(f, b)
  <2>1. /\ b.command \in DOMAIN g.root /\ Owner[b.command] = b.context
        /\ b \in Keys!Range(Keys!Explicitly(b.context, b.command, g.root[b.command]))
    BY <1>1, <1>2, GivenAre
  <2>2. b.command \in Commands
    BY <1>1, <2>1, RootNamed
  <2>3. b.command \in DOMAIN f.root /\ g.root[b.command] = f.root[b.command]
    BY <1>1, <1>2, <2>1, <2>2 DEF Updated, Untouched
  <2> QED BY <2>1, <2>3 DEF RootGives
<1>3. ASSUME NEW b, RootGives(f, b), Untouched(f, b)
      PROVE  RootGives(g, b)
  <2>1. /\ b.command \in DOMAIN f.root /\ Owner[b.command] = b.context
        /\ b \in Keys!Range(Keys!Explicitly(b.context, b.command, f.root[b.command]))
    BY <1>1, <1>3, GivenAre
  <2>2. b.command \in Commands
    BY <1>1, <2>1, RootNamed
  <2>3. b.command \in DOMAIN g.root /\ g.root[b.command] = f.root[b.command]
    BY <1>1, <1>3, <2>1, <2>2 DEF Updated, Untouched
  <2> QED BY <2>1, <2>3 DEF RootGives
<1>4. ASSUME NEW b, RootGives(g, b)
      PROVE  Holds(b)
  <2>1. CASE Untouched(f, b)
    BY <1>2, <1>4, <2>1, NothingVoid, BaseHeld
  <2>2. CASE ~Untouched(f, b)
    <3>1. /\ b.command \in DOMAIN g.root /\ Owner[b.command] = b.context
          /\ b \in Keys!Range(Keys!Explicitly(b.context, b.command, g.root[b.command]))
      BY <1>1, <1>4, GivenAre
    <3>2. b.command \in Commands /\ b.context \in Contexts
      BY <1>1, <3>1, RootNamed
    <3>3. g.root[b.command] = Keys!KeysOf(keymap, b.context, b.command)
      BY <1>1, <2>2, <3>1, <3>2 DEF Updated, Untouched
    <3> QED BY <1>1, <3>1, <3>2, <3>3, GivenHeld
  <2> QED BY <2>1, <2>2
<1> QED BY <1>2, <1>3, <1>4

----------------------------------------------------------------------------
(* What is written can be read *)

\* The bindings a saved profile may come to: the defaults and the keymap.
HeldBindings == Keys!Range(Keys!DefaultKeymap) \cup Keys!Range(Keys!Inherited(keymap))

LEMMA RoomIsEnough ==
    ASSUME NEW f, NEW g, Saves(f, g)
    PROVE  Room(HeldBindings)
<1>1. Constants /\ keymap \in Maps /\ ~Keys!Crowded
  BY DEF Saves
<1>2. Keys!DefaultKeymap \in Seq(Keys!Bindings) /\ Keys!Inherited(keymap) \in Seq(Keys!Bindings)
  BY <1>1, InheritedKeeps DEF Constants, Maps
<1>3. ASSUME NEW s \in Seq(Keys!Bindings)
      PROVE  IsFiniteSet(Keys!Range(s))
  <2>1. IsFiniteSet(1 .. Len(s)) /\ DOMAIN s = 1 .. Len(s)
    BY FS_Interval
  <2>2. s \in Surjection(1 .. Len(s), Keys!Range(s))
    BY <2>1 DEF Keys!Range, Surjection
  <2> QED BY <2>1, <2>2, FS_Surjection
<1>4. IsFiniteSet(HeldBindings)
  BY <1>2, <1>3, FS_Union DEF HeldBindings
<1>5. Cardinality(HeldBindings) \in Nat
  BY <1>4, FS_CardinalityType
<1>6. Keys!Cardinality(HeldBindings) = Cardinality(HeldBindings)
  BY DEF Keys!Cardinality, Cardinality
<1>7. Cardinality(HeldBindings) <= BindingMax
  BY <1>1, <1>5, <1>6 DEF Keys!Crowded, HeldBindings, Constants
<1> QED BY <1>1, <1>4, <1>7 DEF Room, Constants

LEMMA HeldHasRoom ==
    ASSUME keymap \in Maps, NEW b \in Keys!Bindings, Holds(b)
    PROVE  Bare(b) \in HeldBindings
<1>1. PICK a \in Keys!Range(keymap) : /\ a \in Keys!Bindings
                                      /\ a.context = b.context /\ a.command = b.command /\ a.keys = b.keys
  BY HoldsIs
<1>2. Bare(a) = Bare(b)
  BY <1>1 DEF Bare, Keys!Bindings
<1>3. PICK i \in DOMAIN keymap : a = keymap[i]
  BY DEF Keys!Range
<1>4. i \in DOMAIN Keys!Inherited(keymap) /\ Keys!Inherited(keymap)[i] = Bare(a)
  BY <1>3 DEF Keys!Inherited, Bare
<1>5. Bare(a) \in Keys!Range(Keys!Inherited(keymap))
  BY <1>4 DEF Keys!Range
<1> QED BY <1>2, <1>5 DEF HeldBindings

\* The bindings of one table are apart: its lists are those of the keymap, or have
\* been read before.
LEMMA HeldOrderly ==
    ASSUME keymap \in Maps, NEW S, NEW entries, NEW context, S \subseteq Named(entries, context),
           \A c \in S : Keys!Explicitly(context[c], c, entries[c]) \in Maps,
           \A c \in S : \A b \in Keys!Range(Keys!Explicitly(context[c], c, entries[c])) : Holds(b)
    PROVE  Orderly(S, entries, context, HeldBindings)
<1>1. ASSUME NEW c \in S, NEW b \in Keys!Range(Keys!Explicitly(context[c], c, entries[c]))
      PROVE  b \in Keys!Bindings /\ b.command = c
  <2>1. c \in Commands /\ entries[c] \in Seq(Seq(Strokes)) /\ context[c] \in Contexts
    BY DEF Named
  <2>2. Keys!Range(Keys!Explicitly(context[c], c, entries[c])) \subseteq BindingsOf(context[c], c)
    BY <2>1, ExplicitlyAre
  <2> QED BY <2>2 DEF BindingsOf
<1>2. \A c \in S : \A b \in Keys!Range(Keys!Explicitly(context[c], c, entries[c])) : Bare(b) \in HeldBindings
  BY <1>1, HeldHasRoom
<1>3. ASSUME NEW c \in S, NEW d \in S, c # d,
             NEW a \in Keys!Range(Keys!Explicitly(context[c], c, entries[c])),
             NEW b \in Keys!Range(Keys!Explicitly(context[d], d, entries[d])), Keys!Overlaps(a, b)
      PROVE  FALSE
  <2>1. a \in Keys!Bindings /\ b \in Keys!Bindings /\ Holds(a) /\ Holds(b)
        /\ a.command = c /\ b.command = d
    BY <1>1
  <2>2. a.command = b.command
    BY <1>3, <2>1, HoldsApart
  <2> QED BY <1>3, <2>1, <2>2
<1> QED BY <1>2, <1>3 DEF Orderly

LEMMA RootOrderly ==
    ASSUME NEW f, NEW g, Saves(f, g)
    PROVE  Orderly(DOMAIN g.root, g.root, Owner, HeldBindings)
<1> DEFINE changed == Keys!Changed(Keys!Read(f))
<1>1. Constants /\ Keys!IsProfile(f) /\ Keys!IsProfile(g) /\ Keys!Read(f) # Failed
      /\ Updated(f, g, changed) /\ keymap \in Maps
  BY DEF Saves
<1>2. DOMAIN g.root \subseteq Commands /\ DOMAIN g.root \subseteq Named(g.root, Owner)
      /\ \A c \in DOMAIN g.root : Owner[c] \in Contexts
  BY <1>1, RootNamed
<1>3. ASSUME NEW c \in DOMAIN g.root
      PROVE  Keys!Explicitly(Owner[c], c, g.root[c]) \in Maps
  <2>0. c \in Commands /\ Owner[c] \in Contexts
    BY <1>2
  <2>1. CASE <<Owner[c], c>> \in changed
    <3>1. g.root[c] = Keys!KeysOf(keymap, Owner[c], c)
      BY <1>1, <2>0, <2>1 DEF Updated
    <3> QED BY <1>1, <2>0, <3>1, ExplicitlyApart
  <2>2. CASE <<Owner[c], c>> \notin changed
    <3>1. c \in DOMAIN f.root /\ g.root[c] = f.root[c]
      BY <1>1, <2>0, <2>2 DEF Updated
    <3>2. PICK L, m, K : Reading(f, Owner[c], L, m, K)
      BY <1>1, <2>0, ReadIs
    <3>3. LayerIs(L, DOMAIN f.root, f.root, Owner)
      BY <3>2 DEF Reading, Laid
    <3>4. L \in Maps /\ Keys!Kept(L, BindingsOf(Owner[c], c)) = Keys!Explicitly(Owner[c], c, f.root[c])
      BY <3>1, <3>3 DEF LayerIs
    <3>5. Keys!Kept(L, BindingsOf(Owner[c], c)) \in Maps
      BY <3>4, KeptKeeps
    <3> QED BY <3>1, <3>4, <3>5
  <2> QED BY <2>1, <2>2
<1>4. ASSUME NEW c \in DOMAIN g.root, NEW b \in Keys!Range(Keys!Explicitly(Owner[c], c, g.root[c]))
      PROVE  Holds(b)
  <2>1. RootGives(g, b)
    BY DEF RootGives
  <2> QED BY <2>1, RootOfSaved
<1> QED BY <1>1, <1>2, <1>3, <1>4, HeldOrderly

LEMMA CommandsOrderly ==
    ASSUME NEW f, NEW g, Saves(f, g), NEW x \in Contexts
    PROVE  Orderly(DOMAIN g.commands[x], g.commands[x], Here(g, x), HeldBindings)
<1> DEFINE entries == g.commands[x]
           context == Here(g, x)
<1>1. Constants /\ Keys!IsProfile(g) /\ keymap \in Maps
  BY DEF Saves
<1>2. DOMAIN entries \subseteq Named(entries, context) /\ \A c \in DOMAIN entries : context[c] = x
  BY <1>1, CommandsNamed
<1>3. \A c \in DOMAIN entries : c \in Commands /\ entries[c] = Keys!KeysOf(keymap, x, c)
  BY ListsOfSaved
<1>4. \A c \in DOMAIN entries : Keys!Explicitly(x, c, entries[c]) \in Maps
  BY <1>1, <1>3, ExplicitlyApart
<1>5. ASSUME NEW c \in DOMAIN entries, NEW b \in Keys!Range(Keys!Explicitly(x, c, entries[c]))
      PROVE  Holds(b)
  <2>1. CommandsGive(g, x, b)
    BY DEF CommandsGive
  <2> QED BY <2>1, CommandsHeld
<1> HIDE DEF entries, context
<1>6. \A c \in DOMAIN entries : Keys!Explicitly(context[c], c, entries[c]) \in Maps
  BY <1>2, <1>4
<1>7. \A c \in DOMAIN entries :
        \A b \in Keys!Range(Keys!Explicitly(context[c], c, entries[c])) : Holds(b)
  BY <1>2, <1>5
<1>8. Orderly(DOMAIN entries, entries, context, HeldBindings)
  BY <1>1, <1>2, <1>6, <1>7, HeldOrderly
<1> QED BY <1>8 DEF entries, context

\* An entry of [keys.CONTEXT] that is left is in force.
LEMMA SinglesHeld ==
    ASSUME NEW f, NEW g, Saves(f, g), NEW x \in Contexts, NEW b, SingleGives(g, x, b)
    PROVE  /\ SingleGives(f, x, b) /\ Untouched(f, b) /\ b \in Keys!Range(Keys!Read(f))
           /\ Holds(b) /\ b \in Keys!Bindings /\ b.configured /\ b.context = x
<1>1. Constants /\ Keys!IsProfile(g)
  BY DEF Saves
<1>2. SingleGives(f, x, b) /\ Untouched(f, b)
  BY SinglesOfSaved
<1>3. b \in Keys!Range(Keys!Read(f))
  BY <1>2, NothingVoid
<1>4. Holds(b)
  BY <1>2, <1>3, BaseHeld
<1> QED BY <1>1, <1>2, <1>3, <1>4, GivenAre

\* It takes no place but that of a default of the same keys.
LEMMA SinglesPlaced ==
    ASSUME NEW f, NEW g, Saves(f, g), NEW x \in Contexts, NEW b, SingleGives(g, x, b)
    PROVE  /\ \A d \in Keys!Range(Keys!DefaultKeymap) : Keys!Overlaps(d, b) => d.keys = b.keys
           /\ \A a : RootGives(g, a) => ~Keys!Overlaps(a, b)
<1>1. Constants /\ Keys!IsProfile(f) /\ Keys!IsProfile(g) /\ Keys!Read(f) # Failed
      /\ keymap \in Maps /\ ~Keys!Misplaced(f)
  BY DEF Saves
<1>2. /\ SingleGives(f, x, b) /\ Untouched(f, b) /\ b \in Keys!Bindings /\ b.configured
      /\ b.context = x /\ Holds(b)
  BY SinglesHeld
<1>3. ASSUME NEW d \in Keys!Range(Keys!DefaultKeymap), Keys!Overlaps(d, b)
      PROVE  d.keys = b.keys
  <2>1. b \in Keys!SingleEntries(f)
    BY <1>2 DEF SingleGives, Keys!SingleEntries
  <2>2. Keys!Overlaps(b, d)
    BY <1>3, OverlapIsMutual
  <2> QED BY <1>1, <2>1, <2>2 DEF Keys!Misplaced
<1>4. ASSUME NEW a, RootGives(g, a), Keys!Overlaps(a, b)
      PROVE  FALSE
  <2>1. a \in Keys!Bindings /\ a.configured /\ Holds(a)
    BY <1>1, <1>4, GivenAre, RootOfSaved
  <2>2. a.context = b.context /\ a.command = b.command
    BY <1>1, <1>2, <1>4, <2>1, HoldsApart
  <2>3. RootGives(f, a)
    BY <1>2, <1>4, <2>2, RootOfSaved DEF Untouched
  <2>4. PICK L, m, K : Reading(f, x, L, m, K)
    BY <1>1, ReadIs
  <2>5. Sources(f, x, m)
    BY <1>1, <2>4, SourcesAre
  <2>6. a \in Keys!Range(m)
    BY <1>2, <2>1, <2>2, <2>3, <2>5 DEF Sources
  <2>7. ~a.configured
    BY <1>2, <1>4, <2>5, <2>6 DEF Sources
  <2> QED BY <2>1, <2>7
<1> QED BY <1>3, <1>4

LEMMA SavedReads ==
    ASSUME NEW f, NEW g, Saves(f, g)
    PROVE  Keys!Read(g) # Failed
<1>1. Constants /\ Keys!IsProfile(g) /\ keymap \in Maps
  BY DEF Saves
<1>2. \A d \in Keys!Range(Keys!DefaultKeymap) : Bare(d) \in HeldBindings
  <2>1. \A d \in Keys!Range(Keys!DefaultKeymap) : d \in Keys!Bindings /\ ~d.configured
    BY <1>1, MembersAre, DefaultsInherit DEF Constants
  <2>2. \A d \in Keys!Range(Keys!DefaultKeymap) : Bare(d) = d
    BY <2>1, BareIs
  <2> QED BY <2>2 DEF HeldBindings
<1>3. ASSUME NEW x \in Contexts, NEW b \in Keys!Range(Keys!Single(g, x))
      PROVE  /\ Bare(b) \in HeldBindings
             /\ \A d \in Keys!Range(Keys!DefaultKeymap) : Keys!Overlaps(d, b) => d.keys = b.keys
             /\ \A c \in DOMAIN g.root :
                  \A a \in Keys!Range(Keys!Explicitly(Owner[c], c, g.root[c])) : ~Keys!Overlaps(a, b)
  <2>1. SingleGives(g, x, b)
    BY DEF SingleGives
  <2>2. Bare(b) \in HeldBindings
    BY <1>1, <2>1, SinglesHeld, HeldHasRoom
  <2>3. \A c \in DOMAIN g.root :
          \A a \in Keys!Range(Keys!Explicitly(Owner[c], c, g.root[c])) : RootGives(g, a)
    BY DEF RootGives
  <2> QED BY <2>1, <2>2, <2>3, SinglesPlaced
<1>4. Readable(g, HeldBindings)
  BY <1>2, <1>3, RootOrderly, CommandsOrderly, SinglesOfSaved DEF Readable
<1> QED BY <1>1, <1>4, RoomIsEnough, ReadFits

----------------------------------------------------------------------------
(* The keys of a command that changed *)

LEMMA RootPart ==
    ASSUME Constants, NEW h, Keys!IsProfile(h), NEW x \in Contexts, NEW L, NEW m, NEW K,
           Reading(h, x, L, m, K), NEW c \in DOMAIN h.root, Owner[c] = x
    PROVE  Keys!Kept(m, BindingsOf(x, c)) = Keys!Explicitly(x, c, h.root[c])
<1> DEFINE P == BindingsOf(x, c)
           D == Keys!DefaultKeymap
           F == Free(D, L, h.root, Owner)
<1>1. /\ Laid(Root(h), D, L, h.root, Owner) /\ m \in Maps
      /\ Keys!Kept(m, In(x)) = Keys!Kept(Root(h), In(x))
  BY DEF Reading
<1>2. /\ Root(h) \in Maps /\ D \in Maps /\ LayerIs(L, DOMAIN h.root, h.root, Owner)
      /\ Root(h) = Keys!Kept(D, F) \o L
  BY <1>1 DEF Laid
<1>3. L \in Maps /\ Keys!Kept(L, P) = Keys!Explicitly(x, c, h.root[c])
  BY <1>2 DEF LayerIs
<1>4. F \cap P = {}
  BY DEF Free, BindingsOf
<1> HIDE DEF D, F
<1>5. Keys!Kept(D, F) \in Maps /\ Keys!Range(Keys!Kept(D, F)) = Keys!Range(D) \cap F
  BY <1>2, KeptKeeps
<1> DEFINE rest == Keys!Kept(D, F)
<1>6. rest \in Seq(Keys!Bindings) /\ L \in Seq(Keys!Bindings) /\ Keys!Range(rest) \cap P = {}
  BY <1>3, <1>4, <1>5 DEF Maps
<1> HIDE DEF rest
<1>7. Keys!Kept(rest, P) = <<>>
  BY <1>6, KeptNone
<1>8. \A S : Keys!Kept(rest \o L, S) = Keys!Kept(rest, S) \o Keys!Kept(L, S)
  BY <1>6, KeptJoin
<1>9. Keys!Kept(L, P) \in Seq(Keys!Bindings)
  BY <1>3, KeptKeeps DEF Maps
<1>10. Keys!Kept(Root(h), P) = Keys!Kept(L, P)
  BY <1>2, <1>7, <1>8, <1>9 DEF rest
<1>11. P \subseteq In(x)
  BY DEF BindingsOf, In
<1>12. Keys!Kept(m, P) = Keys!Kept(Root(h), P)
  BY <1>1, <1>2, <1>11, PartKept
<1> QED BY <1>3, <1>10, <1>12

\* A save writes the keys of a command that changed to one of its tables.
LEMMA ChangedFlat ==
    ASSUME NEW f, NEW g, Saves(f, g), NEW x \in Contexts, NEW c \in Commands,
           <<x, c>> \in Keys!Changed(Keys!Read(f)), c \notin DOMAIN g.commands[x]
    PROVE  Owner[c] = x /\ c \in DOMAIN g.root /\ g.root[c] = Keys!KeysOf(keymap, x, c)
<1> DEFINE changed == Keys!Changed(Keys!Read(f))
<1>1. Updated(f, g, changed) /\ <<x, c>> \in changed
  BY DEF Saves
<1> HIDE DEF changed
<1>2. x = Owner[c] /\ c \notin DOMAIN f.commands[x]
  BY <1>1 DEF Updated
<1>3. c \in DOMAIN g.root
  BY <1>1, <1>2 DEF Updated
<1>4. g.root[c] = Keys!KeysOf(keymap, Owner[c], c)
  BY <1>1, <1>2, <1>3 DEF Updated
<1> QED BY <1>2, <1>3, <1>4

\* And leaves those of another.
LEMMA UnchangedTables ==
    ASSUME NEW f, NEW g, Saves(f, g), NEW x \in Contexts, NEW c \in Commands,
           <<x, c>> \notin Keys!Changed(Keys!Read(f))
    PROVE  /\ c \in DOMAIN g.commands[x] <=> c \in DOMAIN f.commands[x]
           /\ Owner[c] = x => (c \in DOMAIN g.root <=> c \in DOMAIN f.root)
           /\ Owner[c] = x /\ c \in DOMAIN g.root => g.root[c] = f.root[c]
<1> DEFINE changed == Keys!Changed(Keys!Read(f))
<1>1. Updated(f, g, changed) /\ <<x, c>> \notin changed
  BY DEF Saves
<1> HIDE DEF changed
<1> QED BY <1>1 DEF Updated

\* The lists that are written take nothing that the keymap holds.
LEMMA HeldNotTaken ==
    ASSUME NEW f, NEW g, Saves(f, g), NEW x \in Contexts,
           NEW b \in Keys!Bindings, Holds(b), b.command \notin DOMAIN g.commands[x]
    PROVE  \A k : CommandsGive(g, x, k) => ~Keys!Overlaps(b, k)
<1>1. Constants /\ Keys!IsProfile(g) /\ keymap \in Maps
  BY DEF Saves
<1>2. ASSUME NEW k, CommandsGive(g, x, k), Keys!Overlaps(b, k)
      PROVE  FALSE
  <2>1. k \in Keys!Bindings /\ k.command \in DOMAIN g.commands[x]
    BY <1>1, <1>2, GivenAre
  <2>2. Holds(k)
    BY <1>2, CommandsHeld
  <2>3. b.command = k.command
    BY <1>1, <1>2, <2>1, <2>2, HoldsApart
  <2> QED BY <2>1, <2>3
<1> QED BY <1>2

LEMMA ChangedSaved ==
    ASSUME NEW f, NEW g, Saves(f, g), NEW x \in Contexts, NEW c \in Commands,
           <<x, c>> \in Keys!Changed(Keys!Read(f)), c \notin DOMAIN g.commands[x],
           NEW L, NEW n, NEW K, Reading(g, x, L, n, K)
    PROVE  Keys!KeysOf(Keys!Read(g), x, c) = Keys!KeysOf(keymap, x, c)
<1> DEFINE P == BindingsOf(x, c)
           ls == Keys!KeysOf(keymap, x, c)
           E == Keys!Explicitly(x, c, ls)
           B == Bound(g, n, x)
<1>1. Constants /\ Keys!IsProfile(g) /\ keymap \in Maps
  BY DEF Saves
<1>2. Owner[c] = x /\ c \in DOMAIN g.root /\ g.root[c] = ls
  BY ChangedFlat
<1>3. Sources(g, x, n)
  BY <1>1, SourcesAre
<1>4. n \in Maps /\ B \in Maps /\ Failed \notin Maps /\ Keys!Read(g) \in Maps
  BY <1>1, <1>3 DEF Sources, Constants
<1>5. Keys!Kept(n, P) = E
  BY <1>1, <1>2, RootPart
<1>6. ls \in Seq(Seq(Strokes))
  BY <1>1, KeysOfIs
<1>7. \A b \in Keys!Range(E) : Holds(b) /\ RootGives(g, b)
  BY <1>1, <1>2, GivenHeld DEF RootGives
<1>8. Keys!Range(Keys!Kept(n, P)) = Keys!Range(n) \cap P
  BY <1>4, KeptKeeps
<1>9. Keys!Single(g, x) \in Seq(Explicits)
  BY <1>1, SinglesAre
<1> HIDE DEF E, ls
<1>10. Keys!Range(Keys!Single(g, x)) \cap P = {}
  <2>1. ASSUME NEW b \in Keys!Range(Keys!Single(g, x)), b \in P
        PROVE  FALSE
    <3>1. SingleGives(g, x, b)
      BY DEF SingleGives
    <3>2. Untouched(f, b)
      BY <3>1, SinglesHeld
    <3> QED BY <2>1, <3>2 DEF BindingsOf, Untouched
  <2> QED BY <2>1
<1>11. ASSUME NEW a \in Keys!Range(n), NEW b \in Keys!Range(Keys!Single(g, x)), Keys!Overlaps(a, b)
       PROVE  a \notin P
  <2>1. SingleGives(g, x, b)
    BY DEF SingleGives
  <2>2. ~RootGives(g, a)
    BY <1>11, <2>1, SinglesPlaced
  <2> QED BY <1>5, <1>7, <1>8, <2>2
<1>12. Keys!Kept(B, P) = Keys!Kept(n, P)
  <2>1. Keys!BindAll(n, Keys!Single(g, x)) # Failed
    BY <1>4 DEF Bound
  <2> HIDE DEF P
  <2> QED BY <1>4, <1>9, <1>10, <1>11, <2>1, BindAllSkips DEF Bound
<1>13. ASSUME NEW b \in Keys!Range(B), b \in P
       PROVE  \A k : CommandsGive(g, x, k) => ~Keys!Overlaps(b, k)
  <2>1. Keys!Range(Keys!Kept(B, P)) = Keys!Range(B) \cap P
    BY <1>4, KeptKeeps
  <2>2. Holds(b)
    BY <1>5, <1>7, <1>12, <1>13, <2>1
  <2>3. b \in Keys!Bindings /\ b.command = c
    BY <1>13 DEF BindingsOf
  <2> QED BY <2>2, <2>3, HeldNotTaken
<1>14. Keys!Kept(Keys!Read(g), P) = Keys!Kept(B, P \cap P)
  BY <1>1, <1>13, ReadUnlisted
<1>15. P \cap P = P
  OBVIOUS
<1>16. Keys!Kept(Keys!Read(g), P) = Keys!Explicitly(x, c, ls)
  BY <1>5, <1>12, <1>14, <1>15 DEF E
<1>17. Keys!KeysOf(Keys!Read(g), x, c) = ls
  BY <1>4, <1>6, <1>16, KeysOfListed
<1> QED BY <1>17 DEF ls

----------------------------------------------------------------------------
(* The keys of a command that did not change *)

\* What the bindings of a command come from: those a profile gives, those in force,
\* and the defaults whose place an entry of [keys.CONTEXT] takes.
Tied(f, x, c) ==
    {b \in In(x) :
        \/ b.command = c /\ (b.configured \/ b \in Keys!Range(Keys!Read(f)))
        \/ /\ ~b.configured /\ b \in Keys!Range(Keys!DefaultKeymap)
           /\ \E s : SingleGives(f, x, s) /\ s.command = c /\ s.keys = b.keys}

\* A profile and what a save makes of it, read up to the entries of a context.
Compared(f, g, x, c, m, n) ==
    /\ Saves(f, g) /\ x \in Contexts /\ c \in Commands
    /\ <<x, c>> \notin Keys!Changed(Keys!Read(f)) /\ c \notin DOMAIN g.commands[x]
    /\ Sources(f, x, m) /\ Sources(g, x, n)

LEMMA BoundFrom ==
    ASSUME Constants, NEW h, Keys!IsProfile(h), NEW x \in Contexts, NEW m, Sources(h, x, m),
           NEW b \in Keys!Bindings, b.context = x, b \in Keys!Range(Bound(h, m, x))
    PROVE  /\ b.configured => SingleGives(h, x, b) \/ RootGives(h, b)
           /\ ~b.configured => /\ Left(h, b) /\ b \in Keys!Range(Keys!DefaultKeymap)
                               /\ \A s : SingleGives(h, x, s) => ~Keys!Overlaps(b, s)
<1>1. \/ SingleGives(h, x, b)
      \/ b \in Keys!Range(m) /\ \A s : SingleGives(h, x, s) => ~Keys!Overlaps(b, s)
  BY DEF Sources
<1>2. b \in Keys!Range(m) => Left(h, b) \/ RootGives(h, b)
  BY DEF Sources
<1>3. Left(h, b) => b \in Keys!Range(Keys!DefaultKeymap) /\ b.configured = FALSE
  BY DefaultsInherit DEF Left
<1>4. RootGives(h, b) \/ SingleGives(h, x, b) => b.configured
  BY GivenAre
<1> QED BY <1>1, <1>2, <1>3, <1>4

\* What the profile gives is in force, and so apart.
LEMMA EntriesInForce ==
    ASSUME NEW f, NEW g, Saves(f, g), NEW x \in Contexts,
           NEW s, SingleGives(f, x, s) \/ RootGives(f, s)
    PROVE  /\ s \in Keys!Range(Keys!Read(f)) /\ s \in Keys!Bindings /\ s.configured
           /\ SingleGives(f, x, s) => s.context = x
           /\ \A b \in Keys!Range(Keys!Read(f)) : Keys!Overlaps(b, s) => b = s
<1>1. Constants /\ Keys!IsProfile(f) /\ Keys!Read(f) \in Maps
  BY DEF Saves
<1>2. s \in Keys!Range(Keys!Read(f))
  BY NothingVoid
<1>3. s \in Keys!Bindings /\ s.configured /\ (SingleGives(f, x, s) => s.context = x)
  BY <1>1, GivenAre
<1> QED BY <1>1, <1>2, <1>3, ApartIs

\* A default of the keys of an entry is no command's that changed, and nothing of
\* [keys] is in its way.
LEMMA PlaceFree ==
    ASSUME NEW f, NEW g, NEW x, NEW c, NEW m, NEW n, Compared(f, g, x, c, m, n),
           NEW d \in Keys!Range(Keys!DefaultKeymap), d \in Keys!Bindings, d.context = x,
           NEW s, SingleGives(f, x, s), s.command = c, s.keys = d.keys
    PROVE  /\ Untouched(f, d) /\ SingleGives(g, x, s) /\ Keys!Overlaps(d, s) /\ Keys!Overlaps(s, d)
           /\ \A b : RootGives(f, b) => ~Keys!Overlaps(d, b)
           /\ \A b : RootGives(g, b) => ~Keys!Overlaps(d, b)
<1>1. /\ Saves(f, g) /\ x \in Contexts /\ c \in Commands /\ Sources(f, x, m)
      /\ <<x, c>> \notin Keys!Changed(Keys!Read(f))
  BY DEF Compared
<1>2. Constants /\ Keys!IsProfile(f) /\ ~Keys!Misplaced(f)
  BY <1>1 DEF Saves
<1>3. /\ s \in Keys!Range(Keys!Read(f)) /\ s \in Keys!Bindings /\ s.configured /\ s.context = x
      /\ \A b \in Keys!Range(Keys!Read(f)) : Keys!Overlaps(b, s) => b = s
  BY <1>1, EntriesInForce
<1>4. SingleGives(g, x, s)
  BY <1>1, <1>3, SinglesOfSaved DEF Untouched
<1>5. Keys!Overlaps(d, s) /\ Keys!Overlaps(s, d)
  BY <1>3, OverlapsItself
<1>6. Untouched(f, d)
  <2>1. s \in Keys!SingleEntries(f)
    BY <1>1 DEF SingleGives, Keys!SingleEntries
  <2> QED BY <1>2, <1>5, <2>1 DEF Keys!Misplaced, Untouched
<1>7. \A b : Keys!Overlaps(d, b) <=> Keys!Overlaps(s, b)
  BY <1>3, OverlapsAlike
<1>8. ASSUME NEW b, RootGives(f, b), Keys!Overlaps(d, b)
      PROVE  FALSE
  <2>1. b \in Keys!Range(Keys!Read(f)) /\ b \in Keys!Bindings
    BY <1>1, <1>8, EntriesInForce
  <2>2. Keys!Overlaps(b, s)
    BY <1>7, <1>8, OverlapIsMutual
  <2>3. b = s
    BY <1>3, <2>1, <2>2
  <2>4. s \in Keys!Range(m)
    BY <1>1, <1>3, <1>8, <2>3 DEF Sources
  <2>5. ~s.configured
    BY <1>1, <2>2, <2>3, <2>4 DEF Sources
  <2> QED BY <1>3, <2>5
<1>9. ASSUME NEW b, RootGives(g, b), Keys!Overlaps(d, b)
      PROVE  FALSE
  <2>1. Keys!Overlaps(b, s)
    BY <1>7, <1>9, OverlapIsMutual
  <2> QED BY <1>1, <1>4, <1>9, <2>1, SinglesPlaced
<1> QED BY <1>4, <1>5, <1>6, <1>8, <1>9

\* A default in force is not in the way of what is written.
LEMMA DefaultLeft ==
    ASSUME NEW f, NEW g, NEW x, NEW c, NEW m, NEW n, Compared(f, g, x, c, m, n),
           NEW d \in Keys!Range(Keys!DefaultKeymap), d \in Keys!Bindings, d.context = x,
           d.command = c, d \in Keys!Range(Keys!Read(f))
    PROVE  Left(f, d) /\ Left(g, d)
<1>1. /\ Saves(f, g) /\ x \in Contexts /\ c \in Commands /\ Sources(f, x, m)
      /\ <<x, c>> \notin Keys!Changed(Keys!Read(f)) /\ c \notin DOMAIN g.commands[x]
  BY DEF Compared
<1>2. Constants /\ Keys!IsProfile(f) /\ Keys!IsProfile(g) /\ keymap \in Maps
  BY <1>1 DEF Saves
<1>3. d.configured = FALSE
  BY DefaultsInherit
<1>4. ~CommandsGive(f, x, d)
  BY <1>1, <1>2, <1>3, GivenAre
<1>5. d \in Keys!Range(Bound(f, m, x))
  BY <1>1, <1>4 DEF Sources
<1>6. Left(f, d)
  BY <1>1, <1>2, <1>3, <1>5, BoundFrom
<1>7. ~(c \in DOMAIN g.root /\ Owner[c] = x)
  BY <1>1, <1>6, UnchangedTables DEF Left
<1>8. Holds(d)
  BY <1>1, BaseHeld DEF Untouched
<1>9. ASSUME NEW b, RootGives(g, b), Keys!Overlaps(d, b)
      PROVE  FALSE
  <2>1. b \in Keys!Bindings /\ Holds(b) /\ b.command \in DOMAIN g.root /\ Owner[b.command] = b.context
    BY <1>1, <1>2, <1>9, GivenAre, RootOfSaved
  <2>2. b.command = c /\ b.context = x
    BY <1>2, <1>8, <1>9, <2>1, HoldsApart
  <2> QED BY <1>7, <2>1, <2>2
<1> QED BY <1>6, <1>7, <1>9 DEF Left

LEMMA LeftAlike ==
    ASSUME NEW f, NEW g, NEW x, NEW c, NEW m, NEW n, Compared(f, g, x, c, m, n),
           NEW d \in Keys!Range(Keys!DefaultKeymap), d \in Tied(f, x, c)
    PROVE  Left(f, d) <=> Left(g, d)
<1>1. Saves(f, g) /\ x \in Contexts
  BY DEF Compared
<1>2. d \in Keys!Bindings /\ d.context = x /\ d.configured = FALSE
  BY DefaultsInherit DEF Tied, In
<1>3. CASE d.command = c /\ d \in Keys!Range(Keys!Read(f))
  BY <1>2, <1>3, DefaultLeft
<1>4. CASE \E s : SingleGives(f, x, s) /\ s.command = c /\ s.keys = d.keys
  <2>1. PICK s : SingleGives(f, x, s) /\ s.command = c /\ s.keys = d.keys
    BY <1>4
  <2>2. /\ Untouched(f, d)
        /\ \A b : RootGives(f, b) => ~Keys!Overlaps(d, b)
        /\ \A b : RootGives(g, b) => ~Keys!Overlaps(d, b)
    BY <1>2, <2>1, PlaceFree
  <2>3. d.command \in Commands /\ <<x, d.command>> \notin Keys!Changed(Keys!Read(f))
    BY <1>2, <2>2 DEF Untouched, Keys!Bindings
  <2>4. Owner[d.command] = x => (d.command \in DOMAIN g.root <=> d.command \in DOMAIN f.root)
    BY <1>1, <2>3, UnchangedTables
  <2> QED BY <1>2, <2>2, <2>4 DEF Left
<1> QED BY <1>2, <1>3, <1>4 DEF Tied

\* What [keys] makes of them.
LEMMA RootTied ==
    ASSUME Constants, NEW h, Keys!IsProfile(h), NEW x \in Contexts, NEW c \in Commands,
           NEW L, Laid(Root(h), Keys!DefaultKeymap, L, h.root, Owner), NEW f
    PROVE  /\ c \in DOMAIN h.root /\ Owner[c] = x
                => Keys!Kept(L, Tied(f, x, c)) = Keys!Explicitly(x, c, h.root[c])
           /\ ~(c \in DOMAIN h.root /\ Owner[c] = x) => Keys!Kept(L, Tied(f, x, c)) = <<>>
<1> DEFINE P == BindingsOf(x, c)
           S == Tied(f, x, c)
<1>1. LayerIs(L, DOMAIN h.root, h.root, Owner)
  BY DEF Laid
<1>2. L \in Maps /\ L \in Seq(Keys!Bindings)
  BY <1>1 DEF LayerIs, Maps
<1>3. \A b \in Keys!Range(L) : /\ b \in Keys!Bindings /\ b.configured
                               /\ b.command \in DOMAIN h.root /\ Owner[b.command] = b.context
  BY RootLayer, GivenAre
<1>4. \A b \in Keys!Range(L) : b \in S <=> b \in P
  BY <1>3 DEF Tied, In, BindingsOf
<1>5. Keys!Kept(L, S) = Keys!Kept(L, P)
  <2> HIDE DEF S, P
  <2> QED BY <1>2, <1>4, KeptSame
<1>6. CASE c \in DOMAIN h.root /\ Owner[c] = x
  BY <1>1, <1>5, <1>6 DEF LayerIs
<1>7. CASE ~(c \in DOMAIN h.root /\ Owner[c] = x)
  <2>1. Keys!Range(L) \cap P = {}
    BY <1>3, <1>7 DEF BindingsOf
  <2> HIDE DEF P
  <2>2. Keys!Kept(L, P) = <<>>
    BY <1>2, <2>1, KeptNone
  <2> QED BY <1>5, <1>7, <2>2
<1> QED BY <1>6, <1>7

LEMMA BeforeEntries ==
    ASSUME Constants, NEW h, Keys!IsProfile(h), NEW x \in Contexts, NEW L, NEW m, NEW K,
           Reading(h, x, L, m, K), NEW S, S \subseteq In(x)
    PROVE  Keys!Kept(m, S)
             = Keys!Kept(Keys!DefaultKeymap, Free(Keys!DefaultKeymap, L, h.root, Owner) \cap S)
                 \o Keys!Kept(L, S)
<1> DEFINE D == Keys!DefaultKeymap
           F == Free(D, L, h.root, Owner)
           rest == Keys!Kept(D, F)
<1>1. /\ Laid(Root(h), D, L, h.root, Owner) /\ m \in Maps
      /\ Keys!Kept(m, In(x)) = Keys!Kept(Root(h), In(x))
  BY DEF Reading
<1>2. Root(h) \in Maps /\ D \in Maps /\ L \in Maps /\ Root(h) = rest \o L
  BY <1>1 DEF Laid, LayerIs
<1>3. Keys!Kept(m, S) = Keys!Kept(Root(h), S)
  <2> HIDE DEF D, F, rest
  <2> QED BY <1>1, <1>2, PartKept
<1> HIDE DEF D, F
<1>4. rest \in Maps
  BY <1>2, KeptKeeps
<1>5. Keys!Kept(rest, S) = Keys!Kept(D, F \cap S)
  <2>1. D \in Seq(Keys!Bindings)
    BY <1>2 DEF Maps
  <2> QED BY <2>1, KeptTwice
<1> HIDE DEF rest
<1>6. \A T : Keys!Kept(rest \o L, T) = Keys!Kept(rest, T) \o Keys!Kept(L, T)
  <2>1. rest \in Seq(Keys!Bindings) /\ L \in Seq(Keys!Bindings)
    BY <1>2, <1>4 DEF Maps
  <2> QED BY <2>1, KeptJoin
<1>7. Keys!Kept(m, S) = Keys!Kept(D, F \cap S) \o Keys!Kept(L, S)
  BY <1>2, <1>3, <1>5, <1>6
<1> QED BY <1>7 DEF D, F

LEMMA TiedBefore ==
    ASSUME NEW f, NEW g, NEW x, NEW c, NEW m, NEW n, Compared(f, g, x, c, m, n),
           NEW L1, NEW K1, Reading(f, x, L1, m, K1), NEW L2, NEW K2, Reading(g, x, L2, n, K2)
    PROVE  Keys!Kept(m, Tied(f, x, c)) = Keys!Kept(n, Tied(f, x, c))
<1> DEFINE S == Tied(f, x, c)
           D == Keys!DefaultKeymap
           F == Free(D, L1, f.root, Owner)
           G == Free(D, L2, g.root, Owner)
<1>1. /\ Saves(f, g) /\ x \in Contexts /\ c \in Commands
      /\ <<x, c>> \notin Keys!Changed(Keys!Read(f))
  BY DEF Compared
<1>2. Constants /\ Keys!IsProfile(f) /\ Keys!IsProfile(g)
  BY <1>1 DEF Saves
<1>3. Laid(Root(f), D, L1, f.root, Owner) /\ Laid(Root(g), D, L2, g.root, Owner)
  BY DEF Reading
<1>4. S \subseteq In(x)
  BY DEF Tied
<1>5. /\ Keys!Kept(m, S) = Keys!Kept(D, F \cap S) \o Keys!Kept(L1, S)
      /\ Keys!Kept(n, S) = Keys!Kept(D, G \cap S) \o Keys!Kept(L2, S)
  <2> HIDE DEF S
  <2>1. Keys!Kept(m, S) = Keys!Kept(D, F \cap S) \o Keys!Kept(L1, S)
    BY <1>1, <1>2, <1>4, BeforeEntries
  <2>2. Keys!Kept(n, S) = Keys!Kept(D, G \cap S) \o Keys!Kept(L2, S)
    BY <1>1, <1>2, <1>4, BeforeEntries
  <2> QED BY <2>1, <2>2
<1>6. \A d \in Keys!Range(D) : d \in F \cap S <=> d \in G \cap S
  <2>1. \A d : (d \in F <=> Left(f, d)) /\ (d \in G <=> Left(g, d))
    BY <1>2, <1>3, RootLayer
  <2>2. \A d \in Keys!Range(D) : d \in S => (Left(f, d) <=> Left(g, d))
    BY LeftAlike
  <2> HIDE DEF S, F, G, D
  <2> QED BY <2>1, <2>2
<1>7. Keys!Kept(D, F \cap S) = Keys!Kept(D, G \cap S)
  <2>1. D \in Seq(Keys!Bindings)
    BY <1>2 DEF Constants, Maps
  <2> DEFINE A == F \cap S
             B == G \cap S
  <2>2. \A d \in Keys!Range(D) : d \in A <=> d \in B
    BY <1>6
  <2> HIDE DEF A, B, D
  <2>3. Keys!Kept(D, A) = Keys!Kept(D, B)
    BY <2>1, <2>2, KeptSame
  <2> QED BY <2>3 DEF A, B
<1>8. Keys!Kept(L1, S) = Keys!Kept(L2, S)
  <2>1. Owner[c] = x => (c \in DOMAIN g.root <=> c \in DOMAIN f.root)
    BY <1>1, UnchangedTables
  <2>2. Owner[c] = x /\ c \in DOMAIN g.root => g.root[c] = f.root[c]
    BY <1>1, UnchangedTables
  <2>3. /\ c \in DOMAIN f.root /\ Owner[c] = x => Keys!Kept(L1, S) = Keys!Explicitly(x, c, f.root[c])
        /\ ~(c \in DOMAIN f.root /\ Owner[c] = x) => Keys!Kept(L1, S) = <<>>
    BY <1>1, <1>2, <1>3, RootTied
  <2>4. /\ c \in DOMAIN g.root /\ Owner[c] = x => Keys!Kept(L2, S) = Keys!Explicitly(x, c, g.root[c])
        /\ ~(c \in DOMAIN g.root /\ Owner[c] = x) => Keys!Kept(L2, S) = <<>>
    BY <1>1, <1>2, <1>3, RootTied
  <2> HIDE DEF S
  <2> QED BY <2>1, <2>2, <2>3, <2>4
<1> QED BY <1>5, <1>7, <1>8

\* The entries of a context take the place of tied bindings for tied ones only.
LEMMA TiedPlaces ==
    ASSUME NEW f, NEW g, NEW x, NEW c, NEW m, NEW n, Compared(f, g, x, c, m, n),
           NEW a \in Keys!Range(m) \cup Keys!Range(n), NEW b, SingleGives(f, x, b), Keys!Overlaps(a, b)
    PROVE  a \in Tied(f, x, c) <=> b \in Tied(f, x, c)
<1> DEFINE base == Keys!Range(Keys!Read(f))
<1>1. /\ Saves(f, g) /\ x \in Contexts /\ c \in Commands /\ Sources(f, x, m) /\ Sources(g, x, n)
      /\ <<x, c>> \notin Keys!Changed(Keys!Read(f))
  BY DEF Compared
<1>2. Constants /\ Keys!IsProfile(f) /\ Keys!IsProfile(g) /\ m \in Maps /\ n \in Maps
  BY <1>1 DEF Saves, Sources
<1>3. /\ b \in base /\ b \in Keys!Bindings /\ b.configured /\ b.context = x
      /\ \A e \in base : Keys!Overlaps(e, b) => e = b
  BY <1>1, EntriesInForce
<1>4. b \in Tied(f, x, c) <=> b.command = c
  BY <1>3 DEF Tied, In
<1>5. a \in Keys!Bindings /\ a.context = x
  BY <1>2, <1>3, MembersAre DEF Keys!Overlaps
<1>6. ASSUME a \in Tied(f, x, c)
      PROVE  b.command = c
  <2>1. CASE a.command = c /\ a \in base
    BY <1>3, <2>1
  <2>2. CASE a.command = c /\ a.configured
    <3>1. Left(f, a) \/ Left(g, a) => a.configured = FALSE
      BY DefaultsInherit DEF Left
    <3>2. RootGives(f, a) \/ RootGives(g, a)
      BY <1>1, <1>5, <2>2, <3>1 DEF Sources
    <3>3. RootGives(f, a)
      BY <1>1, <1>5, <2>2, <3>2, RootOfSaved DEF Untouched
    <3>4. a \in base
      BY <1>1, <3>3, EntriesInForce
    <3> QED BY <1>3, <2>2, <3>4
  <2>3. CASE \E s : SingleGives(f, x, s) /\ s.command = c /\ s.keys = a.keys
    <3>1. PICK s : SingleGives(f, x, s) /\ s.command = c /\ s.keys = a.keys
      BY <2>3
    <3>2. s \in base /\ s.context = x
      BY <1>1, <3>1, EntriesInForce
    <3>3. Keys!Overlaps(s, b)
      BY <1>5, <3>1, <3>2, OverlapsAlike
    <3> QED BY <1>3, <3>1, <3>2, <3>3
  <2> QED BY <1>6, <2>1, <2>2, <2>3 DEF Tied
<1>7. ASSUME b.command = c
      PROVE  a \in Tied(f, x, c)
  <2>1. SingleGives(g, x, b)
    BY <1>1, <1>3, <1>7, SinglesOfSaved DEF Untouched
  <2>2. a.keys = b.keys /\ ~a.configured
    BY <1>1, <2>1 DEF Sources
  <2>3. Left(f, a) \/ Left(g, a) \/ RootGives(f, a) \/ RootGives(g, a)
    BY <1>1, <1>5 DEF Sources
  <2>4. a \in Keys!Range(Keys!DefaultKeymap)
    BY <1>2, <2>2, <2>3, GivenAre DEF Left
  <2> QED BY <1>5, <1>7, <2>2, <2>4 DEF Tied, In
<1> QED BY <1>4, <1>6, <1>7

LEMMA TiedBound ==
    ASSUME NEW f, NEW g, NEW x, NEW c, NEW m, NEW n, Compared(f, g, x, c, m, n),
           NEW L1, NEW K1, Reading(f, x, L1, m, K1), NEW L2, NEW K2, Reading(g, x, L2, n, K2)
    PROVE  Keys!Kept(Bound(f, m, x), Tied(f, x, c)) = Keys!Kept(Bound(g, n, x), Tied(f, x, c))
<1> DEFINE S == Tied(f, x, c)
           U == Unchanged(x, Keys!Changed(Keys!Read(f)))
           ls == Keys!Single(f, x)
<1>1. /\ Saves(f, g) /\ x \in Contexts /\ c \in Commands /\ Sources(f, x, m) /\ Sources(g, x, n)
      /\ <<x, c>> \notin Keys!Changed(Keys!Read(f))
  BY DEF Compared
<1>2. Constants /\ Keys!IsProfile(f) /\ Failed \notin Maps
  BY <1>1 DEF Saves, Constants
<1>3. Keys!Single(g, x) = Keys!Kept(ls, U)
  BY <1>1, SinglesOfSaved
<1>4. /\ m \in Maps /\ Bound(f, m, x) \in Maps /\ n \in Maps /\ Bound(g, n, x) \in Maps
  BY <1>1 DEF Sources
<1>5. Keys!BindAll(m, ls) # Failed /\ Keys!BindAll(n, Keys!Kept(ls, U)) # Failed
  BY <1>2, <1>3, <1>4 DEF Bound
<1>6. ls \in Seq(Explicits)
  BY <1>1, <1>2, SinglesAre
<1>7. \A b \in Keys!Range(ls) : SingleGives(f, x, b)
  BY DEF SingleGives
<1>8. Keys!Range(ls) \cap S \subseteq U
  <2>1. \A b \in Keys!Range(ls) : b \in Keys!Bindings /\ b.configured
    BY <1>2, <1>7, EntriesInForce, <1>1
  <2>2. \A b \in Keys!Range(ls) : b \in S => b.command = c
    BY <2>1 DEF Tied
  <2> QED BY <1>1, <2>1, <2>2 DEF Unchanged
<1>9. \A a \in Keys!Range(m) \cup Keys!Range(n), b \in Keys!Range(ls) :
        Keys!Overlaps(a, b) => (a \in S <=> b \in S)
  BY <1>7, TiedPlaces
<1>10. Keys!Kept(m, S) = Keys!Kept(n, S)
  BY TiedBefore
<1> HIDE DEF S, U, ls
<1>11. Parallel(m, n, ls, U, S)
  BY <1>5, <1>8, <1>9 DEF Parallel
<1>12. Keys!Kept(Keys!BindAll(m, ls), S) = Keys!Kept(Keys!BindAll(n, Keys!Kept(ls, U)), S)
  BY <1>2, <1>4, <1>6, <1>10, <1>11, BindAllAlike
<1> QED BY <1>3, <1>12 DEF Bound, S, ls

\* A default that the entries of the old profile took, and no entry of the new one
\* takes, is taken by a list: the keymap has something in its place.
LEMMA LostTaken ==
    ASSUME NEW f, NEW g, NEW x, NEW c, NEW m, NEW n, Compared(f, g, x, c, m, n),
           NEW b \in Keys!Bindings, b.context = x, b.command = c, ~b.configured,
           Left(g, b), b \in Keys!Range(Keys!DefaultKeymap), b \notin Keys!Range(Keys!Read(f)),
           \A s : SingleGives(g, x, s) => ~Keys!Overlaps(b, s)
    PROVE  \E k : CommandsGive(g, x, k) /\ Keys!Overlaps(b, k)
<1> DEFINE base == Keys!Range(Keys!Read(f))
<1>1. /\ Saves(f, g) /\ x \in Contexts /\ c \in Commands /\ Sources(f, x, m) /\ Sources(g, x, n)
      /\ <<x, c>> \notin Keys!Changed(Keys!Read(f)) /\ c \notin DOMAIN g.commands[x]
  BY DEF Compared
<1>2. /\ Constants /\ Keys!IsProfile(f) /\ Keys!IsProfile(g) /\ keymap \in Maps
      /\ Keys!Read(f) \in Maps /\ ~Keys!Regained(f)
  BY <1>1 DEF Saves
<1>3. /\ c \in DOMAIN g.commands[x] <=> c \in DOMAIN f.commands[x]
      /\ Owner[c] = x => (c \in DOMAIN g.root <=> c \in DOMAIN f.root)
  BY <1>1, UnchangedTables
<1>4. ~(c \in DOMAIN g.root /\ Owner[c] = x) /\ \A a : RootGives(g, a) => ~Keys!Overlaps(b, a)
  BY DEF Left
<1>5. <<b.context, b.command>> \notin Keys!Listed(f) \cup Keys!Changed(Keys!Read(f))
  <2> DEFINE p == <<x, c>>
  <2>1. p[1] = x /\ p[2] = c /\ p = <<b.context, b.command>> /\ p \notin Keys!Changed(Keys!Read(f))
    BY <1>1
  <2> HIDE DEF p
  <2>2. p \notin Keys!Listed(f)
    BY <1>1, <1>3, <1>4, <2>1 DEF Keys!Listed
  <2> QED BY <2>1, <2>2
<1>6. Keys!Taken(keymap, <<b>>) # {}
  BY <1>2, <1>5 DEF Keys!Regained
<1>7. PICK e \in Keys!Range(keymap) : Keys!Overlaps(e, b)
  <2>1. PICK e \in Keys!Range(keymap) : \E l \in Keys!Range(<<b>>) : Keys!Overlaps(e, l)
    BY <1>6 DEF Keys!Taken
  <2>2. PICK i \in DOMAIN <<b>> : Keys!Overlaps(e, <<b>>[i])
    BY <2>1 DEF Keys!Range
  <2>3. <<b>>[i] = b
    BY <2>2
  <2> QED BY <2>2, <2>3
<1> DEFINE q == e.command
           ls == Keys!KeysOf(keymap, x, q)
           k == Keys!Binding(x, e.keys, q, TRUE)
<1>8. e \in Keys!Bindings /\ e.context = x /\ q \in Commands
  BY <1>2, <1>7, MembersAre DEF Keys!Overlaps, Keys!Bindings
<1>9. k.context = x /\ k.keys = e.keys /\ k.command = q
  BY DEF Keys!Binding
<1>10. Keys!Overlaps(b, k)
  BY <1>7, <1>8, <1>9, OverlapsAlike, OverlapIsMutual
<1>11. e.keys \in Keys!Range(ls) /\ ls \in Seq(Seq(Strokes))
  BY <1>2, <1>8, KeysOfRange, KeysOfIs DEF BindingsOf
<1> HIDE DEF ls
<1>12. k \in Keys!Range(Keys!Explicitly(x, q, ls))
  <2>1. Keys!Range(Keys!Explicitly(x, q, ls)) = {Keys!Binding(x, t, q, TRUE) : t \in Keys!Range(ls)}
    BY <1>1, <1>8, <1>11, ExplicitlyAre
  <2> QED BY <1>11, <2>1
<1>13. CASE q \in DOMAIN g.commands[x]
  <2>1. g.commands[x][q] = ls
    BY <1>1, <1>13, ListsOfSaved DEF ls
  <2> HIDE DEF k, q
  <2>2. CommandsGive(g, x, k)
    BY <1>12, <1>13, <2>1 DEF CommandsGive
  <2> QED BY <1>10, <2>2
<1>14. CASE q \notin DOMAIN g.commands[x] /\ <<x, q>> \in Keys!Changed(Keys!Read(f))
  <2>1. Owner[q] = x /\ q \in DOMAIN g.root /\ g.root[q] = ls
    BY <1>1, <1>8, <1>14, ChangedFlat DEF ls
  <2> HIDE DEF k, q
  <2>2. RootGives(g, k)
    BY <1>12, <2>1 DEF RootGives
  <2> QED BY <1>4, <1>10, <2>2
<1>15. CASE q \notin DOMAIN g.commands[x] /\ <<x, q>> \notin Keys!Changed(Keys!Read(f))
  <2>1. ls = Keys!KeysOf(Keys!Read(f), x, q)
    BY <1>1, <1>8, <1>15, UnchangedIs DEF ls
  <2>2. PICK o \in base : o \in BindingsOf(x, q) /\ o.keys = e.keys
    BY <1>2, <1>11, <2>1, KeysOfRange
  <2>3. o \in Keys!Bindings /\ o.context = x /\ o.command = q /\ Untouched(f, o)
    BY <1>15, <2>2 DEF BindingsOf, Untouched
  <2>4. Keys!Overlaps(o, b) /\ Keys!Overlaps(b, o)
    BY <1>7, <1>8, <2>2, <2>3, OverlapsAlike, OverlapIsMutual
  <2>5. q \notin DOMAIN f.commands[x]
    BY <1>1, <1>8, <1>15, UnchangedTables
  <2>6. o \in Keys!Range(Bound(f, m, x))
    BY <1>1, <1>2, <2>2, <2>3, <2>5, GivenAre DEF Sources
  <2>7. ~SingleGives(f, x, o)
    BY <1>1, <2>3, <2>4, SinglesOfSaved
  <2>8. ~RootGives(f, o)
    BY <1>1, <1>4, <2>3, <2>4, RootOfSaved
  <2>9. o \in Keys!Range(Keys!DefaultKeymap)
    BY <1>1, <1>2, <2>3, <2>6, <2>7, <2>8, BoundFrom
  <2>10. o = b
    BY <1>2, <2>4, <2>9, ApartIs DEF Constants
  <2> QED BY <2>2, <2>10
<1> QED BY <1>13, <1>14, <1>15

LEMMA UnchangedSaved ==
    ASSUME NEW f, NEW g, NEW x, NEW c, NEW m, NEW n, Compared(f, g, x, c, m, n),
           NEW L1, NEW K1, Reading(f, x, L1, m, K1), NEW L2, NEW K2, Reading(g, x, L2, n, K2)
    PROVE  Keys!KeysOf(Keys!Read(g), x, c) = Keys!KeysOf(keymap, x, c)
<1> DEFINE P == BindingsOf(x, c)
           S == Tied(f, x, c)
           base == Keys!Range(Keys!Read(f))
<1>1. /\ Saves(f, g) /\ x \in Contexts /\ c \in Commands /\ Sources(f, x, m) /\ Sources(g, x, n)
      /\ <<x, c>> \notin Keys!Changed(Keys!Read(f)) /\ c \notin DOMAIN g.commands[x]
  BY DEF Compared
<1>2. /\ Constants /\ Keys!IsProfile(f) /\ Keys!IsProfile(g) /\ keymap \in Maps
      /\ Keys!Read(f) \in Maps /\ ~Keys!Regained(f)
  BY <1>1 DEF Saves
<1>3. /\ c \notin DOMAIN f.commands[x]
      /\ Owner[c] = x => (c \in DOMAIN g.root <=> c \in DOMAIN f.root)
  BY <1>1, UnchangedTables
<1>4. \A b \in Keys!Range(Bound(f, m, x)) :
        b \in P => (b \in S <=> \A k : CommandsGive(f, x, k) => ~Keys!Overlaps(b, k))
  <2> SUFFICES ASSUME NEW b \in Keys!Range(Bound(f, m, x)), b \in P
               PROVE  b \in S <=> \A k : CommandsGive(f, x, k) => ~Keys!Overlaps(b, k)
    OBVIOUS
  <2>1. b \in Keys!Bindings /\ b.context = x /\ b.command = c
    BY DEF BindingsOf
  <2>2. ~CommandsGive(f, x, b)
    BY <1>1, <1>2, <1>3, <2>1, GivenAre
  <2>3. b \in base <=> \A k : CommandsGive(f, x, k) => ~Keys!Overlaps(b, k)
    BY <1>1, <1>3, <2>1, <2>2 DEF Sources
  <2>4. b \in base => b \in S
    BY <2>1 DEF Tied, In
  <2>5. ASSUME b \in S
        PROVE  b \in base
    <3>1. CASE b.configured
      <4>1. SingleGives(f, x, b) \/ RootGives(f, b)
        BY <1>1, <1>2, <2>1, <3>1, BoundFrom
      <4> QED BY <1>1, <4>1, EntriesInForce
    <3>2. CASE ~b.configured
      <4>1. /\ b \in Keys!Range(Keys!DefaultKeymap)
            /\ \A s : SingleGives(f, x, s) => ~Keys!Overlaps(b, s)
        BY <1>1, <1>2, <2>1, <3>2, BoundFrom
      <4>2. ~\E s : SingleGives(f, x, s) /\ s.command = c /\ s.keys = b.keys
        BY <2>1, <4>1, PlaceFree
      <4> QED BY <2>5, <3>2, <4>2 DEF Tied
    <3> QED BY <3>1, <3>2
  <2> QED BY <2>3, <2>4, <2>5
<1>5. \A b \in Keys!Range(Bound(g, n, x)) :
        b \in P => (b \in S <=> \A k : CommandsGive(g, x, k) => ~Keys!Overlaps(b, k))
  <2> SUFFICES ASSUME NEW b \in Keys!Range(Bound(g, n, x)), b \in P
               PROVE  b \in S <=> \A k : CommandsGive(g, x, k) => ~Keys!Overlaps(b, k)
    OBVIOUS
  <2>1. b \in Keys!Bindings /\ b.context = x /\ b.command = c /\ Untouched(f, b)
    BY <1>1 DEF BindingsOf, Untouched
  <2>2. CASE b.configured
    <3>1. SingleGives(g, x, b) \/ RootGives(g, b)
      BY <1>1, <1>2, <2>1, <2>2, BoundFrom
    <3>2. Holds(b)
      BY <1>1, <3>1, SinglesHeld, RootOfSaved
    <3>3. \A k : CommandsGive(g, x, k) => ~Keys!Overlaps(b, k)
      BY <1>1, <2>1, <3>2, HeldNotTaken
    <3>4. b \in S
      BY <2>1, <2>2 DEF Tied, In
    <3> QED BY <3>3, <3>4
  <2>3. CASE ~b.configured
    <3>1. /\ Left(g, b) /\ b \in Keys!Range(Keys!DefaultKeymap)
          /\ \A s : SingleGives(g, x, s) => ~Keys!Overlaps(b, s)
      BY <1>1, <1>2, <2>1, <2>3, BoundFrom
    <3>2. ~\E s : SingleGives(f, x, s) /\ s.command = c /\ s.keys = b.keys
      BY <2>1, <3>1, PlaceFree
    <3>3. b \in S <=> b \in base
      BY <2>1, <2>3, <3>2 DEF Tied, In
    <3>4. b \in base => \A k : CommandsGive(g, x, k) => ~Keys!Overlaps(b, k)
      BY <1>1, <2>1, BaseHeld, HeldNotTaken
    <3>5. ASSUME b \notin base
          PROVE  \E k : CommandsGive(g, x, k) /\ Keys!Overlaps(b, k)
      BY <1>1, <2>1, <2>3, <3>1, <3>5, LostTaken
    <3> QED BY <3>3, <3>4, <3>5
  <2> QED BY <2>2, <2>3
<1>6. c \notin DOMAIN f.commands[x]
  BY <1>3
<1>7. Keys!Kept(Keys!Read(f), P) = Keys!Kept(Bound(f, m, x), P \cap S)
  <2> HIDE DEF S
  <2> QED BY <1>1, <1>2, <1>4, <1>6, ReadUnlisted
<1>8. Keys!Kept(Keys!Read(g), P) = Keys!Kept(Bound(g, n, x), P \cap S)
  <2> HIDE DEF S
  <2> QED BY <1>1, <1>2, <1>5, ReadUnlisted
<1>9. Keys!Kept(Bound(f, m, x), S) = Keys!Kept(Bound(g, n, x), S)
  BY TiedBound
<1>10. Bound(f, m, x) \in Maps /\ Bound(g, n, x) \in Maps /\ Keys!Read(g) \in Maps
  BY <1>1 DEF Sources
<1>11. Keys!Kept(Keys!Read(f), P) = Keys!Kept(Keys!Read(g), P)
  <2> DEFINE V == P \cap S
  <2>1. V \subseteq S
    OBVIOUS
  <2> HIDE DEF S, P, V
  <2>2. Keys!Kept(Bound(f, m, x), V) = Keys!Kept(Bound(g, n, x), V)
    BY <1>9, <1>10, <2>1, PartKept
  <2> QED BY <1>7, <1>8, <2>2 DEF V
<1>12. Keys!KeysOf(Keys!Read(f), x, c) = Keys!KeysOf(Keys!Read(g), x, c)
  <2>1. Keys!KeysOf(Keys!Read(f), x, c)
          = [i \in DOMAIN Keys!Kept(Keys!Read(f), P) |-> Keys!Kept(Keys!Read(f), P)[i].keys]
    BY <1>2, KeysOfKept
  <2>2. Keys!KeysOf(Keys!Read(g), x, c)
          = [i \in DOMAIN Keys!Kept(Keys!Read(g), P) |-> Keys!Kept(Keys!Read(g), P)[i].keys]
    BY <1>10, KeysOfKept
  <2> QED BY <1>11, <2>1, <2>2
<1>13. Keys!KeysOf(keymap, x, c) = Keys!KeysOf(Keys!Read(f), x, c)
  BY <1>1, UnchangedIs
<1> QED BY <1>12, <1>13

----------------------------------------------------------------------------
(* What is saved is what was edited *)

LEMMA SavedKeys ==
    ASSUME NEW f, NEW g, Saves(f, g), NEW x \in Contexts, NEW c \in Commands
    PROVE  Keys!KeysOf(Keys!Read(g), x, c) = Keys!KeysOf(keymap, x, c)
<1>1. /\ Constants /\ Keys!IsProfile(f) /\ Keys!IsProfile(g)
      /\ Keys!Read(f) # Failed /\ Keys!Read(g) # Failed
  BY SavedReads DEF Saves
<1>2. PICK L1, m, K1 : Reading(f, x, L1, m, K1)
  BY <1>1, ReadIs
<1>3. PICK L2, n, K2 : Reading(g, x, L2, n, K2)
  BY <1>1, ReadIs
<1>4. CASE c \in DOMAIN g.commands[x]
  BY <1>1, <1>3, <1>4, ReadListed, ListsOfSaved
<1>5. CASE c \notin DOMAIN g.commands[x] /\ <<x, c>> \in Keys!Changed(Keys!Read(f))
  BY <1>3, <1>5, ChangedSaved
<1>6. CASE c \notin DOMAIN g.commands[x] /\ <<x, c>> \notin Keys!Changed(Keys!Read(f))
  <2>1. Compared(f, g, x, c, m, n)
    BY <1>1, <1>2, <1>3, <1>6, SourcesAre DEF Compared
  <2> QED BY <1>2, <1>3, <2>1, UnchangedSaved
<1> QED BY <1>4, <1>5, <1>6

\* Keymaps of the same keys for every command are of the same length.
LEMMA AlikeLen ==
    ASSUME NEW a \in Maps, NEW b \in Maps,
           \A x \in Contexts, c \in Commands : Keys!KeysOf(a, x, c) = Keys!KeysOf(b, x, c)
    PROVE  Len(a) <= Len(b)
<1> DEFINE n == Len(a)
           l == Len(b)
           Like(i, j) == /\ a[i].context = b[j].context /\ a[i].keys = b[j].keys
           h == [i \in 1 .. n |-> CHOOSE j \in 1 .. l : Like(i, j)]
<1>1. /\ a \in Seq(Keys!Bindings) /\ n \in Nat /\ DOMAIN a = 1 .. n /\ Keys!Apart(a)
      /\ b \in Seq(Keys!Bindings) /\ l \in Nat /\ DOMAIN b = 1 .. l
  BY DEF Maps
<1>2. \A i \in 1 .. n : a[i] \in Keys!Range(a) /\ a[i] \in Keys!Bindings
  BY <1>1 DEF Keys!Range
<1> HIDE DEF n, l
<1>3. ASSUME NEW i \in 1 .. n
      PROVE  \E j \in 1 .. l : Like(i, j)
  <2> DEFINE x == a[i].context
             c == a[i].command
             k == a[i].keys
  <2>1. a[i] \in BindingsOf(x, c) /\ x \in Contexts /\ c \in Commands
    BY <1>2 DEF BindingsOf, Keys!Bindings
  <2>2. k \in Keys!Range(Keys!KeysOf(a, x, c))
    BY <1>2, <2>1, KeysOfRange
  <2>3. k \in Keys!Range(Keys!KeysOf(b, x, c))
    BY <2>1, <2>2
  <2>4. PICK e \in Keys!Range(b) : e \in BindingsOf(x, c) /\ e.keys = k
    BY <2>3, KeysOfRange
  <2>5. PICK j \in 1 .. l : e = b[j]
    BY <1>1 DEF Keys!Range
  <2> QED BY <2>4, <2>5 DEF BindingsOf
<1> HIDE DEF Like
<1>4. h \in [1 .. n -> 1 .. l] /\ \A i \in 1 .. n : Like(i, h[i])
  BY <1>3
<1> HIDE DEF h
<1>5. ASSUME NEW i \in 1 .. n, NEW j \in 1 .. n, h[i] = h[j]
      PROVE  i = j
  <2>1. a[i].context = a[j].context /\ a[i].keys = a[j].keys
    BY <1>4, <1>5 DEF Like
  <2>2. Keys!Overlaps(a[i], a[j])
    BY <1>2, <2>1, OverlapsItself
  <2> QED BY <1>1, <2>2 DEF Keys!Apart
<1>6. h \in Injection(1 .. n, 1 .. l)
  BY <1>4, <1>5 DEF Injection, IsInjective
<1>7. /\ IsFiniteSet(1 .. l)
      /\ Cardinality(1 .. n) = IF 1 > n THEN 0 ELSE n - 1 + 1
      /\ Cardinality(1 .. l) = IF 1 > l THEN 0 ELSE l - 1 + 1
  BY <1>1, FS_Interval
<1>8. Cardinality(1 .. n) <= Cardinality(1 .. l)
  BY <1>6, <1>7, FS_Injection
<1> QED BY <1>1, <1>7, <1>8 DEF n, l

\* Why a save may be refused.
Cause == Keys!Void(file) \/ Keys!Regained(file) \/ Keys!Misplaced(file) \/ Keys!Crowded

LEMMA CauseStays ==
    ASSUME keymap' = keymap, file' = file
    PROVE  Cause' <=> Cause
BY DEF Cause, Keys!Regained, Keys!Misplaced, Keys!Crowded, Keys!Changed

\* The file that would be written is read back and compared.
LEMMA SaveSucceeds ==
    ASSUME Keys!ConstantsAssumption, KeymapInv, ~Cause
    PROVE  LET new == Keys!Update(file, Keys!Changed(Keys!Read(file)))
           IN  Keys!Read(new) # Failed /\ Keys!Same(keymap, Keys!Read(new))
<1> DEFINE changed == Keys!Changed(Keys!Read(file))
           new == Keys!Update(file, changed)
<1>1. Constants
  BY ConstantsAre
<1>2. /\ keymap \in Maps /\ Keys!IsProfile(file) /\ Keys!Read(file) # Failed
      /\ Keys!Read(file) \in Maps
  BY ReadKeeps DEF KeymapInv, Outcomes
<1>3. changed \in SUBSET (Contexts \X Commands)
  BY DEF Keys!Changed
<1>4. ~Keys!Shadowed(file)
  BY DEF Cause, Keys!Void
<1> HIDE DEF changed
<1>5. Keys!IsProfile(new)
  BY <1>2, <1>3, UpdateKeeps
<1>6. Updated(file, new, changed)
  BY <1>1, <1>2, <1>3, <1>4, UpdateIs DEF Constants
<1>7. new.bindings = Keys!WithoutStale(file, changed)
  BY DEF Keys!Update
<1> HIDE DEF new
<1>8. Saves(file, new)
  BY <1>1, <1>2, <1>5, <1>6, <1>7 DEF Saves, Cause, changed
<1>9. Keys!Read(new) # Failed /\ Keys!Read(new) \in Maps
  BY <1>5, <1>8, SavedReads, ReadKeeps DEF Outcomes
<1> DEFINE again == Keys!Read(new)
<1>10. \A x \in Contexts, c \in Commands : Keys!KeysOf(again, x, c) = Keys!KeysOf(keymap, x, c)
  BY <1>8, SavedKeys
<1> HIDE DEF again
<1>11. Len(keymap) = Len(again)
  <2>1. Len(keymap) \in Nat /\ Len(again) \in Nat
    BY <1>2, <1>9 DEF Maps, again
  <2>2. Len(keymap) <= Len(again) /\ Len(again) <= Len(keymap)
    BY <1>2, <1>9, <1>10, AlikeLen DEF again
  <2> QED BY <2>1, <2>2
<1>12. Keys!Same(keymap, again)
  BY <1>10, <1>11 DEF Keys!Same
<1> QED BY <1>9, <1>12 DEF again, new, changed

LEMMA RefusalCaused ==
    ASSUME Keys!ConstantsAssumption, KeymapInv, refused => Cause, [Keys!Next]_(Keys!vars)
    PROVE  (refused => Cause)'
<1>1. CASE Keys!Save
  <2> SUFFICES ASSUME refused', ~Cause
               PROVE  FALSE
    BY <1>1, CauseStays DEF Keys!Save
  <2> DEFINE new == Keys!Update(file, Keys!Changed(Keys!Read(file)))
  <2>1. Keys!Read(new) # Failed /\ Keys!Same(keymap, Keys!Read(new))
    BY SaveSucceeds
  <2> HIDE DEF new
  <2>2. IF Keys!Read(new) # Failed /\ Keys!Same(keymap, Keys!Read(new))
        THEN file' = new /\ refused' = FALSE
        ELSE file' = file /\ refused' = TRUE
    BY <1>1 DEF Keys!Save, new
  <2> QED BY <2>1, <2>2
<1>2. CASE Keys!Load
  BY <1>2 DEF Keys!Load
<1>3. CASE \E x \in Contexts, c \in Commands : Keys!EditKey(x, c)
  BY <1>3 DEF Keys!EditKey
<1>4. CASE UNCHANGED Keys!vars
  BY <1>4, CauseStays DEF Keys!vars, Keys!ghosts
<1> QED BY <1>1, <1>2, <1>3, <1>4, Zenon DEF Keys!Next

(* A save that the file system allows is refused only for an entry of the   *)
(* profile that another makes void, a default that comes back because        *)
(* nothing takes its place any more, an entry for a default of an edited    *)
(* command, or want of room: in every other case what a save writes, read   *)
(* back, gives every command the keys that it has.                          *)
THEOREM RefusalsHaveACause == Keys!Spec => []RefusalHasACause
<1>1. Keys!ConstantsAssumption
  BY PartsAssumption
<1>2. Keys!Init => (refused => Cause)
  BY DEF Keys!Init
<1>3. KeymapInv /\ (refused => Cause) /\ [Keys!Next]_(Keys!vars) => (refused => Cause)'
  BY <1>1, RefusalCaused
<1>4. (refused => Cause) => RefusalHasACause
  BY DEF RefusalHasACause, Keys!RefusalHasACause, Cause
<1> QED
  BY <1>2, <1>3, <1>4, KeymapInvHolds, PTL DEF Keys!Spec
=============================================================================
