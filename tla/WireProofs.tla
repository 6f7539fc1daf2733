----------------------------- MODULE WireProofs -----------------------------
(***************************************************************************)
(* Lemmas about sequences, streams and member lists, for the proofs about    *)
(* the modules that send frames to them.                                    *)
(***************************************************************************)
EXTENDS Rooms, FiniteSets, FiniteSetsExt, SequenceTheorems, FiniteSetTheorems,
        WellFoundedInduction, TLAPS

-----------------------------------------------------------------------------
(* Lemmas about the operators of SequencesExt the model is built from.      *)

\* A non-empty set of naturals has a least element, so Min chooses one.
LEMMA MinOfNaturals ==
    ASSUME NEW S \in SUBSET Nat, S # {}
    PROVE  Min(S) \in S
<1>. DEFINE R == {p \in Nat \X Nat : p[1] < p[2]}
<1>1. PICK x \in S : \A y \in S : ~(<<y, x>> \in R)
  BY NatLessThanWellFounded, WFMin, Zenon DEF OpToRel
<1>2. \A y \in S : ~(y < x)
  BY <1>1, Zenon
<1>3. \A y \in S : x =< y
  BY <1>2
<1>. QED
  BY <1>3 DEF Min

\* What RemoveFirst does to a sequence that holds the element: it closes the
\* gap at some position that held it.
LEMMA RemoveFirstGap ==
    ASSUME NEW S, NEW s \in Seq(S), NEW e, \E i \in 1 .. Len(s) : s[i] = e
    PROVE  \E k \in 1 .. Len(s) :
              /\ s[k] = e
              /\ RemoveFirst(s, e) \in Seq(S)
              /\ Len(RemoveFirst(s, e)) = Len(s) - 1
              /\ \A i \in 1 .. Len(s) - 1 :
                    RemoveFirst(s, e)[i] = IF i < k THEN s[i] ELSE s[i + 1]
<1>. DEFINE I == {i \in 1 .. Len(s) : s[i] = e}
            k == Min(I)
<1>1. Len(s) \in Nat /\ s \in [1 .. Len(s) -> S]
  BY LenProperties
<1>2. I \in SUBSET Nat /\ I # {}
  BY <1>1
<1>3. SelectInSeq(s, LAMBDA v : v = e) = k
  BY <1>2 DEF SelectInSeq
<1>4. RemoveFirst(s, e) = SubSeq(s, 1, k - 1) \o SubSeq(s, k + 1, Len(s))
  BY <1>3 DEF RemoveFirst, RemoveAt
<1>5. k \in 1 .. Len(s) /\ s[k] = e
  <2>. HIDE DEF I
  <2>1. k \in I
    BY <1>2, MinOfNaturals
  <2>. QED
    BY <2>1 DEF I
<1>. HIDE DEF k
<1>. DEFINE a == SubSeq(s, 1, k - 1)
            b == SubSeq(s, k + 1, Len(s))
<1>6. a \in Seq(S) /\ Len(a) = k - 1 /\ \A i \in 1 .. k - 1 : a[i] = s[i]
  BY <1>1, <1>5, SubSeqProperties
<1>7. /\ b \in Seq(S)
      /\ Len(b) = Len(s) - k
      /\ \A i \in 1 .. Len(s) - k : b[i] = s[i + k]
  <2>1. /\ b \in Seq(S)
        /\ Len(b) = IF k + 1 <= Len(s) THEN Len(s) - (k + 1) + 1 ELSE 0
        /\ \A i \in 1 .. Len(s) - (k + 1) + 1 : b[i] = s[(k + 1) + i - 1]
    <3>1. \A i \in k + 1 .. Len(s) : s[i] \in S
      BY <1>1, <1>5
    <3>2. k + 1 \in Int /\ Len(s) \in Int
      BY <1>1, <1>5
    <3>. QED
      BY <3>1, <3>2, SubSeqProperties
  <2>. HIDE DEF b
  <2>2. Len(s) - (k + 1) + 1 = Len(s) - k
    BY <1>1, <1>5
  <2>3. Len(b) = Len(s) - k
    <3>1. CASE k = Len(s)
      <4>1. ~(k + 1 <= Len(s)) /\ Len(s) - k = 0
        BY <3>1, <1>1
      <4>. QED
        BY <2>1, <4>1, Zenon
    <3>2. CASE k # Len(s)
      <4>1. k \in 1 .. Len(s) /\ Len(s) \in Nat
        BY <1>1, <1>5
      <4>2. k + 1 <= Len(s)
        BY <3>2, <4>1
      <4>. QED
        BY <2>1, <2>2, <4>2, Zenon
    <3>. QED
      BY <3>1, <3>2
  <2>4. ASSUME NEW i \in 1 .. Len(s) - k
        PROVE  b[i] = s[i + k]
    <3>1. b[i] = s[(k + 1) + i - 1]
      BY <2>1, <2>2
    <3>2. (k + 1) + i - 1 = i + k
      BY <1>1, <1>5
    <3>. QED
      BY <3>1, <3>2
  <2>. QED
    BY <2>1, <2>3, <2>4
<1>. HIDE DEF a, b
<1>8. /\ a \o b \in Seq(S)
      /\ Len(a \o b) = Len(a) + Len(b)
      /\ \A i \in 1 .. Len(a) + Len(b) :
            (a \o b)[i] = IF i <= Len(a) THEN a[i] ELSE b[i - Len(a)]
  BY <1>6, <1>7, ConcatProperties
<1>9. Len(a \o b) = Len(s) - 1
  BY <1>1, <1>5, <1>6, <1>7, <1>8
<1>10. ASSUME NEW i \in 1 .. Len(s) - 1
       PROVE  (a \o b)[i] = IF i < k THEN s[i] ELSE s[i + 1]
  <2>1. CASE i < k
    BY <2>1, <1>1, <1>5, <1>6, <1>7, <1>8
  <2>2. CASE i >= k
    <3>1. i - (k - 1) \in 1 .. Len(s) - k /\ (i - (k - 1)) + k = i + 1
      BY <2>2, <1>1, <1>5
    <3>2. (a \o b)[i] = b[i - (k - 1)]
      BY <2>2, <1>1, <1>5, <1>6, <1>7, <1>8
    <3>3. b[i - (k - 1)] = s[i + 1]
      BY <3>1, <1>7
    <3>. QED
      BY <2>2, <3>2, <3>3, <1>1, <1>5
  <2>3. i < k \/ i >= k
    BY <1>1, <1>5
  <2>. QED
    BY <2>1, <2>2, <2>3, Zenon
<1>. QED
  BY <1>4, <1>5, <1>8, <1>9, <1>10 DEF a, b

\* RemoveFirst keeps every other element, adds none, and of a sequence
\* without duplicates leaves one that does not hold the element.
LEMMA RemoveFirstProperties ==
    ASSUME NEW S, NEW s \in Seq(S), NEW e
    PROVE  /\ RemoveFirst(s, e) \in Seq(S)
           /\ \A i \in 1 .. Len(s) : s[i] # e =>
                 \E j \in 1 .. Len(RemoveFirst(s, e)) : RemoveFirst(s, e)[j] = s[i]
           /\ \A j \in 1 .. Len(RemoveFirst(s, e)) :
                 \E i \in 1 .. Len(s) : RemoveFirst(s, e)[j] = s[i]
           /\ (\A i, j \in 1 .. Len(s) : s[i] = s[j] => i = j) =>
                 /\ \A i, j \in 1 .. Len(RemoveFirst(s, e)) :
                       RemoveFirst(s, e)[i] = RemoveFirst(s, e)[j] => i = j
                 /\ \A i \in 1 .. Len(RemoveFirst(s, e)) : RemoveFirst(s, e)[i] # e
<1>1. CASE ~ \E i \in 1 .. Len(s) : s[i] = e
  BY <1>1 DEF RemoveFirst
<1>2. CASE \E i \in 1 .. Len(s) : s[i] = e
  <2>. DEFINE t == RemoveFirst(s, e)
  <2>1. PICK k \in 1 .. Len(s) :
              /\ s[k] = e
              /\ t \in Seq(S)
              /\ Len(t) = Len(s) - 1
              /\ \A i \in 1 .. Len(s) - 1 : t[i] = IF i < k THEN s[i] ELSE s[i + 1]
    BY <1>2, RemoveFirstGap
  <2>2. Len(s) \in Nat
    BY LenProperties
  <2>. HIDE DEF t
  <2>3. ASSUME NEW i \in 1 .. Len(s), s[i] # e
        PROVE  \E j \in 1 .. Len(t) : t[j] = s[i]
    <3>1. CASE i < k
      BY <3>1, <2>1, <2>2
    <3>2. CASE i > k
      <4>1. i - 1 \in 1 .. Len(t) /\ t[i - 1] = s[(i - 1) + 1]
        BY <3>2, <2>1, <2>2
      <4>. QED
        BY <4>1, <2>2
    <3>. QED
      BY <3>1, <3>2, <2>1, <2>2, <2>3
  <2>4. ASSUME NEW j \in 1 .. Len(t)
        PROVE  \E i \in 1 .. Len(s) : t[j] = s[i]
    BY <2>1, <2>2
  <2>5. ASSUME \A i, j \in 1 .. Len(s) : s[i] = s[j] => i = j,
               NEW i \in 1 .. Len(t), NEW j \in 1 .. Len(t), t[i] = t[j]
        PROVE  i = j
    BY <2>1, <2>2, <2>5
  <2>6. ASSUME \A i, j \in 1 .. Len(s) : s[i] = s[j] => i = j,
               NEW i \in 1 .. Len(t)
        PROVE  t[i] # e
    BY <2>1, <2>2, <2>6
  <2>. QED
    BY <2>1, <2>3, <2>4, <2>5, <2>6 DEF t
<1>. QED
  BY <1>1, <1>2

\* A set of positions has a greatest one, so Max chooses one.
LEMMA MaxOfPositions ==
    ASSUME NEW n \in Nat, NEW S \in SUBSET (1 .. n), S # {}
    PROVE  Max(S) \in S
<1>. DEFINE T == {n - x : x \in S}
            R == {p \in Nat \X Nat : p[1] < p[2]}
<1>1. T \in SUBSET Nat /\ T # {}
  <2>1. \A x \in S : n - x \in Nat
    OBVIOUS
  <2>2. PICK x \in S : TRUE
    OBVIOUS
  <2>. QED
    BY <2>1, <2>2
<1>. HIDE DEF T
<1>2. PICK t \in T : \A y \in T : ~(<<y, t>> \in R)
  BY <1>1, NatLessThanWellFounded, WFMin, Zenon DEF OpToRel
<1>3. \A y \in T : ~(y < t)
  BY <1>1, <1>2
<1>4. PICK x \in S : t = n - x
  BY DEF T
<1>5. \A y \in S : ~(n - y < n - x)
  BY <1>3, <1>4 DEF T
<1>6. \A y \in S : x >= y
  BY <1>5
<1>. QED
  BY <1>6 DEF Max

\* A sequence is one over the set of its elements.
LEMMA SeqOfItsSet ==
    ASSUME NEW S, NEW s \in Seq(S)
    PROVE  s \in Seq(ToSet(s))
<1>1. Len(s) \in Nat /\ s \in [1 .. Len(s) -> S] /\ DOMAIN s = 1 .. Len(s)
  BY LenProperties
<1>2. s \in [1 .. Len(s) -> ToSet(s)]
  BY <1>1 DEF ToSet
<1>. QED
  BY <1>1, <1>2, SeqDef

\* Nothing occurs twice in s.
Once(s) == \A i, j \in DOMAIN s : s[i] = s[j] => i = j

\* What occurs once at most occurs once if it occurs.
LEMMA OnceCounts ==
    ASSUME NEW s, Once(s), NEW x
    PROVE  Cardinality({i \in DOMAIN s : s[i] = x}) = IF x \in ToSet(s) THEN 1 ELSE 0
<1>1. CASE x \in ToSet(s)
  <2>1. PICK i \in DOMAIN s : s[i] = x
    BY <1>1 DEF ToSet
  <2>2. {j \in DOMAIN s : s[j] = x} = {i}
    BY <2>1 DEF Once
  <2>. QED
    BY <1>1, <2>2, FS_Singleton
<1>2. CASE x \notin ToSet(s)
  <2>1. {j \in DOMAIN s : s[j] = x} = {}
    BY <1>2 DEF ToSet
  <2>. QED
    BY <1>2, <2>1, FS_EmptySet
<1>. QED
  BY <1>1, <1>2

\* A new element at the end.
LEMMA AppendOnce ==
    ASSUME NEW S, NEW s \in Seq(S), Once(s), NEW x \in S, x \notin ToSet(s)
    PROVE  /\ Append(s, x) \in Seq(S) /\ Once(Append(s, x))
           /\ ToSet(Append(s, x)) = ToSet(s) \cup {x}
<1>. DEFINE t == Append(s, x)
<1>1. /\ t \in Seq(S) /\ Len(t) = Len(s) + 1
      /\ \A i \in 1 .. Len(s) : t[i] = s[i]
      /\ t[Len(s) + 1] = x
  BY AppendProperties
<1>2. /\ Len(s) \in Nat /\ DOMAIN s = 1 .. Len(s) /\ DOMAIN t = 1 .. Len(s) + 1
  BY <1>1, LenProperties
<1>. HIDE DEF t
<1>3. Once(t)
  BY <1>1, <1>2 DEF Once, ToSet
<1>4. ToSet(t) = ToSet(s) \cup {x}
  <2>1. \A i \in DOMAIN t : t[i] \in ToSet(s) \cup {x}
    BY <1>1, <1>2 DEF ToSet
  <2>2. x \in ToSet(t)
    BY <1>1, <1>2 DEF ToSet
  <2>3. \A i \in DOMAIN s : s[i] \in ToSet(t)
    BY <1>1, <1>2 DEF ToSet
  <2>. QED
    BY <2>1, <2>2, <2>3 DEF ToSet
<1>. QED
  BY <1>1, <1>3, <1>4 DEF t

\* The first element taken away.
LEMMA TailOnce ==
    ASSUME NEW S, NEW s \in Seq(S), Once(s), s # <<>>
    PROVE  /\ Head(s) \in ToSet(s) /\ Tail(s) \in Seq(S) /\ Once(Tail(s))
           /\ ToSet(Tail(s)) = ToSet(s) \ {Head(s)}
<1>. DEFINE t == Tail(s)
<1>1. /\ t \in Seq(S) /\ Len(t) = Len(s) - 1
      /\ \A i \in 1 .. Len(t) : t[i] = s[i + 1]
  BY HeadTailProperties
<1>2. /\ Len(s) \in Nat \ {0} /\ DOMAIN s = 1 .. Len(s) /\ DOMAIN t = 1 .. Len(s) - 1
  BY <1>1, LenProperties, EmptySeq
<1>3. Head(s) = s[1]
  OBVIOUS
<1>. HIDE DEF t
<1>4. Once(t)
  <2>1. ASSUME NEW i \in DOMAIN t, NEW j \in DOMAIN t, t[i] = t[j] PROVE i = j
    <3>1. i + 1 = j + 1
      BY <2>1, <1>1, <1>2 DEF Once
    <3>. QED
      BY <3>1, <1>2
  <2>. QED
    BY <2>1 DEF Once
<1>5. Head(s) \in ToSet(s)
  BY <1>2, <1>3 DEF ToSet
<1>6. ASSUME NEW i \in DOMAIN t PROVE t[i] \in ToSet(s) \ {Head(s)}
  <2>1. t[i] = s[i + 1] /\ i + 1 \in DOMAIN s /\ 1 \in DOMAIN s /\ i + 1 # 1
    BY <1>1, <1>2
  <2>. QED
    BY <2>1, <1>3 DEF Once, ToSet
<1>7. ASSUME NEW i \in DOMAIN s, s[i] # Head(s) PROVE s[i] \in ToSet(t)
  <2>1. i - 1 \in DOMAIN t /\ t[i - 1] = s[(i - 1) + 1] /\ (i - 1) + 1 = i
    BY <1>1, <1>2, <1>3, <1>7
  <2>. QED
    BY <2>1 DEF ToSet
<1>8. ToSet(t) = ToSet(s) \ {Head(s)}
  BY <1>6, <1>7 DEF ToSet
<1>. QED
  BY <1>1, <1>4, <1>5, <1>8 DEF t

\* The element at position k overwritten by the last one, which is taken away:
\* the other elements are kept, those before k at their places.
LEMMA SwapRemoveOnce ==
    ASSUME NEW S, NEW s \in Seq(S), Once(s), NEW k \in 1 .. Len(s)
    PROVE  LET t == Front(ReplaceAt(s, k, Last(s))) IN
           /\ t \in Seq(S) /\ Once(t)
           /\ Len(t) = Len(s) - 1
           /\ \A i \in 1 .. k - 1 : t[i] = s[i]
           /\ ToSet(t) = ToSet(s) \ {s[k]}
<1>. DEFINE u == [s EXCEPT ![k] = s[Len(s)]]
            t == SubSeq(u, 1, Len(u) - 1)
<1>1. Len(s) \in Nat \ {0} /\ DOMAIN s = 1 .. Len(s) /\ s[Len(s)] \in S
  BY LenProperties, ElementOfSeq
<1>2. /\ u \in Seq(S) /\ Len(u) = Len(s)
      /\ \A i \in 1 .. Len(s) : u[i] = IF i = k THEN s[Len(s)] ELSE s[i]
  BY <1>1, ExceptSeq
<1>. HIDE DEF u
<1>3. /\ t \in Seq(S) /\ Len(t) = Len(s) - 1
      /\ \A i \in 1 .. Len(s) - 1 : t[i] = u[i]
  <2>1. \A i \in 1 .. Len(u) - 1 : u[i] \in S
    BY <1>1, <1>2, ElementOfSeq
  <2>2. 1 \in Int /\ Len(u) - 1 \in Int
    BY <1>1, <1>2
  <2>3. /\ t \in Seq(S)
        /\ Len(t) = IF 1 <= Len(u) - 1 THEN (Len(u) - 1) - 1 + 1 ELSE 0
        /\ \A i \in 1 .. (Len(u) - 1) - 1 + 1 : t[i] = u[1 + i - 1]
    BY <2>1, <2>2, SubSeqProperties
  <2>. HIDE DEF t
  <2>4. (Len(u) - 1) - 1 + 1 = Len(s) - 1 /\ \A i \in 1 .. Len(s) - 1 : 1 + i - 1 = i
    BY <1>1, <1>2
  <2>5. Len(t) = Len(s) - 1
    <3>. DEFINE m == Len(u) - 1
    <3>1. m \in Nat /\ m = Len(s) - 1
      BY <1>1, <1>2
    <3>2. Len(t) = IF 1 <= m THEN m - 1 + 1 ELSE 0
      BY <2>3
    <3>. HIDE DEF m
    <3>3. Len(t) = m
      BY <3>1, <3>2
    <3>. QED
      BY <3>1, <3>3
  <2>6. ASSUME NEW i \in 1 .. Len(s) - 1 PROVE t[i] = u[i]
    BY <2>3, <2>4
  <2>. QED
    BY <2>3, <2>5, <2>6
<1>. HIDE DEF t
<1>4. DOMAIN t = 1 .. Len(s) - 1
  BY <1>3, LenProperties
<1>5. \A i \in 1 .. Len(s) - 1 : t[i] = IF i = k THEN s[Len(s)] ELSE s[i]
  BY <1>1, <1>2, <1>3
<1>6. Once(t)
  <2>1. \A i, j \in 1 .. Len(s) : s[i] = s[j] => i = j
    BY <1>1 DEF Once
  <2>2. ASSUME NEW i \in 1 .. Len(s) - 1, NEW j \in 1 .. Len(s) - 1, t[i] = t[j]
        PROVE  i = j
    BY <1>1, <1>5, <2>1, <2>2
  <2>. QED
    BY <1>4, <2>2 DEF Once
<1>7. ASSUME NEW i \in 1 .. Len(s) - 1 PROVE t[i] \in ToSet(s) \ {s[k]}
  <2>1. \A m, j \in 1 .. Len(s) : s[m] = s[j] => m = j
    BY <1>1 DEF Once
  <2>2. t[i] # s[k]
    BY <1>1, <1>5, <2>1
  <2>3. t[i] \in ToSet(s)
    BY <1>1, <1>5 DEF ToSet
  <2>. QED
    BY <2>2, <2>3
<1>8. ASSUME NEW i \in 1 .. Len(s), s[i] # s[k] PROVE s[i] \in ToSet(t)
  <2>1. CASE i = Len(s)
    <3>1. k \in 1 .. Len(s) - 1 /\ t[k] = s[i]
      BY <1>1, <1>5, <1>8, <2>1
    <3>. QED
      BY <3>1, <1>4 DEF ToSet
  <2>2. CASE i # Len(s)
    <3>1. i # k
      BY <1>8
    <3>2. i \in 1 .. Len(s) - 1
      <4>1. \A n \in Nat : \A j \in 1 .. n : j # n => j \in 1 .. n - 1
        OBVIOUS
      <4>2. Len(s) \in Nat
        BY <1>1
      <4>. QED
        BY <4>1, <4>2, <2>2, Zenon
    <3>3. t[i] = s[i]
      BY <3>1, <3>2, <1>5
    <3>. QED
      BY <3>2, <3>3, <1>4 DEF ToSet
  <2>. QED
    BY <2>1, <2>2
<1>9. ToSet(t) = ToSet(s) \ {s[k]}
  BY <1>1, <1>4, <1>7, <1>8 DEF ToSet
<1>10. \A i \in 1 .. k - 1 : t[i] = s[i]
  BY <1>1, <1>5
<1>11. Front(ReplaceAt(s, k, Last(s))) = t
  BY DEF Front, ReplaceAt, Last, t, u
<1>. QED
  BY <1>3, <1>6, <1>9, <1>10, <1>11

\* A function with one more argument.
LEMMA ExtendOnce ==
    ASSUME NEW f, Once(f), NEW n, NEW x, n \notin DOMAIN f, x \notin ToSet(f)
    PROVE  LET g == [i \in DOMAIN f \cup {n} |-> IF i = n THEN x ELSE f[i]]
           IN  Once(g) /\ ToSet(g) = ToSet(f) \cup {x}
<1>. DEFINE g == [i \in DOMAIN f \cup {n} |-> IF i = n THEN x ELSE f[i]]
<1>1. DOMAIN g = DOMAIN f \cup {n} /\ g[n] = x /\ \A i \in DOMAIN f : g[i] = f[i]
  OBVIOUS
<1>. HIDE DEF g
<1>2. Once(g) /\ ToSet(g) = ToSet(f) \cup {x}
  BY <1>1 DEF Once, ToSet
<1>. QED
  BY <1>2 DEF g

\* A function with fewer arguments.
LEMMA RestrictOnce ==
    ASSUME NEW f, Once(f), NEW D
    PROVE  LET g == [i \in DOMAIN f \ D |-> f[i]]
           IN  Once(g) /\ ToSet(g) = ToSet(f) \ {f[i] : i \in D \cap DOMAIN f}
<1>. DEFINE g == [i \in DOMAIN f \ D |-> f[i]]
<1>1. DOMAIN g = DOMAIN f \ D /\ \A i \in DOMAIN f \ D : g[i] = f[i]
  OBVIOUS
<1>. HIDE DEF g
<1>2. Once(g) /\ ToSet(g) = ToSet(f) \ {f[i] : i \in D \cap DOMAIN f}
  BY <1>1 DEF Once, ToSet
<1>. QED
  BY <1>2 DEF g

-----------------------------------------------------------------------------
(* Lemmas about streams.                                                    *)

\* Delivering frames to a stream of frames leaves a stream of frames.
LEMMA DeliverType ==
    ASSUME NEW F, NEW s \in Seq(F), NEW fs \in Seq(F)
    PROVE  Deliver(s, fs) \in Seq(F)
<1>1. /\ s \o fs \in Seq(F)
      /\ Len(s \o fs) \in Nat
      /\ \A i \in 1 .. Len(s \o fs) : (s \o fs)[i] \in F
  BY ConcatProperties, LenProperties, ElementOfSeq
<1>2. CASE Len(s \o fs) <= StreamCap
  BY <1>1, <1>2 DEF Deliver
<1>3. CASE ~(Len(s \o fs) <= StreamCap)
  <2>. DEFINE t == s \o fs
  <2>1. Len(t) \in Nat /\ \A i \in 1 .. Len(t) : t[i] \in F
    BY <1>1
  <2>2. ~(Len(t) <= StreamCap)
    BY <1>3
  <2>3. Deliver(s, fs) = SubSeq(t, 1, StreamCap)
    BY <2>2 DEF Deliver
  <2>. HIDE DEF t
  <2>4. 1 \in Int /\ StreamCap \in Int /\ \A i \in 1 .. StreamCap : t[i] \in F
    BY <2>1, <2>2, StreamCapAssumption
  <2>. QED
    BY <2>3, <2>4, SubSeqProperties
<1>. QED
  BY <1>2, <1>3

\* What is left in a stream after a recv is a stream.
LEMMA AfterRecvType ==
    ASSUME NEW F, NEW s \in Seq(F), s # <<>>, NEW k \in RecvCounts(s)
    PROVE  AfterRecv(s, k) \in Seq(F)
<1>1. Len(s) \in Nat /\ \A i \in 1 .. Len(s) : s[i] \in F
  BY LenProperties, ElementOfSeq
<1>2. k \in Nat
  BY <1>1 DEF RecvCounts
<1>3. \A i \in k + 1 .. Len(s) : s[i] \in F
  BY <1>1, <1>2
<1>. QED
  BY <1>1, <1>2, <1>3, SubSeqProperties DEF AfterRecv

\* The start of a sequence of frames that fits a stream.
Fit(x) == SubSeq(x, 1, IF Len(x) < StreamCap THEN Len(x) ELSE StreamCap)

\* The start of a sequence is one; it is all of a sequence that fits.
LEMMA FitProperties ==
    ASSUME NEW F, NEW x \in Seq(F)
    PROVE  /\ Fit(x) \in Seq(F)
           /\ Len(Fit(x)) = IF Len(x) < StreamCap THEN Len(x) ELSE StreamCap
           /\ \A i \in 1 .. Len(Fit(x)) : Fit(x)[i] = x[i]
           /\ Len(x) <= StreamCap => Fit(x) = x
<1>. DEFINE n == IF Len(x) < StreamCap THEN Len(x) ELSE StreamCap
<1>1. Len(x) \in Nat /\ StreamCap \in Nat /\ \A i \in 1 .. Len(x) : x[i] \in F
  BY LenProperties, ElementOfSeq, StreamCapAssumption
<1>2. n \in Nat /\ n <= Len(x) /\ (Len(x) <= StreamCap => n = Len(x))
  BY <1>1
<1>3. Fit(x) = SubSeq(x, 1, n)
  BY DEF Fit
<1>. HIDE DEF n
<1>4. 1 \in Int /\ n \in Int /\ \A i \in 1 .. n : x[i] \in F
  BY <1>1, <1>2
<1>5. /\ SubSeq(x, 1, n) \in Seq(F)
      /\ Len(SubSeq(x, 1, n)) = IF 1 <= n THEN n - 1 + 1 ELSE 0
      /\ \A i \in 1 .. n - 1 + 1 : SubSeq(x, 1, n)[i] = x[1 + i - 1]
  BY <1>4, SubSeqProperties
<1>6. Len(SubSeq(x, 1, n)) = n /\ \A i \in 1 .. n : SubSeq(x, 1, n)[i] = x[i]
  BY <1>2, <1>5
<1>7. Len(x) <= StreamCap => SubSeq(x, 1, n) = x
  BY <1>2, SubSeqFull
<1>. QED
  BY <1>3, <1>5, <1>6, <1>7 DEF n

\* A delivery keeps what fits.
LEMMA DeliverIsFit ==
    ASSUME NEW F, NEW s \in Seq(F), NEW fs \in Seq(F)
    PROVE  Deliver(s, fs) = Fit(s \o fs)
<1>. DEFINE x == s \o fs
<1>1. x \in Seq(F)
  BY ConcatProperties
<1>2. Deliver(s, fs) = IF Len(x) <= StreamCap THEN x ELSE SubSeq(x, 1, StreamCap)
  BY DEF Deliver
<1>. HIDE DEF x
<1>3. Len(x) \in Nat /\ StreamCap \in Nat
  BY <1>1, LenProperties, StreamCapAssumption
<1>4. CASE Len(x) <= StreamCap
  BY <1>1, <1>2, <1>4, FitProperties DEF x
<1>5. CASE ~(Len(x) <= StreamCap)
  BY <1>2, <1>3, <1>5 DEF Fit, x
<1>. QED
  BY <1>4, <1>5

\* A delivery keeps what a stream holds and adds what is delivered at most;
\* delivering nothing to a stream within its bound changes nothing, and an
\* empty stream takes one frame.
LEMMA DeliverKeeps ==
    ASSUME NEW F, NEW s \in Seq(F), NEW fs \in Seq(F)
    PROVE  /\ Deliver(s, fs) \in Seq(F)
           /\ \A i \in DOMAIN Deliver(s, fs) :
                 (i \in DOMAIN s /\ Deliver(s, fs)[i] = s[i]) \/ Deliver(s, fs)[i] \in ToSet(fs)
           /\ s # <<>> => Deliver(s, fs) # <<>> /\ Deliver(s, fs)[1] = s[1]
           /\ fs = <<>> /\ Len(s) <= StreamCap => Deliver(s, fs) = s
           /\ s = <<>> /\ Len(fs) = 1 => Deliver(s, fs) = fs
<1>. DEFINE x == s \o fs
            t == Fit(x)
<1>1. Deliver(s, fs) = t
  BY DeliverIsFit
<1>2. /\ x \in Seq(F) /\ Len(x) = Len(s) + Len(fs)
      /\ \A i \in 1 .. Len(s) + Len(fs) : x[i] = IF i <= Len(s) THEN s[i] ELSE fs[i - Len(s)]
  BY ConcatProperties
<1>3. /\ fs = <<>> => x = s
      /\ s = <<>> => x = fs
  BY ConcatEmptySeq
<1>. HIDE DEF x
<1>4. /\ t \in Seq(F)
      /\ Len(t) = IF Len(x) < StreamCap THEN Len(x) ELSE StreamCap
      /\ \A i \in 1 .. Len(t) : t[i] = x[i]
      /\ Len(x) <= StreamCap => t = x
  BY <1>2, FitProperties
<1>. HIDE DEF t
<1>5. /\ Len(s) \in Nat /\ Len(fs) \in Nat /\ StreamCap \in Nat \ {0}
      /\ DOMAIN s = 1 .. Len(s) /\ DOMAIN fs = 1 .. Len(fs) /\ DOMAIN t = 1 .. Len(t)
  BY <1>4, LenProperties, StreamCapAssumption
<1>6. ASSUME NEW i \in DOMAIN t
      PROVE  (i \in DOMAIN s /\ t[i] = s[i]) \/ t[i] \in ToSet(fs)
  <2>1. i \in 1 .. Len(s) + Len(fs) /\ t[i] = x[i]
    BY <1>2, <1>4, <1>5
  <2>2. CASE i <= Len(s)
    BY <1>2, <1>5, <2>1, <2>2
  <2>3. CASE ~(i <= Len(s))
    <3>1. i - Len(s) \in DOMAIN fs
      BY <1>5, <2>1, <2>3
    <3>2. t[i] = fs[i - Len(s)]
      BY <1>2, <2>1, <2>3
    <3>. QED
      BY <3>1, <3>2 DEF ToSet
  <2>. QED
    BY <2>2, <2>3
<1>7. ASSUME s # <<>> PROVE t # <<>> /\ t[1] = s[1]
  <2>1. Len(s) # 0
    BY <1>7, EmptySeq
  <2>2. Len(t) # 0 /\ 1 \in 1 .. Len(t) /\ 1 \in 1 .. Len(s) + Len(fs) /\ 1 <= Len(s)
    BY <1>2, <1>4, <1>5, <2>1
  <2>3. t[1] = x[1] /\ x[1] = s[1]
    BY <1>2, <1>4, <2>2
  <2>. QED
    BY <1>4, <2>2, <2>3, EmptySeq
<1>8. fs = <<>> /\ Len(s) <= StreamCap => t = s
  BY <1>3, <1>4
<1>9. s = <<>> /\ Len(fs) = 1 => t = fs
  BY <1>3, <1>4, <1>5
<1>. QED
  BY <1>1, <1>4, <1>6, <1>7, <1>8, <1>9

\* What is left after a recv was behind the first frame.
LEMMA AfterRecvKeeps ==
    ASSUME NEW F, NEW s \in Seq(F), s # <<>>, NEW k \in RecvCounts(s)
    PROVE  /\ AfterRecv(s, k) \in Seq(F)
           /\ \A i \in DOMAIN AfterRecv(s, k) :
                 \E j \in DOMAIN s : j # 1 /\ AfterRecv(s, k)[i] = s[j]
           /\ Len(s) = 1 => AfterRecv(s, k) = <<>>
<1>. DEFINE t == SubSeq(s, k + 1, Len(s))
<1>1. /\ Len(s) \in Nat \ {0} /\ DOMAIN s = 1 .. Len(s)
      /\ \A i \in 1 .. Len(s) : s[i] \in F
  BY LenProperties, ElementOfSeq, EmptySeq
<1>2. k \in 1 .. Len(s)
  BY <1>1 DEF RecvCounts
<1>3. /\ t \in Seq(F)
      /\ Len(t) = IF k + 1 <= Len(s) THEN Len(s) - (k + 1) + 1 ELSE 0
      /\ \A i \in 1 .. Len(s) - (k + 1) + 1 : t[i] = s[(k + 1) + i - 1]
  <2>1. \A i \in k + 1 .. Len(s) : s[i] \in F
    BY <1>1, <1>2
  <2>2. k + 1 \in Int /\ Len(s) \in Int
    BY <1>1, <1>2
  <2>. QED
    BY <2>1, <2>2, SubSeqProperties
<1>4. t = AfterRecv(s, k)
  BY DEF AfterRecv
<1>. HIDE DEF t
<1>5. DOMAIN t = 1 .. Len(t)
  BY <1>3, LenProperties
<1>6. ASSUME NEW i \in DOMAIN t PROVE \E j \in DOMAIN s : j # 1 /\ t[i] = s[j]
  <2>1. i \in 1 .. Len(s) - (k + 1) + 1
    <3>1. CASE k + 1 <= Len(s)
      BY <1>3, <1>5, <3>1
    <3>2. CASE ~(k + 1 <= Len(s))
      BY <1>3, <1>5, <3>2
    <3>. QED
      BY <3>1, <3>2
  <2>2. (k + 1) + i - 1 \in 1 .. Len(s) /\ (k + 1) + i - 1 # 1
    BY <1>1, <1>2, <2>1
  <2>. QED
    BY <1>1, <1>3, <2>1, <2>2
<1>7. Len(s) = 1 => t = <<>>
  <2>. SUFFICES ASSUME Len(s) = 1 PROVE t = <<>>
    OBVIOUS
  <2>1. ~(k + 1 <= Len(s))
    BY <1>2
  <2>2. Len(t) = 0
    BY <1>3, <2>1
  <2>. QED
    BY <1>3, <2>2, EmptySeq
<1>. QED
  BY <1>3, <1>4, <1>6, <1>7

-----------------------------------------------------------------------------
(* Lemmas about member lists.                                               *)

\* A member list holds a client a natural number of times.
LEMMA OccurrencesType ==
    ASSUME NEW l \in Seq(Client), NEW c
    PROVE  Occurrences(l, c) \in Nat
<1>1. Len(l) \in Nat
  BY LenProperties
<1>2. IsFiniteSet(1 .. Len(l))
  BY <1>1, FS_Interval
<1>3. IsFiniteSet({i \in 1 .. Len(l) : l[i] = c})
  BY <1>2, FS_Subset
<1>. QED
  BY <1>3, FS_CardinalityType DEF Occurrences

\* Copies of a frame form a stream of frames.
LEMMA CopiesType ==
    ASSUME NEW F, NEW f \in F, NEW n \in Nat
    PROVE  Copies(f, n) \in Seq(F)
  BY DEF Copies

=============================================================================
