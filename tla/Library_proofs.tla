---------------------------- MODULE Library_proofs ----------------------------
(***************************************************************************)
(* What the proofs need of the library's recursions: sums over finite      *)
(* sets, for the bytes in the message queue, the movers and the exercises, *)
(* and sequences joined by FlattenSeq, for the command lines of the shells *)
(* and the files of the conversion.                                        *)
(***************************************************************************)
EXTENDS Integers, SequencesExt, SequenceTheorems, WellFoundedInduction,
        FiniteSetTheorems, TLAPS

(* Sums.  The library defines one by recursion over subsets: what it is    *)
(* for a set follows by looking at a smallest subset for which it would be *)
(* something else.                                                         *)

Pick(s) == CHOOSE x \in s : TRUE
Value(f, s, total) == IF s = {} THEN 0 ELSE f[Pick(s)] + total[s \ {Pick(s)}]
IsSum(f, D, total) == total = [s \in SUBSET D |-> Value(f, s, total)]
SumOf(f, D) == CHOOSE total : IsSum(f, D, total)

LEMMA SumIs == ASSUME NEW f, NEW D PROVE SumFunctionOnSet(f, D) = SumOf(f, D)[D]
<1> DEFINE Sum == CHOOSE iter : iter = [s \in SUBSET D |->
              IF s = {} THEN 0
              ELSE f[CHOOSE x \in s : TRUE] + iter[s \ {CHOOSE x \in s : TRUE}]]
<1>1. SumFunctionOnSet(f, D) = Sum[D]
  BY DEF SumFunctionOnSet, FoldFunctionOnSet, MapThenFoldSet
<1>2. Sum = SumOf(f, D)
  BY DEF SumOf, IsSum, Value, Pick
<1> QED
  BY <1>1, <1>2

LEMMA MinimalSet ==
  ASSUME NEW D, IsFiniteSet(D), NEW B, B \subseteq SUBSET D, B # {}
  PROVE  \E s \in B : \A t \in B : t \subseteq s => t = s
<1>1. B \subseteq FiniteSubsetsOf(D)
  BY FS_Subset DEF FiniteSubsetsOf
<1>2. PICK s \in B : \A t \in B : ~(<<t, s>> \in StrictSubsetOrdering(D))
  BY <1>1, FS_StrictSubsetOrderingWellFounded, WFMin
<1>3. ASSUME NEW t \in B, t \subseteq s, t # s
      PROVE  FALSE
  BY <1>2, <1>3 DEF StrictSubsetOrdering
<1> QED
  BY <1>3

LEMMA Picked == ASSUME NEW s, s # {} PROVE Pick(s) \in s /\ s \ {Pick(s)} # s
BY DEF Pick

\* Two functions that sum up agree where both are defined.
LEMMA OneSum ==
  ASSUME NEW f, NEW D, NEW E, NEW a, NEW b, IsSum(f, D, a), IsSum(f, E, b),
         NEW u, u \subseteq D, u \subseteq E, IsFiniteSet(u)
  PROVE  a[u] = b[u]
<1> DEFINE B == {s \in SUBSET u : a[s] # b[s]}
<1>1. \A s \in SUBSET u : a[s] = Value(f, s, a) /\ b[s] = Value(f, s, b)
  BY DEF IsSum
<1>2. B = {}
  <2> SUFFICES ASSUME B # {} PROVE FALSE
    OBVIOUS
  <2>1. PICK s \in B : \A t \in B : t \subseteq s => t = s
    <3>1. B \subseteq SUBSET u
      OBVIOUS
    <3> HIDE DEF B
    <3> QED
      BY <3>1, MinimalSet
  <2>2. s # {}
    BY <1>1, <2>1 DEF Value
  <2>3. s \ {Pick(s)} \in SUBSET u /\ s \ {Pick(s)} # s
    BY <2>1, <2>2, Picked
  <2>4. a[s \ {Pick(s)}] = b[s \ {Pick(s)}]
    BY <2>1, <2>3
  <2>5. a[s] = b[s]
    BY <1>1, <2>1, <2>4 DEF Value
  <2> QED
    BY <2>1, <2>5
<1> QED
  BY <1>2

\* There is a function that sums up, for every finite set.
LEMMA SumExists ==
  ASSUME NEW f, NEW D, IsFiniteSet(D)
  PROVE  IsSum(f, D, SumOf(f, D))
<1> DEFINE B == {s \in SUBSET D : ~(\E total : IsSum(f, s, total))}
<1>1. B = {}
  <2> SUFFICES ASSUME B # {} PROVE FALSE
    OBVIOUS
  <2>1. PICK s \in B : \A t \in B : t \subseteq s => t = s
    <3>1. B \subseteq SUBSET D
      OBVIOUS
    <3> HIDE DEF B
    <3> QED
      BY <3>1, MinimalSet
  <2>2. \A t \in SUBSET s : t # s => IsSum(f, t, SumOf(f, t))
    BY <2>1 DEF SumOf
  <2> DEFINE h == [t \in SUBSET s |->
                     IF t = s THEN IF s = {} THEN 0
                                   ELSE f[Pick(s)] + SumOf(f, s \ {Pick(s)})[s \ {Pick(s)}]
                     ELSE SumOf(f, t)[t]]
  <2>3. ASSUME NEW t \in SUBSET s
        PROVE  h[t] = Value(f, t, h)
    <3>1. CASE t = {}
      <4>1. CASE s = {}
        BY <3>1, <4>1 DEF Value
      <4>2. CASE s # {}
        BY <2>2, <3>1, <4>2 DEF Value, IsSum
      <4> QED
        BY <4>1, <4>2
    <3>2. CASE t # {}
      <4> DEFINE r == t \ {Pick(t)}
      <4>1. r \subseteq t /\ r # t /\ r \in SUBSET s /\ r # s
        BY <3>2, Picked
      <4>2. h[r] = SumOf(f, r)[r]
        BY <4>1
      <4>3. CASE t = s
        BY <3>2, <4>2, <4>3 DEF Value
      <4>4. CASE t # s
        <5>1. h[t] = SumOf(f, t)[t]
          BY <4>4
        <5>2. IsSum(f, t, SumOf(f, t)) /\ IsSum(f, r, SumOf(f, r))
          BY <2>2, <4>1, <4>4
        <5>3. SumOf(f, t)[t] = f[Pick(t)] + SumOf(f, t)[r]
          BY <3>2, <5>2 DEF IsSum, Value
        <5>4. IsFiniteSet(r)
          BY <2>1, <4>1, FS_Subset
        <5>5. SumOf(f, t)[r] = SumOf(f, r)[r]
          BY <4>1, <5>2, <5>4, OneSum
        <5> HIDE DEF h
        <5> QED
          BY <3>2, <4>2, <5>1, <5>3, <5>5 DEF Value
      <4> QED
        BY <4>3, <4>4
    <3> QED
      BY <3>1, <3>2
  <2>4. h = [t \in SUBSET s |-> h[t]]
    OBVIOUS
  <2> HIDE DEF h
  <2>5. IsSum(f, s, h)
    BY <2>3, <2>4 DEF IsSum
  <2> QED
    BY <2>1, <2>5
<1>2. \E total : IsSum(f, D, total)
  BY <1>1
<1> QED
  BY <1>2 DEF SumOf

LEMMA SumPicks ==
  ASSUME NEW f, NEW s, IsFiniteSet(s)
  PROVE  SumFunctionOnSet(f, s) =
           IF s = {} THEN 0
           ELSE f[Pick(s)] + SumFunctionOnSet(f, s \ {Pick(s)})
<1>1. SumFunctionOnSet(f, s) = Value(f, s, SumOf(f, s))
  <2>1. IsSum(f, s, SumOf(f, s)) /\ s \in SUBSET s
    BY SumExists
  <2> QED
    BY <2>1, SumIs DEF IsSum
<1>2. CASE s # {}
  <2>1. IsFiniteSet(s \ {Pick(s)})
    BY FS_Subset
  <2>2. SumOf(f, s)[s \ {Pick(s)}] = SumOf(f, s \ {Pick(s)})[s \ {Pick(s)}]
    BY <2>1, SumExists, OneSum
  <2> QED
    BY <1>1, <1>2, <2>2, SumIs DEF Value
<1> QED
  BY <1>1, <1>2 DEF Value

LEMMA SumIsInt ==
  ASSUME NEW f, NEW D, IsFiniteSet(D), \A x \in D : f[x] \in Int
  PROVE  SumFunctionOnSet(f, D) \in Int
<1> DEFINE B == {s \in SUBSET D : SumFunctionOnSet(f, s) \notin Int}
<1>1. B = {}
  <2> SUFFICES ASSUME B # {} PROVE FALSE
    OBVIOUS
  <2>1. PICK s \in B : \A t \in B : t \subseteq s => t = s
    <3>1. B \subseteq SUBSET D
      OBVIOUS
    <3> HIDE DEF B
    <3> QED
      BY <3>1, MinimalSet
  <2>2. IsFiniteSet(s)
    BY <2>1, FS_Subset
  <2>3. s # {}
    <3>1. SumFunctionOnSet(f, {}) = 0
      BY FS_EmptySet, SumPicks
    <3> QED
      BY <2>1, <3>1
  <2>4. Pick(s) \in D /\ s \ {Pick(s)} \notin B
    BY <2>1, <2>3, Picked
  <2>5. SumFunctionOnSet(f, s \ {Pick(s)}) \in Int /\ f[Pick(s)] \in Int
    BY <2>1, <2>4
  <2>6. SumFunctionOnSet(f, s) = f[Pick(s)] + SumFunctionOnSet(f, s \ {Pick(s)})
    BY <2>2, <2>3, SumPicks
  <2> QED
    BY <2>1, <2>5, <2>6
<1> QED
  BY <1>1

\* Any element may be taken out of the sum.
LEMMA SumTakes ==
  ASSUME NEW f, NEW D, IsFiniteSet(D), \A x \in D : f[x] \in Int, NEW e, e \in D
  PROVE  SumFunctionOnSet(f, D) = f[e] + SumFunctionOnSet(f, D \ {e})
<1> DEFINE Sum(s) == SumFunctionOnSet(f, s)
           B == {s \in SUBSET D : \E x \in s : Sum(s) # f[x] + Sum(s \ {x})}
<1>1. \A s \in SUBSET D : IsFiniteSet(s) /\ Sum(s) \in Int
  BY FS_Subset, SumIsInt
<1>2. \A s \in SUBSET D : s # {} => Sum(s) = f[Pick(s)] + Sum(s \ {Pick(s)})
  BY <1>1, SumPicks
<1> HIDE DEF Sum
<1>3. B = {}
  <2> SUFFICES ASSUME B # {} PROVE FALSE
    OBVIOUS
  <2>1. PICK s \in B : \A t \in B : t \subseteq s => t = s
    <3>1. B \subseteq SUBSET D
      OBVIOUS
    <3> HIDE DEF B
    <3> QED
      BY <3>1, MinimalSet
  <2>2. PICK x \in s : Sum(s) # f[x] + Sum(s \ {x})
    BY <2>1
  <2> DEFINE p == Pick(s)
  <2>3. p \in s /\ Sum(s) = f[p] + Sum(s \ {p})
    BY <1>2, <2>1, <2>2, Picked
  <2> HIDE DEF p
  <2>4. x # p
    BY <2>2, <2>3
  <2>5. s \ {p} \notin B /\ s \ {x} \notin B /\ s \ {p} \in SUBSET D /\ s \ {x} \in SUBSET D
    BY <2>1, <2>2, <2>3
  <2>6. Sum(s \ {p}) = f[x] + Sum((s \ {p}) \ {x})
    BY <2>2, <2>4, <2>5
  <2>7. Sum(s \ {x}) = f[p] + Sum((s \ {x}) \ {p})
    BY <2>3, <2>4, <2>5
  <2>8. (s \ {p}) \ {x} = (s \ {x}) \ {p} /\ (s \ {p}) \ {x} \in SUBSET D
    BY <2>1
  <2>9. /\ Sum((s \ {p}) \ {x}) \in Int /\ f[x] \in Int /\ f[p] \in Int
    BY <1>1, <2>1, <2>2, <2>3, <2>8
  <2> QED
    <3> DEFINE rest == Sum((s \ {p}) \ {x})
    <3>1. Sum(s) = f[p] + (f[x] + rest)
      BY <2>3, <2>6
    <3>2. Sum(s \ {x}) = f[p] + rest
      BY <2>7, <2>8
    <3>3. Sum(s) # f[x] + (f[p] + rest)
      BY <2>2, <3>2
    <3>4. rest \in Int /\ f[x] \in Int /\ f[p] \in Int
      BY <2>9
    <3> HIDE DEF rest
    <3> QED
      BY ONLY <3>1, <3>3, <3>4
<1> QED
  BY <1>3 DEF Sum

LEMMA SumEmpty == ASSUME NEW f PROVE SumFunctionOnSet(f, {}) = 0
BY FS_EmptySet, SumPicks

LEMMA SumEqual ==
  ASSUME NEW f, NEW g, NEW D, IsFiniteSet(D), \A x \in D : f[x] = g[x] /\ f[x] \in Int
  PROVE  SumFunctionOnSet(f, D) = SumFunctionOnSet(g, D)
<1> DEFINE B == {s \in SUBSET D : SumFunctionOnSet(f, s) # SumFunctionOnSet(g, s)}
<1>1. B = {}
  <2> SUFFICES ASSUME B # {} PROVE FALSE
    OBVIOUS
  <2>1. PICK s \in B : \A t \in B : t \subseteq s => t = s
    <3>1. B \subseteq SUBSET D
      OBVIOUS
    <3> HIDE DEF B
    <3> QED
      BY <3>1, MinimalSet
  <2>2. IsFiniteSet(s)
    BY <2>1, FS_Subset
  <2>3. s # {}
    BY <2>1, <2>2, SumPicks
  <2>4. Pick(s) \in D /\ s \ {Pick(s)} \notin B
    BY <2>1, <2>3, Picked
  <2>5. SumFunctionOnSet(f, s \ {Pick(s)}) = SumFunctionOnSet(g, s \ {Pick(s)})
    BY <2>1, <2>4
  <2>6. /\ SumFunctionOnSet(f, s) = f[Pick(s)] + SumFunctionOnSet(f, s \ {Pick(s)})
        /\ SumFunctionOnSet(g, s) = g[Pick(s)] + SumFunctionOnSet(g, s \ {Pick(s)})
    BY <2>2, <2>3, SumPicks
  <2> QED
    BY <2>1, <2>4, <2>5, <2>6
<1> QED
  BY <1>1

LEMMA SumConstant ==
  ASSUME NEW f, NEW D, IsFiniteSet(D), NEW c, c \in Int, \A x \in D : f[x] = c
  PROVE  SumFunctionOnSet(f, D) = Cardinality(D) * c
<1> DEFINE B == {s \in SUBSET D : SumFunctionOnSet(f, s) # Cardinality(s) * c}
<1>1. B = {}
  <2> SUFFICES ASSUME B # {} PROVE FALSE
    OBVIOUS
  <2>1. PICK s \in B : \A t \in B : t \subseteq s => t = s
    <3>1. B \subseteq SUBSET D
      OBVIOUS
    <3> HIDE DEF B
    <3> QED
      BY <3>1, MinimalSet
  <2>2. IsFiniteSet(s)
    BY <2>1, FS_Subset
  <2>3. s # {}
    <3>1. CASE s = {}
      <4>1. SumFunctionOnSet(f, s) = 0 /\ Cardinality(s) = 0
        BY <3>1, SumEmpty, FS_EmptySet
      <4>2. 0 * c = 0
        OBVIOUS
      <4> QED
        BY <2>1, <4>1, <4>2
    <3> QED
      BY <3>1
  <2>4. Pick(s) \in D /\ Pick(s) \in s /\ s \ {Pick(s)} \notin B
    BY <2>1, <2>3, Picked
  <2>5. SumFunctionOnSet(f, s \ {Pick(s)}) = Cardinality(s \ {Pick(s)}) * c
    BY <2>1, <2>4
  <2>6. SumFunctionOnSet(f, s) = f[Pick(s)] + SumFunctionOnSet(f, s \ {Pick(s)})
    BY <2>2, <2>3, SumPicks
  <2>7. Cardinality(s) \in Nat /\ Cardinality(s \ {Pick(s)}) = Cardinality(s) - 1
    BY <2>2, <2>4, FS_RemoveElement, FS_CardinalityType
  <2>8. SumFunctionOnSet(f, s) = c + (Cardinality(s) - 1) * c
    BY <2>4, <2>5, <2>6, <2>7
  <2>9. \A k \in Nat : c + (k - 1) * c = k * c
    OBVIOUS
  <2>10. SumFunctionOnSet(f, s) = Cardinality(s) * c
    BY <2>7, <2>8, <2>9
  <2> QED
    BY <2>1, <2>10
<1> QED
  BY <1>1

LEMMA SumIsNat ==
  ASSUME NEW f, NEW D, IsFiniteSet(D), \A x \in D : f[x] \in Nat
  PROVE  SumFunctionOnSet(f, D) \in Nat
<1> DEFINE B == {s \in SUBSET D : SumFunctionOnSet(f, s) \notin Nat}
<1>1. B = {}
  <2> SUFFICES ASSUME B # {} PROVE FALSE
    OBVIOUS
  <2>1. PICK s \in B : \A t \in B : t \subseteq s => t = s
    <3>1. B \subseteq SUBSET D
      OBVIOUS
    <3> HIDE DEF B
    <3> QED
      BY <3>1, MinimalSet
  <2>2. IsFiniteSet(s)
    BY <2>1, FS_Subset
  <2>3. s # {}
    <3>1. CASE s = {}
      <4>1. SumFunctionOnSet(f, s) = 0
        BY <3>1, SumEmpty
      <4> QED
        BY <2>1, <4>1
    <3> QED
      BY <3>1
  <2>4. Pick(s) \in D /\ s \ {Pick(s)} \notin B
    BY <2>1, <2>3, Picked
  <2>5. SumFunctionOnSet(f, s \ {Pick(s)}) \in Nat /\ f[Pick(s)] \in Nat
    BY <2>1, <2>4
  <2>6. SumFunctionOnSet(f, s) = f[Pick(s)] + SumFunctionOnSet(f, s \ {Pick(s)})
    BY <2>2, <2>3, SumPicks
  <2> QED
    BY <2>1, <2>5, <2>6
<1> QED
  BY <1>1

\* One summand changes.
LEMMA SumExcept ==
  ASSUME NEW f, NEW g, NEW D, IsFiniteSet(D), NEW e, e \in D, g[e] \in Int,
         \A x \in D : f[x] \in Int, \A x \in D \ {e} : g[x] = f[x]
  PROVE  SumFunctionOnSet(g, D) = SumFunctionOnSet(f, D) - f[e] + g[e]
<1>1. IsFiniteSet(D \ {e})
  BY FS_Subset
<1>2. SumFunctionOnSet(g, D \ {e}) = SumFunctionOnSet(f, D \ {e})
  BY <1>1, SumEqual
<1>3. \A x \in D : g[x] \in Int
  OBVIOUS
<1>4. /\ SumFunctionOnSet(f, D) = f[e] + SumFunctionOnSet(f, D \ {e})
      /\ SumFunctionOnSet(g, D) = g[e] + SumFunctionOnSet(g, D \ {e})
  BY <1>3, SumTakes
<1>5. SumFunctionOnSet(f, D \ {e}) \in Int /\ f[e] \in Int
  BY <1>1, SumIsInt
<1> QED
  BY <1>2, <1>4, <1>5

Image(h, s) == {h[x] : x \in s}

\* The same summands at other places.
LEMMA SumMoved ==
  ASSUME NEW f, NEW g, NEW D, IsFiniteSet(D), NEW E, IsFiniteSet(E),
         NEW h, h \in [D -> E],
         \A x \in D : g[x] = f[h[x]] /\ g[x] \in Int,
         \A x, y \in D : h[x] = h[y] => x = y
  PROVE  SumFunctionOnSet(g, D) = SumFunctionOnSet(f, Image(h, D))
<1> DEFINE B == {s \in SUBSET D :
                   SumFunctionOnSet(g, s) # SumFunctionOnSet(f, Image(h, s))}
<1>1. B = {}
  <2> SUFFICES ASSUME B # {} PROVE FALSE
    OBVIOUS
  <2>1. PICK s \in B : \A t \in B : t \subseteq s => t = s
    <3>1. B \subseteq SUBSET D
      OBVIOUS
    <3> HIDE DEF B
    <3> QED
      BY <3>1, MinimalSet
  <2>2. IsFiniteSet(s) /\ s \subseteq D
    BY <2>1, FS_Subset
  <2>3. s # {}
    <3>1. CASE s = {}
      <4>1. Image(h, s) = {}
        BY <3>1 DEF Image
      <4>2. SumFunctionOnSet(g, s) = 0 /\ SumFunctionOnSet(f, Image(h, s)) = 0
        BY <3>1, <4>1, SumEmpty
      <4> QED
        BY <2>1, <4>2
    <3> QED
      BY <3>1
  <2> DEFINE p == Pick(s)
  <2>4. p \in s /\ s \ {p} # s
    BY <2>3, Picked
  <2> HIDE DEF p
  <2>5. SumFunctionOnSet(g, s \ {p}) = SumFunctionOnSet(f, Image(h, s \ {p}))
    BY <2>1, <2>2, <2>4
  <2>6. SumFunctionOnSet(g, s) = g[p] + SumFunctionOnSet(g, s \ {p})
    BY <2>2, <2>4, SumTakes
  <2>7. SumFunctionOnSet(f, Image(h, s))
          = f[h[p]] + SumFunctionOnSet(f, Image(h, s) \ {h[p]})
    <3>1. Image(h, s) \subseteq E
      BY <2>2 DEF Image
    <3>2. IsFiniteSet(Image(h, s))
      BY <3>1, FS_Subset
    <3>3. \A y \in Image(h, s) : f[y] \in Int
      BY <2>2 DEF Image
    <3>4. h[p] \in Image(h, s)
      BY <2>4 DEF Image
    <3> QED
      BY <3>2, <3>3, <3>4, SumTakes
  <2>8. Image(h, s) \ {h[p]} = Image(h, s \ {p})
    BY <2>2, <2>4 DEF Image
  <2>9. g[p] = f[h[p]]
    BY <2>2, <2>4
  <2>10. SumFunctionOnSet(g, s) = SumFunctionOnSet(f, Image(h, s))
    BY <2>5, <2>6, <2>7, <2>8, <2>9
  <2> QED
    BY <2>1, <2>10
<1> QED
  BY <1>1
-----------------------------------------------------------------------------
(* Joined sequences.  The library joins them by recursion over their       *)
(* number: what is joined follows by looking at the least number for which *)
(* it would be something else.                                             *)

\* A set of numbers that is not empty has a least one.
LEMMA LeastOf ==
  ASSUME NEW I, I \subseteq Nat, I # {}
  PROVE  Min(I) \in I /\ \A i \in I : Min(I) <= i
<1> DEFINE T == {1..i : i \in I}
<1>0. \A i \in I : IsFiniteSet(1..i) /\ 1..i \subseteq Nat
  BY FS_Interval
<1>1. T \subseteq FiniteSubsetsOf(Nat) /\ T # {}
  BY <1>0 DEF FiniteSubsetsOf
<1>2. PICK X \in T : \A Y \in T : ~(<<Y, X>> \in StrictSubsetOrdering(Nat))
  BY <1>1, FS_StrictSubsetOrderingWellFounded, WFMin
<1>3. PICK x \in I : X = 1..x
  OBVIOUS
<1>4. ASSUME NEW y \in I, y < x PROVE FALSE
  <2>1. x \in 1..x /\ x \notin 1..y /\ 1..y \subseteq 1..x
    BY <1>4
  <2>2. 1..y \in T /\ 1..y \subseteq Nat /\ 1..x \subseteq Nat
    OBVIOUS
  <2> QED
    BY <1>2, <1>3, <2>1, <2>2 DEF StrictSubsetOrdering
<1>5. \A y \in I : x <= y
  BY <1>4
<1> QED
  BY <1>5 DEF Min

\* What is left between two places.
LEMMA Part ==
  ASSUME NEW S, NEW a \in Seq(S), NEW m \in 1..(Len(a) + 1), NEW n \in (m - 1)..Len(a)
  PROVE  /\ SubSeq(a, m, n) \in Seq(S)
         /\ Len(SubSeq(a, m, n)) = n - m + 1
         /\ \A j \in 1..(n - m + 1) : SubSeq(a, m, n)[j] = a[m + j - 1]
<1>1. m \in Int /\ n \in Int /\ \A i \in m..n : a[i] \in S
  OBVIOUS
<1>2. (IF m <= n THEN n - m + 1 ELSE 0) = n - m + 1
  OBVIOUS
<1> QED
  BY <1>1, <1>2, SubSeqProperties

\* The library's FlattenSeq adds them up from the left.
Joins(s, f) ==
  f = [i \in 1..Len(s) |-> IF i = 1 THEN s[i] ELSE f[i - 1] \o s[i]]

LEMMA JoinExists ==
  ASSUME NEW s, Len(s) \in Nat
  PROVE  \E f : Joins(s, f)
<1> DEFINE Upto(m, f) == f = [i \in 1..m |-> IF i = 1 THEN s[i] ELSE f[i - 1] \o s[i]]
           None == {m \in Nat : ~\E f : Upto(m, f)}
<1>1. CASE None = {}
  BY <1>1 DEF Joins
<1>2. CASE None # {}
  <2>1. PICK m \in None : \A d \in None : m <= d
    BY <1>2, LeastOf
  <2>2. Upto(0, [i \in 1..0 |-> s])
    OBVIOUS
  <2>3. m - 1 \in Nat /\ m - 1 \notin None
    <3>1. m # 0
      BY <2>2
    <3> HIDE DEF None
    <3>2. None \subseteq Nat
      BY DEF None
    <3> QED
      BY <2>1, <3>1, <3>2
  <2>4. PICK f : Upto(m - 1, f)
    BY <2>3
  <2> DEFINE g == [i \in 1..m |-> IF i = 1 THEN s[i] ELSE f[i - 1] \o s[i]]
  <2>5. \A i \in 1..(m - 1) : g[i] = f[i]
    <3>1. DOMAIN f = 1..(m - 1) /\ 1..(m - 1) \subseteq 1..m
      BY <2>3, <2>4
    <3> QED
      BY <2>4, <3>1
  <2>6. g = [i \in 1..m |-> IF i = 1 THEN s[i] ELSE g[i - 1] \o s[i]]
    <3>1. \A i \in 1..m : i # 1 => i - 1 \in 1..(m - 1)
      BY <2>3
    <3>2. \A i \in 1..m : i # 1 => g[i - 1] = f[i - 1]
      BY <2>5, <3>1
    <3> QED
      BY <3>2
  <2> QED
    BY <2>1, <2>6
<1> QED
  BY <1>1, <1>2

LEMMA FlattenIs ==
  ASSUME NEW s, Len(s) \in Nat \ {0}
  PROVE  \E f : Joins(s, f) /\ FlattenSeq(s) = f[Len(s)]
<1> DEFINE g == CHOOSE f : Joins(s, f)
<1>1. Joins(s, g)
  BY JoinExists
<1>2. FlattenSeq(s) = g[Len(s)]
  BY DEF FlattenSeq, Joins
<1> QED
  BY <1>1, <1>2

\* Forms of the library's facts that need no choice of S.
Groups(S) ==
  \A a \in Seq(S) : \A b \in Seq(S) : \A c \in Seq(S) : (a \o b) \o c = a \o (b \o c)
Cancels(S) ==
  \A a \in Seq(S) : \A b \in Seq(S) : \A c \in Seq(S) : a \o b = a \o c => b = c

LEMMA Regroup == ASSUME NEW S PROVE Groups(S) /\ Cancels(S)
<1>1. Groups(S)
  BY ConcatAssociative DEF Groups
<1>2. ASSUME NEW a \in Seq(S), NEW b \in Seq(S), NEW c \in Seq(S), a \o b = a \o c
      PROVE  b = c
  <2>1. /\ Len(a) \in Nat /\ Len(b) \in Nat /\ Len(c) \in Nat
        /\ Len(a \o b) = Len(a) + Len(b) /\ Len(a \o c) = Len(a) + Len(c)
    BY ConcatProperties, LenProperties
  <2>2. Len(b) = Len(c)
    BY <1>2, <2>1
  <2>3. ASSUME NEW i \in 1..Len(b) PROVE b[i] = c[i]
    <3>1. /\ Len(a) + i \in 1..(Len(a) + Len(b)) /\ ~(Len(a) + i <= Len(a))
          /\ (Len(a) + i) - Len(a) = i
      BY <2>1
    <3>2. (a \o b)[Len(a) + i] = b[i] /\ (a \o c)[Len(a) + i] = c[i]
      BY <2>2, <3>1, ConcatProperties
    <3> QED
      BY <1>2, <3>2
  <2> QED
    BY <2>2, <2>3, SeqEqual
<1>3. Cancels(S)
  BY <1>2 DEF Cancels
<1> QED
  BY <1>1, <1>3

\* g[k] is what the first k sequences of s are, one behind the other.
IsJoin(s, S, g) ==
  /\ g \in [0..Len(s) -> Seq(S)]
  /\ g[0] = <<>>
  /\ \A k \in 1..Len(s) : g[k] = g[k - 1] \o s[k]

LEMMA JoinOf ==
  ASSUME NEW S, NEW s \in Seq(Seq(S))
  PROVE  \E g : IsJoin(s, S, g) /\ FlattenSeq(s) = g[Len(s)]
<1>0. Len(s) \in Nat /\ \A k \in 1..Len(s) : s[k] \in Seq(S)
  OBVIOUS
<1>1. CASE Len(s) = 0
  <2>1. FlattenSeq(s) = <<>>
    BY <1>1 DEF FlattenSeq
  <2>2. IsJoin(s, S, [k \in 0..0 |-> <<>>])
    BY <1>1 DEF IsJoin
  <2> QED
    BY <1>1, <2>1, <2>2
<1>2. CASE Len(s) # 0
  <2>1. PICK f : Joins(s, f) /\ FlattenSeq(s) = f[Len(s)]
    BY <1>0, <1>2, FlattenIs
  <2> DEFINE Bad == {k \in 1..Len(s) : f[k] \notin Seq(S)}
  <2>2. \A k \in 1..Len(s) : f[k] = IF k = 1 THEN s[k] ELSE f[k - 1] \o s[k]
    BY <2>1 DEF Joins
  <2>3. Bad = {}
    <3> SUFFICES ASSUME Bad # {} PROVE FALSE
      OBVIOUS
    <3>1. Bad \subseteq Nat
      BY <1>0
    <3>2. PICK k \in Bad : \A j \in Bad : k <= j
      <4> HIDE DEF Bad
      <4> QED
        BY <3>1, LeastOf
    <3>3. k # 1
      BY <1>0, <2>2, <3>2
    <3>4. k - 1 \in 1..Len(s) /\ k \in 1..Len(s) /\ k - 1 < k
      BY <1>0, <3>2, <3>3
    <3>5. f[k - 1] \in Seq(S)
      BY <3>2, <3>4
    <3>6. f[k] = f[k - 1] \o s[k]
      BY <2>2, <3>3, <3>4
    <3>7. f[k] \in Seq(S)
      BY <1>0, <3>4, <3>5, <3>6, ConcatProperties
    <3> QED
      BY <3>2, <3>7
  <2> DEFINE g == [k \in 0..Len(s) |-> IF k = 0 THEN <<>> ELSE f[k]]
  <2>4. g \in [0..Len(s) -> Seq(S)]
    BY <1>0, <2>3
  <2>5. ASSUME NEW k \in 1..Len(s) PROVE g[k] = g[k - 1] \o s[k]
    <3>1. CASE k = 1
      <4>1. g[k] = s[k] /\ g[k - 1] = <<>>
        BY <1>0, <2>2, <3>1
      <4> QED
        BY <1>0, <4>1, ConcatEmptySeq
    <3>2. CASE k # 1
      <4>1. k \in 0..Len(s) /\ k - 1 \in 0..Len(s) /\ k # 0 /\ k - 1 # 0
        BY <1>0, <3>2
      <4>2. g[k] = f[k] /\ g[k - 1] = f[k - 1]
        BY <4>1
      <4> QED
        BY <2>2, <3>2, <4>2
    <3> QED
      BY <3>1, <3>2
  <2>6. g[0] = <<>> /\ g[Len(s)] = f[Len(s)]
    BY <1>0, <1>2
  <2> HIDE DEF g
  <2>7. IsJoin(s, S, g) /\ FlattenSeq(s) = g[Len(s)]
    BY <2>1, <2>4, <2>5, <2>6 DEF IsJoin
  <2> QED
    BY <2>7
<1> QED
  BY <1>1, <1>2

\* What is left of them behind the first k.
IsRest(s, S, r) ==
  /\ r \in [0..Len(s) -> Seq(S)]
  /\ r[Len(s)] = <<>>
  /\ \A k \in 1..Len(s) : r[k - 1] = s[k] \o r[k]

LEMMA RestOf ==
  ASSUME NEW S, NEW s \in Seq(Seq(S)), NEW g, IsJoin(s, S, g)
  PROVE  \E r : /\ IsRest(s, S, r) /\ r[0] = g[Len(s)]
                /\ \A k \in 0..Len(s) : g[Len(s)] = g[k] \o r[k]
<1>0. Len(s) \in Nat /\ \A k \in 1..Len(s) : s[k] \in Seq(S)
  OBVIOUS
<1>1. \A k \in 0..Len(s) : g[k] \in Seq(S)
  BY DEF IsJoin
<1> DEFINE all == g[Len(s)]
           Bad == {n \in 0..Len(s) : ~\E r \in Seq(S) : all = g[Len(s) - n] \o r}
<1>2. Bad = {}
  <2> SUFFICES ASSUME Bad # {} PROVE FALSE
    OBVIOUS
  <2>1. Bad \subseteq Nat
    BY <1>0
  <2>2. PICK n \in Bad : \A j \in Bad : n <= j
    <3> HIDE DEF Bad
    <3> QED
      BY <2>1, LeastOf
  <2>3. n # 0
    <3>1. <<>> \in Seq(S) /\ all = all \o <<>>
      BY <1>0, <1>1, ConcatEmptySeq
    <3>2. Len(s) - 0 = Len(s)
      BY <1>0
    <3>3. 0 \notin Bad
      BY <3>1, <3>2
    <3> QED
      BY <2>2, <3>3
  <2> DEFINE k == Len(s) - n
  <2>4. n - 1 \in 0..Len(s) /\ n - 1 < n /\ k \in 0..Len(s) /\ k + 1 \in 1..Len(s)
        /\ Len(s) - (n - 1) = k + 1 /\ (k + 1) - 1 = k
    BY <1>0, <2>2, <2>3
  <2>5. \E r \in Seq(S) : all = g[k + 1] \o r
    <3>1. n - 1 \notin Bad
      <4> HIDE DEF Bad
      <4> QED
        BY <1>0, <2>1, <2>2, <2>4
    <3> QED
      BY <2>4, <3>1
  <2>5a. PICK r \in Seq(S) : all = g[k + 1] \o r
    BY <2>5
  <2>6. g[k + 1] = g[k] \o s[k + 1]
    BY <2>4 DEF IsJoin
  <2>7. g[k + 1] \o r = g[k] \o (s[k + 1] \o r)
    <3>1. g[k] \in Seq(S) /\ s[k + 1] \in Seq(S)
      BY <1>0, <1>1, <2>4
    <3>2. \A x \in Seq(S) : \A y \in Seq(S) : (x \o y) \o r = x \o (y \o r)
      BY ConcatAssociative
    <3>3. \A y \in Seq(S) : (g[k] \o y) \o r = g[k] \o (y \o r)
      BY ONLY <3>1, <3>2
    <3> QED
      BY ONLY <2>6, <3>1, <3>3
  <2>8. s[k + 1] \o r \in Seq(S)
    BY <1>0, <2>4, ConcatProperties
  <2> QED
    BY <2>2, <2>5a, <2>7, <2>8
<1>3. \A k \in 0..Len(s) : \E r \in Seq(S) : all = g[k] \o r
  <2> SUFFICES ASSUME NEW k \in 0..Len(s) PROVE \E r \in Seq(S) : all = g[k] \o r
    OBVIOUS
  <2>1. Len(s) - k \in 0..Len(s) /\ Len(s) - (Len(s) - k) = k
    BY <1>0
  <2> QED
    BY <1>2, <2>1
<1> DEFINE r == [k \in 0..Len(s) |-> CHOOSE x \in Seq(S) : all = g[k] \o x]
<1>4. \A k \in 0..Len(s) : r[k] \in Seq(S) /\ all = g[k] \o r[k]
  BY <1>3
<1> HIDE DEF r
<1>5. ASSUME NEW k \in 1..Len(s) PROVE r[k - 1] = s[k] \o r[k]
  <2>1. k \in 0..Len(s) /\ k - 1 \in 0..Len(s)
    BY <1>0
  <2>2. g[k] = g[k - 1] \o s[k]
    BY DEF IsJoin
  <2>3. g[k] \o r[k] = g[k - 1] \o (s[k] \o r[k])
    <3>1. g[k - 1] \in Seq(S) /\ s[k] \in Seq(S) /\ r[k] \in Seq(S)
      BY <1>0, <1>1, <1>4, <2>1
    <3>2. Groups(S)
      BY Regroup
    <3>3. \A z \in Seq(S) : (g[k - 1] \o s[k]) \o z = g[k - 1] \o (s[k] \o z)
      BY ONLY <3>1, <3>2 DEF Groups
    <3> QED
      BY ONLY <2>2, <3>1, <3>3
  <2>4. s[k] \o r[k] \in Seq(S)
    BY <1>0, <1>4, <2>1, ConcatProperties
  <2>5. g[k - 1] \o r[k - 1] = g[k - 1] \o (s[k] \o r[k])
    BY <1>4, <2>1, <2>3
  <2> QED
    <3>1. g[k - 1] \in Seq(S) /\ r[k - 1] \in Seq(S)
      BY <1>1, <1>4, <2>1
    <3> QED
      BY ONLY <2>4, <2>5, <3>1, Regroup DEF Cancels
<1>6. r[Len(s)] = <<>>
  <2>1. Len(s) \in 0..Len(s)
    BY <1>0
  <2> QED
    <3>1. all \in Seq(S) /\ r[Len(s)] \in Seq(S) /\ all = all \o r[Len(s)]
      BY <1>1, <1>4, <2>1
    <3>2. \A z \in Seq(S) : all = all \o z => z = <<>>
      BY <3>1, ConcatEqualIffEmpty
    <3> QED
      BY ONLY <3>1, <3>2
<1>7. r[0] = all
  <2>1. 0 \in 0..Len(s) /\ g[0] = <<>>
    BY <1>0 DEF IsJoin
  <2>2. r[0] \in Seq(S) /\ all = <<>> \o r[0]
    BY <1>4, <2>1
  <2> QED
    BY ONLY <2>2, ConcatEmptySeq
<1>8. r \in [0..Len(s) -> Seq(S)]
  BY <1>4 DEF r
<1>9. IsRest(s, S, r)
  BY <1>5, <1>6, <1>8 DEF IsRest
<1> QED
  BY <1>4, <1>7, <1>9

\* The sequences of s behind the first j, joined.
IsEnd(u, s, j) == Len(u) = Len(s) - j /\ \A n \in 1..Len(u) : u[n] = s[j + n]
LengthsAdd(s, g, j, u, t) ==
  /\ Len(g[Len(s)]) = Len(g[j]) + Len(t[Len(u)])
  /\ Len(g[j]) \in Nat /\ Len(t[Len(u)]) \in Nat

LEMMA JoinBehind ==
  ASSUME NEW S, NEW s \in Seq(Seq(S)), NEW g, IsJoin(s, S, g),
         NEW j \in 0..Len(s), NEW u \in Seq(Seq(S)), IsEnd(u, s, j),
         NEW t, IsJoin(u, S, t)
  PROVE  LengthsAdd(s, g, j, u, t)
<1>0. /\ Len(s) \in Nat /\ Len(u) \in Nat /\ j \in Nat /\ j + Len(u) = Len(s)
      /\ \A k \in 1..Len(s) : s[k] \in Seq(S)
  BY DEF IsEnd
<1>1. (\A k \in 0..Len(s) : g[k] \in Seq(S)) /\ (\A k \in 0..Len(u) : t[k] \in Seq(S))
  BY DEF IsJoin
<1> DEFINE Bad == {n \in 0..Len(u) : g[j + n] # g[j] \o t[n]}
<1>2. Bad = {}
  <2> SUFFICES ASSUME Bad # {} PROVE FALSE
    OBVIOUS
  <2>1. Bad \subseteq Nat
    <3>1. 0..Len(u) \subseteq Nat
      BY <1>0
    <3> QED
      BY ONLY <3>1
  <2>2. PICK n \in Bad : \A i \in Bad : n <= i
    <3> HIDE DEF Bad
    <3> QED
      BY <2>1, LeastOf
  <2>3. n # 0
    <3>1. t[0] = <<>> /\ j + 0 = j
      BY <1>0 DEF IsJoin
    <3>2. g[j] = g[j] \o t[0]
      BY <1>1, <3>1, ConcatEmptySeq
    <3> QED
      BY <2>2, <3>1, <3>2
  <2>4. /\ n - 1 \in 0..Len(u) /\ n \in 1..Len(u) /\ n - 1 < n
        /\ j + n \in 1..Len(s) /\ (j + n) - 1 = j + (n - 1)
        /\ j + (n - 1) \in 0..Len(s)
    <3>1. n \in Nat /\ n <= Len(u)
      BY <1>0, <2>2
    <3> QED
      BY ONLY <1>0, <2>3, <3>1
  <2>5. g[j + (n - 1)] = g[j] \o t[n - 1]
    <3>1. n - 1 \notin Bad
      <4> HIDE DEF Bad
      <4> QED
        BY <1>0, <2>1, <2>2, <2>4
    <3> QED
      BY <2>4, <3>1
  <2>6. g[j + n] = g[j + (n - 1)] \o s[j + n] /\ t[n] = t[n - 1] \o s[j + n]
    BY <2>4 DEF IsJoin, IsEnd
  <2>7. g[j + n] = g[j] \o t[n]
    <3>1. g[j] \in Seq(S) /\ t[n - 1] \in Seq(S) /\ s[j + n] \in Seq(S)
      BY <1>0, <1>1, <2>4
    <3>2. Groups(S)
      BY Regroup
    <3>3. \A z \in Seq(S) : (g[j] \o t[n - 1]) \o z = g[j] \o (t[n - 1] \o z)
      BY ONLY <3>1, <3>2 DEF Groups
    <3> QED
      BY ONLY <2>5, <2>6, <3>1, <3>3
  <2> QED
    BY <2>2, <2>7
<1> DEFINE x == g[j]
           y == t[Len(u)]
<1>3. g[Len(s)] = x \o y /\ x \in Seq(S) /\ y \in Seq(S)
  <2>1. Len(u) \in 0..Len(u)
    BY <1>0
  <2> QED
    BY <1>0, <1>1, <1>2, <2>1
<1> HIDE DEF x, y
<1>4. Len(x \o y) = Len(x) + Len(y) /\ Len(x) \in Nat /\ Len(y) \in Nat
  BY <1>3, ConcatProperties, LenProperties
<1> QED
  BY <1>3, <1>4 DEF x, y, LengthsAdd
=============================================================================
