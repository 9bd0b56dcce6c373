----------------------------- MODULE ListLemmas -----------------------------
(***************************************************************************)
(* Facts about lists that the proofs about the code's programs of requests *)
(* need: induction over a range of numbers by the least counterexample,    *)
(* the items of a concatenation, and what FlattenSeq of the community      *)
(* modules returns for a list of lists.                                    *)
(***************************************************************************)
EXTENDS Integers, SequencesExt, TLAPS, SequenceTheorems, WellFoundedInduction

(* A set of numbers that is not empty has a least one.                      *)
LEMMA LeastNat ==
    ASSUME NEW T, T \subseteq Nat, T # {}
    PROVE  \E k \in T : \A j \in T : k <= j
  <1> DEFINE Less == OpToRel(<, Nat)
  <1>1. PICK k \in T : \A j \in T : ~ (<<j, k>> \in Less)
    <2>1. IsWellFoundedOn(Less, Nat)
      BY NatLessThanWellFounded
    <2> HIDE DEF Less
    <2>2. QED
      BY <2>1, WFMin
  <1>2. ASSUME NEW j \in T PROVE k <= j
    <2>1. j \in Nat /\ k \in Nat
      OBVIOUS
    <2>2. ~ (j < k)
      BY <1>1, <2>1, Zenon DEF OpToRel
    <2>3. QED
      BY <2>1, <2>2
  <1>3. QED
    BY <1>2

(* A set that holds 1 and with every number the next one up to n.           *)
LEMMA Induction ==
    ASSUME NEW n \in Nat, NEW Good,
           1 \in Good, \A k \in 1 .. n : k \in Good /\ k + 1 \in 1 .. n => k + 1 \in Good
    PROVE  1 .. n \subseteq Good
  <1> DEFINE T == 1 .. n \ Good
  <1>1. SUFFICES ASSUME T # {} PROVE FALSE
    OBVIOUS
  <1>2. PICK k \in T : \A j \in T : k <= j
    <2>1. T \subseteq Nat
      OBVIOUS
    <2> HIDE DEF T
    <2>2. QED
      BY <1>1, <2>1, LeastNat
  <1>3. k - 1 \in 1 .. n /\ k - 1 \notin T /\ (k - 1) + 1 = k
    BY <1>2
  <1>4. QED
    BY <1>3

-----------------------------------------------------------------------------
(* What stands in a list.                                                   *)
Items(s) == {s[i] : i \in 1 .. Len(s)}

LEMMA ItemsConcat ==
    ASSUME NEW S, NEW s \in Seq(S), NEW t \in Seq(S)
    PROVE  Items(s \o t) = Items(s) \cup Items(t)
  <1>1. /\ s \o t \in Seq(S)
        /\ Len(s \o t) = Len(s) + Len(t)
        /\ \A i \in 1 .. Len(s) + Len(t) : (s \o t)[i] = IF i <= Len(s) THEN s[i] ELSE t[i - Len(s)]
    BY ConcatProperties
  <1>2. Len(s) \in Nat /\ Len(t) \in Nat
    OBVIOUS
  <1>3. ASSUME NEW x \in Items(s \o t) PROVE x \in Items(s) \cup Items(t)
    BY <1>1, <1>2, <1>3 DEF Items
  <1>4. ASSUME NEW x \in Items(s) PROVE x \in Items(s \o t)
    BY <1>1, <1>2, <1>4 DEF Items
  <1>5. ASSUME NEW x \in Items(t) PROVE x \in Items(s \o t)
    <2>1. PICK i \in 1 .. Len(t) : x = t[i]
      BY <1>5 DEF Items
    <2>2. /\ i + Len(s) \in 1 .. Len(s) + Len(t)
          /\ (s \o t)[i + Len(s)] = t[i]
      BY <1>1, <1>2
    <2>3. QED
      BY <1>1, <2>1, <2>2 DEF Items
  <1>6. QED
    BY <1>3, <1>4, <1>5

LEMMA ItemsTail ==
    ASSUME NEW S, NEW s \in Seq(S), s # <<>>
    PROVE  Items(s) = {Head(s)} \cup Items(Tail(s))
  <1>1. /\ Head(s) = s[1]
        /\ Len(Tail(s)) = Len(s) - 1
        /\ \A i \in 1 .. Len(s) - 1 : Tail(s)[i] = s[i + 1]
        /\ Len(s) \in Nat /\ Len(s) >= 1
    BY HeadTailProperties
  <1>2. ASSUME NEW i \in 1 .. Len(s), i # 1
        PROVE  s[i] = Tail(s)[i - 1] /\ i - 1 \in 1 .. Len(Tail(s))
    BY <1>1, <1>2
  <1>3. ASSUME NEW i \in 1 .. Len(Tail(s))
        PROVE  Tail(s)[i] = s[i + 1] /\ i + 1 \in 1 .. Len(s)
    BY <1>1
  <1>4. 1 \in 1 .. Len(s)
    BY <1>1
  <1>5. ASSUME NEW x \in Items(s) PROVE x \in {Head(s)} \cup Items(Tail(s))
    BY <1>1, <1>2, ZenonT(30) DEF Items
  <1>6. ASSUME NEW x \in {Head(s)} \cup Items(Tail(s)) PROVE x \in Items(s)
    BY <1>1, <1>3, <1>4, ZenonT(30) DEF Items
  <1>7. QED
    BY <1>5, <1>6

LEMMA ItemsShort ==
    ASSUME NEW x, NEW y
    PROVE  /\ Items(<<>>) = {} /\ Items(<<x>>) = {x}
           /\ Items(<<x, y>>) = {x, y}
  BY DEF Items

-----------------------------------------------------------------------------
(* g is the list of the beginnings of seqs, each joined to one sequence:    *)
(* the function by which FlattenSeq is defined.                             *)
Unfolds(seqs, g) == g = [i \in 1 .. Len(seqs) |-> IF i = 1 THEN seqs[i] ELSE g[i - 1] \o seqs[i]]

(* There is such a function, by induction over its domain.                  *)
LEMMA PrefixesExist ==
    ASSUME NEW S, NEW seqs \in Seq(Seq(S)), seqs # <<>>
    PROVE  \E g : Unfolds(seqs, g)
  <1> DEFINE n == Len(seqs)
             Upto(k) == \E g : g = [i \in 1 .. k |-> IF i = 1 THEN seqs[i] ELSE g[i - 1] \o seqs[i]]
             Good == {k \in 1 .. n : Upto(k)}
  <1>1. n \in Nat /\ n >= 1
    OBVIOUS
  <1>2. Upto(1)
    <2> DEFINE g == [i \in 1 .. 1 |-> seqs[i]]
    <2>1. \A i \in 1 .. 1 : i = 1
      OBVIOUS
    <2>2. g = [i \in 1 .. 1 |-> IF i = 1 THEN seqs[i] ELSE g[i - 1] \o seqs[i]]
      BY <2>1, Zenon
    <2> HIDE DEF g
    <2>3. QED
      BY <2>2
  <1>3. ASSUME NEW k \in 1 .. n, Upto(k), k + 1 \in 1 .. n
        PROVE  Upto(k + 1)
    <2>1. PICK g : g = [i \in 1 .. k |-> IF i = 1 THEN seqs[i] ELSE g[i - 1] \o seqs[i]]
      BY <1>3
    <2> DEFINE h == [i \in 1 .. k + 1 |-> IF i = k + 1 THEN g[k] \o seqs[k + 1] ELSE g[i]]
    <2>2. ASSUME NEW i \in 1 .. k + 1
          PROVE  h[i] = IF i = 1 THEN seqs[i] ELSE h[i - 1] \o seqs[i]
      <3>1. CASE i = k + 1
        <4>1. k \in 1 .. k + 1 /\ k # k + 1 /\ k + 1 # 1 /\ i - 1 = k
          BY <1>1, <3>1
        <4>2. h[k] = g[k]
          BY <4>1
        <4>3. h[i] = g[k] \o seqs[i]
          BY <3>1
        <4>4. i # 1
          BY <3>1, <4>1
        <4>5. QED
          BY <4>1, <4>2, <4>3, <4>4
      <3>2. CASE i # k + 1
        <4>1. i \in 1 .. k
          BY <3>2
        <4>2. h[i] = g[i]
          BY <3>2
        <4>3. g[i] = IF i = 1 THEN seqs[i] ELSE g[i - 1] \o seqs[i]
          BY <4>1, <2>1
        <4>4. CASE i = 1
          BY <4>2, <4>3, <4>4
        <4>5. CASE i # 1
          <5>1. i - 1 \in 1 .. k + 1 /\ i - 1 # k + 1
            BY <4>1, <4>5
          <5>2. h[i - 1] = g[i - 1]
            BY <5>1
          <5>3. QED
            BY <4>2, <4>3, <4>5, <5>2
        <4>6. QED
          BY <4>4, <4>5
      <3>3. QED
        BY <3>1, <3>2
    <2>3. h = [i \in 1 .. k + 1 |-> IF i = 1 THEN seqs[i] ELSE h[i - 1] \o seqs[i]]
      <3> HIDE DEF h
      <3>1. h = [i \in 1 .. k + 1 |-> h[i]]
        BY DEF h
      <3>2. QED
        BY <2>2, <3>1
    <2> HIDE DEF h
    <2>4. QED
      BY <2>3
  <1> HIDE DEF Upto
  <1>4. 1 .. n \subseteq Good
    <2>1. 1 \in Good
      BY <1>1, <1>2
    <2>2. \A k \in 1 .. n : k \in Good /\ k + 1 \in 1 .. n => k + 1 \in Good
      BY <1>3
    <2> HIDE DEF Good
    <2>3. QED
      BY <1>1, <2>1, <2>2, Induction
  <1>5. Upto(n)
    BY <1>1, <1>4
  <1>6. QED
    BY <1>5 DEF Upto, Unfolds

LEMMA PrefixStages ==
    ASSUME NEW S, NEW seqs \in Seq(Seq(S)), seqs # <<>>, NEW g, Unfolds(seqs, g)
    PROVE  \A n \in 1 .. Len(seqs) :
              g[n] \in Seq(S) /\ Items(g[n]) = UNION {Items(seqs[i]) : i \in 1 .. n}
  <1> DEFINE P(k) == /\ g[k] \in Seq(S)
                     /\ Items(g[k]) = UNION {Items(seqs[i]) : i \in 1 .. k}
             Good == {k \in 1 .. Len(seqs) : P(k)}
  <1>1. Len(seqs) \in Nat /\ Len(seqs) >= 1 /\ \A i \in 1 .. Len(seqs) : seqs[i] \in Seq(S)
    OBVIOUS
  <1>2. P(1)
    <2>1. g[1] = seqs[1]
      BY <1>1 DEF Unfolds
    <2>2. \A i \in 1 .. 1 : i = 1
      OBVIOUS
    <2>3. QED
      BY <1>1, <2>1, <2>2
  <1>3. ASSUME NEW k \in 1 .. Len(seqs), P(k), k + 1 \in 1 .. Len(seqs)
        PROVE  P(k + 1)
    <2>1. g[k + 1] = g[k] \o seqs[k + 1]
      <3>1. k + 1 # 1 /\ (k + 1) - 1 = k
        OBVIOUS
      <3>2. QED
        BY <1>3, <3>1, Zenon DEF Unfolds
    <2>2. seqs[k + 1] \in Seq(S)
      BY <1>1, <1>3
    <2>3. g[k + 1] \in Seq(S) /\ Items(g[k + 1]) = Items(g[k]) \cup Items(seqs[k + 1])
      BY <1>3, <2>1, <2>2, ItemsConcat
    <2>4. 1 .. k + 1 = 1 .. k \cup {k + 1}
      OBVIOUS
    <2>5. QED
      BY <1>3, <2>3, <2>4
  <1> HIDE DEF P
  <1>4. 1 .. Len(seqs) \subseteq Good
    <2>1. 1 \in Good
      BY <1>1, <1>2
    <2>2. \A k \in 1 .. Len(seqs) : k \in Good /\ k + 1 \in 1 .. Len(seqs) => k + 1 \in Good
      BY <1>3
    <2> HIDE DEF Good
    <2>3. QED
      BY <1>1, <2>1, <2>2, Induction
  <1>5. \A n \in 1 .. Len(seqs) : P(n)
    BY <1>4
  <1>6. QED
    BY <1>5 DEF P

(* FlattenSeq is the last of these beginnings.                              *)
LEMMA FlattenUnfolds ==
    ASSUME NEW S, NEW seqs \in Seq(Seq(S)), seqs # <<>>
    PROVE  \E g : /\ Unfolds(seqs, g) /\ FlattenSeq(seqs) = g[Len(seqs)]
                  /\ \A n \in 1 .. Len(seqs) :
                        g[n] \in Seq(S) /\ Items(g[n]) = UNION {Items(seqs[i]) : i \in 1 .. n}
  <1> DEFINE g == CHOOSE f : Unfolds(seqs, f)
  <1>1. Unfolds(seqs, g)
    BY PrefixesExist
  <1>2. FlattenSeq(seqs) = g[Len(seqs)]
    <2>1. Len(seqs) # 0
      OBVIOUS
    <2>2. QED
      BY <2>1 DEF FlattenSeq, Unfolds
  <1> HIDE DEF g
  <1>3. \A n \in 1 .. Len(seqs) :
           g[n] \in Seq(S) /\ Items(g[n]) = UNION {Items(seqs[i]) : i \in 1 .. n}
    BY <1>1, PrefixStages, ZenonT(30)
  <1>4. QED
    BY <1>1, <1>2, <1>3

LEMMA FlattenStages ==
    ASSUME NEW S, NEW seqs \in Seq(Seq(S))
    PROVE  /\ FlattenSeq(seqs) \in Seq(S)
           /\ Items(FlattenSeq(seqs)) = UNION {Items(seqs[i]) : i \in 1 .. Len(seqs)}
  <1>1. CASE seqs = <<>>
    <2>1. FlattenSeq(seqs) = <<>>
      BY <1>1 DEF FlattenSeq
    <2>2. FlattenSeq(seqs) \in Seq(S)
      BY <2>1, EmptySeq
    <2>3. 1 .. Len(seqs) = {}
      BY <1>1
    <2>4. Items(<<>>) = {}
      BY DEF Items
    <2>5. QED
      BY <2>1, <2>2, <2>3, <2>4
  <1>2. CASE seqs # <<>>
    <2>1. PICK g : /\ FlattenSeq(seqs) = g[Len(seqs)]
                   /\ \A n \in 1 .. Len(seqs) :
                         g[n] \in Seq(S) /\ Items(g[n]) = UNION {Items(seqs[i]) : i \in 1 .. n}
      BY <1>2, FlattenUnfolds, ZenonT(30)
    <2>2. Len(seqs) \in 1 .. Len(seqs)
      BY <1>2
    <2>3. QED
      BY <2>1, <2>2
  <1>3. QED
    BY <1>1, <1>2

-----------------------------------------------------------------------------

(* No item stands in the list twice.                                        *)
Uniq(s) == \A i, j \in 1 .. Len(s) : s[i] = s[j] => i = j

LEMMA UniqConcat ==
    ASSUME NEW S, NEW s \in Seq(S), NEW t \in Seq(S), Uniq(s), Uniq(t), Items(s) \cap Items(t) = {}
    PROVE  Uniq(s \o t)
  <1>1. /\ Len(s \o t) = Len(s) + Len(t)
        /\ \A i \in 1 .. Len(s) + Len(t) : (s \o t)[i] = IF i <= Len(s) THEN s[i] ELSE t[i - Len(s)]
        /\ Len(s) \in Nat /\ Len(t) \in Nat
    BY ConcatProperties
  <1>2. SUFFICES ASSUME NEW i \in 1 .. Len(s) + Len(t), NEW j \in 1 .. Len(s) + Len(t), (s \o t)[i] = (s \o t)[j]
                 PROVE  i = j
    BY <1>1, Zenon DEF Uniq
  <1>3. ASSUME NEW k \in 1 .. Len(s), NEW l \in 1 .. Len(t) PROVE s[k] # t[l]
    BY Zenon DEF Items
  <1>4. CASE i <= Len(s) /\ j <= Len(s)
    BY <1>1, <1>2, <1>4 DEF Uniq
  <1>5. CASE ~ (i <= Len(s)) /\ ~ (j <= Len(s))
    <2>1. i - Len(s) \in 1 .. Len(t) /\ j - Len(s) \in 1 .. Len(t) /\ t[i - Len(s)] = t[j - Len(s)]
      BY <1>1, <1>2, <1>5
    <2>2. i - Len(s) = j - Len(s)
      BY <2>1, Zenon DEF Uniq
    <2>3. QED
      BY <1>1, <2>2
  <1>6. CASE i <= Len(s) /\ ~ (j <= Len(s))
    <2>1. i \in 1 .. Len(s) /\ j - Len(s) \in 1 .. Len(t) /\ s[i] = t[j - Len(s)]
      BY <1>1, <1>2, <1>6
    <2>2. QED
      BY <1>3, <2>1
  <1>7. CASE ~ (i <= Len(s)) /\ j <= Len(s)
    <2>1. j \in 1 .. Len(s) /\ i - Len(s) \in 1 .. Len(t) /\ s[j] = t[i - Len(s)]
      BY <1>1, <1>2, <1>7
    <2>2. QED
      BY <1>3, <2>1
  <1>8. QED
    BY <1>4, <1>5, <1>6, <1>7

=============================================================================
