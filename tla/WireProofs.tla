----------------------------- MODULE WireProofs -----------------------------
(***************************************************************************)
(* Proofs about Sequence and Wire, for any threads, width, offsets,        *)
(* sessions and kinds of packets: the numbers that packets carry, that     *)
(* whatever is sent can be taken apart by its lengths alone, and that the  *)
(* client makes of any answer what the server meant by it.                 *)
(***************************************************************************)
EXTENDS Wire, ListLemmas

(* The numbers: next_sequence by itself (module Sequence).                 *)

(* The counter and the states of its callers stay what they are.           *)
LEMMA TypeStep == TypeOK /\ [Next]_vars => TypeOK'
<1> SUFFICES ASSUME TypeOK, [Next]_vars PROVE TypeOK'
  OBVIOUS
<1> USE SequenceAssumption DEF TypeOK
<1>1. ASSUME NEW t \in Threads, Enter(t) PROVE TypeOK'
  BY <1>1 DEF Enter
<1>2. ASSUME NEW t \in Threads, Draw(t) PROVE TypeOK'
  BY <1>2 DEF Draw
<1>3. ASSUME NEW t \in Threads, Spin(t) PROVE TypeOK'
  BY <1>3 DEF Spin
<1>4. ASSUME NEW t \in Threads, Add(t) PROVE TypeOK'
  <2>1. (SEQUENCE + 1) % Width \in 0 .. Width - 1
    OBVIOUS
  <2> QED BY <1>4, <2>1 DEF Add
<1>5. CASE UNCHANGED vars
  BY <1>5 DEF vars
<1> QED BY <1>1, <1>2, <1>3, <1>4, <1>5 DEF Next, Step

(* The counter stays within its width.                                     *)
THEOREM TypeCorrect == Spec => []TypeOK
<1>1. Init => TypeOK
  BY SequenceAssumption DEF Init, TypeOK
<1> QED BY <1>1, TypeStep, PTL DEF Spec

(* Before the counter comes round, what has been taken is an interval.     *)
LEMMA FirstRoundStep ==
    ASSUME TypeOK, FirstRoundInv, [Next]_vars PROVE FirstRoundInv'
<1> USE SequenceAssumption DEF TypeOK, FirstRound, FirstRoundInv
<1>1. ASSUME NEW t \in Threads, Enter(t) PROVE FirstRoundInv'
  BY <1>1 DEF Enter
<1>2. ASSUME NEW t \in Threads, Draw(t) PROVE FirstRoundInv'
  <2> SUFFICES ASSUME FirstRound' PROVE FirstRoundInv'
    OBVIOUS
  <2>1. PICK offset \in Offsets : SEQUENCE' = offset /\ start' = IF start = 0 THEN offset ELSE start
    BY <1>2 DEF Draw
  <2>2. /\ pc[t] = "draw" /\ pc' = [pc EXCEPT ![t] = "add"]
        /\ taken' = taken /\ count' = count
    BY <1>2 DEF Draw
  <2>3. FirstRound /\ start = 0
    BY <2>1, <2>2
  <2>4. SEQUENCE' = start' + count' /\ start' # 0 /\ taken' = start' .. start' + count' - 1
    <3>1. start' = offset /\ offset \in Nat /\ offset # 0
      BY <2>1, <2>3
    <3>2. count' = 0 /\ taken' = {}
      BY <2>2, <2>3
    <3>3. offset .. offset + 0 - 1 = {}
      BY <3>1
    <3> QED BY <2>1, <3>1, <3>2, <3>3
  <2>5. \A u \in Threads : pc'[u] # "draw"
    BY <2>2, <2>3
  <2> QED BY <2>4, <2>5
<1>3. ASSUME NEW t \in Threads, Spin(t) PROVE FirstRoundInv'
  BY <1>3 DEF Spin
<1>4. ASSUME NEW t \in Threads, Add(t) PROVE FirstRoundInv'
  <2> SUFFICES ASSUME FirstRound' PROVE FirstRoundInv'
    OBVIOUS
  <2>1. start' = start /\ count' = count + 1 /\ pc' = [pc EXCEPT ![t] = "idle"]
    BY <1>4 DEF Add
  <2>2. FirstRound /\ start # 0
    BY <1>4, <2>1 DEF Add
  <2>3. SEQUENCE = start + count /\ start + count + 1 < Width
    BY <2>1, <2>2
  <2>4. SEQUENCE' = start + count + 1
    BY <1>4, <2>3 DEF Add
  <2>5. taken' = start .. start + count
    BY <1>4, <2>2, <2>3 DEF Add
  <2> QED BY <2>1, <2>2, <2>4, <2>5
<1>5. CASE UNCHANGED vars
  BY <1>5 DEF vars
<1> QED BY <1>1, <1>2, <1>3, <1>4, <1>5 DEF Next, Step

LEMMA FirstRoundCorrect == Spec => [](TypeOK /\ FirstRoundInv)
<1>1. Init => TypeOK /\ FirstRoundInv
  BY SequenceAssumption DEF Init, TypeOK, FirstRoundInv
<1>2. TypeOK /\ FirstRoundInv /\ [Next]_vars => (TypeOK /\ FirstRoundInv)'
  BY TypeStep, FirstRoundStep
<1> QED BY <1>1, <1>2, PTL DEF Spec

(* Until the counter comes round, callers take consecutive numbers from    *)
(* the offset on, so that no two requests share one.                       *)
THEOREM Consecutive == Spec => []NumbersConsecutive
<1>1. TypeOK /\ FirstRoundInv => NumbersConsecutive
  BY DEF TypeOK, FirstRoundInv, NumbersConsecutive
<1> QED BY FirstRoundCorrect, <1>1, PTL

(* Until the counter comes round, one thread draws the offset and the      *)
(* others wait for it.                                                     *)
THEOREM SingleInitialiser == Spec => []OneInitialiser
<1>1. TypeOK /\ FirstRoundInv => OneInitialiser
  BY DEF TypeOK, FirstRoundInv, OneInitialiser
<1> QED BY FirstRoundCorrect, <1>1, PTL

-----------------------------------------------------------------------------
(* Building packets and reading answers is, for the counter, taking        *)
(* numbers: every step of Wire is one of next_sequence or leaves the       *)
(* counter alone.                                                          *)
LEMMA WireStep == [WireNext]_wireVars => [Next]_vars
<1>1. ASSUME NEW t \in Threads, TakeNumber(t) PROVE Next
  BY <1>1 DEF TakeNumber, Next, Step
<1>2. ASSUME NEW t \in Threads, Build(t) PROVE Next
  BY <1>2 DEF Build, Next, Step
<1>3. CASE Answer
  BY <1>3 DEF Answer
<1>4. CASE UNCHANGED wireVars
  BY <1>4 DEF wireVars
<1> QED BY <1>1, <1>2, <1>3, <1>4 DEF WireNext

(* Wire draws its numbers by the actions of Sequence: by construction its  *)
(* behaviours are behaviours of Sequence, whose theorems carry over.       *)
LEMMA DrawsFromSequence == WireSpec => Spec
<1>1. WireInit => Init
  BY DEF WireInit
<1> QED BY <1>1, WireStep, PTL DEF WireSpec, Spec

(* The counter behind the packets stays within its width.                  *)
THEOREM WireTypeCorrect == WireSpec => []TypeOK
  BY DrawsFromSequence, TypeCorrect, PTL

(* Until the counter comes round, the packets that are built carry         *)
(* consecutive numbers from the offset on, no two of them the same.        *)
THEOREM PacketsNumbered == WireSpec => []NumbersConsecutive
  BY DrawsFromSequence, Consecutive, PTL

-----------------------------------------------------------------------------
(* How numbers and fields are read: the folds of Value and Read, unfolded. *)
LEMMA Greatest ==
    ASSUME NEW k \in Nat, NEW T, T \subseteq 1 .. k, T # {}
    PROVE  Max(T) \in T /\ \A j \in T : j <= Max(T)
<1> DEFINE U == {k - j : j \in T}
<1>1. U \subseteq Nat /\ U # {}
  <2>1. \A j \in T : k - j \in Nat
    OBVIOUS
  <2>2. PICK j \in T : TRUE
    OBVIOUS
  <2>3. k - j \in U
    BY <2>2
  <2> QED BY <2>1, <2>3
<1>2. PICK u \in U : \A v \in U : u <= v
  <2> HIDE DEF U
  <2> QED BY <1>1, LeastNat
<1>3. PICK m \in T : u = k - m
  BY <1>2
<1>4. \A j \in T : m >= j
  <2> TAKE j \in T
  <2>1. k - m <= k - j
    BY <1>2, <1>3
  <2> QED BY <2>1
<1>5. \E x \in T : \A y \in T : x >= y
  BY <1>4
<1>6. Max(T) \in T /\ \A y \in T : Max(T) >= y
  BY <1>5, Zenon DEF Max
<1> QED BY <1>6

(* The greatest of an interval, and what is left of it.                    *)
LEMMA GreatestOfAll == ASSUME NEW k \in Nat, k # 0 PROVE Max(1 .. k) = k /\ (1 .. k) \ {k} = 1 .. (k - 1)
<1>1. 1 .. k # {} /\ k \in 1 .. k
  OBVIOUS
<1>2. Max(1 .. k) \in 1 .. k /\ k <= Max(1 .. k)
  BY <1>1, Greatest
<1> QED BY <1>2

(* OneCell step of the folds below. *)
LEMMA ValueExists ==
    ASSUME NEW n \in Nat, NEW s
    PROVE  \E f : f = [T \in SUBSET (1 .. n) |-> IF T = {} THEN 0 ELSE f[T \ {Max(T)}] * Byte + s[Max(T)]]
<1> DEFINE Upto(k) == \E f : f = [T \in SUBSET (1 .. k) |->
                                    IF T = {} THEN 0 ELSE f[T \ {Max(T)}] * Byte + s[Max(T)]]
           Reached == {k \in 1 .. n + 1 : Upto(k - 1)}
<1>1. Upto(0)
  <2> DEFINE f == [T \in SUBSET (1 .. 0) |-> 0]
  <2>1. SUBSET (1 .. 0) = {{}}
    OBVIOUS
  <2>2. f = [T \in SUBSET (1 .. 0) |-> IF T = {} THEN 0 ELSE f[T \ {Max(T)}] * Byte + s[Max(T)]]
    BY <2>1
  <2> HIDE DEF f
  <2> QED BY <2>2
<1>2. ASSUME NEW k \in Nat, Upto(k) PROVE Upto(k + 1)
  <2>1. PICK f : f = [T \in SUBSET (1 .. k) |-> IF T = {} THEN 0 ELSE f[T \ {Max(T)}] * Byte + s[Max(T)]]
    BY <1>2
  <2> DEFINE g == [T \in SUBSET (1 .. k + 1) |->
                     IF k + 1 \in T THEN f[T \ {k + 1}] * Byte + s[k + 1] ELSE f[T]]
  <2>2. ASSUME NEW T \in SUBSET (1 .. k + 1)
        PROVE  g[T] = IF T = {} THEN 0 ELSE g[T \ {Max(T)}] * Byte + s[Max(T)]
    <3>1. CASE k + 1 \in T
      <4>1. k + 1 \in Nat /\ T # {}
        BY <3>1
      <4>2. Max(T) \in T /\ k + 1 <= Max(T)
        BY <3>1, <4>1, Greatest
      <4>3. Max(T) = k + 1
        <5>1. Max(T) \in 1 .. k + 1
          BY <4>2
        <5> QED BY <4>2, <5>1
      <4>4. g[T \ {k + 1}] = f[T \ {k + 1}]
        OBVIOUS
      <4> QED BY <3>1, <4>1, <4>3, <4>4
    <3>2. CASE k + 1 \notin T /\ T # {}
      <4>1. T \in SUBSET (1 .. k)
        BY <3>2
      <4>2. T \ {Max(T)} \in SUBSET (1 .. k + 1) /\ k + 1 \notin T \ {Max(T)}
        BY <3>2
      <4>3. f[T] = f[T \ {Max(T)}] * Byte + s[Max(T)]
        BY <2>1, <3>2, <4>1
      <4> QED BY <3>2, <4>2, <4>3
    <3>3. CASE T = {}
      <4>1. f[{}] = 0
        BY <2>1
      <4> QED BY <3>3, <4>1
    <3> QED BY <3>1, <3>2, <3>3
  <2>3. g = [T \in SUBSET (1 .. k + 1) |-> IF T = {} THEN 0 ELSE g[T \ {Max(T)}] * Byte + s[Max(T)]]
    BY <2>2
  <2> HIDE DEF g
  <2> QED BY <2>3
<1> HIDE DEF Upto
<1>3. 1 \in Reached
  BY <1>1
<1>4. \A k \in 1 .. n + 1 : k \in Reached /\ k + 1 \in 1 .. n + 1 => k + 1 \in Reached
  <2> SUFFICES ASSUME NEW k \in 1 .. n + 1, Upto(k - 1), k + 1 \in 1 .. n + 1 PROVE Upto((k + 1) - 1)
    OBVIOUS
  <2>1. k - 1 \in Nat /\ (k - 1) + 1 = (k + 1) - 1
    OBVIOUS
  <2>2. Upto((k - 1) + 1)
    BY <1>2, <2>1
  <2> QED BY <2>1, <2>2
<1>5. 1 .. n + 1 \subseteq Reached
  <2>1. n + 1 \in Nat
    OBVIOUS
  <2> HIDE DEF Reached
  <2> QED BY <1>3, <1>4, <2>1, Induction
<1>6. n + 1 \in Reached /\ (n + 1) - 1 = n
  BY <1>5
<1> QED BY <1>6 DEF Upto

(* Value goes through the cells from the first to the last. *)
LEMMA ValueFold ==
    ASSUME NEW s \in Seq(Int)
    PROVE  \E g : /\ g[0] = 0 /\ \A k \in 1 .. Len(s) : g[k] = g[k - 1] * Byte + s[k]
                 /\ Value(s) = g[Len(s)]
<1> DEFINE n == Len(s)
           Folds(f) == f = [T \in SUBSET (1 .. n) |-> IF T = {} THEN 0 ELSE f[T \ {Max(T)}] * Byte + s[Max(T)]]
           f == CHOOSE h : Folds(h)
           g == [k \in 0 .. n |-> f[1 .. k]]
<1>1. n \in Nat /\ DOMAIN s = 1 .. n
  OBVIOUS
<1>2. Folds(f)
  <2>1. \E h : Folds(h)
    BY <1>1, ValueExists
  <2> HIDE DEF Folds
  <2> QED BY <2>1, Zenon
<1>3. Value(s) = f[1 .. n]
  BY <1>1 DEF Value, FoldLeft, MapThenFoldSet
<1> HIDE DEF f
<1>4. f[{}] = 0 /\ 1 .. 0 = {}
  BY <1>2
<1>5. ASSUME NEW k \in 1 .. n PROVE f[1 .. k] = f[1 .. k - 1] * Byte + s[k]
  <2>1. k \in Nat /\ k # 0 /\ 1 .. k \in SUBSET (1 .. n) /\ 1 .. k # {}
    <3> HIDE DEF n
    <3>1. k \in 1 .. k /\ k \in Nat /\ k # 0
      BY <1>1
    <3>2. 1 .. k \subseteq 1 .. n
      BY <1>1
    <3> QED BY <3>1, <3>2
  <2>2. Max(1 .. k) = k /\ (1 .. k) \ {k} = 1 .. (k - 1)
    BY <2>1, GreatestOfAll
  <2>3. f[1 .. k] = f[(1 .. k) \ {Max(1 .. k)}] * Byte + s[Max(1 .. k)]
    BY <1>2, <2>1
  <2> QED BY <2>2, <2>3
<1>6. g[0] = 0 /\ (\A k \in 1 .. n : g[k] = g[k - 1] * Byte + s[k]) /\ Value(s) = g[n]
  BY <1>1, <1>3, <1>4, <1>5
<1> HIDE DEF g
<1> QED BY <1>6
Start(cells) == [ok |-> TRUE, fields |-> <<>>, rest |-> cells]

ReadsAlong(n, s, cells, f) ==
    f = [T \in SUBSET (1 .. n) |-> IF T = {} THEN Start(cells) ELSE ReadField(f[T \ {Max(T)}], s[Max(T)])]

(* The fold behind Read exists, by induction over its domain.              *)
LEMMA ReadExists ==
    ASSUME NEW n \in Nat, NEW s, NEW cells
    PROVE  \E f : ReadsAlong(n, s, cells, f)
<1> DEFINE Upto(k) == \E f : f = [T \in SUBSET (1 .. k) |->
                                    IF T = {} THEN Start(cells) ELSE ReadField(f[T \ {Max(T)}], s[Max(T)])]
           Reached == {k \in 1 .. n + 1 : Upto(k - 1)}
<1>1. Upto(0)
  <2> DEFINE f == [T \in SUBSET (1 .. 0) |-> Start(cells)]
  <2>1. SUBSET (1 .. 0) = {{}}
    OBVIOUS
  <2>2. f = [T \in SUBSET (1 .. 0) |-> IF T = {} THEN Start(cells) ELSE ReadField(f[T \ {Max(T)}], s[Max(T)])]
    BY <2>1
  <2> HIDE DEF f
  <2> QED BY <2>2
<1>2. ASSUME NEW k \in Nat, Upto(k) PROVE Upto(k + 1)
  <2>1. PICK f : f = [T \in SUBSET (1 .. k) |->
        IF T = {} THEN Start(cells) ELSE ReadField(f[T \ {Max(T)}], s[Max(T)])]
    BY <1>2
  <2> DEFINE g == [T \in SUBSET (1 .. k + 1) |->
                     IF k + 1 \in T THEN ReadField(f[T \ {k + 1}], s[k + 1]) ELSE f[T]]
  <2>2. ASSUME NEW T \in SUBSET (1 .. k + 1)
        PROVE  g[T] = IF T = {} THEN Start(cells) ELSE ReadField(g[T \ {Max(T)}], s[Max(T)])
    <3>1. CASE k + 1 \in T
      <4>1. k + 1 \in Nat /\ T # {}
        BY <3>1
      <4>2. Max(T) \in T /\ k + 1 <= Max(T)
        BY <3>1, <4>1, Greatest
      <4>3. Max(T) = k + 1
        <5>1. Max(T) \in 1 .. k + 1
          BY <4>2
        <5> QED BY <4>2, <5>1
      <4>4. g[T \ {k + 1}] = f[T \ {k + 1}]
        OBVIOUS
      <4> QED BY <3>1, <4>1, <4>3, <4>4
    <3>2. CASE k + 1 \notin T /\ T # {}
      <4>1. T \in SUBSET (1 .. k)
        BY <3>2
      <4>2. T \ {Max(T)} \in SUBSET (1 .. k + 1) /\ k + 1 \notin T \ {Max(T)}
        BY <3>2
      <4>3. f[T] = ReadField(f[T \ {Max(T)}], s[Max(T)])
        BY <2>1, <3>2, <4>1
      <4> QED BY <3>2, <4>2, <4>3
    <3>3. CASE T = {}
      <4>1. f[{}] = Start(cells)
        BY <2>1
      <4> QED BY <3>3, <4>1
    <3> QED BY <3>1, <3>2, <3>3
  <2>3. g = [T \in SUBSET (1 .. k + 1) |-> IF T = {} THEN Start(cells) ELSE ReadField(g[T \ {Max(T)}], s[Max(T)])]
    BY <2>2
  <2> HIDE DEF g
  <2> QED BY <2>3
<1> HIDE DEF Upto
<1>3. 1 \in Reached
  BY <1>1
<1>4. \A k \in 1 .. n + 1 : k \in Reached /\ k + 1 \in 1 .. n + 1 => k + 1 \in Reached
  <2> SUFFICES ASSUME NEW k \in 1 .. n + 1, Upto(k - 1), k + 1 \in 1 .. n + 1 PROVE Upto((k + 1) - 1)
    OBVIOUS
  <2>1. k - 1 \in Nat /\ (k - 1) + 1 = (k + 1) - 1
    OBVIOUS
  <2>2. Upto((k - 1) + 1)
    BY <1>2, <2>1
  <2> QED BY <2>1, <2>2
<1>5. 1 .. n + 1 \subseteq Reached
  <2>1. n + 1 \in Nat
    OBVIOUS
  <2> HIDE DEF Reached
  <2> QED BY <1>3, <1>4, <2>1, Induction
<1>6. n + 1 \in Reached /\ (n + 1) - 1 = n
  BY <1>5
<1> QED BY <1>6 DEF Upto, ReadsAlong

(* Read goes through the layout from the first field to the last. *)
LEMMA ReadFold ==
    ASSUME NEW S, NEW s \in Seq(S), NEW cells
    PROVE  \E g : /\ g[0] = Start(cells) /\ \A k \in 1 .. Len(s) : g[k] = ReadField(g[k - 1], s[k])
                 /\ Read(s, cells) = g[Len(s)]
<1> DEFINE n == Len(s)
           f == CHOOSE h : ReadsAlong(n, s, cells, h)
           g == [k \in 0 .. n |-> f[1 .. k]]
<1>1. n \in Nat /\ DOMAIN s = 1 .. n
  OBVIOUS
<1>2. ReadsAlong(n, s, cells, f)
  BY <1>1, ReadExists
<1>3. Read(s, cells) = f[1 .. n]
  BY <1>1 DEF ReadsAlong, Start, Read, FoldLeft, MapThenFoldSet
<1> HIDE DEF f
<1>4. f[{}] = Start(cells) /\ 1 .. 0 = {}
  BY <1>2 DEF ReadsAlong
<1>5. ASSUME NEW k \in 1 .. n PROVE f[1 .. k] = ReadField(f[1 .. k - 1], s[k])
  <2>1. k \in Nat /\ k # 0 /\ 1 .. k \in SUBSET (1 .. n) /\ 1 .. k # {}
    <3> HIDE DEF n
    <3>1. k \in 1 .. k /\ k \in Nat /\ k # 0
      BY <1>1
    <3>2. 1 .. k \subseteq 1 .. n
      BY <1>1
    <3> QED BY <3>1, <3>2
  <2>2. Max(1 .. k) = k /\ (1 .. k) \ {k} = 1 .. (k - 1)
    BY <2>1, GreatestOfAll
  <2>3. f[1 .. k] = ReadField(f[(1 .. k) \ {Max(1 .. k)}], s[Max(1 .. k)])
    BY <1>2, <2>1 DEF ReadsAlong
  <2> QED BY <2>2, <2>3
<1>6. g[0] = Start(cells) /\ (\A k \in 1 .. n : g[k] = ReadField(g[k - 1], s[k])) /\ Read(s, cells) = g[n]
  BY <1>1, <1>3, <1>4, <1>5
<1> HIDE DEF g
<1> QED BY <1>6

-----------------------------------------------------------------------------
(* A number that fits its cells is read as it was written.                 *)

Cells == 0 .. Byte - 1
(* The numbers that w cells can hold are below it. *)
Limit(w) ==
    CASE w = 0 -> 1 [] w = 1 -> Byte [] w = 2 -> Byte * Byte [] w = 4 -> Byte * Byte * Byte * Byte
Widths == {1, 2, 4}

(* What a number is in w cells, one by one.                                *)
LEMMA UIntCells ==
    ASSUME NEW n \in Nat, NEW w \in Widths
    PROVE  /\ UInt(n, w) \in Seq(Cells) /\ Len(UInt(n, w)) = w
           /\ w = 1 => UInt(n, w)[1] = n % Byte
           /\ w = 2 => UInt(n, w)[1] = (n \div Byte) % Byte /\ UInt(n, w)[2] = n % Byte
           /\ w = 4 => /\ UInt(n, w)[1] = (n \div (Byte * Byte * Byte)) % Byte
                       /\ UInt(n, w)[2] = (n \div (Byte * Byte)) % Byte
                       /\ UInt(n, w)[3] = (n \div Byte) % Byte
                       /\ UInt(n, w)[4] = n % Byte
<1> USE PacketAssumption
<1>1. w \in Nat /\ w <= 4
  BY DEF Widths
<1>2. \A k \in 1 .. 4 : Weights[k] \in Nat /\ Weights[k] # 0
  <2>1. Byte * Byte \in Nat /\ Byte * Byte # 0
    OBVIOUS
  <2>2. Byte * Byte * Byte \in Nat /\ Byte * Byte * Byte # 0
    BY <2>1
  <2> QED BY <2>1, <2>2 DEF Weights
<1>3. \A m \in Nat : \A k \in Nat : k # 0 => (m \div k) % Byte \in Cells
  BY DEF Cells
<1>4. UInt(n, w) = [i \in 1 .. w |-> (n \div Weights[w - i + 1]) % Byte]
  BY DEF UInt
<1>5. UInt(n, w) \in Seq(Cells) /\ Len(UInt(n, w)) = w
  <2>1. \A i \in 1 .. w : w - i + 1 \in 1 .. 4
    BY <1>1
  <2>2. \A i \in 1 .. w : (n \div Weights[w - i + 1]) % Byte \in Cells
    BY <1>2, <1>3, <2>1
  <2> QED BY <1>1, <1>4, <2>2
<1>6. \A i \in 1 .. w : UInt(n, w)[i] = (n \div Weights[w - i + 1]) % Byte
  BY <1>4
<1>7. n \div 1 = n
  OBVIOUS
<1>8. /\ Weights[1] = 1 /\ Weights[2] = Byte /\ Weights[3] = Byte * Byte /\ Weights[4] = Byte * Byte * Byte
  BY DEF Weights
<1>9. w = 1 => UInt(n, w)[1] = n % Byte
  BY <1>6, <1>7, <1>8
<1>10. w = 2 => UInt(n, w)[1] = (n \div Byte) % Byte /\ UInt(n, w)[2] = n % Byte
  BY <1>6, <1>7, <1>8
<1>11. w = 4 => /\ UInt(n, w)[1] = (n \div (Byte * Byte * Byte)) % Byte
                /\ UInt(n, w)[2] = (n \div (Byte * Byte)) % Byte
                /\ UInt(n, w)[3] = (n \div Byte) % Byte
                /\ UInt(n, w)[4] = n % Byte
  BY <1>6, <1>7, <1>8
<1> QED BY <1>5, <1>9, <1>10, <1>11

(* Dividing by the base again and again. *)
LEMMA Digits ==
    ASSUME NEW n \in Nat
    PROVE  /\ n = (n \div Byte) * Byte + (n % Byte)
           /\ n \div (Byte * Byte) = (n \div Byte) \div Byte
           /\ n \div (Byte * Byte * Byte) = ((n \div Byte) \div Byte) \div Byte
           /\ n < Byte => n % Byte = n
           /\ n < Byte * Byte => n \div Byte < Byte
           /\ n < Byte * Byte * Byte => n \div Byte < Byte * Byte
           /\ n < Byte * Byte * Byte * Byte => n \div Byte < Byte * Byte * Byte
<1> USE PacketAssumption
<1>0. n \div Byte \in Nat /\ n % Byte \in 0 .. Byte - 1
  OBVIOUS
<1>1. n = (n \div Byte) * Byte + (n % Byte)
  OBVIOUS
<1>2. \A m, b \in Nat : b > 0 => m \div (b * Byte) = (m \div b) \div Byte
  OBVIOUS
<1>3. n \div (Byte * Byte) = (n \div Byte) \div Byte
  <2>1. Byte \in Nat /\ Byte > 0
    OBVIOUS
  <2> HIDE PacketAssumption
  <2> QED BY <1>2, <2>1
<1>4. n \div (Byte * Byte * Byte) = ((n \div Byte) \div Byte) \div Byte
  <2>1. Byte * Byte \in Nat /\ Byte * Byte > 0
    OBVIOUS
  <2> QED BY <1>2, <1>3, <2>1
<1>5. n < Byte => n % Byte = n
  OBVIOUS
<1>6. \A b \in Nat : n < b * Byte => n \div Byte < b
  <2> SUFFICES ASSUME NEW b \in Nat, n < b * Byte, b <= n \div Byte PROVE FALSE
    BY <1>0
  <2>1. b * Byte <= (n \div Byte) * Byte
    BY <1>0
  <2> QED BY <1>0, <1>1, <2>1
<1>7. Byte * Byte \in Nat /\ Byte * Byte * Byte \in Nat
  OBVIOUS
<1>8. /\ n < Byte * Byte => n \div Byte < Byte
      /\ n < Byte * Byte * Byte => n \div Byte < Byte * Byte
      /\ n < Byte * Byte * Byte * Byte => n \div Byte < Byte * Byte * Byte
  BY <1>6, <1>7
<1> QED BY <1>1, <1>3, <1>4, <1>5, <1>8

(* A number that fits is read back from its cells. *)
THEOREM NumberBack ==
    ASSUME NEW w \in Widths, NEW n \in 0 .. Limit(w) - 1
    PROVE  Value(UInt(n, w)) = n
<1> USE PacketAssumption
<1>1. n \in Nat /\ n < Limit(w)
  <2>1. Byte * Byte \in Nat
    OBVIOUS
  <2>2. Byte * Byte * Byte * Byte \in Nat
    BY <2>1
  <2>3. Limit(w) \in Nat
    BY <2>1, <2>2 DEF Limit, Widths
  <2> QED BY <2>3
<1>2. UInt(n, w) \in Seq(Int) /\ Len(UInt(n, w)) = w
  <2>1. UInt(n, w) \in Seq(Cells) /\ Len(UInt(n, w)) = w
    BY <1>1, UIntCells
  <2> QED BY <2>1 DEF Cells
<1> DEFINE s == UInt(n, w)
           q == n \div Byte
           p == q \div Byte
<1>3. PICK g : g[0] = 0 /\ (\A k \in 1 .. Len(s) : g[k] = g[k - 1] * Byte + s[k]) /\ Value(s) = g[Len(s)]
  BY <1>2, ValueFold
<1>4. q \in Nat /\ p \in Nat
  BY <1>1
<1> HIDE DEF s
<1>5. CASE w = 1
  <2>1. s[1] = n /\ Limit(w) = Byte
    <3>1. s[1] = n % Byte
      BY <1>1, <1>5, UIntCells DEF s
    <3>2. n < Byte
      BY <1>1, <1>5 DEF Limit
    <3> QED BY <1>1, <1>5, <3>1, <3>2, Digits DEF Limit
  <2>2. g[1] = 0 * Byte + s[1]
    BY <1>2, <1>3, <1>5 DEF s
  <2> QED BY <1>1, <1>2, <1>3, <1>5, <2>1, <2>2 DEF s
<1>6. CASE w = 2
  <2>1. n < Byte * Byte
    BY <1>1, <1>6 DEF Limit
  <2>2. q < Byte
    BY <1>1, <2>1, Digits
  <2>3. s[1] = q % Byte /\ s[2] = n % Byte
    BY <1>1, <1>6, UIntCells DEF s
  <2>4. s[1] = q
    BY <1>4, <2>2, <2>3, Digits
  <2>5. g[1] = 0 * Byte + s[1] /\ g[2] = g[1] * Byte + s[2] /\ Value(s) = g[2]
    BY <1>2, <1>3, <1>6 DEF s
  <2>6. n = q * Byte + (n % Byte)
    BY <1>1, Digits
  <2> HIDE DEF q
  <2>7. g[1] = q
    BY <1>4, <2>4, <2>5
  <2> QED BY <2>3, <2>5, <2>6, <2>7 DEF s
<1>7. CASE w = 4
  <2>1. n < Byte * Byte * Byte * Byte
    BY <1>1, <1>7 DEF Limit
  <2>2. q < Byte * Byte * Byte
    BY <1>1, <2>1, Digits
  <2>3. p < Byte * Byte
    BY <1>4, <2>2, Digits
  <2> DEFINE o == p \div Byte
  <2>4. o < Byte /\ o \in Nat
    BY <1>4, <2>3, Digits
  <2>5. s[1] = (n \div (Byte * Byte * Byte)) % Byte /\ s[2] = (n \div (Byte * Byte)) % Byte
        /\ s[3] = q % Byte /\ s[4] = n % Byte
    BY <1>1, <1>7, UIntCells DEF s
  <2>6. n \div (Byte * Byte * Byte) = o /\ n \div (Byte * Byte) = p
    BY <1>1, Digits
  <2>7. s[1] = o /\ s[2] = p % Byte
    <3>1. o % Byte = o
      BY <2>4, Digits
    <3> QED BY <2>5, <2>6, <3>1
  <2>8. g[1] = 0 * Byte + s[1] /\ g[2] = g[1] * Byte + s[2] /\ g[3] = g[2] * Byte + s[3]
        /\ g[4] = g[3] * Byte + s[4] /\ Value(s) = g[4]
    BY <1>2, <1>3, <1>7 DEF s
  <2>9. p = o * Byte + (p % Byte) /\ q = p * Byte + (q % Byte) /\ n = q * Byte + (n % Byte)
    BY <1>1, <1>4, Digits
  <2> HIDE DEF o, p, q
  <2>10. g[1] = o
    BY <2>4, <2>7, <2>8
  <2>11. g[2] = p
    BY <2>7, <2>8, <2>9, <2>10
  <2>12. g[3] = q
    BY <2>5, <2>8, <2>9, <2>11
  <2> QED BY <2>5, <2>8, <2>9, <2>12 DEF s
<1> QED BY <1>5, <1>6, <1>7 DEF Widths

-----------------------------------------------------------------------------
(* A field is read back from what was put down for it.                     *)

(* The join of two sequences, item by item.                                *)
LEMMA Joined ==
    ASSUME NEW S, NEW s \in Seq(S), NEW t \in Seq(S)
    PROVE  /\ s \o t \in Seq(S) /\ Len(s \o t) = Len(s) + Len(t)
           /\ \A i \in 1 .. Len(s) : (s \o t)[i] = s[i]
           /\ \A i \in 1 .. Len(t) : (s \o t)[Len(s) + i] = t[i]
<1>1. /\ s \o t \in Seq(S) /\ Len(s \o t) = Len(s) + Len(t)
      /\ \A i \in 1 .. Len(s) + Len(t) : (s \o t)[i] = IF i <= Len(s) THEN s[i] ELSE t[i - Len(s)]
  BY ConcatProperties
<1>2. Len(s) \in Nat /\ Len(t) \in Nat
  OBVIOUS
<1>3. ASSUME NEW i \in 1 .. Len(s) PROVE (s \o t)[i] = s[i]
  BY <1>1, <1>2
<1>4. ASSUME NEW i \in 1 .. Len(t) PROVE (s \o t)[Len(s) + i] = t[i]
  <2>1. Len(s) + i \in 1 .. Len(s) + Len(t) /\ ~ (Len(s) + i <= Len(s)) /\ (Len(s) + i) - Len(s) = i
    BY <1>2
  <2> QED BY <1>1, <2>1
<1> QED BY <1>1, <1>3, <1>4

(* A piece is the sequence it agrees with.                                 *)
LEMMA Slice ==
    ASSUME NEW S, NEW s \in Seq(S), NEW t \in Seq(S), NEW m \in Nat, m + Len(t) <= Len(s),
           \A i \in 1 .. Len(t) : s[m + i] = t[i]
    PROVE  SubSeq(s, m + 1, m + Len(t)) = t
<1> DEFINE n == Len(t)
           u == SubSeq(s, m + 1, m + n)
<1>1. n \in Nat /\ Len(s) \in Nat /\ \A i \in 1 .. Len(s) : s[i] \in S
  OBVIOUS
<1> HIDE DEF n
<1>2. m + 1 \in Int /\ m + n \in Int /\ (m + n) - (m + 1) + 1 = n /\ (m + 1 <= m + n <=> n # 0)
  BY <1>1
<1>3. \A i \in m + 1 .. m + n : s[i] \in S
  <2>1. m + 1 .. m + n \subseteq 1 .. Len(s)
    BY <1>1 DEF n
  <2> QED BY <1>1, <2>1
<1>4. /\ u \in Seq(S) /\ Len(u) = (IF m + 1 <= m + n THEN (m + n) - (m + 1) + 1 ELSE 0)
      /\ \A i \in 1 .. (m + n) - (m + 1) + 1 : u[i] = s[m + 1 + i - 1]
  <2>1. m + 1 \in Int /\ m + n \in Int
    BY <1>2
  <2> QED BY <1>3, <2>1, SubSeqProperties, SMTT(30)
<1> HIDE DEF u
<1>5. Len(u) = n
  BY <1>1, <1>2, <1>4
<1>6. ASSUME NEW i \in 1 .. n PROVE u[i] = t[i]
  <2>1. m + 1 + i - 1 = m + i
    BY <1>1
  <2>2. s[m + i] = t[i]
    BY DEF n
  <2> QED BY <1>2, <1>4, <2>1, <2>2
<1>7. u = t
  BY <1>4, <1>5, <1>6, SeqEqual DEF n
<1> QED BY <1>7 DEF u, n

(* A sequence of three parts, taken apart. *)
LEMMA Slices ==
    ASSUME NEW S, NEW a \in Seq(S), NEW b \in Seq(S), NEW c \in Seq(S)
    PROVE  LET s == (a \o b) \o c IN
           /\ s \in Seq(S) /\ Len(s) = Len(a) + Len(b) + Len(c)
           /\ SubSeq(s, 1, Len(a)) = a
           /\ SubSeq(s, Len(a) + 1, Len(a) + Len(b)) = b
           /\ SubSeq(s, Len(a) + Len(b) + 1, Len(s)) = c
<1> DEFINE d == a \o b
           s == d \o c
<1>1. /\ d \in Seq(S) /\ Len(d) = Len(a) + Len(b)
      /\ (\A i \in 1 .. Len(a) : d[i] = a[i]) /\ (\A i \in 1 .. Len(b) : d[Len(a) + i] = b[i])
  BY Joined
<1> HIDE DEF d
<1>2. /\ s \in Seq(S) /\ Len(s) = Len(d) + Len(c)
      /\ (\A i \in 1 .. Len(d) : s[i] = d[i]) /\ (\A i \in 1 .. Len(c) : s[Len(d) + i] = c[i])
  <2>1. d \in Seq(S)
    BY <1>1
  <2> QED BY <2>1, Joined
<1> HIDE DEF s
<1>3. Len(a) \in Nat /\ Len(b) \in Nat /\ Len(c) \in Nat
  OBVIOUS
<1>4. Len(s) = Len(a) + Len(b) + Len(c)
  BY <1>1, <1>2, <1>3
<1>5. SubSeq(s, 1, Len(a)) = a
  <2>1. s \in Seq(S) /\ 0 \in Nat /\ 0 + Len(a) <= Len(s) /\ 0 + 1 = 1 /\ 0 + Len(a) = Len(a)
    BY <1>2, <1>3, <1>4
  <2>2. \A i \in 1 .. Len(a) : s[0 + i] = a[i]
    BY <1>1, <1>2, <1>3
  <2>3. SubSeq(s, 0 + 1, 0 + Len(a)) = a
    BY <2>1, <2>2, Slice
  <2> QED BY <2>1, <2>3
<1>6. SubSeq(s, Len(a) + 1, Len(a) + Len(b)) = b
  <2>1. s \in Seq(S) /\ Len(a) + Len(b) <= Len(s)
    BY <1>2, <1>3, <1>4
  <2>2. \A i \in 1 .. Len(b) : s[Len(a) + i] = b[i]
    BY <1>1, <1>2, <1>3
  <2> QED BY <1>3, <2>1, <2>2, Slice
<1>7. SubSeq(s, Len(a) + Len(b) + 1, Len(s)) = c
  <2>1. s \in Seq(S) /\ Len(d) + Len(c) <= Len(s) /\ Len(d) \in Nat
    BY <1>1, <1>2, <1>3, <1>4
  <2>2. \A i \in 1 .. Len(c) : s[Len(d) + i] = c[i]
    BY <1>2
  <2>3. SubSeq(s, Len(d) + 1, Len(d) + Len(c)) = c
    BY <2>1, <2>2, Slice
  <2> QED BY <1>1, <1>2, <2>3
<1> QED BY <1>2, <1>4, <1>5, <1>6, <1>7 DEF s, d

-----------------------------------------------------------------------------
(* What a field of a layout reads v from: a prefix, and behind it what the *)
(* prefix announces.                                                       *)
FieldKinds == [width : Nat, counted : Int, holds : BOOLEAN]
Puts(field, part, v) ==
    \E prefix, body \in Seq(Cells) :
        /\ part = prefix \o body /\ Len(prefix) = field.width
        /\ IF field.holds THEN Value(prefix) - field.counted = Len(body) /\ v = body
                          ELSE body = <<>> /\ v = Value(prefix)

Reader(found, rest) == [ok |-> TRUE, fields |-> found, rest |-> rest]

(* A field is read from what was put down for it, and the rest is left.    *)
LEMMA FieldBack ==
    ASSUME NEW field \in FieldKinds, NEW part, NEW v, Puts(field, part, v),
           NEW tail \in Seq(Cells), NEW found
    PROVE  /\ part \in Seq(Cells)
           /\ ReadField(Reader(found, part \o tail), field) = Reader(Append(found, v), tail)
<1>1. PICK prefix, body \in Seq(Cells) :
          /\ part = prefix \o body /\ Len(prefix) = field.width
          /\ IF field.holds THEN Value(prefix) - field.counted = Len(body) /\ v = body
                            ELSE body = <<>> /\ v = Value(prefix)
  BY DEF Puts
<1> DEFINE cells == (prefix \o body) \o tail
           w == field.width
           n == Len(body)
<1>2. /\ cells \in Seq(Cells) /\ Len(cells) = w + n + Len(tail)
      /\ SubSeq(cells, 1, w) = prefix
      /\ SubSeq(cells, w + 1, w + n) = body
      /\ SubSeq(cells, w + n + 1, Len(cells)) = tail
  <2>1. prefix \in Seq(Cells) /\ body \in Seq(Cells)
    OBVIOUS
  <2>2. /\ cells \in Seq(Cells) /\ Len(cells) = Len(prefix) + Len(body) + Len(tail)
        /\ SubSeq(cells, 1, Len(prefix)) = prefix
        /\ SubSeq(cells, Len(prefix) + 1, Len(prefix) + Len(body)) = body
        /\ SubSeq(cells, Len(prefix) + Len(body) + 1, Len(cells)) = tail
    BY <2>1, Slices
  <2> QED BY <1>1, <2>2
<1>3. part \in Seq(Cells) /\ part \o tail = cells
  BY <1>1
<1>4. w \in Nat /\ n \in Nat /\ Len(tail) \in Nat /\ field.holds \in BOOLEAN
  BY DEF FieldKinds
<1>5. Len(cells) >= w /\ Len(cells) >= w + n /\ ~ (Len(cells) < w) /\ ~ (n < 0) /\ ~ (Len(cells) < w + n)
  BY <1>2, <1>4, SMTT(30)
<1> HIDE DEF cells, w, n
<1>6. CASE field.holds
  <2>1. Value(SubSeq(cells, 1, w)) - field.counted = n /\ v = body
    BY <1>1, <1>2, <1>6 DEF n
  <2> QED BY <1>2, <1>3, <1>5, <1>6, <2>1 DEF ReadField, Reader, w
<1>7. CASE ~ field.holds
  <2>1. n = 0 /\ v = Value(SubSeq(cells, 1, w)) /\ w + 0 = w
    <3>1. body = <<>> /\ v = Value(prefix)
      BY <1>1, <1>7
    <3>2. n = 0
      BY <3>1 DEF n
    <3>3. SubSeq(cells, 1, w) = prefix
      BY <1>2
    <3>4. v = Value(SubSeq(cells, 1, w))
      BY <3>1, <3>3, Zenon
    <3>5. w + 0 = w
      BY <1>4
    <3> QED BY <3>2, <3>4, <3>5
  <2> QED BY <1>2, <1>3, <1>5, <1>7, <2>1 DEF ReadField, Reader, w
<1> QED BY <1>3, <1>4, <1>6, <1>7

-----------------------------------------------------------------------------
(* A layout is read field by field.                                        *)

LEMMA Associative ==
    ASSUME NEW S
    PROVE  \A a, b, c \in Seq(S) : (a \o b) \o c = a \o (b \o c)
  BY ConcatAssociative

(* The same for cells.                                                     *)
LEMMA CellsAssociative == \A a, b, c \in Seq(Cells) : (a \o b) \o c = a \o (b \o c)
  BY Associative

(* One field more is read after the others.                                *)
LEMMA ReadNext ==
    ASSUME NEW S, NEW layout \in Seq(S), NEW field \in S, NEW cells
    PROVE  /\ Read(<<>>, cells) = Start(cells)
           /\ Read(Append(layout, field), cells) = ReadField(Read(layout, cells), field)
<1> DEFINE longer == Append(layout, field)
           n == Len(layout)
<1>1. /\ longer \in Seq(S) /\ Len(longer) = n + 1
      /\ (\A k \in 1 .. n : longer[k] = layout[k]) /\ longer[n + 1] = field
  BY AppendProperties
<1>2. n \in Nat
  OBVIOUS
<1> HIDE DEF longer, n
<1>3. PICK g : /\ g[0] = Start(cells) /\ \A k \in 1 .. n : g[k] = ReadField(g[k - 1], layout[k])
               /\ Read(layout, cells) = g[n]
  BY ReadFold DEF n
<1>4. PICK h : /\ h[0] = Start(cells) /\ \A k \in 1 .. n + 1 : h[k] = ReadField(h[k - 1], longer[k])
               /\ Read(longer, cells) = h[n + 1]
  <2>1. \E h : /\ h[0] = Start(cells) /\ \A k \in 1 .. Len(longer) : h[k] = ReadField(h[k - 1], longer[k])
               /\ Read(longer, cells) = h[Len(longer)]
    BY <1>1, ReadFold
  <2> QED BY <1>1, <2>1
<1> DEFINE Laid == {k \in 1 .. n + 1 : h[k - 1] = g[k - 1]}
<1>5. 1 .. n + 1 \subseteq Laid
  <2>1. 1 \in Laid
    BY <1>2, <1>3, <1>4
  <2>2. \A k \in 1 .. n + 1 : k \in Laid /\ k + 1 \in 1 .. n + 1 => k + 1 \in Laid
    <3> SUFFICES ASSUME NEW k \in 1 .. n, h[k - 1] = g[k - 1] PROVE h[k] = g[k]
      <4>1. \A k \in 1 .. n + 1 : k + 1 \in 1 .. n + 1 => k \in 1 .. n /\ (k + 1) - 1 = k
        BY <1>2
      <4> QED BY <4>1
    <3>1. g[k] = ReadField(g[k - 1], layout[k])
      BY <1>3
    <3>2. h[k] = ReadField(h[k - 1], longer[k])
      BY <1>2, <1>4
    <3> QED BY <1>1, <3>1, <3>2
  <2>3. n + 1 \in Nat
    BY <1>2
  <2> HIDE DEF Laid
  <2> QED BY <2>1, <2>2, <2>3, Induction
<1>6. h[n] = g[n]
  <2>1. n + 1 \in 1 .. n + 1 /\ (n + 1) - 1 = n
    BY <1>2
  <2> QED BY <1>5, <2>1
<1>7. h[n + 1] = ReadField(h[n], field)
  <2>1. n + 1 \in 1 .. n + 1 /\ (n + 1) - 1 = n
    BY <1>2
  <2> QED BY <1>1, <1>4, <2>1
<1>8. Read(longer, cells) = ReadField(Read(layout, cells), field)
  BY <1>3, <1>4, <1>6, <1>7
<1>9. Read(<<>>, cells) = Start(cells)
  <2>1. <<>> \in Seq(S) /\ Len(<<>>) = 0
    OBVIOUS
  <2>2. PICK f : /\ f[0] = Start(cells)
                 /\ Read(<<>>, cells) = f[Len(<<>>)]
    BY <2>1, ReadFold
  <2> QED BY <2>1, <2>2
<1> QED BY <1>8, <1>9 DEF longer

-----------------------------------------------------------------------------
(* Cells that a layout reads as the values, whatever follows them.         *)
Carries(layout, cells, values) ==
    /\ layout \in Seq(FieldKinds) /\ cells \in Seq(Cells)
    /\ \A tail \in Seq(Cells) : Read(layout, cells \o tail) = Reader(values, tail)

(* No field is read from nothing.                                          *)
LEMMA CarriesNothing == Carries(<<>>, <<>>, <<>>)
<1>1. <<>> \in Seq(FieldKinds) /\ <<>> \in Seq(Cells)
  OBVIOUS
<1>2. ASSUME NEW tail \in Seq(Cells) PROVE Read(<<>>, <<>> \o tail) = Reader(<<>>, tail)
  <2>1. <<>> \o tail = tail
    BY ConcatEmptySeq
  <2>2. Number(1) \in {Number(1)} /\ <<>> \in Seq({Number(1)})
    OBVIOUS
  <2>3. Read(<<>>, <<>> \o tail) = Start(<<>> \o tail)
    BY <2>2, ReadNext
  <2> QED BY <2>1, <2>3 DEF Start, Reader
<1> QED BY <1>1, <1>2 DEF Carries

(* Part by part the cells of a packet are put down, and field by field     *)
(* they are read.                                                          *)
LEMMA CarriesNext ==
    ASSUME NEW layout, NEW cells, NEW values, Carries(layout, cells, values),
           NEW field \in FieldKinds, NEW part, NEW v, Puts(field, part, v)
    PROVE  Carries(Append(layout, field), cells \o part, Append(values, v))
<1>1. layout \in Seq(FieldKinds)
  BY DEF Carries
<1>2. cells \in Seq(Cells)
  BY DEF Carries
<1>3. part \in Seq(Cells)
  <2>1. <<>> \in Seq(Cells)
    OBVIOUS
  <2> QED BY <2>1, FieldBack
<1>4. Append(layout, field) \in Seq(FieldKinds)
  BY <1>1
<1>5. cells \o part \in Seq(Cells)
  BY <1>2, <1>3, Joined
<1>6. ASSUME NEW tail \in Seq(Cells)
      PROVE  Read(Append(layout, field), (cells \o part) \o tail) = Reader(Append(values, v), tail)
  <2>1. part \o tail \in Seq(Cells)
    BY <1>3, Joined
  <2>2. \A a, b, c \in Seq(Cells) : (a \o b) \o c = a \o (b \o c)
    BY CellsAssociative
  <2>3. (cells \o part) \o tail = cells \o (part \o tail)
    BY <1>2, <1>3, <2>2, Zenon
  <2>4. Read(layout, cells \o (part \o tail)) = Reader(values, part \o tail)
    BY <2>1 DEF Carries
  <2>5. ReadField(Reader(values, part \o tail), field) = Reader(Append(values, v), tail)
    BY FieldBack
  <2> DEFINE all == (cells \o part) \o tail
  <2>6. Read(Append(layout, field), all) = ReadField(Read(layout, all), field)
    <3> HIDE DEF all
    <3> QED BY <1>1, ReadNext
  <2> QED BY <2>3, <2>4, <2>5, <2>6, Zenon
<1> QED BY <1>4, <1>5, <1>6 DEF Carries

-----------------------------------------------------------------------------
(* What the fields of PacketReader find in what PacketBuilder put down.    *)

Sized(cells, n) == cells \in Seq(Cells) /\ Len(cells) = n

(* The sizes of what is joined add up.                                     *)
LEMMA SizedJoin ==
    ASSUME NEW c, NEW m, NEW d, NEW n, Sized(c, m), Sized(d, n)
    PROVE  Sized(c \o d, m + n)
<1>1. c \in Seq(Cells)
  BY DEF Sized
<1>2. d \in Seq(Cells)
  BY DEF Sized
<1>3. c \o d \in Seq(Cells) /\ Len(c \o d) = Len(c) + Len(d)
  BY <1>1, <1>2, Joined
<1> QED BY <1>3 DEF Sized

LEMMA LimitNat == ASSUME NEW w \in Widths PROVE Limit(w) \in Nat
<1> USE PacketAssumption
<1>1. Byte * Byte \in Nat
  OBVIOUS
<1>2. Byte * Byte * Byte * Byte \in Nat
  BY <1>1
<1> QED BY <1>1, <1>2 DEF Limit, Widths

(* What is put down for a number, and how many cells it takes.             *)
LEMMA PutNumber ==
    ASSUME NEW w \in Widths, NEW n \in Nat, n < Limit(w)
    PROVE  Number(w) \in FieldKinds /\ Puts(Number(w), UInt(n, w), n) /\ Sized(UInt(n, w), w)
<1>1. Number(w) \in FieldKinds
  BY DEF Number, FieldKinds, Widths
<1>2. UInt(n, w) \in Seq(Cells) /\ Len(UInt(n, w)) = w
  BY UIntCells
<1>3. Value(UInt(n, w)) = n
  <2>1. n \in 0 .. Limit(w) - 1
    BY LimitNat
  <2> QED BY <2>1, NumberBack
<1> DEFINE p == UInt(n, w)
<1>4. p \o <<>> = p /\ <<>> \in Seq(Cells)
  BY <1>2, ConcatEmptySeq
<1> HIDE DEF p
<1>5. Puts(Number(w), p, n)
  <2>1. Number(w).width = w /\ Number(w).holds = FALSE
    BY DEF Number
  <2>2. p = p \o <<>>
    BY <1>4
  <2>3. p \in Seq(Cells) /\ Len(p) = w /\ n = Value(p)
    BY <1>2, <1>3 DEF p
  <2> QED BY <1>4, <2>1, <2>2, <2>3 DEF Puts
<1> QED BY <1>1, <1>2, <1>5 DEF p, Sized

(* The same for a content behind its length, unless the length wraps.      *)
LEMMA PutBlob ==
    ASSUME NEW w \in Widths, NEW counted \in Nat, NEW content \in Seq(Cells), Len(content) + counted < Limit(w)
    PROVE  /\ Blob(w, counted) \in FieldKinds
           /\ Puts(Blob(w, counted), Prefixed(w, counted, content), content)
           /\ Sized(Prefixed(w, counted, content), w + Len(content))
<1> DEFINE n == Len(content) + counted
           p == UInt(n, w)
<1>1. n \in Nat /\ n < Limit(w) /\ n - counted = Len(content)
  OBVIOUS
<1> HIDE DEF n
<1>2. p \in Seq(Cells) /\ Len(p) = w
  BY <1>1, UIntCells
<1>3. Value(p) = n
  <2>1. n \in 0 .. Limit(w) - 1
    BY <1>1, LimitNat
  <2> QED BY <2>1, NumberBack
<1>4. Blob(w, counted) \in FieldKinds
  BY DEF Blob, FieldKinds, Widths
<1>5. Blob(w, counted).width = w /\ Blob(w, counted).holds /\ Blob(w, counted).counted = counted
  BY DEF Blob
<1> HIDE DEF p
<1>6. Puts(Blob(w, counted), p \o content, content)
  BY <1>1, <1>2, <1>3, <1>5 DEF Puts
<1>7. Sized(p \o content, w + Len(content))
  BY <1>2, SizedJoin DEF Sized
<1> QED BY <1>4, <1>6, <1>7 DEF Prefixed, p, n

(* The same for cells that are skipped.                                    *)
LEMMA PutSkip ==
    ASSUME NEW content \in Seq(Cells)
    PROVE  Skip(Len(content)) \in FieldKinds /\ Puts(Skip(Len(content)), content, content)
<1>1. Value(<<>>) = 0
  <2>1. <<>> \in Seq(Int) /\ Len(<<>>) = 0
    OBVIOUS
  <2> QED BY <2>1, ValueFold
<1> DEFINE n == Len(content)
           field == Skip(n)
<1>2. n \in Nat
  OBVIOUS
<1>3. field \in FieldKinds /\ field.width = 0 /\ field.holds /\ field.counted = -n
  BY <1>2 DEF Skip, Blob, FieldKinds
<1>4. <<>> \o content = content /\ <<>> \in Seq(Cells) /\ Len(<<>>) = 0
  BY ConcatEmptySeq
<1>5. Value(<<>>) - field.counted = n
  BY <1>1, <1>2, <1>3
<1> HIDE DEF field
<1>6. Puts(field, content, content)
  BY <1>3, <1>4, <1>5 DEF Puts, n
<1> QED BY <1>3, <1>6 DEF field

-----------------------------------------------------------------------------
(* The cipher.                                                             *)

(* Shifting back by the same key.                                          *)
LEMMA ShiftBack ==
    ASSUME NEW s \in Seq(Cells), NEW key \in Cells
    PROVE  /\ Shift(s, key) \in Seq(Cells) /\ Len(Shift(s, key)) = Len(s)
           /\ Shift(Shift(s, key), Byte - key) = s
<1> USE PacketAssumption
<1>1. ASSUME NEW c \in Cells, NEW k \in Cells
      PROVE  (c + k) % Byte \in Cells /\ (((c + k) % Byte) + (Byte - k)) % Byte = c
  BY DEF Cells
<1>2. Len(s) \in Nat /\ \A i \in 1 .. Len(s) : s[i] \in Cells
  OBVIOUS
<1> DEFINE u == Shift(s, key)
<1>3. u = [i \in 1 .. Len(s) |-> (s[i] + key) % Byte]
  BY DEF Shift
<1>4. \A i \in 1 .. Len(s) : (s[i] + key) % Byte \in Cells
  BY <1>1, <1>2
<1>5. u \in Seq(Cells) /\ Len(u) = Len(s) /\ \A i \in 1 .. Len(s) : u[i] = (s[i] + key) % Byte
  BY <1>2, <1>3, <1>4
<1> HIDE DEF u
<1> DEFINE v == Shift(u, Byte - key)
<1>6. v = [i \in 1 .. Len(s) |-> (u[i] + (Byte - key)) % Byte]
  BY <1>5 DEF Shift
<1>7. \A i \in 1 .. Len(s) : (u[i] + (Byte - key)) % Byte = s[i]
  BY <1>1, <1>2, <1>5
<1>8. v \in Seq(Cells) /\ Len(v) = Len(s) /\ \A i \in 1 .. Len(s) : v[i] = s[i]
  BY <1>2, <1>6, <1>7
<1> HIDE DEF v
<1>9. v = s
  BY <1>8, SeqEqual
<1> QED BY <1>5, <1>9 DEF u, v

(* What tea_encrypt encrypts: the padding tells its own length, and fills  *)
(* up to whole blocks.                                                     *)
Padded(text) == <<FillCount(text) - 2>> \o Zeros(FillCount(text)) \o text \o Zeros(7)

(* The padding in front tells its own length, and the whole is blocks of   *)
(* 8.                                                                      *)
LEMMA PaddedShape ==
    ASSUME NEW text \in Seq(Cells)
    PROVE  /\ Padded(text) \in Seq(Cells)
           /\ FillCount(text) \in 2 .. 9
           /\ Len(Padded(text)) = Len(text) + FillCount(text) + 8
           /\ Len(Padded(text)) % 8 = 0
           /\ Padded(text)[1] = FillCount(text) - 2
           /\ \A i \in 1 .. Len(text) : Padded(text)[FillCount(text) + 1 + i] = text[i]
<1> USE PacketAssumption
<1> DEFINE n == Len(text)
           f == FillCount(text)
<1>1. n \in Nat
  OBVIOUS
<1>2. f \in 2 .. 9 /\ (n + f + 8) % 8 = 0 /\ f - 2 \in Cells
  <2>1. f = 9 - ((n + 1) % 8)
    BY DEF FillCount
  <2> HIDE DEF f, n
  <2> QED BY <1>1, <2>1 DEF Cells
<1> HIDE DEF f
<1>3. ASSUME NEW k \in Nat PROVE Zeros(k) \in Seq(Cells) /\ Len(Zeros(k)) = k
  BY DEF Zeros, Cells
<1> DEFINE a == <<f - 2>>
           b == a \o Zeros(f)
           c == b \o text
<1>4. a \in Seq(Cells) /\ Len(a) = 1 /\ a[1] = f - 2
  BY <1>2
<1> HIDE DEF a
<1>5. b \in Seq(Cells) /\ Len(b) = 1 + f /\ b[1] = f - 2
  <2>1. f \in Nat /\ Zeros(f) \in Seq(Cells) /\ Len(Zeros(f)) = f /\ 1 \in 1 .. Len(a)
    BY <1>2, <1>3, <1>4
  <2>2. /\ a \o Zeros(f) \in Seq(Cells) /\ Len(a \o Zeros(f)) = Len(a) + Len(Zeros(f))
        /\ \A i \in 1 .. Len(a) : (a \o Zeros(f))[i] = a[i]
    <3>1. a \in Seq(Cells) /\ Zeros(f) \in Seq(Cells)
      BY <1>4, <2>1
    <3> QED BY <3>1, Joined
  <2> QED BY <1>4, <2>1, <2>2
<1> HIDE DEF b
<1>6. c \in Seq(Cells) /\ Len(c) = 1 + f + n /\ c[1] = f - 2 /\ \A i \in 1 .. n : c[f + 1 + i] = text[i]
  <2>1. 1 \in 1 .. Len(b) /\ text \in Seq(Cells) /\ Len(b) = f + 1
    BY <1>2, <1>5
  <2>2. /\ b \o text \in Seq(Cells) /\ Len(b \o text) = Len(b) + Len(text)
        /\ \A i \in 1 .. Len(b) : (b \o text)[i] = b[i]
        /\ \A i \in 1 .. Len(text) : (b \o text)[Len(b) + i] = text[i]
    <3>1. b \in Seq(Cells) /\ text \in Seq(Cells)
      BY <1>5, <2>1
    <3> QED BY <3>1, Joined
  <2> QED BY <1>2, <1>5, <2>1, <2>2
<1> HIDE DEF c
<1>7. /\ c \o Zeros(7) \in Seq(Cells) /\ Len(c \o Zeros(7)) = n + f + 8 /\ (c \o Zeros(7))[1] = f - 2
      /\ \A i \in 1 .. n : (c \o Zeros(7))[f + 1 + i] = text[i]
  <2>1. Zeros(7) \in Seq(Cells) /\ Len(Zeros(7)) = 7
    BY <1>3
  <2>2. 1 \in 1 .. Len(c) /\ \A i \in 1 .. n : f + 1 + i \in 1 .. Len(c)
    BY <1>1, <1>2, <1>6
  <2>3. /\ c \o Zeros(7) \in Seq(Cells) /\ Len(c \o Zeros(7)) = Len(c) + Len(Zeros(7))
        /\ \A i \in 1 .. Len(c) : (c \o Zeros(7))[i] = c[i]
    <3>1. c \in Seq(Cells) /\ Zeros(7) \in Seq(Cells)
      BY <1>6, <2>1
    <3> QED BY <3>1, Joined
  <2>4. Len(c \o Zeros(7)) = n + f + 8
    <3>1. Len(c \o Zeros(7)) = Len(c) + Len(Zeros(7)) /\ Len(c) = 1 + f + n /\ Len(Zeros(7)) = 7
      BY <1>6, <2>1, <2>3
    <3>2. f \in Int
      BY <1>2
    <3>3. (1 + f + n) + 7 = n + f + 8
      BY <1>1, <3>2
    <3> QED BY <3>1, <3>3, Zenon
  <2>5. (c \o Zeros(7))[1] = f - 2
    BY <1>6, <2>2, <2>3
  <2>6. ASSUME NEW i \in 1 .. n PROVE (c \o Zeros(7))[f + 1 + i] = text[i]
    BY <1>6, <2>2, <2>3
  <2> QED BY <2>3, <2>4, <2>5, <2>6
<1>8. Padded(text) = c \o Zeros(7)
  BY DEF Padded, a, b, c, f
<1> QED BY <1>2, <1>7, <1>8 DEF f

(* What tea_encrypt makes of any text under any key, tea_decrypt makes the *)
(* text of again: it finds the padding in front and drops the one behind,  *)
(* and none of its checks refuses the cells.                               *)
THEOREM TeaRoundTrip ==
    ASSUME NEW text \in Seq(Cells), NEW key \in Cells
    PROVE  TeaDecrypt(TeaEncrypt(text, key), key) = [ok |-> TRUE, text |-> text]
<1> USE PacketAssumption
<1> DEFINE cells == TeaEncrypt(text, key)
           plain == Padded(text)
           n == Len(text)
           f == FillCount(text)
<1>1. cells = Shift(plain, key)
  BY DEF TeaEncrypt, Padded
<1>2. plain \in Seq(Cells) /\ f \in 2 .. 9 /\ Len(plain) = n + f + 8 /\ Len(plain) % 8 = 0
      /\ plain[1] = f - 2 /\ (\A i \in 1 .. n : plain[f + 1 + i] = text[i]) /\ n \in Nat
  <2>1. n \in Nat
    OBVIOUS
  <2>2. /\ plain \in Seq(Cells) /\ f \in 2 .. 9 /\ Len(plain) = n + f + 8 /\ Len(plain) % 8 = 0
        /\ plain[1] = f - 2 /\ \A i \in 1 .. n : plain[f + 1 + i] = text[i]
    BY PaddedShape, Zenon
  <2> QED BY <2>1, <2>2, Zenon
<1>3. Shift(cells, Byte - key) = plain /\ Len(cells) = Len(plain)
  BY <1>1, <1>2, ShiftBack
<1> HIDE DEF cells, plain, f
<1>4. (plain[1] % 8) + 3 = f + 1
  BY <1>2
<1>5. Len(cells) > 0 /\ Len(cells) % 8 = 0 /\ f + 1 <= Len(cells) - 7 /\ Len(plain) - 7 = n + f + 1
  BY <1>2, <1>3
<1>6. TeaDecrypt(cells, key) = [ok |-> TRUE, text |-> SubSeq(plain, f + 2, n + f + 1)]
  <2>1. f + 1 + 1 = f + 2
    BY <1>2
  <2>2. Len(Shift(cells, Byte - key)) = n + f + 8
    BY <1>2, <1>3
  <2> QED BY <1>3, <1>4, <1>5, <2>1 DEF TeaDecrypt
<1>7. SubSeq(plain, f + 2, n + f + 1) = text
  <2> DEFINE u == SubSeq(plain, f + 2, n + f + 1)
  <2>1. u \in Seq(Cells) /\ Len(u) = n /\ \A i \in 1 .. n : u[i] = plain[f + 1 + i]
    <3>1. f + 2 \in Int /\ n + f + 1 \in Int /\ f + 2 <= n + f + 1 + 1 /\ (n + f + 1) - (f + 2) + 1 = n
      BY <1>2
    <3>2. \A i \in f + 2 .. n + f + 1 : plain[i] \in Cells
      <4>1. \A i \in 1 .. Len(plain) : plain[i] \in Cells
        BY <1>2
      <4>2. f + 2 .. n + f + 1 \subseteq 1 .. Len(plain)
        BY <1>2
      <4> QED BY <4>1, <4>2
    <3>3. /\ u \in Seq(Cells)
          /\ Len(u) = (IF f + 2 <= n + f + 1 THEN (n + f + 1) - (f + 2) + 1 ELSE 0)
          /\ \A i \in 1 .. (n + f + 1) - (f + 2) + 1 : u[i] = plain[f + 2 + i - 1]
      BY <3>1, <3>2, SubSeqProperties
    <3> HIDE DEF u
    <3>4. ASSUME NEW i \in 1 .. n PROVE f + 2 + i - 1 = f + 1 + i
      BY <1>2
    <3>5. Len(u) = n
      BY <1>2, <3>1, <3>3
    <3> QED BY <3>1, <3>3, <3>4, <3>5
  <2> HIDE DEF u
  <2>2. u = text
    BY <1>2, <2>1, SeqEqual
  <2> QED BY <2>2 DEF u
<1> QED BY <1>6, <1>7 DEF cells

-----------------------------------------------------------------------------
(* A layout and the cells that carry its values, grown field by field.     *)

Large == Byte >= 16

(* How much fits the prefixes in use.                                      *)
LEMMA Limits ==
    ASSUME Large
    PROVE  /\ 16 <= Limit(1) /\ 256 <= Limit(2) /\ 65536 <= Limit(4)
           /\ 1 \in Widths /\ 2 \in Widths /\ 4 \in Widths
           /\ Limit(1) = Byte /\ Limit(2) = Byte * Byte /\ Limit(4) = Byte * Byte * Byte * Byte
<1> USE PacketAssumption DEF Large
<1>1. Byte * Byte \in Nat /\ Byte * Byte >= 256
  <2>1. \A b \in Nat : b >= 16 => b * Byte >= 16 * Byte /\ b * Byte \in Nat
    OBVIOUS
  <2> QED BY <2>1
<1> DEFINE c == Byte * Byte
<1>2. c * Byte * Byte = c * c
  OBVIOUS
<1>3. c * c >= 65536
  <2> HIDE DEF c
  <2>1. \A a, b \in Nat : a >= 256 /\ b >= 256 => a * b >= 65536
    <3> TAKE a, b \in Nat
    <3> HAVE a >= 256 /\ b >= 256
    <3>1. a * b >= 256 * b
      OBVIOUS
    <3> QED BY <3>1
  <2> QED BY <1>1, <2>1 DEF c
<1> QED BY <1>1, <1>2, <1>3 DEF Limit, Widths

(* Cells in number size that a layout reads as the values.                 *)
Laid(layout, cells, size, values) == Carries(layout, cells, values) /\ Len(cells) = size

(* A layout grows by one field with what is put down for it: in general,   *)
(* then for each kind of field.                                            *)
LEMMA LaidEmpty == Laid(<<>>, <<>>, 0, <<>>)
  BY CarriesNothing DEF Laid

LEMMA LaidPlus ==
    ASSUME NEW l, NEW c, NEW m, NEW v, Laid(l, c, m, v),
           NEW field \in FieldKinds, NEW part, NEW content, Puts(field, part, content), NEW n, Sized(part, n)
    PROVE  Laid(Append(l, field), c \o part, m + n, Append(v, content))
<1>1. Carries(Append(l, field), c \o part, Append(v, content))
  <2>1. Carries(l, c, v)
    BY DEF Laid
  <2> QED BY <2>1, CarriesNext
<1>2. Len(c \o part) = m + n
  <2>1. Sized(c, m)
    BY DEF Laid, Carries, Sized
  <2> QED BY <2>1, SizedJoin DEF Sized
<1> QED BY <1>1, <1>2 DEF Laid

LEMMA LaidNumber ==
    ASSUME Large, NEW l, NEW c, NEW m, NEW v, Laid(l, c, m, v), NEW n \in Nat
    PROVE  /\ n < Limit(1) => Laid(Append(l, Number(1)), c \o U8(n), m + 1, Append(v, n))
           /\ n < Limit(2) => Laid(Append(l, Number(2)), c \o U16(n), m + 2, Append(v, n))
           /\ n < Limit(4) => Laid(Append(l, Number(4)), c \o U32(n), m + 4, Append(v, n))
<1>1. ASSUME NEW w \in Widths, n < Limit(w)
      PROVE  Laid(Append(l, Number(w)), c \o UInt(n, w), m + w, Append(v, n))
  BY <1>1, PutNumber, LaidPlus
<1> QED BY <1>1, Limits DEF U8, U16, U32

LEMMA LaidBlob ==
    ASSUME NEW l, NEW c, NEW m, NEW v, Laid(l, c, m, v), NEW w \in Widths, NEW counted \in Nat,
           NEW content \in Seq(Cells), Len(content) + counted < Limit(w)
    PROVE  Laid(Append(l, Blob(w, counted)), c \o Prefixed(w, counted, content), m + (w + Len(content)),
                Append(v, content))
  BY PutBlob, LaidPlus

LEMMA LaidSection ==
    ASSUME Large, NEW l, NEW c, NEW m, NEW v, Laid(l, c, m, v), NEW content \in Seq(Cells)
    PROVE  /\ Len(content) + 4 < Limit(4) =>
                 Laid(Append(l, Counted), c \o Section(content), m + (4 + Len(content)), Append(v, content))
           /\ Len(content) + 2 < Limit(2) =>
                 Laid(Append(l, Blob(2, 2)), c \o Section16(content), m + (2 + Len(content)), Append(v, content))
  BY LaidBlob, Limits DEF Counted, Section, Section16

LEMMA LaidSkip ==
    ASSUME NEW l, NEW c, NEW m, NEW v, Laid(l, c, m, v), NEW content \in Seq(Cells), NEW n, n = Len(content)
    PROVE  Laid(Append(l, Skip(n)), c \o content, m + n, Append(v, content))
  BY PutSkip, LaidPlus DEF Sized

(* A layout that starts with a number.                                     *)
LEMMA LaidFirst ==
    ASSUME Large, NEW n \in Nat
    PROVE  /\ n < Limit(1) => Laid(<<Number(1)>>, U8(n), 1, <<n>>)
           /\ n < Limit(2) => Laid(<<Number(2)>>, U16(n), 2, <<n>>)
           /\ n < Limit(4) => Laid(<<Number(4)>>, U32(n), 4, <<n>>)
<1>1. ASSUME NEW w \in Widths, n < Limit(w) PROVE Laid(<<Number(w)>>, UInt(n, w), w, <<n>>)
  <2>1. Laid(Append(<<>>, Number(w)), <<>> \o UInt(n, w), 0 + w, Append(<<>>, n))
    BY <1>1, PutNumber, LaidEmpty, LaidPlus
  <2>2. UInt(n, w) \in Seq(Cells)
    BY UIntCells
  <2>3. <<>> \o UInt(n, w) = UInt(n, w)
    BY <2>2, ConcatEmptySeq
  <2>4. Append(<<>>, Number(w)) = <<Number(w)>> /\ Append(<<>>, n) = <<n>> /\ 0 + w = w
    BY DEF Widths
  <2> QED BY <2>1, <2>3, <2>4
<1> QED BY <1>1, Limits DEF U8, U16, U32

(* A layout that starts with a section.                                    *)
LEMMA LaidSectionFirst ==
    ASSUME Large, NEW content \in Seq(Cells), Len(content) + 4 < Limit(4)
    PROVE  Laid(<<Counted>>, Section(content), 4 + Len(content), <<content>>)
<1>1. Laid(Append(<<>>, Counted), <<>> \o Section(content), 0 + (4 + Len(content)), Append(<<>>, content))
  BY LaidEmpty, LaidSection
<1>2. Section(content) \in Seq(Cells)
  BY PutBlob, Limits DEF Section, Sized
<1>3. <<>> \o Section(content) = Section(content)
  BY <1>2, ConcatEmptySeq
<1>4. Append(<<>>, Counted) = <<Counted>> /\ Append(<<>>, content) = <<content>> /\ 0 +
      (4 + Len(content)) = 4 + Len(content)
  OBVIOUS
<1> QED BY <1>1, <1>3, <1>4

(* What is read by another writing of the layout.                          *)
LEMMA LaidRead ==
    ASSUME NEW l, NEW c, NEW m, NEW v, Laid(l, c, m, v), NEW layout \in Seq(FieldKinds), Len(layout) = Len(l),
           \A i \in 1 .. Len(layout) : layout[i] = l[i]
    PROVE  /\ \A tail \in Seq(Cells) : Read(layout, c \o tail) = Reader(v, tail)
           /\ Read(layout, c) = Reader(v, <<>>)
           /\ c \in Seq(Cells) /\ Len(c) = m
<1>1. l \in Seq(FieldKinds)
  BY DEF Laid, Carries
<1>2. layout = l
  BY <1>1, SeqEqual
<1>3. \A tail \in Seq(Cells) : Read(layout, c \o tail) = Reader(v, tail)
  BY <1>2 DEF Laid, Carries
<1>4. c \in Seq(Cells)
  BY DEF Laid, Carries
<1>5. c \o <<>> = c /\ <<>> \in Seq(Cells)
  BY <1>4, ConcatEmptySeq
<1> QED BY <1>3, <1>4, <1>5 DEF Laid

-----------------------------------------------------------------------------
(* The layouts of packets.                                                 *)

LEMMA LimitFacts ==
    ASSUME Large
    PROVE  /\ Limit(1) \in Nat /\ Limit(2) \in Nat /\ Limit(4) \in Nat
           /\ 16 <= Limit(1) /\ 256 <= Limit(2) /\ 65536 <= Limit(4)
           /\ <<>> \in Seq(Cells) /\ Len(<<>>) = 0 /\ 0 .. 15 \subseteq Cells
<1>1. 0 .. 15 \subseteq Cells
  BY PacketAssumption DEF Cells, Large
<1> QED BY <1>1, Limits, LimitNat

(* Contents of a few cells.                                                *)
LEMMA OneCell == ASSUME Large, NEW c \in 0 .. 15 PROVE <<c>> \in Seq(Cells) /\ Len(<<c>>) = 1
<1>1. c \in Cells
  BY LimitFacts
<1> QED BY <1>1

LEMMA ZerosCells == ASSUME NEW n \in Nat PROVE Zeros(n) \in Seq(Cells) /\ Len(Zeros(n)) = n
  BY PacketAssumption DEF Zeros, Cells

(* The fields of the layouts below are fields.                             *)
LEMMA FieldsKnown ==
    /\ {Number(1), Number(2), Number(4), Counted, Blob(2, 2), Blob(2, 0), Blob(1, 0)} \subseteq FieldKinds
    /\ \A n \in Nat : Skip(n) \in FieldKinds
  BY DEF Number, Blob, Counted, Skip, FieldKinds

(* More of the same behind what was put down first.                        *)
After(layout, first, cells, size, values) ==
    /\ Laid(layout, first \o cells, size, values)
    /\ first \in Seq(Cells) /\ cells \in Seq(Cells)

(* As with LaidPlus and what follows it, behind cells that stay first.     *)
LEMMA AfterPlus ==
    ASSUME NEW l, NEW u, NEW d, NEW m, NEW v, After(l, u, d, m, v),
           NEW field \in FieldKinds, NEW part, NEW content, Puts(field, part, content), NEW n, Sized(part, n)
    PROVE  After(Append(l, field), u, d \o part, m + n, Append(v, content))
<1>1. Laid(Append(l, field), (u \o d) \o part, m + n, Append(v, content))
  BY LaidPlus DEF After
<1>2. u \in Seq(Cells)
  BY DEF After
<1>3. d \in Seq(Cells)
  BY DEF After
<1>4. part \in Seq(Cells)
  BY DEF Sized
<1>5. (u \o d) \o part = u \o (d \o part)
  <2>1. \A a, b, c \in Seq(Cells) : (a \o b) \o c = a \o (b \o c)
    BY CellsAssociative
  <2> QED BY <1>2, <1>3, <1>4, <2>1, Zenon
<1>6. d \o part \in Seq(Cells)
  BY <1>3, <1>4, Joined
<1> QED BY <1>1, <1>2, <1>5, <1>6 DEF After

LEMMA AfterNumber ==
    ASSUME Large, NEW l, NEW u, NEW d, NEW m, NEW v, After(l, u, d, m, v), NEW n \in Nat
    PROVE  /\ n < Limit(1) => After(Append(l, Number(1)), u, d \o U8(n), m + 1, Append(v, n))
           /\ n < Limit(2) => After(Append(l, Number(2)), u, d \o U16(n), m + 2, Append(v, n))
           /\ n < Limit(4) => After(Append(l, Number(4)), u, d \o U32(n), m + 4, Append(v, n))
<1>1. ASSUME NEW w \in Widths, n < Limit(w)
      PROVE  After(Append(l, Number(w)), u, d \o UInt(n, w), m + w, Append(v, n))
  BY <1>1, PutNumber, AfterPlus
<1> QED BY <1>1, Limits DEF U8, U16, U32

LEMMA AfterBlob ==
    ASSUME NEW l, NEW u, NEW d, NEW m, NEW v, After(l, u, d, m, v), NEW w \in Widths, NEW counted \in Nat,
           NEW content \in Seq(Cells), Len(content) + counted < Limit(w)
    PROVE  After(Append(l, Blob(w, counted)), u, d \o Prefixed(w, counted, content), m + (w + Len(content)),
                 Append(v, content))
  BY PutBlob, AfterPlus

LEMMA AfterSkip ==
    ASSUME NEW l, NEW u, NEW d, NEW m, NEW v, After(l, u, d, m, v), NEW content \in Seq(Cells), NEW n,
           n = Len(content)
    PROVE  After(Append(l, Skip(n)), u, d \o content, m + n, Append(v, content))
  BY PutSkip, AfterPlus DEF Sized

(* What starts with the first number behind u.                             *)
LEMMA AfterFirst ==
    ASSUME Large, NEW l, NEW u, NEW m, NEW v, Laid(l, u, m, v), NEW n \in Nat
    PROVE  /\ n < Limit(1) => After(Append(l, Number(1)), u, U8(n), m + 1, Append(v, n))
           /\ n < Limit(2) => After(Append(l, Number(2)), u, U16(n), m + 2, Append(v, n))
           /\ n < Limit(4) => After(Append(l, Number(4)), u, U32(n), m + 4, Append(v, n))
<1>1. u \in Seq(Cells)
  BY DEF Laid, Carries
<1>2. n < Limit(1) => U8(n) \in Seq(Cells)
  BY UIntCells, Limits DEF U8
<1>3. n < Limit(2) => U16(n) \in Seq(Cells)
  BY UIntCells, Limits DEF U16
<1>4. n < Limit(4) => U32(n) \in Seq(Cells)
  BY UIntCells, Limits DEF U32
<1> QED BY <1>1, <1>2, <1>3, <1>4, LaidNumber DEF After

(* Cells in number size that begin with others.                            *)
Leads(first, cells, size) ==
    /\ first \in Seq(Cells) /\ Sized(cells, size)
    /\ \E tail \in Seq(Cells) : cells = first \o tail

(* Cells that begin with others still do when more is put behind them.     *)
LEMMA LeadsNext ==
    ASSUME NEW p, NEW c, NEW m, Leads(p, c, m), NEW d, NEW n, Sized(d, n)
    PROVE  Leads(p, c \o d, m + n)
<1>1. p \in Seq(Cells)
  BY DEF Leads
<1>2. d \in Seq(Cells)
  BY DEF Sized
<1>3. PICK t \in Seq(Cells) : c = p \o t
  BY DEF Leads
<1>4. (p \o t) \o d = p \o (t \o d)
  <2>1. \A a, b, e \in Seq(Cells) : (a \o b) \o e = a \o (b \o e)
    BY CellsAssociative
  <2> QED BY <1>1, <1>2, <2>1, Zenon
<1>5. t \o d \in Seq(Cells)
  <2>1. t \in Seq(Cells)
    OBVIOUS
  <2> QED BY <1>2, <2>1, Joined
<1>6. Sized(c \o d, m + n)
  BY SizedJoin DEF Leads
<1> QED BY <1>1, <1>3, <1>4, <1>5, <1>6 DEF Leads

LEMMA LeadsFirst ==
    ASSUME NEW p, NEW n, Sized(p, n) PROVE Leads(p, p, n)
<1>1. p \in Seq(Cells) /\ <<>> \in Seq(Cells)
  BY DEF Sized
<1>2. p \o <<>> = p
  BY <1>1, ConcatEmptySeq
<1> QED BY <1>1, <1>2 DEF Leads

LEMMA LeadsSub ==
    ASSUME NEW p, NEW c, NEW m, Leads(p, c, m)
    PROVE  SubSeq(c, 1, Len(p)) = p
<1>1. p \in Seq(Cells)
  BY DEF Leads
<1>2. PICK t \in Seq(Cells) : c = p \o t
  BY DEF Leads
<1>3. <<>> \in Seq(Cells)
  OBVIOUS
<1>4. p \o <<>> = p /\ Len(<<>>) = 0
  BY <1>1, ConcatEmptySeq
<1>5. SubSeq((p \o <<>>) \o t, 1, Len(p)) = p
  <2>1. t \in Seq(Cells)
    OBVIOUS
  <2> QED BY <1>1, <1>3, <2>1, Slices
<1> QED BY <1>2, <1>4, <1>5

(* The sizes of the parts of a packet.                                     *)
LEMMA SizedUInt ==
    ASSUME Large, NEW n \in Nat PROVE Sized(U8(n), 1) /\ Sized(U16(n), 2) /\ Sized(U32(n), 4)
<1>1. ASSUME NEW w \in Widths PROVE Sized(UInt(n, w), w)
  BY UIntCells DEF Sized
<1> QED BY <1>1, Limits DEF U8, U16, U32

LEMMA SizedPrefixed ==
    ASSUME NEW content \in Seq(Cells), NEW w \in Widths, NEW counted \in Nat
    PROVE  Sized(Prefixed(w, counted, content), w + Len(content))
<1>1. Len(content) + counted \in Nat
  OBVIOUS
<1>2. Sized(UInt(Len(content) + counted, w), w)
  BY <1>1, UIntCells DEF Sized
<1>3. Sized(content, Len(content))
  BY DEF Sized
<1> QED BY <1>2, <1>3, SizedJoin DEF Prefixed

LEMMA SizedSection ==
    ASSUME Large, NEW content \in Seq(Cells)
    PROVE  Sized(Section(content), 4 + Len(content)) /\ Sized(Section16(content), 2 + Len(content))
  BY SizedPrefixed, Limits DEF Section, Section16

(* The body of protocol 12: eleven fields.                                 *)
SsoCells(q, tgt, cmd, uid) ==
    U32(q) \o U32(1) \o U32(1) \o Zeros(12) \o Section(tgt) \o Section(cmd) \o Section(<<>>) \o
    Section(<<2>>) \o Section(<<>>) \o Section16(<<3>>) \o Section(uid)

LEMMA SsoRead ==
    ASSUME Large, NEW q \in Nat, q < Limit(4), NEW tgt \in Seq(Cells), NEW cmd \in Seq(Cells),
           NEW uid \in Seq(Cells), Len(tgt) + 4 < Limit(4), Len(cmd) + 4 < Limit(4), Len(uid) + 4 < Limit(4)
    PROVE  \E v : /\ Laid(SsoLayout, SsoCells(q, tgt, cmd, uid), 52 + Len(tgt) + Len(cmd) + Len(uid), v)
                 /\ v[1] = q /\ v[6] = cmd
<1> DEFINE l1 == <<Number(4)>>  c1 == U32(q)  v1 == <<q>>
           l2 == Append(l1, Number(4))  c2 == c1 \o U32(1)  v2 == Append(v1, 1)
           l3 == Append(l2, Number(4))  c3 == c2 \o U32(1)  v3 == Append(v2, 1)
           l4 == Append(l3, Skip(12))  c4 == c3 \o Zeros(12)  v4 == Append(v3, Zeros(12))
           l5 == Append(l4, Counted)  c5 == c4 \o Section(tgt)  v5 == Append(v4, tgt)
           l6 == Append(l5, Counted)  c6 == c5 \o Section(cmd)  v6 == Append(v5, cmd)
           l7 == Append(l6, Counted)  c7 == c6 \o Section(<<>>)  v7 == Append(v6, <<>>)
           l8 == Append(l7, Counted)  c8 == c7 \o Section(<<2>>)  v8 == Append(v7, <<2>>)
           l9 == Append(l8, Counted)  c9 == c8 \o Section(<<>>)  v9 == Append(v8, <<>>)
           l10 == Append(l9, Blob(2, 2))  c10 == c9 \o Section16(<<3>>)  v10 == Append(v9, <<3>>)
           l11 == Append(l10, Counted)  c11 == c10 \o Section(uid)  v11 == Append(v10, uid)
<1>0. /\ 1 < Limit(4) /\ Len(<<>>) + 4 < Limit(4) /\ Len(<<2>>) + 4 < Limit(4) /\ Len(<<3>>) + 2 < Limit(2)
      /\ <<>> \in Seq(Cells) /\ <<2>> \in Seq(Cells) /\ <<3>> \in Seq(Cells)
      /\ Zeros(12) \in Seq(Cells) /\ 12 = Len(Zeros(12)) /\ Len(<<>>) = 0 /\ Len(<<2>>) = 1 /\ Len(<<3>>) = 1
  <2>1. <<2>> \in Seq(Cells) /\ Len(<<2>>) = 1 /\ <<3>> \in Seq(Cells) /\ Len(<<3>>) = 1
    BY OneCell
  <2>2. Zeros(12) \in Seq(Cells) /\ Len(Zeros(12)) = 12
    BY ZerosCells
  <2>3. 1 < Limit(4) /\ 0 + 4 < Limit(4) /\ 1 + 4 < Limit(4) /\ 1 + 2 < Limit(2)
    <3>1. 65536 <= Limit(4) /\ Limit(4) \in Nat /\ 256 <= Limit(2) /\ Limit(2) \in Nat
      BY LimitFacts
    <3> QED BY <3>1
  <2>4. <<>> \in Seq(Cells) /\ Len(<<>>) = 0
    BY LimitFacts
  <2> QED BY <2>1, <2>2, <2>3, <2>4
<1> HIDE DEF l1, c1, v1, l2, c2, v2, l3, c3, v3, l4, c4, v4, l5, c5, v5, l6, c6, v6, l7, c7,
             v7, l8, c8, v8, l9, c9, v9, l10, c10, v10, l11, c11, v11
<1>1. Laid(l1, c1, 4, v1)
  BY <1>0, LaidFirst DEF l1, c1, v1
<1>2. Laid(l2, c2, 4 + 4, v2)
  BY <1>0, <1>1, LaidNumber DEF l2, c2, v2
<1>3. Laid(l3, c3, 4 + 4 + 4, v3)
  BY <1>0, <1>2, LaidNumber DEF l3, c3, v3
<1>4. Laid(l4, c4, 4 + 4 + 4 + 12, v4)
  BY <1>0, <1>3, LaidSkip DEF l4, c4, v4
<1>5. Laid(l5, c5, 4 + 4 + 4 + 12 + (4 + Len(tgt)), v5)
  BY <1>0, <1>4, LaidSection DEF l5, c5, v5
<1>6. Laid(l6, c6, 4 + 4 + 4 + 12 + (4 + Len(tgt)) + (4 + Len(cmd)), v6)
  BY <1>0, <1>5, LaidSection DEF l6, c6, v6
<1>7. Laid(l7, c7, 4 + 4 + 4 + 12 + (4 + Len(tgt)) + (4 + Len(cmd)) + (4 + Len(<<>>)), v7)
  BY <1>0, <1>6, LaidSection DEF l7, c7, v7
<1>8. Laid(l8, c8, 4 + 4 + 4 + 12 + (4 + Len(tgt)) + (4 + Len(cmd)) + (4 + Len(<<>>)) + (4 + Len(<<2>>)), v8)
  BY <1>0, <1>7, LaidSection DEF l8, c8, v8
<1>9. Laid(l9, c9, 4 + 4 + 4 + 12 + (4 + Len(tgt)) + (4 + Len(cmd)) + (4 + Len(<<>>)) + (4 + Len(<<2>>)) +
      (4 + Len(<<>>)), v9)
  BY <1>0, <1>8, LaidSection DEF l9, c9, v9
<1>10. Laid(l10, c10, 4 + 4 + 4 + 12 + (4 + Len(tgt)) + (4 + Len(cmd)) + (4 + Len(<<>>)) +
       (4 + Len(<<2>>)) + (4 + Len(<<>>)) + (2 + Len(<<3>>)), v10)
  BY <1>0, <1>9, LaidSection DEF l10, c10, v10
<1>11. Laid(l11, c11, 4 + 4 + 4 + 12 + (4 + Len(tgt)) + (4 + Len(cmd)) + (4 + Len(<<>>)) +
       (4 + Len(<<2>>)) + (4 + Len(<<>>)) + (2 + Len(<<3>>)) + (4 + Len(uid)), v11)
  BY <1>0, <1>10, LaidSection DEF l11, c11, v11
<1>12. SsoLayout \in Seq(FieldKinds) /\ Len(SsoLayout) = 11
  BY FieldsKnown DEF SsoLayout
<1>13. Len(l11) = 11 /\ \A i \in 1 .. 11 : SsoLayout[i] = l11[i]
  BY DEF SsoLayout, l1, l2, l3, l4, l5, l6, l7, l8, l9, l10, l11
<1>14. v11[1] = q /\ v11[6] = cmd
  BY DEF v1, v2, v3, v4, v5, v6, v7, v8, v9, v10, v11
<1>15. 4 + 4 + 4 + 12 + (4 + Len(tgt)) + (4 + Len(cmd)) + (4 + Len(<<>>)) + (4 + Len(<<2>>)) +
       (4 + Len(<<>>)) + (2 + Len(<<3>>)) + (4 + Len(uid)) = 52 + Len(tgt) + Len(cmd) + Len(uid)
  BY <1>0
<1>16. SsoLayout = l11
  <2>1. l11 \in Seq(FieldKinds)
    BY <1>11 DEF Laid, Carries
  <2> QED BY <2>1, <1>12, <1>13, SeqEqual
<1> QED BY <1>11, <1>14, <1>15, <1>16 DEF SsoCells, c1, c2, c3, c4, c5, c6, c7, c8, c9, c10, c11

(* A body and its payload.                                                 *)
PartsCells(head, payload) ==
    Section(head) \o Section(payload)

LEMMA PartsRead ==
    ASSUME Large, NEW head \in Seq(Cells), NEW payload \in Seq(Cells), Len(head) + 4 < Limit(4),
           Len(payload) + 4 < Limit(4)
    PROVE  \E v : /\ Laid(PartsLayout, PartsCells(head, payload), 8 + Len(head) + Len(payload), v)
                 /\ v[1] = head /\ v[2] = payload
<1> DEFINE l1 == <<Counted>>  c1 == Section(head)  v1 == <<head>>
           l2 == Append(l1, Counted)  c2 == c1 \o Section(payload)  v2 == Append(v1, payload)
<1>0. TRUE
      /\ <<>> \in Seq(Cells) /\ Len(<<>>) = 0
  <2>3. TRUE
    <3>1. 65536 <= Limit(4) /\ Limit(4) \in Nat /\ 256 <= Limit(2) /\ Limit(2) \in Nat /\ 16 <= Limit(1)
          /\ Limit(1) \in Nat
      BY LimitFacts
    <3> QED BY <3>1, Limits
  <2>4. <<>> \in Seq(Cells) /\ Len(<<>>) = 0
    BY LimitFacts
  <2> QED BY <2>3, <2>4
<1> HIDE DEF l1, c1, v1, l2, c2, v2
<1>1. Laid(l1, c1, 4 + Len(head), v1)
  BY <1>0, LaidSectionFirst DEF l1, c1, v1
<1>2. Laid(l2, c2, (4 + Len(head)) + (4 + Len(payload)), v2)
  BY <1>0, <1>1, LaidSection DEF l2, c2, v2
<1>3. PartsLayout \in Seq(FieldKinds) /\ Len(PartsLayout) = 2
  BY FieldsKnown DEF PartsLayout
<1>4. Len(l2) = 2 /\ \A i \in 1 .. 2 : PartsLayout[i] = l2[i]
  BY DEF PartsLayout, l1, l2
<1>5. v2[1] = head /\ v2[2] = payload
  BY DEF v1, v2
<1>6. (4 + Len(head)) + (4 + Len(payload)) = 8 + Len(head) + Len(payload)
  BY <1>0
<1>7. PartsLayout = l2
  <2>1. l2 \in Seq(FieldKinds)
    BY <1>2 DEF Laid, Carries
  <2> QED BY <2>1, <1>3, <1>4, SeqEqual
<1> QED BY <1>2, <1>5, <1>6, <1>7 DEF PartsCells, c1, c2

(* The head of a packet of protocol 12.                                    *)
Head12Cells(flag, d2, uin) ==
    U32(12) \o U8(flag) \o Section(d2) \o U8(0) \o Section(uin)

LEMMA Head12Read ==
    ASSUME Large, NEW flag \in {1, 2}, NEW d2 \in Seq(Cells), NEW uin \in Seq(Cells), Len(d2) + 4 < Limit(4),
           Len(uin) + 4 < Limit(4)
    PROVE  \E v : /\ Laid(Head12Layout, Head12Cells(flag, d2, uin), 14 + Len(d2) + Len(uin), v)
                 /\ v[2] = flag
<1> DEFINE l1 == <<Number(4)>>  c1 == U32(12)  v1 == <<12>>
           l2 == Append(l1, Number(1))  c2 == c1 \o U8(flag)  v2 == Append(v1, flag)
           l3 == Append(l2, Counted)  c3 == c2 \o Section(d2)  v3 == Append(v2, d2)
           l4 == Append(l3, Number(1))  c4 == c3 \o U8(0)  v4 == Append(v3, 0)
           l5 == Append(l4, Counted)  c5 == c4 \o Section(uin)  v5 == Append(v4, uin)
<1>0. /\ 12 < Limit(4) /\ 1 < Limit(1) /\ 2 < Limit(1) /\ 0 < Limit(1)
      /\ <<>> \in Seq(Cells) /\ Len(<<>>) = 0
  <2>3. 12 < Limit(4) /\ 1 < Limit(1) /\ 2 < Limit(1) /\ 0 < Limit(1)
    <3>1. 65536 <= Limit(4) /\ Limit(4) \in Nat /\ 256 <= Limit(2) /\ Limit(2) \in Nat /\ 16 <= Limit(1)
          /\ Limit(1) \in Nat
      BY LimitFacts
    <3> QED BY <3>1, Limits, SMTT(30)
  <2>4. <<>> \in Seq(Cells) /\ Len(<<>>) = 0
    BY LimitFacts
  <2> QED BY <2>3, <2>4
<1> HIDE DEF l1, c1, v1, l2, c2, v2, l3, c3, v3, l4, c4, v4, l5, c5, v5
<1>1. Laid(l1, c1, 4, v1)
  BY <1>0, LaidFirst DEF l1, c1, v1
<1>2. Laid(l2, c2, 4 + 1, v2)
  BY <1>0, <1>1, LaidNumber DEF l2, c2, v2
<1>3. Laid(l3, c3, 4 + 1 + (4 + Len(d2)), v3)
  BY <1>0, <1>2, LaidSection DEF l3, c3, v3
<1>4. Laid(l4, c4, 4 + 1 + (4 + Len(d2)) + 1, v4)
  BY <1>0, <1>3, LaidNumber DEF l4, c4, v4
<1>5. Laid(l5, c5, 4 + 1 + (4 + Len(d2)) + 1 + (4 + Len(uin)), v5)
  BY <1>0, <1>4, LaidSection DEF l5, c5, v5
<1>6. Head12Layout \in Seq(FieldKinds) /\ Len(Head12Layout) = 5
  BY FieldsKnown DEF Head12Layout
<1>7. Len(l5) = 5 /\ \A i \in 1 .. 5 : Head12Layout[i] = l5[i]
  BY DEF Head12Layout, l1, l2, l3, l4, l5
<1>8. v5[2] = flag
  BY DEF v1, v2, v3, v4, v5
<1>9. 4 + 1 + (4 + Len(d2)) + 1 + (4 + Len(uin)) = 14 + Len(d2) + Len(uin)
  BY <1>0
<1>10. Head12Layout = l5
  <2>1. l5 \in Seq(FieldKinds)
    BY <1>5 DEF Laid, Carries
  <2> QED BY <2>1, <1>6, <1>7, SeqEqual
<1> QED BY <1>5, <1>8, <1>9, <1>10 DEF Head12Cells, c1, c2, c3, c4, c5

(* A packet of protocol 13.                                                *)
Head13Cells(q, names, payload) ==
    U32(13) \o U8(0) \o U32(q) \o U8(0) \o Section(<<0>>) \o Section(names) \o Section(payload)

LEMMA Head13Read ==
    ASSUME Large, NEW q \in Nat, q < Limit(4), NEW names \in Seq(Cells), NEW payload \in Seq(Cells),
           Len(names) + 4 < Limit(4), Len(payload) + 4 < Limit(4)
    PROVE  \E v : /\ Laid(Head13Layout, Head13Cells(q, names, payload), 23 + Len(names) + Len(payload), v)
                 /\ v[3] = q /\ v[6] = names /\ v[7] = payload
<1> DEFINE l1 == <<Number(4)>>  c1 == U32(13)  v1 == <<13>>
           l2 == Append(l1, Number(1))  c2 == c1 \o U8(0)  v2 == Append(v1, 0)
           l3 == Append(l2, Number(4))  c3 == c2 \o U32(q)  v3 == Append(v2, q)
           l4 == Append(l3, Number(1))  c4 == c3 \o U8(0)  v4 == Append(v3, 0)
           l5 == Append(l4, Counted)  c5 == c4 \o Section(<<0>>)  v5 == Append(v4, <<0>>)
           l6 == Append(l5, Counted)  c6 == c5 \o Section(names)  v6 == Append(v5, names)
           l7 == Append(l6, Counted)  c7 == c6 \o Section(payload)  v7 == Append(v6, payload)
<1>0. /\ 13 < Limit(4) /\ 0 < Limit(1) /\ 1 + 4 < Limit(4)
      /\ <<0>> \in Seq(Cells) /\ Len(<<0>>) = 1
      /\ <<>> \in Seq(Cells) /\ Len(<<>>) = 0
  <2>1. <<0>> \in Seq(Cells) /\ Len(<<0>>) = 1
    BY OneCell
  <2>3. 13 < Limit(4) /\ 0 < Limit(1) /\ 1 + 4 < Limit(4)
    <3>1. 65536 <= Limit(4) /\ Limit(4) \in Nat /\ 256 <= Limit(2) /\ Limit(2) \in Nat /\ 16 <= Limit(1)
          /\ Limit(1) \in Nat
      BY LimitFacts
    <3> QED BY <3>1, Limits, SMTT(30)
  <2>4. <<>> \in Seq(Cells) /\ Len(<<>>) = 0
    BY LimitFacts
  <2> QED BY <2>1, <2>3, <2>4
<1> HIDE DEF l1, c1, v1, l2, c2, v2, l3, c3, v3, l4, c4, v4, l5, c5, v5, l6, c6, v6, l7, c7, v7
<1>1. Laid(l1, c1, 4, v1)
  BY <1>0, LaidFirst DEF l1, c1, v1
<1>2. Laid(l2, c2, 4 + 1, v2)
  BY <1>0, <1>1, LaidNumber DEF l2, c2, v2
<1>3. Laid(l3, c3, 4 + 1 + 4, v3)
  BY <1>0, <1>2, LaidNumber DEF l3, c3, v3
<1>4. Laid(l4, c4, 4 + 1 + 4 + 1, v4)
  BY <1>0, <1>3, LaidNumber DEF l4, c4, v4
<1>5. Laid(l5, c5, 4 + 1 + 4 + 1 + (4 + Len(<<0>>)), v5)
  BY <1>0, <1>4, LaidSection DEF l5, c5, v5
<1>6. Laid(l6, c6, 4 + 1 + 4 + 1 + (4 + Len(<<0>>)) + (4 + Len(names)), v6)
  BY <1>0, <1>5, LaidSection DEF l6, c6, v6
<1>7. Laid(l7, c7, 4 + 1 + 4 + 1 + (4 + Len(<<0>>)) + (4 + Len(names)) + (4 + Len(payload)), v7)
  BY <1>0, <1>6, LaidSection DEF l7, c7, v7
<1>8. Head13Layout \in Seq(FieldKinds) /\ Len(Head13Layout) = 7
  BY FieldsKnown DEF Head13Layout
<1>9. Len(l7) = 7 /\ \A i \in 1 .. 7 : Head13Layout[i] = l7[i]
  BY DEF Head13Layout, l1, l2, l3, l4, l5, l6, l7
<1>10. v7[3] = q /\ v7[6] = names /\ v7[7] = payload
  BY DEF v1, v2, v3, v4, v5, v6, v7
<1>11. 4 + 1 + 4 + 1 + (4 + Len(<<0>>)) + (4 + Len(names)) + (4 + Len(payload)) = 23 + Len(names) + Len(payload)
  BY <1>0
<1>12. Head13Layout = l7
  <2>1. l7 \in Seq(FieldKinds)
    BY <1>7 DEF Laid, Carries
  <2> QED BY <2>1, <1>8, <1>9, SeqEqual
<1> QED BY <1>7, <1>10, <1>11, <1>12 DEF Head13Cells, c1, c2, c3, c4, c5, c6, c7

(* The command and the uid of protocol 13.                                 *)
NamesCells(cmd, uid) ==
    Section(cmd) \o Section(<<>>) \o Section(uid)

LEMMA NamesRead ==
    ASSUME Large, NEW cmd \in Seq(Cells), NEW uid \in Seq(Cells), Len(cmd) + 4 < Limit(4), Len(uid) + 4 < Limit(4)
    PROVE  \E v : /\ Laid(NamesLayout, NamesCells(cmd, uid), 12 + Len(cmd) + Len(uid), v)
                 /\ v[1] = cmd
<1> DEFINE l1 == <<Counted>>  c1 == Section(cmd)  v1 == <<cmd>>
           l2 == Append(l1, Counted)  c2 == c1 \o Section(<<>>)  v2 == Append(v1, <<>>)
           l3 == Append(l2, Counted)  c3 == c2 \o Section(uid)  v3 == Append(v2, uid)
<1>0. /\ 0 + 4 < Limit(4)
      /\ <<>> \in Seq(Cells) /\ Len(<<>>) = 0
  <2>3. 0 + 4 < Limit(4)
    <3>1. 65536 <= Limit(4) /\ Limit(4) \in Nat /\ 256 <= Limit(2) /\ Limit(2) \in Nat /\ 16 <= Limit(1)
          /\ Limit(1) \in Nat
      BY LimitFacts
    <3> QED BY <3>1, Limits
  <2>4. <<>> \in Seq(Cells) /\ Len(<<>>) = 0
    BY LimitFacts
  <2> QED BY <2>3, <2>4
<1> HIDE DEF l1, c1, v1, l2, c2, v2, l3, c3, v3
<1>1. Laid(l1, c1, 4 + Len(cmd), v1)
  BY <1>0, LaidSectionFirst DEF l1, c1, v1
<1>2. Laid(l2, c2, (4 + Len(cmd)) + (4 + Len(<<>>)), v2)
  BY <1>0, <1>1, LaidSection DEF l2, c2, v2
<1>3. Laid(l3, c3, (4 + Len(cmd)) + (4 + Len(<<>>)) + (4 + Len(uid)), v3)
  BY <1>0, <1>2, LaidSection DEF l3, c3, v3
<1>4. NamesLayout \in Seq(FieldKinds) /\ Len(NamesLayout) = 3
  BY FieldsKnown DEF NamesLayout
<1>5. Len(l3) = 3 /\ \A i \in 1 .. 3 : NamesLayout[i] = l3[i]
  BY DEF NamesLayout, l1, l2, l3
<1>6. v3[1] = cmd
  BY DEF v1, v2, v3
<1>7. (4 + Len(cmd)) + (4 + Len(<<>>)) + (4 + Len(uid)) = 12 + Len(cmd) + Len(uid)
  BY <1>0
<1>8. NamesLayout = l3
  <2>1. l3 \in Seq(FieldKinds)
    BY <1>3 DEF Laid, Carries
  <2> QED BY <2>1, <1>4, <1>5, SeqEqual
<1> QED BY <1>3, <1>6, <1>7, <1>8 DEF NamesCells, c1, c2, c3

(* The head of a TransEmp.                                                 *)
OuterCells(n) ==
    U8(0) \o U16(n) \o U32(1) \o U32(2) \o Prefixed(2, 0, <<>>) \o Prefixed(1, 0, <<>>)

LEMMA OuterRead ==
    ASSUME Large, NEW n \in Nat, n < Limit(2)
    PROVE  \E v : /\ Laid(OuterLayout, OuterCells(n), 14, v)
                 /\ v[2] = n
<1> DEFINE l1 == <<Number(1)>>  c1 == U8(0)  v1 == <<0>>
           l2 == Append(l1, Number(2))  c2 == c1 \o U16(n)  v2 == Append(v1, n)
           l3 == Append(l2, Number(4))  c3 == c2 \o U32(1)  v3 == Append(v2, 1)
           l4 == Append(l3, Number(4))  c4 == c3 \o U32(2)  v4 == Append(v3, 2)
           l5 == Append(l4, Blob(2, 0))  c5 == c4 \o Prefixed(2, 0, <<>>)  v5 == Append(v4, <<>>)
           l6 == Append(l5, Blob(1, 0))  c6 == c5 \o Prefixed(1, 0, <<>>)  v6 == Append(v5, <<>>)
<1>0. /\ 0 < Limit(1) /\ 1 < Limit(4) /\ 2 < Limit(4) /\ 0 + 0 < Limit(2) /\ 0 + 0 < Limit(1)
      /\ 1 \in Widths /\ 2 \in Widths
      /\ <<>> \in Seq(Cells) /\ Len(<<>>) = 0
  <2>3. 0 < Limit(1) /\ 1 < Limit(4) /\ 2 < Limit(4) /\ 0 + 0 < Limit(2) /\ 0 + 0 < Limit(1)
        /\ 1 \in Widths /\ 2 \in Widths
    <3>1. 65536 <= Limit(4) /\ Limit(4) \in Nat /\ 256 <= Limit(2) /\ Limit(2) \in Nat /\ 16 <= Limit(1)
          /\ Limit(1) \in Nat
      BY LimitFacts
    <3> QED BY <3>1, Limits
  <2>4. <<>> \in Seq(Cells) /\ Len(<<>>) = 0
    BY LimitFacts
  <2> QED BY <2>3, <2>4
<1> HIDE DEF l1, c1, v1, l2, c2, v2, l3, c3, v3, l4, c4, v4, l5, c5, v5, l6, c6, v6
<1>1. Laid(l1, c1, 1, v1)
  BY <1>0, LaidFirst DEF l1, c1, v1
<1>2. Laid(l2, c2, 1 + 2, v2)
  BY <1>0, <1>1, LaidNumber DEF l2, c2, v2
<1>3. Laid(l3, c3, 1 + 2 + 4, v3)
  BY <1>0, <1>2, LaidNumber DEF l3, c3, v3
<1>4. Laid(l4, c4, 1 + 2 + 4 + 4, v4)
  BY <1>0, <1>3, LaidNumber DEF l4, c4, v4
<1>5. Laid(l5, c5, 1 + 2 + 4 + 4 + (2 + Len(<<>>)), v5)
  BY <1>0, <1>4, LaidBlob DEF l5, c5, v5
<1>6. Laid(l6, c6, 1 + 2 + 4 + 4 + (2 + Len(<<>>)) + (1 + Len(<<>>)), v6)
  BY <1>0, <1>5, LaidBlob DEF l6, c6, v6
<1>7. OuterLayout \in Seq(FieldKinds) /\ Len(OuterLayout) = 6
  BY FieldsKnown DEF OuterLayout
<1>8. Len(l6) = 6 /\ \A i \in 1 .. 6 : OuterLayout[i] = l6[i]
  BY DEF OuterLayout, l1, l2, l3, l4, l5, l6
<1>9. v6[2] = n
  BY DEF v1, v2, v3, v4, v5, v6
<1>10. 1 + 2 + 4 + 4 + (2 + Len(<<>>)) + (1 + Len(<<>>)) = 14
  BY <1>0
<1>11. OuterLayout = l6
  <2>1. l6 \in Seq(FieldKinds)
    BY <1>6 DEF Laid, Carries
  <2> QED BY <2>1, <1>7, <1>8, SeqEqual
<1> QED BY <1>6, <1>9, <1>10, <1>11 DEF OuterCells, c1, c2, c3, c4, c5, c6

(* The envelope of a login in front of what is encrypted: its length is    *)
(* the second field.                                                       *)
EnvelopeCells(cmd) ==
    U16(1) \o U16(cmd) \o U16(0) \o U32(0) \o U8(3) \o U8(5) \o U32(0) \o U8(3) \o U16(0) \o
    U16(0) \o U32(0) \o U8(2) \o U8(1) \o <<0>> \o U16(1) \o U16(1) \o Prefixed(2, 0, <<4>>)

LEMMA EnvelopeRead ==
    ASSUME Large, NEW n \in Nat, n < Limit(2), NEW cmd \in {1, 2}
    PROVE  \E v : After(EnvelopeLayout, U8(2) \o U16(n), EnvelopeCells(cmd), 38, v) /\ v[2] = n
<1> DEFINE l1 == <<Number(1)>>  u1 == U8(2)  v1 == <<2>>
           l2 == Append(l1, Number(2))  u2 == u1 \o U16(n)  v2 == Append(v1, n)
           l3 == Append(l2, Number(2))  d3 == U16(1)  v3 == Append(v2, 1)
           l4 == Append(l3, Number(2))  d4 == d3 \o U16(cmd)  v4 == Append(v3, cmd)
           l5 == Append(l4, Number(2))  d5 == d4 \o U16(0)  v5 == Append(v4, 0)
           l6 == Append(l5, Number(4))  d6 == d5 \o U32(0)  v6 == Append(v5, 0)
           l7 == Append(l6, Number(1))  d7 == d6 \o U8(3)  v7 == Append(v6, 3)
           l8 == Append(l7, Number(1))  d8 == d7 \o U8(5)  v8 == Append(v7, 5)
           l9 == Append(l8, Number(4))  d9 == d8 \o U32(0)  v9 == Append(v8, 0)
           l10 == Append(l9, Number(1))  d10 == d9 \o U8(3)  v10 == Append(v9, 3)
           l11 == Append(l10, Number(2))  d11 == d10 \o U16(0)  v11 == Append(v10, 0)
           l12 == Append(l11, Number(2))  d12 == d11 \o U16(0)  v12 == Append(v11, 0)
           l13 == Append(l12, Number(4))  d13 == d12 \o U32(0)  v13 == Append(v12, 0)
           l14 == Append(l13, Number(1))  d14 == d13 \o U8(2)  v14 == Append(v13, 2)
           l15 == Append(l14, Number(1))  d15 == d14 \o U8(1)  v15 == Append(v14, 1)
           l16 == Append(l15, Skip(1))  d16 == d15 \o <<0>>  v16 == Append(v15, <<0>>)
           l17 == Append(l16, Number(2))  d17 == d16 \o U16(1)  v17 == Append(v16, 1)
           l18 == Append(l17, Number(2))  d18 == d17 \o U16(1)  v18 == Append(v17, 1)
           l19 == Append(l18, Blob(2, 0))  d19 == d18 \o Prefixed(2, 0, <<4>>)  v19 == Append(v18, <<4>>)
<1>0. /\ cmd \in Nat /\ cmd < Limit(2) /\ 0 < Limit(1) /\ 1 < Limit(1) /\ 2 < Limit(1) /\ 3 < Limit(1)
      /\ 5 < Limit(1)
      /\ 0 < Limit(2) /\ 1 < Limit(2) /\ 1 + 0 < Limit(2) /\ 0 < Limit(4) /\ 2 \in Widths
      /\ <<0>> \in Seq(Cells) /\ Len(<<0>>) = 1 /\ 1 = Len(<<0>>) /\ <<4>> \in Seq(Cells) /\ Len(<<4>>) = 1
  <2>1. <<0>> \in Seq(Cells) /\ Len(<<0>>) = 1 /\ <<4>> \in Seq(Cells) /\ Len(<<4>>) = 1
    BY OneCell
  <2>2. /\ cmd \in Nat /\ cmd < Limit(2) /\ 0 < Limit(1) /\ 1 < Limit(1) /\ 2 < Limit(1) /\ 3 < Limit(1)
        /\ 5 < Limit(1)
        /\ 0 < Limit(2) /\ 1 < Limit(2) /\ 1 + 0 < Limit(2) /\ 0 < Limit(4) /\ 2 \in Widths
    <3>1. 65536 <= Limit(4) /\ Limit(4) \in Nat /\ 256 <= Limit(2) /\ Limit(2) \in Nat /\ 16 <= Limit(1)
          /\ Limit(1) \in Nat
      BY LimitFacts
    <3> QED BY <3>1, Limits
  <2> QED BY <2>1, <2>2
<1> HIDE DEF l1, u1, v1, l2, u2, v2, l3, d3, v3, l4, d4, v4, l5, d5, v5, l6, d6, v6, l7, d7,
             v7, l8, d8, v8, l9, d9, v9, l10, d10, v10, l11, d11, v11, l12, d12, v12, l13, d13,
             v13, l14, d14, v14, l15, d15, v15, l16, d16, v16, l17, d17, v17, l18, d18, v18,
             l19, d19, v19
<1>1. Laid(l1, u1, 1, v1)
  BY <1>0, LaidFirst DEF l1, u1, v1
<1>2. Laid(l2, u2, 1 + 2, v2)
  BY <1>0, <1>1, LaidNumber DEF l2, u2, v2
<1>3. After(l3, u2, d3, 1 + 2 + 2, v3)
  BY <1>0, <1>2, AfterFirst DEF l3, d3, v3
<1>4. After(l4, u2, d4, 1 + 2 + 2 + 2, v4)
  BY <1>0, <1>3, AfterNumber DEF l4, d4, v4
<1>5. After(l5, u2, d5, 1 + 2 + 2 + 2 + 2, v5)
  BY <1>0, <1>4, AfterNumber DEF l5, d5, v5
<1>6. After(l6, u2, d6, 1 + 2 + 2 + 2 + 2 + 4, v6)
  BY <1>0, <1>5, AfterNumber DEF l6, d6, v6
<1>7. After(l7, u2, d7, 1 + 2 + 2 + 2 + 2 + 4 + 1, v7)
  BY <1>0, <1>6, AfterNumber DEF l7, d7, v7
<1>8. After(l8, u2, d8, 1 + 2 + 2 + 2 + 2 + 4 + 1 + 1, v8)
  BY <1>0, <1>7, AfterNumber DEF l8, d8, v8
<1>9. After(l9, u2, d9, 1 + 2 + 2 + 2 + 2 + 4 + 1 + 1 + 4, v9)
  BY <1>0, <1>8, AfterNumber DEF l9, d9, v9
<1>10. After(l10, u2, d10, 1 + 2 + 2 + 2 + 2 + 4 + 1 + 1 + 4 + 1, v10)
  BY <1>0, <1>9, AfterNumber DEF l10, d10, v10
<1>11. After(l11, u2, d11, 1 + 2 + 2 + 2 + 2 + 4 + 1 + 1 + 4 + 1 + 2, v11)
  BY <1>0, <1>10, AfterNumber DEF l11, d11, v11
<1>12. After(l12, u2, d12, 1 + 2 + 2 + 2 + 2 + 4 + 1 + 1 + 4 + 1 + 2 + 2, v12)
  BY <1>0, <1>11, AfterNumber DEF l12, d12, v12
<1>13. After(l13, u2, d13, 1 + 2 + 2 + 2 + 2 + 4 + 1 + 1 + 4 + 1 + 2 + 2 + 4, v13)
  BY <1>0, <1>12, AfterNumber DEF l13, d13, v13
<1>14. After(l14, u2, d14, 1 + 2 + 2 + 2 + 2 + 4 + 1 + 1 + 4 + 1 + 2 + 2 + 4 + 1, v14)
  BY <1>0, <1>13, AfterNumber DEF l14, d14, v14
<1>15. After(l15, u2, d15, 1 + 2 + 2 + 2 + 2 + 4 + 1 + 1 + 4 + 1 + 2 + 2 + 4 + 1 + 1, v15)
  BY <1>0, <1>14, AfterNumber DEF l15, d15, v15
<1>16. After(l16, u2, d16, 1 + 2 + 2 + 2 + 2 + 4 + 1 + 1 + 4 + 1 + 2 + 2 + 4 + 1 + 1 + 1, v16)
  BY <1>0, <1>15, AfterSkip DEF l16, d16, v16
<1>17. After(l17, u2, d17, 1 + 2 + 2 + 2 + 2 + 4 + 1 + 1 + 4 + 1 + 2 + 2 + 4 + 1 + 1 + 1 + 2, v17)
  BY <1>0, <1>16, AfterNumber DEF l17, d17, v17
<1>18. After(l18, u2, d18, 1 + 2 + 2 + 2 + 2 + 4 + 1 + 1 + 4 + 1 + 2 + 2 + 4 + 1 + 1 + 1 + 2 + 2, v18)
  BY <1>0, <1>17, AfterNumber DEF l18, d18, v18
<1>19. After(l19, u2, d19, 1 + 2 + 2 + 2 + 2 + 4 + 1 + 1 + 4 + 1 + 2 + 2 + 4 + 1 + 1 + 1 + 2 + 2 +
       (2 + Len(<<4>>)), v19)
  BY <1>0, <1>18, AfterBlob DEF l19, d19, v19
<1>20. EnvelopeLayout \in Seq(FieldKinds) /\ Len(EnvelopeLayout) = 19
  BY FieldsKnown DEF EnvelopeLayout
<1>21. Len(l19) = 19 /\ \A i \in 1 .. 19 : EnvelopeLayout[i] = l19[i]
  BY DEF EnvelopeLayout, l1, l2, l3, l4, l5, l6, l7, l8, l9, l10, l11, l12, l13, l14, l15, l16, l17, l18, l19
<1>22. v19[2] = n
  BY DEF v1, v2, v3, v4, v5, v6, v7, v8, v9, v10, v11, v12, v13, v14, v15, v16, v17, v18, v19
<1>23. 1 + 2 + 2 + 2 + 2 + 4 + 1 + 1 + 4 + 1 + 2 + 2 + 4 + 1 + 1 + 1 + 2 + 2 + (2 + Len(<<4>>)) = 38
  BY <1>0
<1>24. EnvelopeLayout = l19
  <2>1. l19 \in Seq(FieldKinds)
    BY <1>19 DEF After, Laid, Carries
  <2> QED BY <2>1, <1>20, <1>21, SeqEqual
<1> QED BY <1>19, <1>22, <1>23, <1>24 DEF EnvelopeCells, u1, u2, d3, d4, d5, d6, d7, d8, d9, d10, d11, d12,
                   d13, d14, d15, d16, d17, d18, d19

-----------------------------------------------------------------------------
(* The packets themselves.                                                 *)

(* Encrypting adds at most 17 cells.                                       *)
LEMMA TeaSized ==
    ASSUME NEW text \in Seq(Cells), NEW key \in Cells
    PROVE  /\ TeaEncrypt(text, key) \in Seq(Cells) /\ Len(TeaEncrypt(text, key)) <= Len(text) + 17
<1>1. TeaEncrypt(text, key) = Shift(Padded(text), key)
  BY DEF TeaEncrypt, Padded
<1>2. Padded(text) \in Seq(Cells) /\ FillCount(text) \in 2 .. 9
      /\ Len(Padded(text)) = Len(text) + FillCount(text) + 8
  BY PaddedShape
<1>3. Len(Padded(text)) <= Len(text) + 17
  <2>1. Len(text) \in Nat
    OBVIOUS
  <2> QED BY <1>2, <2>1
<1>4. Shift(Padded(text), key) \in Seq(Cells) /\ Len(Shift(Padded(text), key)) = Len(Padded(text))
  BY <1>2, ShiftBack
<1> QED BY <1>1, <1>3, <1>4

(* What is read without a rest or with one.                                *)
LEMMA LaidReads ==
    ASSUME NEW l, NEW c, NEW m, NEW v, Laid(l, c, m, v)
    PROVE  /\ \A tail \in Seq(Cells) : Read(l, c \o tail) = Reader(v, tail)
           /\ Read(l, c) = Reader(v, <<>>)
           /\ c \in Seq(Cells) /\ Len(c) = m
<1>1. c \in Seq(Cells)
  BY DEF Laid, Carries
<1>2. c \o <<>> = c /\ <<>> \in Seq(Cells)
  BY <1>1, ConcatEmptySeq
<1> QED BY <1>1, <1>2 DEF Laid, Carries

(* What a section holds is read back, and nothing is left.                 *)
LEMMA WholeRead ==
    ASSUME Large, NEW content \in Seq(Cells), Len(content) + 4 < Limit(4)
    PROVE  Read(<<Counted>>, Section(content)) = Reader(<<content>>, <<>>)
<1>1. Laid(<<Counted>>, Section(content), 4 + Len(content), <<content>>)
  BY LaidSectionFirst
<1>2. <<Counted>> \in Seq(FieldKinds) /\ Len(<<Counted>>) = 1
  BY FieldsKnown
<1> QED BY <1>1, LaidReads

LEMMA ProtoSized ==
    ASSUME Large, NEW uid \in Seq(Cells)
    PROVE  Proto(uid) \in Seq(Cells) /\ Len(Proto(uid)) <= Len(uid) + 1
<1>1. <<1>> \in Seq(Cells) /\ Len(<<1>>) = 1
  BY OneCell
<1>2. <<1>> \o uid \in Seq(Cells) /\ Len(<<1>> \o uid) = Len(<<1>>) + Len(uid)
  BY <1>1, Joined
<1>3. Len(uid) \in Nat /\ Len(<<>>) = 0 /\ <<>> \in Seq(Cells)
  OBVIOUS
<1> QED BY <1>1, <1>2, <1>3 DEF Proto

Session(s) ==
    /\ s.uin \in Seq(Cells) /\ s.uid \in Seq(Cells) /\ s.tgt \in Seq(Cells) /\ s.d2 \in Seq(Cells)
    /\ s.d2Key \in Cells /\ s.shared \in Cells /\ (s.d2 = <<>> => s.d2Key = 0)
    /\ Len(s.uin) + Len(s.uid) + Len(s.tgt) + Len(s.d2) + 1024 <= Limit(4)

Request(p) ==
    /\ p.sequence \in Nat /\ p.sequence < Limit(4)
    /\ p.command \in Seq(Cells) /\ Len(p.command) = 1
    /\ p.payload \in Seq(Cells) /\ Len(p.payload) <= 255

(* The body of a packet of protocol 12, as its parts are found in it.      *)
LEMMA SsoParts ==
    ASSUME Large, NEW q \in Nat, q < Limit(4), NEW tgt \in Seq(Cells), NEW cmd \in Seq(Cells),
           NEW uid \in Seq(Cells), NEW payload \in Seq(Cells),
           Len(tgt) + Len(cmd) + Len(uid) + Len(payload) + 60 < Limit(4)
    PROVE  LET body == PartsCells(SsoCells(q, tgt, cmd, uid), payload)
               parts == Read(PartsLayout, body)
               sso == Read(SsoLayout, parts.fields[1])
           IN  /\ body \in Seq(Cells) /\ Len(body) = 60 + Len(tgt) + Len(cmd) + Len(uid) + Len(payload)
               /\ sso.fields[1] = q /\ sso.fields[6] = cmd /\ parts.fields[2] = payload
<1> DEFINE head == SsoCells(q, tgt, cmd, uid)
           body == PartsCells(head, payload)
<1>1. Limit(4) \in Nat
  BY LimitFacts
<1>2. Len(tgt) \in Nat /\ Len(cmd) \in Nat /\ Len(uid) \in Nat /\ Len(payload) \in Nat
  OBVIOUS
<1>3. Len(tgt) + 4 < Limit(4) /\ Len(cmd) + 4 < Limit(4) /\ Len(uid) + 4 < Limit(4)
  BY <1>1, <1>2
<1>4. PICK v : /\ Laid(SsoLayout, head, 52 + Len(tgt) + Len(cmd) + Len(uid), v)
               /\ v[1] = q /\ v[6] = cmd
  BY <1>3, SsoRead
<1> HIDE DEF head
<1>5. Read(SsoLayout, head) = Reader(v, <<>>)
  BY <1>4, LaidReads
<1>6. head \in Seq(Cells)
  BY <1>4, LaidReads
<1>7. Len(head) = 52 + Len(tgt) + Len(cmd) + Len(uid)
  BY <1>4, LaidReads
<1>8. Len(head) + 4 < Limit(4) /\ Len(payload) + 4 < Limit(4)
  BY <1>1, <1>2, <1>7
<1>9. PICK w : /\ Laid(PartsLayout, body, 8 + Len(head) + Len(payload), w)
               /\ w[1] = head /\ w[2] = payload
  BY <1>6, <1>8, PartsRead
<1> HIDE DEF body
<1>10. Read(PartsLayout, body) = Reader(w, <<>>)
  BY <1>9, LaidReads
<1>11. body \in Seq(Cells)
  BY <1>9, LaidReads
<1>12. Len(body) = 8 + Len(head) + Len(payload)
  BY <1>9, LaidReads
<1>13. Len(body) = 60 + Len(tgt) + Len(cmd) + Len(uid) + Len(payload)
  BY <1>2, <1>7, <1>12
<1> DEFINE parts == Read(PartsLayout, body)
           sso == Read(SsoLayout, parts.fields[1])
<1>14. parts.fields[1] = head /\ parts.fields[2] = payload
  BY <1>9, <1>10 DEF Reader
<1>15. sso.fields[1] = q /\ sso.fields[6] = cmd
  BY <1>4, <1>5, <1>14 DEF Reader
<1> QED BY <1>11, <1>13, <1>14, <1>15 DEF body, head

LEMMA SessionTyped ==
    ASSUME NEW s, Session(s), NEW p, Request(p)
    PROVE  /\ s.uid \in Seq(Cells) /\ s.uin \in Seq(Cells) /\ s.tgt \in Seq(Cells) /\ s.d2 \in Seq(Cells)
           /\ p.command \in Seq(Cells) /\ p.payload \in Seq(Cells)
  BY DEF Session, Request

(* The same for a packet and a key store.                                  *)
LEMMA SsoBodyReads ==
    ASSUME Large, NEW s, Session(s), NEW p, Request(p)
    PROVE  LET parts == Read(PartsLayout, SsoBody(p, s))
               sso == Read(SsoLayout, parts.fields[1])
           IN  /\ SsoBody(p, s) \in Seq(Cells) /\ Len(SsoBody(p, s)) <= 62 + Len(s.tgt) + Len(s.uid) + 255
               /\ sso.fields[1] = p.sequence /\ sso.fields[6] = p.command /\ parts.fields[2] = p.payload
<1> DEFINE q == p.sequence
           tgt == s.tgt
           cmd == p.command
           uid == Proto(s.uid)
           payload == p.payload
           a == Len(s.uin)  b == Len(s.uid)  c == Len(s.d2)
           body == PartsCells(SsoCells(q, tgt, cmd, uid), payload)
           parts == Read(PartsLayout, body)
           sso == Read(SsoLayout, parts.fields[1])
<1>1. q \in Nat /\ q < Limit(4)
  BY DEF Request
<1>2. tgt \in Seq(Cells)
  BY SessionTyped
<1>3. cmd \in Seq(Cells)
  BY SessionTyped
<1>4. uid \in Seq(Cells)
  <2>1. s.uid \in Seq(Cells)
    BY SessionTyped
  <2> QED BY <2>1, ProtoSized
<1>5. payload \in Seq(Cells)
  BY SessionTyped
<1>6. /\ Limit(4) \in Nat /\ Len(uid) \in Nat /\ Len(uid) <= b + 1
      /\ a \in Nat /\ b \in Nat /\ Len(tgt) \in Nat /\ c \in Nat
      /\ Len(cmd) = 1 /\ Len(payload) \in Nat /\ Len(payload) <= 255
      /\ a + b + Len(tgt) + c + 1024 <= Limit(4)
  <2>1. s.uid \in Seq(Cells) /\ s.uin \in Seq(Cells) /\ s.tgt \in Seq(Cells) /\ s.d2 \in Seq(Cells)
    BY SessionTyped
  <2>2. a \in Nat /\ b \in Nat /\ Len(tgt) \in Nat /\ c \in Nat
    BY <2>1
  <2>3. Len(uid) <= b + 1
    BY <2>1, ProtoSized
  <2>4. Len(cmd) = 1 /\ Len(payload) <= 255
    BY DEF Request
  <2>5. a + b + Len(tgt) + c + 1024 <= Limit(4)
    BY DEF Session
  <2>6. Len(uid) \in Nat /\ Len(payload) \in Nat
    BY <1>4, <1>5
  <2>7. Limit(4) \in Nat
    BY LimitFacts
  <2> QED BY <2>2, <2>3, <2>4, <2>5, <2>6, <2>7
<1> HIDE DEF q, tgt, cmd, uid, payload, a, b, c
<1>7. Len(tgt) + Len(cmd) + Len(uid) + Len(payload) + 60 < Limit(4)
  BY <1>6
<1>8. 60 + Len(tgt) + Len(cmd) + Len(uid) + Len(payload) <= 62 + Len(tgt) + b + 255
  BY <1>6
<1>9. /\ body \in Seq(Cells) /\ Len(body) = 60 + Len(tgt) + Len(cmd) + Len(uid) + Len(payload)
      /\ sso.fields[1] = q /\ sso.fields[6] = cmd /\ parts.fields[2] = payload
  BY <1>1, <1>2, <1>3, <1>4, <1>5, <1>7, SsoParts
<1>10. SsoBody(p, s) = body
  BY DEF SsoBody, SsoCells, PartsCells, tgt, cmd, uid, q, payload
<1> HIDE DEF body
<1>11. Len(body) <= 62 + Len(tgt) + b + 255
  BY <1>8, <1>9
<1> QED BY <1>9, <1>10, <1>11 DEF q, tgt, cmd, payload, b

(* The type of a packet is found in its first four cells.                  *)
LEMMA TypeBack == ASSUME Large PROVE Value(U32(12)) = 12 /\ Value(U32(13)) = 13
<1>1. 65536 <= Limit(4) /\ Limit(4) \in Nat /\ 4 \in Widths
  BY LimitFacts, Limits
<1>2. 12 \in 0 .. Limit(4) - 1 /\ 13 \in 0 .. Limit(4) - 1
  BY <1>1
<1> QED BY <1>1, <1>2, NumberBack DEF U32

LEMMA Head12Leads ==
    ASSUME Large, NEW flag \in {1, 2}, NEW d2 \in Seq(Cells), NEW uin \in Seq(Cells), NEW tea \in Seq(Cells)
    PROVE  Value(SubSeq(Head12Cells(flag, d2, uin) \o tea, 1, 4)) = 12
<1>1. Sized(U32(12), 4) /\ Sized(U8(flag), 1) /\ Sized(U8(0), 1)
  BY SizedUInt
<1>2. Sized(Section(d2), 4 + Len(d2)) /\ Sized(Section(uin), 4 + Len(uin)) /\ Sized(tea, Len(tea))
  BY SizedSection DEF Sized
<1> DEFINE c1 == U32(12)
           c2 == c1 \o U8(flag)
           c3 == c2 \o Section(d2)
           c4 == c3 \o U8(0)
           c5 == c4 \o Section(uin)
           c6 == c5 \o tea
<1> HIDE DEF c1, c2, c3, c4, c5, c6
<1>3. Leads(c1, c1, 4)
  BY <1>1, LeadsFirst DEF c1
<1>4. Leads(c1, c2, 4 + 1)
  BY <1>1, <1>3, LeadsNext DEF c2
<1>5. Leads(c1, c3, 4 + 1 + (4 + Len(d2)))
  BY <1>2, <1>4, LeadsNext DEF c3
<1>6. Leads(c1, c4, 4 + 1 + (4 + Len(d2)) + 1)
  BY <1>1, <1>5, LeadsNext DEF c4
<1>7. Leads(c1, c5, 4 + 1 + (4 + Len(d2)) + 1 + (4 + Len(uin)))
  BY <1>2, <1>6, LeadsNext DEF c5
<1>8. Leads(c1, c6, 4 + 1 + (4 + Len(d2)) + 1 + (4 + Len(uin)) + Len(tea))
  BY <1>2, <1>7, LeadsNext DEF c6
<1>9. SubSeq(c6, 1, Len(c1)) = c1
  BY <1>8, LeadsSub
<1>10. Len(c1) = 4
  BY <1>1 DEF c1, Sized
<1>11. Value(c1) = 12
  BY TypeBack DEF c1
<1> QED BY <1>9, <1>10, <1>11 DEF Head12Cells, c1, c2, c3, c4, c5, c6

LEMMA Head13Leads ==
    ASSUME Large, NEW q \in Nat, NEW names \in Seq(Cells), NEW payload \in Seq(Cells)
    PROVE  Value(SubSeq(Head13Cells(q, names, payload), 1, 4)) = 13
<1>1. Sized(U32(13), 4) /\ Sized(U8(0), 1) /\ Sized(U32(q), 4)
  BY SizedUInt
<1>2. Sized(Section(<<0>>), 4 + 1)
  <2>1. <<0>> \in Seq(Cells) /\ Len(<<0>>) = 1
    BY OneCell
  <2>2. Sized(Section(<<0>>), 4 + Len(<<0>>))
    BY <2>1, SizedSection
  <2> QED BY <2>1, <2>2
<1>3. Sized(Section(names), 4 + Len(names)) /\ Sized(Section(payload), 4 + Len(payload))
  BY SizedSection
<1> DEFINE c1 == U32(13)
           c2 == c1 \o U8(0)
           c3 == c2 \o U32(q)
           c4 == c3 \o U8(0)
           c5 == c4 \o Section(<<0>>)
           c6 == c5 \o Section(names)
           c7 == c6 \o Section(payload)
<1> HIDE DEF c1, c2, c3, c4, c5, c6, c7
<1>4. Leads(c1, c1, 4)
  BY <1>1, LeadsFirst DEF c1
<1>5. Leads(c1, c2, 4 + 1)
  BY <1>1, <1>4, LeadsNext DEF c2
<1>6. Leads(c1, c3, 4 + 1 + 4)
  BY <1>1, <1>5, LeadsNext DEF c3
<1>7. Leads(c1, c4, 4 + 1 + 4 + 1)
  BY <1>1, <1>6, LeadsNext DEF c4
<1>8. Leads(c1, c5, 4 + 1 + 4 + 1 + (4 + 1))
  BY <1>2, <1>7, LeadsNext DEF c5
<1>9. Leads(c1, c6, 4 + 1 + 4 + 1 + (4 + 1) + (4 + Len(names)))
  BY <1>3, <1>8, LeadsNext DEF c6
<1>10. Leads(c1, c7, 4 + 1 + 4 + 1 + (4 + 1) + (4 + Len(names)) + (4 + Len(payload)))
  BY <1>3, <1>9, LeadsNext DEF c7
<1>11. SubSeq(c7, 1, Len(c1)) = c1
  BY <1>10, LeadsSub
<1>12. Len(c1) = 4
  BY <1>1 DEF c1, Sized
<1>13. Value(c1) = 13
  BY TypeBack DEF c1
<1> QED BY <1>11, <1>12, <1>13 DEF Head13Cells, c1, c2, c3, c4, c5, c6, c7

(* What the server makes of a packet of protocol 12, from what it read.    *)
LEMMA Reads12 ==
    ASSUME Large, NEW s, Session(s), NEW p, Request(p)
    PROVE  ServerReads(BuildProtocol12(p, s), s)
             = [type |-> T12, sequence |-> p.sequence, command |-> p.command, payload |-> p.payload]
<1> DEFINE d2 == s.d2
           uin == s.uin
           key == s.d2Key
           flag == IF d2 = <<>> THEN 2 ELSE 1
           body == SsoBody(p, s)
           tea == TeaEncrypt(body, key)
           head == Head12Cells(flag, d2, uin)
           inside == head \o tea
           a == Len(s.uid)  b == Len(s.tgt)
<1>1. d2 \in Seq(Cells) /\ uin \in Seq(Cells)
  BY SessionTyped
<1>2. a \in Nat /\ b \in Nat /\ Len(d2) \in Nat /\ Len(uin) \in Nat
  BY SessionTyped
<1>3. Limit(4) \in Nat
  BY LimitFacts
<1>4. Len(uin) + a + b + Len(d2) + 1024 <= Limit(4)
  BY ZenonT(30) DEF Session
<1>5. key \in Cells /\ (d2 = <<>> => key = 0)
  BY DEF Session
<1>6. body \in Seq(Cells) /\ Len(body) <= 62 + b + a + 255
  BY SsoBodyReads
<1>7. Read(SsoLayout, Read(PartsLayout, body).fields[1]).fields[1] = p.sequence
  BY SsoBodyReads
<1>8. Read(SsoLayout, Read(PartsLayout, body).fields[1]).fields[6] = p.command
  BY SsoBodyReads
<1>9. Read(PartsLayout, body).fields[2] = p.payload
  BY SsoBodyReads
<1>10. BuildProtocol12(p, s) = Section(inside)
  BY DEF BuildProtocol12, T12, Head12Cells
<1> HIDE DEF d2, uin, key, body, a, b
<1>11. flag \in {1, 2}
  OBVIOUS
<1>12. TeaDecrypt(tea, IF flag = 2 THEN 0 ELSE key).text = body
  <2>1. (IF flag = 2 THEN 0 ELSE key) = key
    BY <1>5
  <2>2. TeaDecrypt(tea, key) = [ok |-> TRUE, text |-> body]
    BY <1>5, <1>6, TeaRoundTrip
  <2> QED BY <2>1, <2>2
<1>13. tea \in Seq(Cells)
  BY <1>5, <1>6, TeaSized
<1>14. Len(tea) <= Len(body) + 17
  BY <1>5, <1>6, TeaSized
<1>15. Len(tea) \in Nat /\ Len(body) \in Nat
  BY <1>6, <1>13
<1> HIDE DEF flag, tea
<1>16. Len(d2) + 4 < Limit(4) /\ Len(uin) + 4 < Limit(4)
  BY <1>2, <1>3, <1>4
<1>17. PICK v : Laid(Head12Layout, head, 14 + Len(d2) + Len(uin), v) /\ v[2] = flag
  BY <1>1, <1>11, <1>16, Head12Read
<1> HIDE DEF head
<1>18. Read(Head12Layout, inside) = Reader(v, tea)
  BY <1>13, <1>17, LaidReads
<1>19. head \in Seq(Cells)
  BY <1>17, LaidReads
<1>20. Len(head) = 14 + Len(d2) + Len(uin)
  BY <1>17, LaidReads
<1>21. inside \in Seq(Cells)
  BY <1>13, <1>19, Joined
<1>22. Len(inside) = Len(head) + Len(tea)
  BY <1>13, <1>19, Joined
<1>23. Value(SubSeq(inside, 1, 4)) = 12
  BY <1>1, <1>11, <1>13, Head12Leads DEF head
<1> HIDE DEF inside
<1>24. Len(inside) + 4 < Limit(4)
  <2>1. Len(body) <= 62 + b + a + 255
    BY <1>6
  <2> QED BY <1>2, <1>3, <1>4, <1>14, <1>15, <1>20, <1>22, <2>1
<1>25. Read(<<Counted>>, Section(inside)) = Reader(<<inside>>, <<>>)
  BY <1>21, <1>24, WholeRead
<1> DEFINE whole == Read(<<Counted>>, Section(inside))
           head12 == Read(Head12Layout, whole.fields[1])
<1>26. whole.fields[1] = inside /\ whole.rest = <<>>
  BY <1>25 DEF Reader
<1>27. head12.rest = tea /\ head12.fields[2] = flag
  BY <1>17, <1>18, <1>26 DEF Reader
<1> HIDE DEF whole, head12
<1> DEFINE plain == TeaDecrypt(head12.rest, IF head12.fields[2] = 2 THEN 0 ELSE s.d2Key)
<1>28. plain.text = body
  BY <1>12, <1>27 DEF key
<1> HIDE DEF plain
<1> DEFINE parts == Read(PartsLayout, plain.text)
           sso == Read(SsoLayout, parts.fields[1])
<1>29. sso.fields[1] = p.sequence /\ sso.fields[6] = p.command /\ parts.fields[2] = p.payload
  BY <1>7, <1>8, <1>9, <1>28, SMTT(30)
<1> HIDE DEF parts, sso
<1>30. ServerReads(Section(inside), s) =
         [type |-> T12, sequence |-> sso.fields[1], command |-> sso.fields[6], payload |-> parts.fields[2]]
  <2>1. Value(SubSeq(whole.fields[1], 1, 4)) = T12
    BY <1>23, <1>26 DEF T12
  <2> QED BY <1>26, <2>1 DEF ServerReads, whole, head12, plain, parts, sso
<1> QED BY <1>10, <1>29, <1>30

(* The same for protocol 13, where nothing is encrypted.                   *)
LEMMA Reads13 ==
    ASSUME Large, NEW s, Session(s), NEW p, Request(p)
    PROVE  ServerReads(BuildProtocol13(p, s), s)
             = [type |-> T13, sequence |-> p.sequence, command |-> p.command, payload |-> p.payload]
<1> DEFINE q == p.sequence
           cmd == p.command
           payload == p.payload
           uid == Proto(s.uid)
           names == NamesCells(cmd, uid)
           inside == Head13Cells(q, names, payload)
           a == Len(s.uid)  b == Len(s.tgt)  c == Len(s.uin)  d == Len(s.d2)
<1>1. cmd \in Seq(Cells) /\ payload \in Seq(Cells) /\ s.uid \in Seq(Cells)
  BY SessionTyped
<1>2. a \in Nat /\ b \in Nat /\ c \in Nat /\ d \in Nat
  BY SessionTyped
<1>3. Limit(4) \in Nat
  BY LimitFacts
<1>4. c + a + b + d + 1024 <= Limit(4)
  BY ZenonT(30) DEF Session
<1>5. q \in Nat /\ q < Limit(4)
  BY DEF Request
<1>6. Len(cmd) = 1 /\ Len(payload) <= 255
  BY DEF Request
<1>7. uid \in Seq(Cells)
  BY <1>1, ProtoSized
<1>8. Len(uid) <= a + 1
  BY <1>1, ProtoSized
<1>9. Len(uid) \in Nat /\ Len(payload) \in Nat
  BY <1>1, <1>7
<1>10. BuildProtocol13(p, s) = Section(inside)
  BY DEF BuildProtocol13, T13, Head13Cells, NamesCells
<1> HIDE DEF q, cmd, payload, uid, a, b, c, d
<1>11. Len(cmd) + 4 < Limit(4) /\ Len(uid) + 4 < Limit(4)
  BY <1>2, <1>3, <1>4, <1>6, <1>8, <1>9
<1>12. PICK w : Laid(NamesLayout, names, 12 + Len(cmd) + Len(uid), w) /\ w[1] = cmd
  BY <1>1, <1>7, <1>11, NamesRead
<1> HIDE DEF names
<1>13. Read(NamesLayout, names) = Reader(w, <<>>)
  BY <1>12, LaidReads
<1>14. names \in Seq(Cells)
  BY <1>12, LaidReads
<1>15. Len(names) = 12 + Len(cmd) + Len(uid)
  BY <1>12, LaidReads
<1>16. Len(names) + 4 < Limit(4) /\ Len(payload) + 4 < Limit(4)
  BY <1>2, <1>3, <1>4, <1>6, <1>8, <1>9, <1>15
<1>17. PICK v : /\ Laid(Head13Layout, inside, 23 + Len(names) + Len(payload), v)
                /\ v[3] = q /\ v[6] = names /\ v[7] = payload
  BY <1>1, <1>5, <1>14, <1>16, Head13Read
<1>18. Value(SubSeq(inside, 1, 4)) = 13
  BY <1>1, <1>5, <1>14, Head13Leads
<1> HIDE DEF inside
<1>19. Read(Head13Layout, inside) = Reader(v, <<>>)
  BY <1>17, LaidReads
<1>20. inside \in Seq(Cells)
  BY <1>17, LaidReads
<1>21. Len(inside) = 23 + Len(names) + Len(payload)
  BY <1>17, LaidReads
<1>22. Len(inside) + 4 < Limit(4)
  BY <1>2, <1>3, <1>4, <1>6, <1>8, <1>9, <1>15, <1>21
<1>23. Read(<<Counted>>, Section(inside)) = Reader(<<inside>>, <<>>)
  BY <1>20, <1>22, WholeRead
<1> DEFINE whole == Read(<<Counted>>, Section(inside))
           head13 == Read(Head13Layout, whole.fields[1])
<1>24. whole.fields[1] = inside /\ whole.rest = <<>>
  BY <1>23 DEF Reader
<1>25. head13.fields[3] = q /\ head13.fields[6] = names /\ head13.fields[7] = payload
  BY <1>17, <1>19, <1>24 DEF Reader
<1> HIDE DEF whole, head13
<1> DEFINE read == Read(NamesLayout, head13.fields[6])
<1>26. read.fields[1] = cmd
  BY <1>12, <1>13, <1>25 DEF Reader
<1> HIDE DEF read
<1>27. ServerReads(Section(inside), s) =
         [type |-> T13, sequence |-> head13.fields[3], command |-> read.fields[1], payload |-> head13.fields[7]]
  <2>1. Value(SubSeq(whole.fields[1], 1, 4)) = T13 /\ T13 # T12
    BY <1>18, <1>24 DEF T12, T13
  <2> QED BY <1>24, <2>1 DEF ServerReads, whole, head13, read
<1> QED BY <1>10, <1>25, <1>26, <1>27 DEF q, cmd, payload

-----------------------------------------------------------------------------
(* The envelope of a login.                                                *)

(* Without its last cell a sequence is what was there before it.           *)
LEMMA FrontOfJoin ==
    ASSUME NEW t \in Seq(Cells), NEW last, Sized(last, 1)
    PROVE  Front(t \o last) = t
<1>1. last \in Seq(Cells) /\ Len(last) = 1 /\ <<>> \in Seq(Cells)
  BY DEF Sized
<1>2. Len(t \o last) = Len(t) + Len(last)
  BY <1>1, Joined
<1>3. Len(t) \in Nat
  OBVIOUS
<1>4. Len(t \o last) - 1 = Len(t)
  BY <1>1, <1>2, <1>3
<1>5. SubSeq((<<>> \o t) \o last, Len(<<>>) + 1, Len(<<>>) + Len(t)) = t
  BY <1>1, Slices
<1>6. <<>> \o t = t /\ Len(<<>>) = 0
  BY ConcatEmptySeq
<1>7. SubSeq(t \o last, 0 + 1, 0 + Len(t)) = t
  BY <1>5, <1>6
<1>8. 0 + 1 = 1 /\ 0 + Len(t) = Len(t)
  BY <1>3
<1> QED BY <1>4, <1>7, <1>8 DEF Front

(* The envelope of a login: the server finds the body, and its length is   *)
(* that of the whole.                                                      *)
THEOREM EnvelopeOpens ==
    ASSUME Large, NEW cmd \in {1, 2}, NEW body \in Seq(Cells), Len(body) <= 126, NEW s, s.shared \in Cells
    PROVE  LET cells == BuildWtlogin(cmd, body, s)
           IN  /\ cells \in Seq(Cells) /\ Len(cells) <= 255
               /\ ServerOpens(cells, s) = [length |-> Len(cells), body |-> body]
<1> DEFINE tea == TeaEncrypt(body, s.shared)
           env == EnvelopeCells(cmd)
           last == U8(3)
           inside == (env \o tea) \o last
           n == Len(inside) + 3
           first == U8(2) \o U16(n)
           rest == tea \o last
           cells == U8(2) \o (U16(n) \o inside)
<1>1. tea \in Seq(Cells)
  BY TeaSized
<1>2. Len(tea) <= Len(body) + 17
  BY TeaSized
<1>3. TeaDecrypt(tea, s.shared) = [ok |-> TRUE, text |-> body]
  BY TeaRoundTrip
<1>4. Sized(last, 1) /\ last \in Seq(Cells) /\ Len(last) = 1
  BY SizedUInt DEF Sized
<1>5. BuildWtlogin(cmd, body, s) = cells
  <2>1. Len(inside) + (2 + 1) = n
    OBVIOUS
  <2> QED BY <2>1 DEF BuildWtlogin, Prefixed, U16, EnvelopeCells
<1>6. 256 <= Limit(2) /\ Limit(2) \in Nat
  BY LimitFacts
<1>7. env \in Seq(Cells) /\ Len(env) = 35
  <2>1. 0 \in Nat /\ 0 < Limit(2)
    BY <1>6
  <2>2. PICK v : After(EnvelopeLayout, U8(2) \o U16(0), env, 38, v)
    BY <2>1, EnvelopeRead
  <2> HIDE DEF env
  <2>3. env \in Seq(Cells) /\ U8(2) \o U16(0) \in Seq(Cells)
    BY <2>2 DEF After
  <2>4. Len((U8(2) \o U16(0)) \o env) = 38
    BY <2>2 DEF After, Laid
  <2>5. Len(U8(2) \o U16(0)) = 1 + 2
    <3>1. Sized(U8(2), 1) /\ Sized(U16(0), 2)
      BY SizedUInt
    <3>2. Sized(U8(2) \o U16(0), 1 + 2)
      BY <3>1, SizedJoin
    <3> QED BY <3>2 DEF Sized
  <2>6. Len((U8(2) \o U16(0)) \o env) = Len(U8(2) \o U16(0)) + Len(env)
    BY <2>3, Joined
  <2>7. Len(env) \in Nat
    BY <2>3
  <2>8. Len(env) = 35
    <3> DEFINE x == Len((U8(2) \o U16(0)) \o env)
               y == Len(U8(2) \o U16(0))
               z == Len(env)
    <3>1. x = 38 /\ y = 1 + 2 /\ x = y + z /\ z \in Nat
      BY <2>4, <2>5, <2>6, <2>7
    <3> HIDE DEF x, y, z
    <3>2. z = 35
      BY <3>1
    <3> QED BY <3>2 DEF z
  <2> QED BY <2>3, <2>8
<1> HIDE DEF tea, env, last
<1>8. Len(tea) \in Nat /\ Len(body) \in Nat
  BY <1>1
<1>9. env \o tea \in Seq(Cells) /\ Len(env \o tea) = 35 + Len(tea)
  <2>1. env \in Seq(Cells) /\ Len(env) = 35
    BY <1>7
  <2>2. env \o tea \in Seq(Cells) /\ Len(env \o tea) = Len(env) + Len(tea)
    <3>1. env \in Seq(Cells) /\ tea \in Seq(Cells)
      BY <1>1, <2>1
    <3> QED BY <3>1, Joined
  <2> QED BY <2>1, <2>2
<1>10. inside \in Seq(Cells)
  BY <1>4, <1>9, Joined
<1>11. Len(inside) = Len(env \o tea) + Len(last)
  BY <1>4, <1>9, Joined
<1>12. Len(inside) = 36 + Len(tea)
  BY <1>4, <1>8, <1>9, <1>11
<1> HIDE DEF inside
<1>13. n = 39 + Len(tea) /\ n \in Nat /\ n < Limit(2) /\ n <= 255
  BY <1>2, <1>6, <1>8, <1>12
<1> HIDE DEF n
<1>14. PICK v : After(EnvelopeLayout, first, env, 38, v) /\ v[2] = n
  BY <1>13, EnvelopeRead DEF env
<1>15. U8(2) \in Seq(Cells) /\ U16(n) \in Seq(Cells) /\ Len(U8(2)) = 1 /\ Len(U16(n)) = 2
  BY <1>13, SizedUInt DEF Sized
<1>16. first \in Seq(Cells)
  BY <1>14 DEF After
<1>17. rest \in Seq(Cells)
  BY <1>1, <1>4, Joined
<1>18. cells = (first \o env) \o rest
  <2>1. \A a, b, c \in Seq(Cells) : (a \o b) \o c = a \o (b \o c)
    BY CellsAssociative
  <2>2. inside = env \o rest
    BY <1>1, <1>4, <1>7, <2>1, Zenon DEF inside
  <2>3. U8(2) \o (U16(n) \o inside) = first \o inside
    BY <1>10, <1>15, <2>1, ZenonT(30)
  <2>4. first \o (env \o rest) = (first \o env) \o rest
    <3> HIDE DEF first, rest
    <3> QED BY <1>7, <1>16, <1>17, <2>1, Zenon
  <2> QED BY <2>2, <2>3, <2>4
<1>19. cells \in Seq(Cells) /\ Len(cells) = n
  <2>1. U16(n) \o inside \in Seq(Cells) /\ Len(U16(n) \o inside) = Len(U16(n)) + Len(inside)
    BY <1>10, <1>15, Joined
  <2> DEFINE c == U16(n) \o inside
  <2> HIDE DEF c
  <2>2. U8(2) \o c \in Seq(Cells) /\ Len(U8(2) \o c) = Len(U8(2)) + Len(c)
    BY <1>15, <2>1, Joined DEF c
  <2>3. Len(c) = 2 + Len(inside)
    BY <1>15, <2>1 DEF c
  <2>4. Len(U8(2)) + Len(c) = n
    <3>1. Len(U8(2)) = 1
      BY <1>15
    <3>2. n = 39 + Len(tea)
      BY <1>13
    <3>3. 1 + (2 + Len(inside)) = 39 + Len(tea)
      BY <1>8, <1>12
    <3> QED BY <2>3, <3>1, <3>2, <3>3
  <2> QED BY <2>2, <2>4 DEF c
<1> HIDE DEF rest, first, cells
<1>20. Read(EnvelopeLayout, cells) = Reader(v, rest)
  BY <1>14, <1>17, <1>18, LaidReads DEF After
<1>21. Front(rest) = tea
  BY <1>1, <1>4, FrontOfJoin DEF rest
<1> DEFINE r == Read(EnvelopeLayout, cells)
<1>22. r.fields[2] = n /\ r.rest = rest
  BY <1>14, <1>20 DEF Reader
<1> HIDE DEF r
<1>23. ServerOpens(cells, s) = [length |-> r.fields[2], body |-> TeaDecrypt(Front(r.rest), s.shared).text]
  BY DEF ServerOpens, r
<1>24. TeaDecrypt(Front(r.rest), s.shared).text = body
  BY <1>3, <1>21, <1>22
<1> QED BY <1>5, <1>13, <1>19, <1>22, <1>23, <1>24

(* The head of the packet inside a TransEmp.                               *)
InnerCells(m) ==
    U32(1) \o U8(2) \o U16(m)

LEMMA InnerRead ==
    ASSUME Large, NEW m \in Nat, m < Limit(2)
    PROVE  \E v : /\ Laid(InnerLayout, InnerCells(m), 7, v)
                 /\ v[3] = m
<1> DEFINE l1 == <<Number(4)>>  c1 == U32(1)  v1 == <<1>>
           l2 == Append(l1, Number(1))  c2 == c1 \o U8(2)  v2 == Append(v1, 2)
           l3 == Append(l2, Number(2))  c3 == c2 \o U16(m)  v3 == Append(v2, m)
<1>0. /\ 1 < Limit(4) /\ 2 < Limit(1)
      /\ <<>> \in Seq(Cells) /\ Len(<<>>) = 0
  <2>3. 1 < Limit(4) /\ 2 < Limit(1)
    <3>1. 65536 <= Limit(4) /\ Limit(4) \in Nat /\ 256 <= Limit(2) /\ Limit(2) \in Nat /\ 16 <= Limit(1)
          /\ Limit(1) \in Nat
      BY LimitFacts
    <3> QED BY <3>1, Limits
  <2>4. <<>> \in Seq(Cells) /\ Len(<<>>) = 0
    BY LimitFacts
  <2> QED BY <2>3, <2>4
<1> HIDE DEF l1, c1, v1, l2, c2, v2, l3, c3, v3
<1>1. Laid(l1, c1, 4, v1)
  BY <1>0, LaidFirst DEF l1, c1, v1
<1>2. Laid(l2, c2, 4 + 1, v2)
  BY <1>0, <1>1, LaidNumber DEF l2, c2, v2
<1>3. Laid(l3, c3, 4 + 1 + 2, v3)
  BY <1>0, <1>2, LaidNumber DEF l3, c3, v3
<1>4. InnerLayout \in Seq(FieldKinds) /\ Len(InnerLayout) = 3
  BY FieldsKnown DEF InnerLayout
<1>5. Len(l3) = 3 /\ \A i \in 1 .. 3 : InnerLayout[i] = l3[i]
  BY DEF InnerLayout, l1, l2, l3
<1>6. v3[3] = m
  BY DEF v1, v2, v3
<1>7. 4 + 1 + 2 = 7
  BY <1>0
<1>8. InnerLayout = l3
  <2>1. l3 \in Seq(FieldKinds)
    BY <1>3 DEF Laid, Carries
  <2> QED BY <2>1, <1>4, <1>5, SeqEqual
<1> QED BY <1>3, <1>6, <1>7, <1>8 DEF InnerCells, c1, c2, c3

(* A request inside TransEmp: its two lengths are those of what follows    *)
(* them.                                                                   *)
THEOREM TransEmpReads ==
    ASSUME Large, NEW command \in {1, 2}, NEW tlvs \in Seq(Cells), Len(tlvs) <= 64
    PROVE  LET body == TransEmpBody(command, tlvs)
           IN  /\ body \in Seq(Cells) /\ Len(body) <= 126
               /\ TransEmpLengths(body) = [outer |-> TRUE, inner |-> TRUE]
<1> DEFINE m == 43 + Len(tlvs) + 1
           p1 == U8(2) \o U16(m)
           p2 == p1 \o U16(command)
           p3 == p2 \o Zeros(21)
           p4 == p3 \o U8(3)
           p5 == p4 \o U16(0)
           p6 == p5 \o U16(2)
           p7 == p6 \o U32(0)
           p8 == p7 \o Zeros(8)
           p9 == p8 \o tlvs
           packet == p9 \o U8(3)
           request == U32(1) \o packet
           body == OuterCells(Len(request)) \o request
<1>1. TransEmpBody(command, tlvs) = body
  BY DEF TransEmpBody, OuterCells
<1>2. Len(tlvs) \in Nat /\ command \in Nat
  OBVIOUS
<1>3. m \in Nat /\ m = 44 + Len(tlvs)
  BY <1>2
<1> HIDE DEF m, p1, p2, p3, p4, p5, p6, p7, p8, p9, packet, request, body
<1>4. /\ Sized(U8(2), 1) /\ Sized(U8(3), 1) /\ Sized(U16(0), 2) /\ Sized(U16(2), 2) /\ Sized(U32(0), 4)
      /\ Sized(U32(1), 4)
  BY SizedUInt
<1>5. Sized(U16(m), 2) /\ Sized(U16(command), 2)
  BY <1>2, <1>3, SizedUInt
<1>6. Sized(Zeros(21), 21) /\ Sized(Zeros(8), 8) /\ Sized(tlvs, Len(tlvs))
  BY ZerosCells DEF Sized
<1>7. Sized(p1, 1 + 2)
  BY <1>4, <1>5, SizedJoin DEF p1
<1>8. Leads(p1, p1, 1 + 2)
  BY <1>7, LeadsFirst
<1>9. Leads(p1, p2, 1 + 2 + 2)
  BY <1>5, <1>8, LeadsNext DEF p2
<1>10. Leads(p1, p3, 1 + 2 + 2 + 21)
  BY <1>6, <1>9, LeadsNext DEF p3
<1>11. Leads(p1, p4, 1 + 2 + 2 + 21 + 1)
  BY <1>4, <1>10, LeadsNext DEF p4
<1>12. Leads(p1, p5, 1 + 2 + 2 + 21 + 1 + 2)
  BY <1>4, <1>11, LeadsNext DEF p5
<1>13. Leads(p1, p6, 1 + 2 + 2 + 21 + 1 + 2 + 2)
  BY <1>4, <1>12, LeadsNext DEF p6
<1>14. Leads(p1, p7, 1 + 2 + 2 + 21 + 1 + 2 + 2 + 4)
  BY <1>4, <1>13, LeadsNext DEF p7
<1>15. Leads(p1, p8, 1 + 2 + 2 + 21 + 1 + 2 + 2 + 4 + 8)
  BY <1>6, <1>14, LeadsNext DEF p8
<1>16. Leads(p1, p9, 1 + 2 + 2 + 21 + 1 + 2 + 2 + 4 + 8 + Len(tlvs))
  BY <1>6, <1>15, LeadsNext DEF p9
<1>17. Leads(p1, packet, 1 + 2 + 2 + 21 + 1 + 2 + 2 + 4 + 8 + Len(tlvs) + 1)
  BY <1>4, <1>16, LeadsNext DEF packet
<1>18. 1 + 2 + 2 + 21 + 1 + 2 + 2 + 4 + 8 + Len(tlvs) + 1 = m
  BY <1>2, <1>3
<1>19. Sized(packet, m)
  BY <1>17, <1>18 DEF Leads
<1>20. Sized(request, 4 + m)
  BY <1>4, <1>19, SizedJoin DEF request
<1>21. request \in Seq(Cells) /\ Len(request) = 4 + m
  BY <1>20 DEF Sized
<1>22. m < Limit(2) /\ 4 + m \in Nat /\ 4 + m < Limit(2) /\ 4 + m <= 112
  <2>1. 256 <= Limit(2) /\ Limit(2) \in Nat
    BY LimitFacts
  <2> QED BY <1>2, <1>3, <2>1
<1>23. PICK v : Laid(OuterLayout, OuterCells(4 + m), 14, v) /\ v[2] = 4 + m
  BY <1>22, OuterRead
<1>24. body = OuterCells(4 + m) \o request
  BY <1>21 DEF body
<1>25. Read(OuterLayout, body) = Reader(v, request)
  BY <1>21, <1>23, <1>24, LaidReads
<1>26. OuterCells(4 + m) \in Seq(Cells) /\ Len(OuterCells(4 + m)) = 14
  BY <1>23, LaidReads
<1>27. Sized(OuterCells(4 + m), 14)
  BY <1>26 DEF Sized
<1>28. Sized(body, 14 + (4 + m))
  BY <1>20, <1>24, <1>27, SizedJoin
<1>29. body \in Seq(Cells) /\ Len(body) = 14 + (4 + m)
  BY <1>28 DEF Sized
<1>30. Len(body) <= 126
  <2>1. Len(body) = 14 + (4 + m)
    BY <1>29
  <2> QED BY <1>3, <1>22, <2>1
<1>31. PICK w : Laid(InnerLayout, InnerCells(m), 7, w) /\ w[3] = m
  BY <1>3, <1>22, InnerRead
<1>32. PICK t \in Seq(Cells) : request = InnerCells(m) \o t
  <2>1. PICK t \in Seq(Cells) : packet = p1 \o t
    BY <1>17 DEF Leads
  <2>2. \A a, b, c \in Seq(Cells) : (a \o b) \o c = a \o (b \o c)
    BY CellsAssociative
  <2>3. U32(1) \in Seq(Cells) /\ U8(2) \in Seq(Cells) /\ U16(m) \in Seq(Cells) /\ p1 \in Seq(Cells)
        /\ t \in Seq(Cells)
    BY <1>4, <1>5, <1>7 DEF Sized
  <2>4. U32(1) \o p1 = (U32(1) \o U8(2)) \o U16(m)
    <3> DEFINE x == U32(1)  y == U8(2)  z == U16(m)
    <3>1. x \in Seq(Cells) /\ y \in Seq(Cells) /\ z \in Seq(Cells)
      BY <2>3
    <3> HIDE DEF x, y, z
    <3>2. (x \o y) \o z = x \o (y \o z)
      BY <2>2, <3>1, SMTT(30)
    <3> QED BY <3>2, Zenon DEF p1, x, y, z
  <2>5. U32(1) \o (p1 \o t) = (U32(1) \o p1) \o t
    <3> DEFINE x == U32(1)
    <3>1. x \in Seq(Cells) /\ p1 \in Seq(Cells) /\ t \in Seq(Cells)
      BY <2>3
    <3> HIDE DEF x
    <3>2. (x \o p1) \o t = x \o (p1 \o t)
      BY <2>2, <3>1, SMTT(30)
    <3> QED BY <3>2 DEF x
  <2>6. request = InnerCells(m) \o t
    BY <2>1, <2>4, <2>5, Zenon DEF request, InnerCells
  <2> QED BY <2>3, <2>6
<1>33. Read(InnerLayout, request) = Reader(w, t)
  BY <1>31, <1>32, LaidReads
<1> DEFINE outer == Read(OuterLayout, body)
           inner == Read(InnerLayout, outer.rest)
<1>34. outer.rest = request /\ outer.fields[2] = 4 + m
  BY <1>23, <1>25 DEF Reader
<1>35. inner.fields[3] = m
  BY <1>31, <1>33, <1>34 DEF Reader
<1> HIDE DEF outer, inner
<1>36. outer.fields[2] = Len(outer.rest) /\ inner.fields[3] = Len(outer.rest) - 4
  <2>1. Len(outer.rest) = 4 + m
    BY <1>21, <1>34
  <2>2. (4 + m) - 4 = m
    BY <1>3
  <2> QED BY <1>34, <1>35, <2>1, <2>2
<1>37. TransEmpLengths(body) = [outer |-> outer.fields[2] = Len(outer.rest),
                               inner |-> inner.fields[3] = Len(outer.rest) - 4]
  BY DEF TransEmpLengths, outer, inner
<1>38. (outer.fields[2] = Len(outer.rest)) = TRUE /\ (inner.fields[3] = Len(outer.rest) - 4) = TRUE
  BY <1>36
<1> QED BY <1>1, <1>29, <1>30, <1>37, <1>38

(* What a set of one or two items is.                                      *)
LEMMA FlattenShort ==
    ASSUME NEW S, NEW seqs \in Seq(Seq(S)), seqs # <<>>
    PROVE  /\ Len(seqs) = 1 => FlattenSeq(seqs) = seqs[1]
           /\ Len(seqs) = 2 => FlattenSeq(seqs) = seqs[1] \o seqs[2]
<1>1. PICK g : Unfolds(seqs, g) /\ FlattenSeq(seqs) = g[Len(seqs)]
  BY FlattenUnfolds
<1>2. ASSUME Len(seqs) = 1 PROVE g[1] = seqs[1]
  BY <1>1, <1>2 DEF Unfolds
<1>3. ASSUME Len(seqs) = 2 PROVE g[2] = seqs[1] \o seqs[2]
  <2>1. g = [i \in 1 .. 2 |-> IF i = 1 THEN seqs[i] ELSE g[i - 1] \o seqs[i]]
    BY <1>1, <1>3 DEF Unfolds
  <2>2. g[1] = seqs[1]
    BY <2>1
  <2>3. 2 \in 1 .. 2 /\ 2 # 1 /\ 2 - 1 = 1
    OBVIOUS
  <2>4. g[2] = IF 2 = 1 THEN seqs[2] ELSE g[2 - 1] \o seqs[2]
    BY <2>1, <2>3, Zenon
  <2>5. g[2] = g[1] \o seqs[2]
    BY <2>3, <2>4, Zenon
  <2> QED BY <2>2, <2>5
<1> QED BY <1>1, <1>2, <1>3

(* The sizes of an item and of a set of one or two.                        *)
LEMMA TlvSized ==
    ASSUME Large, NEW tag \in Nat, NEW content \in Seq(Cells)
    PROVE  Sized(Tlv(tag, content), 2 + (2 + Len(content)))
<1>1. Sized(U16(tag), 2)
  BY SizedUInt
<1>2. Sized(Prefixed(2, 0, content), 2 + Len(content))
  BY SizedPrefixed, Limits
<1> QED BY <1>1, <1>2, SizedJoin DEF Tlv

LEMMA TlvSetSized ==
    ASSUME Large, NEW tag \in Nat, NEW content \in Seq(Cells), NEW other \in Nat, NEW more \in Seq(Cells)
    PROVE  /\ Sized(TlvSet(<< <<tag, content>> >>), 2 + (2 + (2 + Len(content))))
           /\ Sized(TlvSet(<< <<tag, content>>, <<other, more>> >>),
                    2 + ((2 + (2 + Len(content))) + (2 + (2 + Len(more)))))
<1> DEFINE x == Tlv(tag, content)
           y == Tlv(other, more)
<1>1. Sized(x, 2 + (2 + Len(content))) /\ Sized(y, 2 + (2 + Len(more)))
  BY TlvSized
<1>2. x \in Seq(Cells) /\ y \in Seq(Cells)
  BY <1>1 DEF Sized
<1>3. Sized(U16(1), 2) /\ Sized(U16(2), 2)
  BY SizedUInt
<1>4. TlvSet(<< <<tag, content>> >>) = U16(1) \o x
  <2> DEFINE items == << <<tag, content>> >>
             seqs == [i \in 1 .. Len(items) |-> Tlv(items[i][1], items[i][2])]
  <2>1. Len(items) = 1
    OBVIOUS
  <2>2. seqs = [i \in 1 .. 1 |-> x]
    OBVIOUS
  <2> HIDE DEF x, seqs
  <2>3. seqs \in Seq(Seq(Cells)) /\ Len(seqs) = 1 /\ seqs[1] = x /\ seqs # <<>>
    BY <1>2, <2>2
  <2>4. FlattenSeq(seqs) = x
    BY <2>3, FlattenShort
  <2> QED BY <2>1, <2>4 DEF TlvSet, seqs
<1>5. TlvSet(<< <<tag, content>>, <<other, more>> >>) = U16(2) \o (x \o y)
  <2> DEFINE items == << <<tag, content>>, <<other, more>> >>
             seqs == [i \in 1 .. Len(items) |-> Tlv(items[i][1], items[i][2])]
  <2>1. Len(items) = 2
    OBVIOUS
  <2>2. seqs = [i \in 1 .. 2 |-> IF i = 1 THEN x ELSE y]
    OBVIOUS
  <2> HIDE DEF x, y, seqs
  <2>3. seqs \in Seq(Seq(Cells)) /\ Len(seqs) = 2 /\ seqs[1] = x /\ seqs[2] = y /\ seqs # <<>>
    BY <1>2, <2>2
  <2>4. FlattenSeq(seqs) = x \o y
    BY <2>3, FlattenShort
  <2> QED BY <2>1, <2>4 DEF TlvSet, seqs
<1> HIDE DEF x, y
<1>6. Sized(U16(1) \o x, 2 + (2 + (2 + Len(content))))
  BY <1>1, <1>3, SizedJoin
<1>7. Sized(x \o y, (2 + (2 + Len(content))) + (2 + (2 + Len(more))))
  BY <1>1, SizedJoin
<1>8. Sized(U16(2) \o (x \o y), 2 + ((2 + (2 + Len(content))) + (2 + (2 + Len(more)))))
  BY <1>3, <1>7, SizedJoin
<1> QED BY <1>4, <1>5, <1>6, <1>8

(* What goes into an envelope is short, and a TransEmp has its lengths.    *)
LEMMA InsideReads ==
    ASSUME Large, NEW kind \in InEnvelope
    PROVE  /\ Inside(kind) \in Seq(Cells) /\ Len(Inside(kind)) <= 126
           /\ kind # "login" => TransEmpLengths(Inside(kind)) = [outer |-> TRUE, inner |-> TRUE]
<1>1. 0 .. 15 \subseteq Cells
  BY LimitFacts
<1>2. /\ <<5>> \in Seq(Cells) /\ <<5, 5>> \in Seq(Cells) /\ <<5, 6>> \in Seq(Cells) /\ <<>> \in Seq(Cells)
      /\ Len(<<5>>) = 1 /\ Len(<<5, 5>>) = 2 /\ Len(<<5, 6>>) = 2 /\ Len(<<>>) = 0
  <2>1. 5 \in Cells /\ 6 \in Cells
    BY <1>1
  <2> QED BY <2>1
<1>3. /\ Sized(U16(0), 2) /\ Sized(U16(9), 2) /\ Sized(U32(1), 4) /\ Sized(U8(0), 1)
  BY SizedUInt
<1>4. Sized(Zeros(8), 8)
  BY ZerosCells DEF Sized
<1>5. Sized(Prefixed(2, 0, <<>>), 2 + 0) /\ Sized(Prefixed(2, 0, <<5, 6>>), 2 + 2)
  <2>1. 2 \in Widths /\ 0 \in Nat
    BY Limits
  <2>2. Sized(Prefixed(2, 0, <<>>), 2 + Len(<<>>))
    BY <1>2, <2>1, SizedPrefixed
  <2>3. Sized(Prefixed(2, 0, <<5, 6>>), 2 + Len(<<5, 6>>))
    BY <1>2, <2>1, SizedPrefixed
  <2> QED BY <1>2, <2>2, <2>3
<1>6. CASE kind = "login"
  <2> DEFINE set == TlvSet(<< <<1, <<5>> >>, <<2, <<>> >> >>)
  <2>1. Sized(set, 2 + ((2 + (2 + Len(<<5>>))) + (2 + (2 + Len(<<>>)))))
    BY <1>2, TlvSetSized
  <2>2. 2 + ((2 + (2 + Len(<<5>>))) + (2 + (2 + Len(<<>>)))) = 11
    BY <1>2
  <2> HIDE DEF set
  <2>3. Sized(U16(9) \o set, 2 + 11)
    BY <1>3, <2>1, <2>2, SizedJoin
  <2>4. Inside(kind) = U16(9) \o set
    BY <1>6 DEF Inside, LoginBody, set
  <2>5. Inside(kind) \in Seq(Cells) /\ Len(Inside(kind)) = 2 + 11
    BY <2>3, <2>4, Zenon DEF Sized
  <2>6. Len(Inside(kind)) <= 126
    <3>1. Len(Inside(kind)) = 2 + 11
      BY <2>5
    <3> QED BY <3>1
  <2> QED BY <1>6, <2>5, <2>6
<1>7. CASE kind = "fetchQrCode"
  <2> DEFINE set == TlvSet(<< <<3, <<5, 5>> >> >>)
  <2>1. Sized(set, 2 + (2 + (2 + Len(<<5, 5>>))))
    BY <1>2, TlvSetSized
  <2> DEFINE t1 == U16(0) \o U32(1)
             t2 == t1 \o Zeros(8)
             t3 == t2 \o U8(0)
             t4 == t3 \o Prefixed(2, 0, <<>>)
             t5 == t4 \o set
  <2>2. Inside(kind) = TransEmpBody(1, t5)
    BY <1>7 DEF Inside, FetchQrCodeBody
  <2> HIDE DEF set, t1, t2, t3, t4, t5
  <2>3. Sized(t1, 2 + 4)
    BY <1>3, SizedJoin DEF t1
  <2>4. Sized(t2, 2 + 4 + 8)
    BY <1>4, <2>3, SizedJoin DEF t2
  <2>5. Sized(t3, 2 + 4 + 8 + 1)
    BY <1>3, <2>4, SizedJoin DEF t3
  <2>6. Sized(t4, 2 + 4 + 8 + 1 + (2 + 0))
    BY <1>5, <2>5, SizedJoin DEF t4
  <2>7. Sized(t5, 2 + 4 + 8 + 1 + (2 + 0) + (2 + (2 + (2 + Len(<<5, 5>>)))))
    BY <2>1, <2>6, SizedJoin DEF t5
  <2>8. t5 \in Seq(Cells) /\ Len(t5) <= 64
    BY <1>2, <2>7 DEF Sized
  <2> QED BY <2>2, <2>8, TransEmpReads
<1>8. CASE kind = "queryResult"
  <2> DEFINE t1 == U16(0) \o U32(1)
             t2 == t1 \o Prefixed(2, 0, <<5, 6>>)
             t3 == t2 \o Zeros(8)
             t4 == t3 \o U8(0)
             t5 == t4 \o Prefixed(2, 0, <<>>)
             t6 == t5 \o U16(0)
  <2>1. Inside(kind) = TransEmpBody(2, t6)
    BY <1>8 DEF Inside, QueryResultBody
  <2> HIDE DEF t1, t2, t3, t4, t5, t6
  <2>2. Sized(t1, 2 + 4)
    BY <1>3, SizedJoin DEF t1
  <2>3. Sized(t2, 2 + 4 + (2 + 2))
    BY <1>5, <2>2, SizedJoin DEF t2
  <2>4. Sized(t3, 2 + 4 + (2 + 2) + 8)
    BY <1>4, <2>3, SizedJoin DEF t3
  <2>5. Sized(t4, 2 + 4 + (2 + 2) + 8 + 1)
    BY <1>3, <2>4, SizedJoin DEF t4
  <2>6. Sized(t5, 2 + 4 + (2 + 2) + 8 + 1 + (2 + 0))
    BY <1>5, <2>5, SizedJoin DEF t5
  <2>7. Sized(t6, 2 + 4 + (2 + 2) + 8 + 1 + (2 + 0) + 2)
    BY <1>3, <2>6, SizedJoin DEF t6
  <2>8. t6 \in Seq(Cells) /\ Len(t6) <= 64
    BY <2>7 DEF Sized
  <2> QED BY <2>1, <2>8, TransEmpReads
<1> QED BY <1>6, <1>7, <1>8 DEF InEnvelope

(* The payload of every kind fits, and an envelope can be opened.          *)
LEMMA PayloadReads ==
    ASSUME Large, NEW kind \in {"login", "fetchQrCode", "queryResult", "oidb", "heartbeat"}, NEW s,
           s.shared \in Cells
    PROVE  /\ Payload(kind, s) \in Seq(Cells) /\ Len(Payload(kind, s)) <= 255
           /\ kind \in InEnvelope =>
                ServerOpens(Payload(kind, s), s) = [length |-> Len(Payload(kind, s)), body |-> Inside(kind)]
<1>1. CASE kind \in InEnvelope
  <2> DEFINE cmd == IF kind = "login" THEN 1 ELSE 2
  <2>1. Payload(kind, s) = BuildWtlogin(cmd, Inside(kind), s)
    BY <1>1 DEF Payload, InEnvelope
  <2>2. cmd \in {1, 2}
    OBVIOUS
  <2>3. Inside(kind) \in Seq(Cells)
    BY <1>1, InsideReads
  <2>4. Len(Inside(kind)) <= 126
    BY <1>1, InsideReads
  <2> HIDE DEF cmd
  <2> QED BY <2>1, <2>2, <2>3, <2>4, EnvelopeOpens
<1>2. CASE kind = "oidb"
  <2>1. Payload(kind, s) = Proto(<<0>> \o <<5>>)
    BY <1>2 DEF Payload, InEnvelope, OidbPacket, Inside
  <2>2. Sized(<<0>>, 1) /\ Sized(<<5>>, 1)
    BY OneCell DEF Sized
  <2>3. Sized(<<0>> \o <<5>>, 1 + 1)
    BY <2>2, SizedJoin
  <2>4. <<0>> \o <<5>> \in Seq(Cells) /\ Len(<<0>> \o <<5>>) = 2
    BY <2>3 DEF Sized
  <2>5. Proto(<<0>> \o <<5>>) \in Seq(Cells) /\ Len(Proto(<<0>> \o <<5>>)) <= Len(<<0>> \o <<5>>) + 1
    BY <2>4, ProtoSized
  <2>6. Len(Proto(<<0>> \o <<5>>)) <= 255
    <3> DEFINE x == Len(Proto(<<0>> \o <<5>>))
    <3>1. x \in Nat /\ x <= 3
      BY <2>4, <2>5
    <3> QED BY <3>1
  <2> QED BY <1>2, <2>1, <2>5, <2>6 DEF InEnvelope
<1>3. CASE kind = "heartbeat"
  <2>1. Payload(kind, s) = U32(4)
    BY <1>3 DEF Payload, InEnvelope
  <2>2. U32(4) \in Seq(Cells) /\ Len(U32(4)) = 4
    BY SizedUInt DEF Sized
  <2>3. Payload(kind, s) \in Seq(Cells) /\ Len(Payload(kind, s)) = 4
    BY <2>1, <2>2
  <2>4. Len(Payload(kind, s)) <= 255
    <3>1. Len(Payload(kind, s)) = 4
      BY <2>3
    <3> QED BY <3>1
  <2>5. kind \notin InEnvelope
    BY <1>3 DEF InEnvelope
  <2> QED BY <2>3, <2>4, <2>5
<1> QED BY <1>1, <1>2, <1>3 DEF InEnvelope

LEMMA CommandShort ==
    ASSUME Large, NEW kind \in {"login", "fetchQrCode", "queryResult", "oidb", "heartbeat"}
    PROVE  Command(kind) \in Seq(Cells) /\ Len(Command(kind)) = 1
<1> DEFINE name == CASE kind = "login" -> <<1>> [] kind \in {"fetchQrCode", "queryResult"} -> <<2>>
                     [] kind = "oidb" -> <<3>> [] kind = "heartbeat" -> <<4>>
<1>1. name \in {<<1>>, <<2>>, <<3>>, <<4>>}
  OBVIOUS
<1> HIDE DEF name
<1>2. Command(kind) = CHOOSE c \in {<<1>>, <<2>>, <<3>>, <<4>>} : c = name
  BY DEF Command, name
<1>3. Command(kind) \in {<<1>>, <<2>>, <<3>>, <<4>>}
  BY <1>1, <1>2
<1>4. PICK n \in 0 .. 15 : Command(kind) = <<n>>
  BY <1>3
<1>5. <<n>> \in Seq(Cells) /\ Len(<<n>>) = 1
  BY OneCell
<1> QED BY <1>4, <1>5

-----------------------------------------------------------------------------
(* What is sent.                                                           *)

(* The key store and the packet of a step are such as the lemmas above ask *)
(* for.                                                                    *)
LEMMA SessionsFit == \A s \in Sessions : Session(s)
<1>1. Limit(4) = Width
  BY WireAssumption DEF Limit
<1> TAKE s \in Sessions
<1>2. {s.uin, s.uid, s.tgt, s.d2} \subseteq Seq(Cells) /\ {s.d2Key, s.shared} \subseteq Cells
  BY SessionsAssumption DEF Cells
<1>3. s.d2 = <<>> => s.d2Key = 0
  BY SessionsAssumption
<1>4. Len(s.uin) + Len(s.uid) + Len(s.tgt) + Len(s.d2) + 1024 <= Width
  <2>1. Short(Len(s.uin) + Len(s.uid) + Len(s.tgt) + Len(s.d2))
    BY SessionsAssumption, Zenon
  <2> QED BY <2>1, ZenonT(30) DEF Short
<1>5. Len(s.uin) + Len(s.uid) + Len(s.tgt) + Len(s.d2) + 1024 <= Limit(4)
  BY <1>1, <1>4, ZenonT(30)
<1> QED BY <1>2, <1>3, <1>5, ZenonT(30) DEF Session

(* A packet is readable when it is built.                                  *)
LEMMA BuildReadable ==
    ASSUME TypeOK, session \in Sessions, NEW t \in Threads, Build(t)
    PROVE  PacketReadable'
<1> DEFINE s == session
<1>1. Large /\ Limit(4) = Width
  BY WireAssumption DEF Limit, Large
<1>2. Session(s)
  BY SessionsFit
<1>3. session' = s
  BY DEF Build
<1>4. PICK kind \in Kinds :
        LET packet == [type |-> IF kind = "heartbeat" THEN T13 ELSE T12, sequence |-> SEQUENCE,
                       command |-> Command(kind), payload |-> Payload(kind, session)]
        IN  sent' = [is |-> "packet", kind |-> kind, packet |-> packet, cells |-> BuildPacket(packet, session)]
  BY DEF Build
<1> DEFINE payload == Payload(kind, s)
           p == [type |-> IF kind = "heartbeat" THEN T13 ELSE T12, sequence |-> SEQUENCE,
                 command |-> Command(kind), payload |-> payload]
<1>5. sent' = [is |-> "packet", kind |-> kind, packet |-> p, cells |-> BuildPacket(p, s)]
  BY <1>4
<1>6. kind \in {"login", "fetchQrCode", "queryResult", "oidb", "heartbeat"}
  BY KindsAssumption
<1>7. s.shared \in Cells
  BY <1>2 DEF Session
<1>8. payload \in Seq(Cells) /\ Len(payload) <= 255
  BY <1>1, <1>6, <1>7, PayloadReads
<1>9. kind \in InEnvelope => ServerOpens(payload, s) = [length |-> Len(payload), body |-> Inside(kind)]
  BY <1>1, <1>6, <1>7, PayloadReads
<1>10. Command(kind) \in Seq(Cells) /\ Len(Command(kind)) = 1
  BY <1>1, <1>6, CommandShort
<1>11. SEQUENCE \in Nat /\ SEQUENCE < Limit(4)
  BY <1>1, SequenceAssumption DEF TypeOK
<1> HIDE DEF s, payload
<1>12. Request(p)
  BY <1>8, <1>10, <1>11 DEF Request
<1>13. ServerReads(BuildPacket(p, s), s) = p
  <2>1. T12 # T13
    BY DEF T12, T13
  <2>2. CASE kind = "heartbeat"
    <3>1. p.type = T13 /\ p = [type |-> T13, sequence |-> p.sequence, command |-> p.command, payload |-> p.payload]
      BY <2>2
    <3> HIDE DEF p
    <3>2. BuildPacket(p, s) = BuildProtocol13(p, s)
      BY <2>1, <3>1 DEF BuildPacket
    <3> QED BY <1>1, <1>2, <1>12, <3>1, <3>2, Reads13
  <2>3. CASE kind # "heartbeat"
    <3>1. p.type = T12 /\ p = [type |-> T12, sequence |-> p.sequence, command |-> p.command, payload |-> p.payload]
      BY <2>3
    <3> HIDE DEF p
    <3>2. BuildPacket(p, s) = BuildProtocol12(p, s)
      BY <3>1 DEF BuildPacket
    <3> QED BY <1>1, <1>2, <1>12, <3>1, <3>2, Reads12
  <2> QED BY <2>2, <2>3
<1>14. p.payload = payload
  OBVIOUS
<1> HIDE DEF p
<1>15. ServerReads(sent'.cells, session') = sent'.packet
  BY <1>3, <1>5, <1>13
<1>16. ASSUME sent'.kind \in InEnvelope
       PROVE  LET opened == ServerOpens(sent'.packet.payload, session')
              IN  /\ opened.length = Len(sent'.packet.payload)
                  /\ opened.body = Inside(sent'.kind)
                  /\ sent'.kind # "login" => TransEmpLengths(opened.body) = [outer |-> TRUE, inner |-> TRUE]
  <2>1. sent'.kind = kind /\ sent'.packet.payload = payload
    BY <1>5, <1>14
  <2>2. ServerOpens(payload, s) = [length |-> Len(payload), body |-> Inside(kind)]
    BY <1>9, <1>16, <2>1
  <2>3. kind # "login" => TransEmpLengths(Inside(kind)) = [outer |-> TRUE, inner |-> TRUE]
    BY <1>1, <1>16, <2>1, InsideReads
  <2> QED BY <1>3, <2>1, <2>2, <2>3
<1> QED BY <1>15, <1>16 DEF PacketReadable

(* The inductive invariant: a packet is readable when it is built, since    *)
(* the counter and the key store are such as its fields can hold, and      *)
(* while it waits for its answer neither it nor the key store changes.     *)
ReadableInv == TypeOK /\ session \in Sessions /\ PacketReadable

LEMMA ReadableStep == ReadableInv /\ [WireNext]_wireVars => ReadableInv'
<1> SUFFICES ASSUME ReadableInv, [WireNext]_wireVars PROVE ReadableInv'
  OBVIOUS
<1>1. TypeOK'
  BY WireStep, TypeStep DEF ReadableInv
<1>2. session' \in Sessions
  BY DEF ReadableInv, WireNext, Answer, TakeNumber, Build, wireVars
<1>3. PacketReadable'
  <2>1. ASSUME NEW t \in Threads, TakeNumber(t) PROVE PacketReadable'
    BY <2>1 DEF ReadableInv, PacketReadable, TakeNumber
  <2>2. ASSUME NEW t \in Threads, Build(t) PROVE PacketReadable'
    BY <2>2, BuildReadable DEF ReadableInv
  <2>3. CASE Answer
    BY <2>3 DEF PacketReadable, Answer, Nothing
  <2>4. CASE UNCHANGED wireVars
    BY <2>4 DEF ReadableInv, PacketReadable, wireVars
  <2> QED BY <2>1, <2>2, <2>3, <2>4 DEF WireNext
<1> QED BY <1>1, <1>2, <1>3 DEF ReadableInv

(* Whatever is sent, the server takes apart by its lengths alone, down to  *)
(* the two lengths inside the envelope of a login: for any contents of the *)
(* key store that a packet has room for (SsoPacket::build,                 *)
(* build_wtlogin_packet, build_trans_emp_body).                            *)
THEOREM PacketReadableAlways == WireSpec => []PacketReadable
<1>1. WireInit => ReadableInv
  BY SequenceAssumption DEF WireInit, ReadableInv, TypeOK, Init, PacketReadable, Nothing
<1>2. ReadableInv => PacketReadable
  BY DEF ReadableInv
<1> QED BY <1>1, <1>2, ReadableStep, PTL DEF WireSpec

-----------------------------------------------------------------------------
(* Sets of items, item by item.                                            *)

(* What stands behind the first part of two.                               *)
LEMMA Behind ==
    ASSUME NEW S, NEW a \in Seq(S), NEW t \in Seq(S)
    PROVE  SubSeq(a \o t, Len(a) + 1, Len(a \o t)) = t
<1>1. <<>> \in Seq(S) /\ a \o t \in Seq(S) /\ Len(a \o t) = Len(a) + Len(t)
  BY Joined
<1>2. (a \o t) \o <<>> = a \o t
  BY <1>1, ConcatEmptySeq
<1>3. SubSeq((a \o t) \o <<>>, Len(a) + 1, Len(a) + Len(t)) = t
  BY <1>1, Slices
<1> QED BY <1>1, <1>2, <1>3

(* Beginnings that grow part by part, and what is left behind them.        *)
Grows(S, n, part, p) ==
    /\ p[0] = <<>> /\ \A k \in 0 .. n : p[k] \in Seq(S)
    /\ \A k \in 1 .. n : part[k] \in Seq(S) /\ p[k] = p[k - 1] \o part[k]
Shrinks(S, n, part, r) ==
    /\ r[n] = <<>> /\ \A k \in 0 .. n : r[k] \in Seq(S)
    /\ \A k \in 1 .. n : r[k - 1] = part[k] \o r[k]

(* When beginnings grow part by part, what is left of the whole behind     *)
(* each shrinks by the same parts.                                         *)
LEMMA Remainders ==
    ASSUME NEW S, NEW n \in Nat, NEW part, NEW p, Grows(S, n, part, p)
    PROVE  \E r : r[0] = p[n] /\ Shrinks(S, n, part, r)
<1> DEFINE Splits(k) == \E t \in Seq(S) : p[n] = p[k] \o t
           Reached == {j \in 1 .. n + 1 : Splits(n + 1 - j)}
           r == [k \in 0 .. n |-> SubSeq(p[n], Len(p[k]) + 1, Len(p[n]))]
<1>0. \A a, b, c \in Seq(S) : (a \o b) \o c = a \o (b \o c)
  BY Associative
<1> USE DEF Grows
<1>1. \A k \in 0 .. n : Splits(k)
  <2>1. 1 \in Reached
    <3>1. p[n] \in Seq(S) /\ <<>> \in Seq(S) /\ n + 1 - 1 = n
      OBVIOUS
    <3>2. p[n] = p[n] \o <<>>
      BY <3>1, ConcatEmptySeq
    <3>3. Splits(n)
      BY <3>1, <3>2
    <3> HIDE DEF Splits
    <3> QED BY <3>1, <3>3
  <2>2. \A j \in 1 .. n + 1 : j \in Reached /\ j + 1 \in 1 .. n + 1 => j + 1 \in Reached
    <3> SUFFICES ASSUME NEW j \in 1 .. n + 1, Splits(n + 1 - j), j + 1 \in 1 .. n + 1
                 PROVE  Splits(n + 1 - (j + 1))
      OBVIOUS
    <3> DEFINE k == n + 1 - j
    <3>1. k \in 1 .. n /\ k - 1 = n + 1 - (j + 1) /\ k - 1 \in 0 .. n
      OBVIOUS
    <3>2. PICK t \in Seq(S) : p[n] = p[k] \o t
      OBVIOUS
    <3> HIDE DEF k
    <3>3. p[k] = p[k - 1] \o part[k] /\ part[k] \in Seq(S) /\ p[k - 1] \in Seq(S)
      BY <3>1
    <3>4. p[n] = p[k - 1] \o (part[k] \o t)
      <4>1. t \in Seq(S)
        OBVIOUS
      <4>2. (p[k - 1] \o part[k]) \o t = p[k - 1] \o (part[k] \o t)
        BY <1>0, <3>3, <4>1, Zenon
      <4> QED BY <3>2, <3>3, <4>2, Zenon
    <3>5. part[k] \o t \in Seq(S)
      BY <3>3, Joined
    <3>6. Splits(k - 1)
      BY <3>4, <3>5
    <3> QED BY <3>1, <3>6
  <2>3. 1 .. n + 1 \subseteq Reached
    <3>1. n + 1 \in Nat
      OBVIOUS
    <3> HIDE DEF Reached
    <3> QED BY <2>1, <2>2, <3>1, Induction
  <2> TAKE k \in 0 .. n
  <2>4. n + 1 - k \in 1 .. n + 1 /\ n + 1 - (n + 1 - k) = k
    OBVIOUS
  <2> HIDE DEF Splits
  <2> QED BY <2>3, <2>4
<1>2. ASSUME NEW k \in 0 .. n, NEW t \in Seq(S), p[n] = p[k] \o t PROVE r[k] = t
  <2>1. p[k] \in Seq(S)
    OBVIOUS
  <2>2. SubSeq(p[k] \o t, Len(p[k]) + 1, Len(p[k] \o t)) = t
    BY <2>1, Behind
  <2> QED BY <1>2, <2>2
<1>3. ASSUME NEW k \in 0 .. n PROVE r[k] \in Seq(S) /\ p[n] = p[k] \o r[k]
  <2>1. PICK t \in Seq(S) : p[n] = p[k] \o t
    BY <1>1
  <2>2. r[k] = t
    BY <1>2, <2>1
  <2> HIDE DEF r
  <2> QED BY <2>1, <2>2
<1>4. ASSUME NEW k \in 1 .. n PROVE r[k - 1] = part[k] \o r[k]
  <2>0. k \in 0 .. n /\ k - 1 \in 0 .. n
    OBVIOUS
  <2>1. p[k - 1] \in Seq(S) /\ part[k] \in Seq(S) /\ p[k] = p[k - 1] \o part[k]
    BY <2>0
  <2>2. r[k] \in Seq(S) /\ p[n] = p[k] \o r[k]
    BY <1>3, <2>0
  <2>3. part[k] \o r[k] \in Seq(S)
    BY <2>1, <2>2, Joined
  <2> HIDE DEF r
  <2>4. p[n] = p[k - 1] \o (part[k] \o r[k])
    <3>1. (p[k - 1] \o part[k]) \o r[k] = p[k - 1] \o (part[k] \o r[k])
      BY <1>0, <2>1, <2>2, Zenon
    <3> QED BY <2>1, <2>2, <3>1, Zenon
  <2> QED BY <1>2, <2>0, <2>3, <2>4
<1>5. r[0] = p[n]
  <2>1. 0 \in 0 .. n /\ p[n] \in Seq(S)
    OBVIOUS
  <2>2. p[n] = p[0] \o p[n]
    BY <2>1, ConcatEmptySeq
  <2> HIDE DEF r
  <2> QED BY <1>2, <2>1, <2>2
<1>6. r[n] = <<>>
  <2>1. n \in 0 .. n /\ p[n] \in Seq(S) /\ <<>> \in Seq(S)
    OBVIOUS
  <2>2. p[n] = p[n] \o <<>>
    BY <2>1, ConcatEmptySeq
  <2> HIDE DEF r
  <2> QED BY <1>2, <2>1, <2>2
<1> HIDE DEF r
<1> QED BY <1>3, <1>4, <1>5, <1>6 DEF Shrinks

-----------------------------------------------------------------------------
(* The items of a set, one after the other.                                *)
SetAt(cells, found) == [ok |-> TRUE, rest |-> cells, found |-> found]
Unread(cells) == SetAt(cells, {})
Places(n) == [i \in 1 .. n |-> i]

SetsAlong(n, s, cells, f) ==
    f = [T \in SUBSET (1 .. n) |-> IF T = {} THEN Unread(cells) ELSE ReadTlv(f[T \ {Max(T)}], s[Max(T)])]

(* The fold behind ReadItems exists, by induction over its domain.         *)
LEMMA SetExists ==
    ASSUME NEW n \in Nat, NEW s, NEW cells
    PROVE  \E f : SetsAlong(n, s, cells, f)
<1> DEFINE Upto(k) == \E f : f = [T \in SUBSET (1 .. k) |->
                                    IF T = {} THEN Unread(cells) ELSE ReadTlv(f[T \ {Max(T)}], s[Max(T)])]
           Reached == {k \in 1 .. n + 1 : Upto(k - 1)}
<1>1. Upto(0)
  <2> DEFINE f == [T \in SUBSET (1 .. 0) |-> Unread(cells)]
  <2>1. SUBSET (1 .. 0) = {{}}
    OBVIOUS
  <2>2. f = [T \in SUBSET (1 .. 0) |-> IF T = {} THEN Unread(cells) ELSE ReadTlv(f[T \ {Max(T)}], s[Max(T)])]
    BY <2>1
  <2> HIDE DEF f
  <2> QED BY <2>2
<1>2. ASSUME NEW k \in Nat, Upto(k) PROVE Upto(k + 1)
  <2>1. PICK f : f = [T \in SUBSET (1 .. k) |->
        IF T = {} THEN Unread(cells) ELSE ReadTlv(f[T \ {Max(T)}], s[Max(T)])]
    BY <1>2
  <2> DEFINE g == [T \in SUBSET (1 .. k + 1) |->
                     IF k + 1 \in T THEN ReadTlv(f[T \ {k + 1}], s[k + 1]) ELSE f[T]]
  <2>2. ASSUME NEW T \in SUBSET (1 .. k + 1)
        PROVE  g[T] = IF T = {} THEN Unread(cells) ELSE ReadTlv(g[T \ {Max(T)}], s[Max(T)])
    <3>1. CASE k + 1 \in T
      <4>1. k + 1 \in Nat /\ T # {}
        BY <3>1
      <4>2. Max(T) \in T /\ k + 1 <= Max(T)
        BY <3>1, <4>1, Greatest
      <4>3. Max(T) = k + 1
        <5>1. Max(T) \in 1 .. k + 1
          BY <4>2
        <5> QED BY <4>2, <5>1
      <4>4. g[T \ {k + 1}] = f[T \ {k + 1}]
        OBVIOUS
      <4> QED BY <3>1, <4>1, <4>3, <4>4
    <3>2. CASE k + 1 \notin T /\ T # {}
      <4>1. T \in SUBSET (1 .. k)
        BY <3>2
      <4>2. T \ {Max(T)} \in SUBSET (1 .. k + 1) /\ k + 1 \notin T \ {Max(T)}
        BY <3>2
      <4>3. f[T] = ReadTlv(f[T \ {Max(T)}], s[Max(T)])
        BY <2>1, <3>2, <4>1
      <4> QED BY <3>2, <4>2, <4>3
    <3>3. CASE T = {}
      <4>1. f[{}] = Unread(cells)
        BY <2>1
      <4> QED BY <3>3, <4>1
    <3> QED BY <3>1, <3>2, <3>3
  <2>3. g = [T \in SUBSET (1 .. k + 1) |-> IF T = {} THEN Unread(cells) ELSE ReadTlv(g[T \ {Max(T)}], s[Max(T)])]
    BY <2>2
  <2> HIDE DEF g
  <2> QED BY <2>3
<1> HIDE DEF Upto
<1>3. 1 \in Reached
  BY <1>1
<1>4. \A k \in 1 .. n + 1 : k \in Reached /\ k + 1 \in 1 .. n + 1 => k + 1 \in Reached
  <2> SUFFICES ASSUME NEW k \in 1 .. n + 1, Upto(k - 1), k + 1 \in 1 .. n + 1 PROVE Upto((k + 1) - 1)
    OBVIOUS
  <2>1. k - 1 \in Nat /\ (k - 1) + 1 = (k + 1) - 1
    OBVIOUS
  <2>2. Upto((k - 1) + 1)
    BY <1>2, <2>1
  <2> QED BY <2>1, <2>2
<1>5. 1 .. n + 1 \subseteq Reached
  <2>1. n + 1 \in Nat
    OBVIOUS
  <2> HIDE DEF Reached
  <2> QED BY <1>3, <1>4, <2>1, Induction
<1>6. n + 1 \in Reached /\ (n + 1) - 1 = n
  BY <1>5
<1> QED BY <1>6 DEF Upto, SetsAlong

(* ReadItems goes through the items from the first to the last.            *)
LEMMA SetFold ==
    ASSUME NEW n \in Nat, NEW cells
    PROVE  \E g : /\ g[0] = Unread(cells) /\ \A k \in 1 .. n : g[k] = ReadTlv(g[k - 1], k)
                 /\ FoldLeft(ReadTlv, Unread(cells), Places(n)) = g[n]
<1> DEFINE s == Places(n)
           f == CHOOSE h : SetsAlong(n, s, cells, h)
           g == [k \in 0 .. n |-> f[1 .. k]]
<1>1. s \in Seq(Nat) /\ Len(s) = n /\ DOMAIN s = 1 .. n /\ \A k \in 1 .. n : s[k] = k
  BY DEF Places
<1>2. SetsAlong(n, s, cells, f)
  <2>1. \E h : SetsAlong(n, s, cells, h)
    BY SetExists
  <2> QED BY <2>1, Zenon
<1>3. FoldLeft(ReadTlv, Unread(cells), s) = f[1 .. n]
  BY <1>1 DEF SetsAlong, FoldLeft, MapThenFoldSet
<1> HIDE DEF f
<1>4. f[{}] = Unread(cells) /\ 1 .. 0 = {}
  BY <1>2 DEF SetsAlong
<1>5. ASSUME NEW k \in 1 .. n PROVE f[1 .. k] = ReadTlv(f[1 .. k - 1], k)
  <2>1. k \in Nat /\ k # 0 /\ 1 .. k \in SUBSET (1 .. n) /\ 1 .. k # {}
    <3>1. k \in 1 .. k /\ k \in Nat /\ k # 0
      OBVIOUS
    <3>2. 1 .. k \subseteq 1 .. n
      OBVIOUS
    <3> QED BY <3>1, <3>2
  <2>2. Max(1 .. k) = k /\ (1 .. k) \ {k} = 1 .. (k - 1)
    BY <2>1, GreatestOfAll
  <2>3. f[1 .. k] = ReadTlv(f[(1 .. k) \ {Max(1 .. k)}], s[Max(1 .. k)])
    BY <1>2, <2>1 DEF SetsAlong
  <2>4. s[k] = k
    BY <1>1
  <2> QED BY <2>2, <2>3, <2>4
<1>6. g[0] = Unread(cells) /\ (\A k \in 1 .. n : g[k] = ReadTlv(g[k - 1], k)) /\ g[n] = f[1 .. n]
  BY <1>4, <1>5
<1> HIDE DEF g, s
<1> QED BY <1>3, <1>6 DEF s

(* The beginnings of what is joined, from nothing on.                      *)
LEMMA Beginnings ==
    ASSUME NEW S, NEW seqs \in Seq(Seq(S))
    PROVE  \E p : p[Len(seqs)] = FlattenSeq(seqs) /\ Grows(S, Len(seqs), seqs, p)
<1> DEFINE n == Len(seqs)
<1>1. n \in Nat /\ <<>> \in Seq(S) /\ \A k \in 1 .. n : seqs[k] \in Seq(S)
  OBVIOUS
<1>2. CASE seqs = <<>>
  <2> DEFINE p == [k \in 0 .. 0 |-> <<>>]
  <2>1. n = 0 /\ FlattenSeq(seqs) = <<>>
    BY <1>2 DEF FlattenSeq
  <2>2. p[0] = <<>>
    OBVIOUS
  <2>3. (\A k \in 0 .. n : k = 0) /\ 1 .. n = {}
    BY <2>1
  <2> HIDE DEF p, n
  <2>4. p[n] = <<>> /\ \A k \in 0 .. n : p[k] \in Seq(S)
    BY <1>1, <2>1, <2>2, <2>3
  <2> QED BY <2>1, <2>2, <2>3, <2>4 DEF n, Grows
<1>3. CASE seqs # <<>>
  <2>1. PICK g : /\ Unfolds(seqs, g) /\ FlattenSeq(seqs) = g[n] /\ \A k \in 1 .. n : g[k] \in Seq(S)
    BY <1>3, FlattenUnfolds
  <2>2. n # 0
    BY <1>3
  <2> DEFINE p == [k \in 0 .. n |-> IF k = 0 THEN <<>> ELSE g[k]]
  <2>3. g = [i \in 1 .. n |-> IF i = 1 THEN seqs[i] ELSE g[i - 1] \o seqs[i]]
    BY <2>1 DEF Unfolds
  <2> HIDE DEF n
  <2>4. ASSUME NEW k \in 1 .. n PROVE p[k] = p[k - 1] \o seqs[k]
    <3>1. p[k] = g[k] /\ k \in 0 .. n /\ k - 1 \in 0 .. n
      BY <1>1
    <3>2. CASE k = 1
      <4>1. g[k] = seqs[k]
        BY <2>3, <3>2
      <4>2. p[k - 1] = <<>>
        BY <3>1, <3>2
      <4>3. <<>> \o seqs[k] = seqs[k]
        BY <1>1, ConcatEmptySeq
      <4> HIDE DEF p
      <4> QED BY <3>1, <4>1, <4>2, <4>3
    <3>3. CASE k # 1
      <4>1. g[k] = g[k - 1] \o seqs[k]
        BY <2>3, <3>3
      <4>2. p[k - 1] = g[k - 1]
        BY <3>1, <3>3
      <4> HIDE DEF p
      <4> QED BY <3>1, <4>1, <4>2
    <3> QED BY <3>2, <3>3
  <2>5. p[0] = <<>> /\ p[n] = FlattenSeq(seqs)
    BY <1>1, <2>1, <2>2
  <2>6. \A k \in 0 .. n : p[k] \in Seq(S)
    BY <1>1, <2>1
  <2> HIDE DEF p
  <2> QED BY <1>1, <2>4, <2>5, <2>6 DEF n, Grows
<1> QED BY <1>2, <1>3

-----------------------------------------------------------------------------
(* What a set of items is read as.                                         *)
Item == (0 .. Byte * Byte - 1) \X Seq(Cells)

(* The items of a set that can be written with prefixes of two cells, and  *)
(* that the client does not panic on.                                      *)
Served(items) ==
    /\ items \in Seq(Item) /\ Len(items) < Limit(2)
    /\ \A i \in 1 .. Len(items) :
          /\ Len(items[i][2]) < Limit(2)
          /\ TlvOutcome(items[i][1], items[i][2]) # "panic"

(* A good item takes the place of the one of its tag.                      *)
Taken(found, tag, content) ==
    IF TlvOutcome(tag, content) = "value" THEN {f \in found : f[1] # tag} \cup {<<tag, content>>} ELSE found

Good(items, i) == TlvOutcome(items[i][1], items[i][2]) = "value"

(* The items that count among the first k: the last good one of each tag.  *)
Kept(items, k) ==
    {i \in 1 .. k : Good(items, i) /\ \A j \in i + 1 .. k : Good(items, j) => items[j][1] # items[i][1]}
FoundIn(items, k) == {<<items[i][1], items[i][2]>> : i \in Kept(items, k)}

(* With one item more a good one takes the place of the one of its tag.    *)
LEMMA KeptNext ==
    ASSUME NEW items, NEW k \in Nat, k # 0
    PROVE  Kept(items, k) = IF Good(items, k) THEN {i \in Kept(items, k - 1) : items[i][1] # items[k][1]} \cup {k}
                                              ELSE Kept(items, k - 1)
<1> DEFINE Latest(i, m) == \A j \in i + 1 .. m : Good(items, j) => items[j][1] # items[i][1]
<1>1. /\ Kept(items, k) = {i \in 1 .. k : Good(items, i) /\ Latest(i, k)}
      /\ Kept(items, k - 1) = {i \in 1 .. k - 1 : Good(items, i) /\ Latest(i, k - 1)}
  BY DEF Kept
<1>2. 1 .. k = 1 .. k - 1 \cup {k} /\ k \notin 1 .. k - 1
  OBVIOUS
<1>3. Latest(k, k)
  <2>1. k + 1 .. k = {}
    OBVIOUS
  <2> QED BY <2>1
<1>4. ASSUME NEW i \in 1 .. k - 1
      PROVE  Latest(i, k) <=> (Latest(i, k - 1) /\ (Good(items, k) => items[k][1] # items[i][1]))
  <2>1. i + 1 .. k = i + 1 .. k - 1 \cup {k}
    OBVIOUS
  <2> QED BY <2>1
<1> HIDE DEF Latest
<1>5. CASE Good(items, k)
  <2>1. Kept(items, k) = {i \in Kept(items, k - 1) : items[i][1] # items[k][1]} \cup {k}
    <3>1. ASSUME NEW i
          PROVE  i \in Kept(items, k) <=> i \in {j \in Kept(items, k - 1) : items[j][1] # items[k][1]} \cup {k}
      BY <1>1, <1>2, <1>3, <1>4, <1>5
    <3> QED BY <3>1
  <2> QED BY <1>5, <2>1
<1>6. CASE ~ Good(items, k)
  <2>1. Kept(items, k) = Kept(items, k - 1)
    <3>1. ASSUME NEW i PROVE i \in Kept(items, k) <=> i \in Kept(items, k - 1)
      BY <1>1, <1>2, <1>4, <1>6
    <3> QED BY <3>1
  <2> QED BY <1>6, <2>1
<1> QED BY <1>5, <1>6

(* One more item takes the place of an earlier one of its tag.             *)
LEMMA FoundNext ==
    ASSUME NEW items, NEW k \in Nat, k # 0
    PROVE  FoundIn(items, k) = Taken(FoundIn(items, k - 1), items[k][1], items[k][2])
<1> DEFINE it(i) == <<items[i][1], items[i][2]>>
<1>1. \A i : it(i)[1] = items[i][1]
  OBVIOUS
<1>2. \A m : FoundIn(items, m) = {it(i) : i \in Kept(items, m)}
  BY DEF FoundIn
<1>3. CASE Good(items, k)
  <2>1. Kept(items, k) = {i \in Kept(items, k - 1) : items[i][1] # items[k][1]} \cup {k}
    BY <1>3, KeptNext
  <2>2. FoundIn(items, k) = {f \in FoundIn(items, k - 1) : f[1] # items[k][1]} \cup {it(k)}
    <3> HIDE DEF it
    <3>1. ASSUME NEW f
          PROVE  f \in FoundIn(items, k) <=> f \in {e \in FoundIn(items, k - 1) : e[1] # items[k][1]} \cup {it(k)}
      BY <1>1, <1>2, <2>1
    <3> QED BY <3>1
  <2> QED BY <1>3, <2>2 DEF Good, Taken
<1>4. CASE ~ Good(items, k)
  <2>1. Kept(items, k) = Kept(items, k - 1)
    BY <1>4, KeptNext
  <2>2. FoundIn(items, k) = FoundIn(items, k - 1)
    BY <2>1 DEF FoundIn
  <2> QED BY <1>4, <2>2 DEF Good, Taken
<1> QED BY <1>3, <1>4

(* One more behind a single one. *)
LEMMA AppendPair == ASSUME NEW x, NEW y PROVE Append(<<x>>, y) = <<x, y>>
<1>1. <<x>> \in Seq({x, y}) /\ Len(<<x>>) = 1
  OBVIOUS
<1>2. /\ Append(<<x>>, y) \in Seq({x, y}) /\ Len(Append(<<x>>, y)) = 2
      /\ Append(<<x>>, y)[1] = x /\ Append(<<x>>, y)[2] = y
  BY <1>1, AppendProperties
<1>3. <<x, y>> \in Seq({x, y}) /\ Len(<<x, y>>) = 2 /\ <<x, y>>[1] = x /\ <<x, y>>[2] = y
  OBVIOUS
<1> DEFINE s == Append(<<x>>, y)
           t == <<x, y>>
<1>4. \A i \in 1 .. 2 : i = 1 \/ i = 2
  OBVIOUS
<1>5. s \in Seq({x, y}) /\ t \in Seq({x, y}) /\ Len(s) = Len(t) /\ \A i \in 1 .. Len(s) : s[i] = t[i]
  <2> HIDE DEF s, t
  <2> QED BY <1>2, <1>3, <1>4 DEF s, t
<1> HIDE DEF s, t
<1>6. s = t
  BY <1>5, SeqEqual
<1> QED BY <1>6 DEF s, t

(* An item is read from its tag and its length.                            *)
LEMMA ItemRead ==
    ASSUME Large, NEW tag \in Nat, tag < Limit(2), NEW content \in Seq(Cells), Len(content) < Limit(2)
    PROVE  /\ Tlv(tag, content) \in Seq(Cells)
           /\ \A t \in Seq(Cells) : Read(ItemLayout, Tlv(tag, content) \o t) = Reader(<<tag, content>>, t)
<1>1. Laid(<<Number(2)>>, U16(tag), 2, <<tag>>)
  BY LaidFirst
<1>2. 2 \in Widths /\ 0 \in Nat /\ Len(content) + 0 < Limit(2)
  <2>1. Len(content) \in Nat
    OBVIOUS
  <2> QED BY <2>1, Limits
<1>3. Laid(Append(<<Number(2)>>, Blob(2, 0)), U16(tag) \o Prefixed(2, 0, content), 2 + (2 + Len(content)),
           Append(<<tag>>, content))
  BY <1>1, <1>2, LaidBlob
<1>4. Append(<<Number(2)>>, Blob(2, 0)) = ItemLayout /\ Append(<<tag>>, content) = <<tag, content>>
  BY AppendPair DEF ItemLayout
<1>5. Laid(ItemLayout, Tlv(tag, content), 2 + (2 + Len(content)), <<tag, content>>)
  BY <1>3, <1>4 DEF Tlv
<1> QED BY <1>5, LaidReads

(* One step of TlvSet::deserialize.                                        *)
LEMMA ItemAdded ==
    ASSUME Large, NEW tag \in Nat, tag < Limit(2), NEW content \in Seq(Cells), Len(content) < Limit(2),
           TlvOutcome(tag, content) # "panic", NEW t \in Seq(Cells), NEW found, NEW i
    PROVE  ReadTlv(SetAt(Tlv(tag, content) \o t, found), i) = SetAt(t, Taken(found, tag, content))
<1> DEFINE cells == Tlv(tag, content) \o t
           set == SetAt(cells, found)
           r == Read(ItemLayout, cells)
           outcome == TlvOutcome(tag, content)
<1>1. r = Reader(<<tag, content>>, t)
  BY ItemRead
<1>2. set.rest = cells /\ set.ok = TRUE /\ set.found = found
  BY DEF SetAt
<1> HIDE DEF set, outcome
<1>3. r.ok = TRUE /\ r.fields = <<tag, content>> /\ r.rest = t
  BY <1>1 DEF Reader
<1>4. r.fields[1] = tag /\ r.fields[2] = content
  BY <1>3
<1> HIDE DEF r
<1>5. ItemOutcome(r) = outcome
  BY <1>3, <1>4 DEF ItemOutcome, outcome
<1>6. ReadTlv(set, i) = AddItem(set, r, outcome, t)
  BY <1>2, <1>3, <1>5 DEF ReadTlv, r
<1>7. outcome # "panic"
  BY DEF outcome
<1> QED BY <1>2, <1>4, <1>6, <1>7 DEF AddItem, SetAt, Taken, set, outcome

(* Whatever items a set has, the client finds those it has to find.        *)
THEOREM SetUnderstood ==
    ASSUME Large, NEW items, Served(items)
    PROVE  /\ TlvSet(items) \in Seq(Cells)
           /\ ReadTlvSet(TlvSet(items)).ok = TRUE
           /\ ReadTlvSet(TlvSet(items)).found = ItemsToFind(items)
<1> DEFINE n == Len(items)
           seqs == [i \in 1 .. n |-> Tlv(items[i][1], items[i][2])]
<1>1. n \in Nat /\ n < Limit(2)
  BY DEF Served
<1>2. ASSUME NEW i \in 1 .. n
      PROVE  /\ items[i][1] \in Nat /\ items[i][1] < Limit(2)
             /\ items[i][2] \in Seq(Cells) /\ Len(items[i][2]) < Limit(2)
             /\ TlvOutcome(items[i][1], items[i][2]) # "panic"
  <2>1. items[i] \in Item
    BY DEF Served
  <2>2. items[i][1] \in 0 .. Byte * Byte - 1 /\ items[i][2] \in Seq(Cells)
    BY <2>1 DEF Item
  <2>3. Limit(2) = Byte * Byte /\ Limit(2) \in Nat
    BY LimitFacts, Limits
  <2>4. items[i][1] \in Nat /\ items[i][1] < Limit(2)
    BY <2>2, <2>3
  <2>5. Len(items[i][2]) < Limit(2) /\ TlvOutcome(items[i][1], items[i][2]) # "panic"
    BY DEF Served
  <2> QED BY <2>2, <2>4, <2>5
<1>3. ASSUME NEW i \in 1 .. n PROVE Tlv(items[i][1], items[i][2]) \in Seq(Cells)
  BY <1>2, ItemRead
<1>4. seqs \in Seq(Seq(Cells)) /\ Len(seqs) = n
  BY <1>1, <1>3
<1>5. \A i \in 1 .. n : seqs[i] = Tlv(items[i][1], items[i][2])
  OBVIOUS
<1>6. TlvSet(items) = U16(n) \o FlattenSeq(seqs)
  BY DEF TlvSet
<1> HIDE DEF n, seqs
<1>7. PICK p : p[n] = FlattenSeq(seqs) /\ Grows(Cells, n, seqs, p)
  <2>1. \E p : p[Len(seqs)] = FlattenSeq(seqs) /\ Grows(Cells, Len(seqs), seqs, p)
    BY <1>4, Beginnings
  <2> QED BY <1>4, <2>1
<1>8. PICK r : r[0] = p[n] /\ Shrinks(Cells, n, seqs, r)
  BY <1>1, <1>7, Remainders
<1>9. /\ \A k \in 0 .. n : r[k] \in Seq(Cells)
      /\ \A k \in 1 .. n : r[k - 1] = seqs[k] \o r[k]
  BY <1>8 DEF Shrinks
<1>10. PICK g : /\ g[0] = Unread(r[0]) /\ \A k \in 1 .. n : g[k] = ReadTlv(g[k - 1], k)
                /\ FoldLeft(ReadTlv, Unread(r[0]), Places(n)) = g[n]
  BY <1>1, SetFold
<1> DEFINE State(k) == SetAt(r[k], FoundIn(items, k))
           Reached == {j \in 1 .. n + 1 : g[j - 1] = State(j - 1)}
<1>11. g[0] = State(0)
  <2>1. FoundIn(items, 0) = {}
    <3>1. 1 .. 0 = {}
      OBVIOUS
    <3>2. Kept(items, 0) = {}
      BY <3>1 DEF Kept
    <3> QED BY <3>2 DEF FoundIn
  <2> QED BY <1>10, <2>1 DEF Unread
<1>12. ASSUME NEW k \in 1 .. n, g[k - 1] = State(k - 1) PROVE g[k] = State(k)
  <2> DEFINE tag == items[k][1]
             content == items[k][2]
             before == FoundIn(items, k - 1)
  <2>1. r[k - 1] = Tlv(tag, content) \o r[k]
    BY <1>5, <1>9
  <2>2. r[k] \in Seq(Cells)
    BY <1>1, <1>9
  <2>3. tag \in Nat /\ tag < Limit(2) /\ content \in Seq(Cells) /\ Len(content) < Limit(2)
        /\ TlvOutcome(tag, content) # "panic"
    BY <1>2
  <2>4. FoundIn(items, k) = Taken(before, tag, content)
    <3>1. k \in Nat /\ k # 0
      BY <1>1
    <3> QED BY <3>1, FoundNext
  <2>5. g[k] = ReadTlv(g[k - 1], k)
    BY <1>10
  <2>6. g[k - 1] = SetAt(Tlv(tag, content) \o r[k], before)
    BY <1>12, <2>1
  <2> HIDE DEF tag, content, before
  <2>7. ReadTlv(SetAt(Tlv(tag, content) \o r[k], before), k) = SetAt(r[k], Taken(before, tag, content))
    BY <2>2, <2>3, ItemAdded
  <2> QED BY <2>4, <2>5, <2>6, <2>7
<1> HIDE DEF State
<1>13. 1 .. n + 1 \subseteq Reached
  <2>1. 1 \in Reached
    BY <1>1, <1>11
  <2>2. \A k \in 1 .. n + 1 : k \in Reached /\ k + 1 \in 1 .. n + 1 => k + 1 \in Reached
    <3> SUFFICES ASSUME NEW k \in 1 .. n + 1, g[k - 1] = State(k - 1), k + 1 \in 1 .. n + 1
                 PROVE  g[(k + 1) - 1] = State((k + 1) - 1)
      OBVIOUS
    <3>1. k \in 1 .. n /\ (k + 1) - 1 = k
      BY <1>1
    <3>2. g[k] = State(k)
      BY <1>12, <3>1
    <3> QED BY <3>1, <3>2
  <2>3. n + 1 \in Nat
    BY <1>1
  <2> HIDE DEF Reached
  <2> QED BY <2>1, <2>2, <2>3, Induction
<1>14. g[n] = State(n)
  <2>1. n + 1 \in 1 .. n + 1 /\ (n + 1) - 1 = n
    BY <1>1
  <2> QED BY <1>13, <2>1
<1> DEFINE all == FlattenSeq(seqs)
           cells == U16(n) \o all
           first == Read(<<Number(2)>>, cells)
<1>15. all \in Seq(Cells) /\ r[0] = all
  <2>1. n \in 0 .. n
    BY <1>1
  <2> QED BY <1>7, <1>8, <1>9, <2>1
<1> HIDE DEF all
<1>16. Laid(<<Number(2)>>, U16(n), 2, <<n>>)
  BY <1>1, LaidFirst
<1>17. first = Reader(<<n>>, all)
  BY <1>15, <1>16, LaidReads
<1>18. cells \in Seq(Cells)
  <2>1. U16(n) \in Seq(Cells)
    BY <1>16, LaidReads
  <2> QED BY <1>15, <2>1, Joined
<1>19. first.ok /\ first.rest = all /\ first.fields[1] = n
  BY <1>17 DEF Reader
<1> HIDE DEF first
<1>20. ReadItems(first) = FoldLeft(ReadTlv, Unread(all), Places(n))
  BY <1>19 DEF ReadItems, Unread, SetAt, Places
<1>21. ReadTlvSet(cells) = State(n)
  BY <1>10, <1>14, <1>15, <1>20 DEF ReadTlvSet, first
<1>22. ItemsToFind(items) = FoundIn(items, n)
  BY DEF ItemsToFind, FoundIn, Kept, Good, n
<1> HIDE DEF cells
<1> QED BY <1>6, <1>18, <1>21, <1>22 DEF State, SetAt, cells, all

-----------------------------------------------------------------------------
(* The answer to a login, inside its envelope.                             *)

(* The envelope in front of what is encrypted.                             *)
WtloginCells ==
    U8(2) \o U16(0) \o U16(1) \o U16(1) \o U16(0) \o U32(0) \o U8(0) \o U16(0)

(* The fields of the envelope of an answer.                                *)
LEMMA WtloginRead ==
    ASSUME Large
    PROVE  /\ \E v : Laid(WtloginLayout, WtloginCells, 16, v)
           /\ \A t \in Seq(Cells) : (WtloginCells \o t)[1] = 2
<1> DEFINE l1 == <<Number(1)>>  c1 == U8(2)  v1 == <<2>>
           l2 == Append(l1, Number(2))  c2 == c1 \o U16(0)  v2 == Append(v1, 0)
           l3 == Append(l2, Number(2))  c3 == c2 \o U16(1)  v3 == Append(v2, 1)
           l4 == Append(l3, Number(2))  c4 == c3 \o U16(1)  v4 == Append(v3, 1)
           l5 == Append(l4, Number(2))  c5 == c4 \o U16(0)  v5 == Append(v4, 0)
           l6 == Append(l5, Number(4))  c6 == c5 \o U32(0)  v6 == Append(v5, 0)
           l7 == Append(l6, Number(1))  c7 == c6 \o U8(0)  v7 == Append(v6, 0)
           l8 == Append(l7, Number(2))  c8 == c7 \o U16(0)  v8 == Append(v7, 0)
<1>0. 0 < Limit(1) /\ 2 < Limit(1) /\ 0 < Limit(2) /\ 1 < Limit(2) /\ 0 < Limit(4)
  <2>1. 65536 <= Limit(4) /\ Limit(4) \in Nat /\ 256 <= Limit(2) /\ Limit(2) \in Nat /\ 16 <= Limit(1)
        /\ Limit(1) \in Nat
    BY LimitFacts
  <2> QED BY <2>1
<1> HIDE DEF l1, c1, v1, l2, c2, v2, l3, c3, v3, l4, c4, v4, l5, c5, v5, l6, c6, v6, l7, c7, v7, l8, c8, v8
<1>1. Laid(l1, c1, 1, v1)
  BY <1>0, LaidFirst DEF l1, c1, v1
<1>2. Laid(l2, c2, 1 + 2, v2)
  BY <1>0, <1>1, LaidNumber DEF l2, c2, v2
<1>3. Laid(l3, c3, 1 + 2 + 2, v3)
  BY <1>0, <1>2, LaidNumber DEF l3, c3, v3
<1>4. Laid(l4, c4, 1 + 2 + 2 + 2, v4)
  BY <1>0, <1>3, LaidNumber DEF l4, c4, v4
<1>5. Laid(l5, c5, 1 + 2 + 2 + 2 + 2, v5)
  BY <1>0, <1>4, LaidNumber DEF l5, c5, v5
<1>6. Laid(l6, c6, 1 + 2 + 2 + 2 + 2 + 4, v6)
  BY <1>0, <1>5, LaidNumber DEF l6, c6, v6
<1>7. Laid(l7, c7, 1 + 2 + 2 + 2 + 2 + 4 + 1, v7)
  BY <1>0, <1>6, LaidNumber DEF l7, c7, v7
<1>8. Laid(l8, c8, 1 + 2 + 2 + 2 + 2 + 4 + 1 + 2, v8)
  BY <1>0, <1>7, LaidNumber DEF l8, c8, v8
<1>9. WtloginLayout \in Seq(FieldKinds) /\ Len(WtloginLayout) = 8
  BY FieldsKnown DEF WtloginLayout
<1>10. Len(l8) = 8 /\ \A i \in 1 .. 8 : WtloginLayout[i] = l8[i]
  BY DEF WtloginLayout, l1, l2, l3, l4, l5, l6, l7, l8
<1>11. WtloginLayout = l8
  <2>1. l8 \in Seq(FieldKinds)
    BY <1>8 DEF Laid, Carries
  <2> QED BY <2>1, <1>9, <1>10, SeqEqual
<1>12. WtloginCells = c8
  BY DEF WtloginCells, c1, c2, c3, c4, c5, c6, c7, c8
<1>13. Laid(WtloginLayout, WtloginCells, 16, v8)
  BY <1>8, <1>11, <1>12
<1>14. ASSUME NEW t \in Seq(Cells) PROVE (c8 \o t)[1] = 2
  <2>1. /\ Sized(U8(2), 1) /\ Sized(U8(0), 1) /\ Sized(U16(0), 2) /\ Sized(U16(1), 2) /\ Sized(U32(0), 4)
        /\ Sized(t, Len(t))
    BY SizedUInt DEF Sized
  <2>2. Leads(c1, c1, 1)
    BY <2>1, LeadsFirst DEF c1
  <2>3. Leads(c1, c2, 1 + 2)
    BY <2>1, <2>2, LeadsNext DEF c2
  <2>4. Leads(c1, c3, 1 + 2 + 2)
    BY <2>1, <2>3, LeadsNext DEF c3
  <2>5. Leads(c1, c4, 1 + 2 + 2 + 2)
    BY <2>1, <2>4, LeadsNext DEF c4
  <2>6. Leads(c1, c5, 1 + 2 + 2 + 2 + 2)
    BY <2>1, <2>5, LeadsNext DEF c5
  <2>7. Leads(c1, c6, 1 + 2 + 2 + 2 + 2 + 4)
    BY <2>1, <2>6, LeadsNext DEF c6
  <2>8. Leads(c1, c7, 1 + 2 + 2 + 2 + 2 + 4 + 1)
    BY <2>1, <2>7, LeadsNext DEF c7
  <2>9. Leads(c1, c8, 1 + 2 + 2 + 2 + 2 + 4 + 1 + 2)
    BY <2>1, <2>8, LeadsNext DEF c8
  <2>10. Leads(c1, c8 \o t, 1 + 2 + 2 + 2 + 2 + 4 + 1 + 2 + Len(t))
    BY <2>1, <2>9, LeadsNext
  <2>11. PICK u \in Seq(Cells) : c8 \o t = c1 \o u
    BY <2>10 DEF Leads
  <2>12. c1 \in Seq(Cells) /\ Len(c1) = 1
    BY <2>1 DEF Sized, c1
  <2>13. (c1 \o u)[1] = c1[1]
    <3>1. 1 \in 1 .. Len(c1)
      BY <2>12
    <3>2. u \in Seq(Cells)
      OBVIOUS
    <3> QED BY <2>12, <3>1, <3>2, Joined
  <2>14. c1[1] = 2
    <3>1. U8(2)[1] = 2 % Byte
      BY UIntCells, Limits DEF U8
    <3>2. 2 % Byte = 2
      BY PacketAssumption
    <3> QED BY <3>1, <3>2 DEF c1
  <2> QED BY <2>11, <2>13, <2>14
<1> QED BY <1>12, <1>13, <1>14

(* The last cell of what was put down last.                                *)
LEMMA LastOfJoin ==
    ASSUME Large, NEW t \in Seq(Cells)
    PROVE  Last(t \o U8(3)) = 3 /\ t \o U8(3) # <<>> /\ t \o U8(3) \in Seq(Cells) /\ Len(t \o U8(3)) = Len(t) + 1
<1> DEFINE last == U8(3)
<1>1. last \in Seq(Cells) /\ Len(last) = 1
  BY SizedUInt DEF Sized
<1>2. last[1] = 3
  <2>1. U8(3)[1] = 3 % Byte
    BY UIntCells, Limits DEF U8
  <2>2. 3 % Byte = 3
    BY PacketAssumption
  <2> QED BY <2>1, <2>2
<1> HIDE DEF last
<1>3. /\ t \o last \in Seq(Cells) /\ Len(t \o last) = Len(t) + Len(last)
      /\ \A i \in 1 .. Len(last) : (t \o last)[Len(t) + i] = last[i]
  BY <1>1, Joined, SMTT(30)
<1>4. Len(t) \in Nat
  OBVIOUS
<1>5. (t \o last)[Len(t) + 1] = 3
  <2>1. 1 \in 1 .. Len(last)
    BY <1>1
  <2> QED BY <1>2, <1>3, <2>1
<1>6. Len(t \o last) = Len(t) + 1
  BY <1>1, <1>3
<1>7. Last(t \o last) = 3
  BY <1>5, <1>6 DEF Last
<1>8. t \o last # <<>>
  <2>1. Len(t \o last) # 0
    BY <1>4, <1>6
  <2> QED BY <2>1
<1> QED BY <1>3, <1>6, <1>7, <1>8 DEF last

(* The text of the answer in front of its items: two cells and the code.   *)
LEMMA LoginHead ==
    ASSUME Large
    PROVE  /\ <<0, 0, 0>> \in Seq(Cells) /\ Len(<<0, 0, 0>>) = 3
           /\ \A t \in Seq(Cells) :
                 Read(<<Skip(2), Number(1)>>, <<0, 0, 0>> \o t) = Reader(<< <<0, 0>>, 0 >>, t)
<1>1. 0 \in Cells /\ <<0, 0>> \in Seq(Cells) /\ Len(<<0, 0>>) = 2 /\ <<0>> \in Seq(Cells)
  <2>1. 0 \in Cells
    BY LimitFacts
  <2> QED BY <2>1
<1>2. Laid(Append(<<>>, Skip(2)), <<>> \o <<0, 0>>, 0 + 2, Append(<<>>, <<0, 0>>))
  BY <1>1, LaidEmpty, LaidSkip
<1>3. <<>> \o <<0, 0>> = <<0, 0>> /\ Append(<<>>, Skip(2)) = <<Skip(2)>> /\ 0 + 2 = 2
      /\ Append(<<>>, <<0, 0>>) = << <<0, 0>> >>
  OBVIOUS
<1>4. Laid(<<Skip(2)>>, <<0, 0>>, 2, << <<0, 0>> >>)
  BY <1>2, <1>3
<1>5. 0 < Limit(1)
  <2>1. 16 <= Limit(1) /\ Limit(1) \in Nat
    BY LimitFacts
  <2> QED BY <2>1
<1>6. Laid(Append(<<Skip(2)>>, Number(1)), <<0, 0>> \o U8(0), 2 + 1, Append(<< <<0, 0>> >>, 0))
  BY <1>4, <1>5, LaidNumber
<1>7. Append(<<Skip(2)>>, Number(1)) = <<Skip(2), Number(1)>> /\ Append(<< <<0, 0>> >>, 0) = << <<0, 0>>, 0 >>
  BY AppendPair
<1>8. <<0, 0>> \o U8(0) = <<0, 0, 0>>
  <2>1. U8(0) = <<0>>
    <3>1. U8(0) \in Seq(Cells) /\ Len(U8(0)) = 1
      BY SizedUInt DEF Sized
    <3>2. U8(0)[1] = 0 % Byte
      BY UIntCells, Limits DEF U8
    <3>3. 0 % Byte = 0
      BY PacketAssumption
    <3>4. U8(0)[1] = 0
      BY <3>2, <3>3
    <3> DEFINE z == U8(0)
    <3> HIDE DEF z
    <3>5. z \in Seq(Cells) /\ Len(z) = 1 /\ z[1] = 0
      BY <3>1, <3>4 DEF z
    <3>6. z = <<0>>
      BY <3>5
    <3> QED BY <3>6 DEF z
  <2>2. <<0, 0>> \o <<0>> = <<0, 0, 0>>
    <3> DEFINE s == <<0, 0>> \o <<0>>
               t == <<0, 0, 0>>
    <3>1. /\ s \in Seq(Cells) /\ Len(s) = Len(<<0, 0>>) + Len(<<0>>)
          /\ (\A i \in 1 .. Len(<<0, 0>>) : s[i] = <<0, 0>>[i])
          /\ \A i \in 1 .. Len(<<0>>) : s[Len(<<0, 0>>) + i] = <<0>>[i]
      BY <1>1, Joined
    <3>2. Len(s) = 3 /\ s[1] = 0 /\ s[2] = 0 /\ s[3] = 0
      <4> HIDE DEF s
      <4>1. Len(<<0, 0>>) = 2 /\ Len(<<0>>) = 1 /\ <<0>>[1] = 0
        OBVIOUS
      <4>2. s[1] = 0 /\ s[2] = 0
        BY <3>1, <4>1
      <4>3. s[2 + 1] = <<0>>[1]
        <5>1. 1 \in 1 .. Len(<<0>>)
          BY <4>1
        <5> QED BY <3>1, <4>1, <5>1
      <4> QED BY <3>1, <4>1, <4>2, <4>3
    <3>3. t \in Seq(Cells) /\ Len(t) = 3 /\ t[1] = 0 /\ t[2] = 0 /\ t[3] = 0
      BY <1>1
    <3>4. \A i \in 1 .. 3 : i = 1 \/ i = 2 \/ i = 3
      OBVIOUS
    <3> HIDE DEF s, t
    <3>5. \A i \in 1 .. Len(s) : s[i] = t[i]
      BY <3>2, <3>3, <3>4
    <3>6. s = t
      BY <3>1, <3>2, <3>3, <3>5, SeqEqual
    <3> QED BY <3>6 DEF s, t
  <2> QED BY <2>1, <2>2
<1>9. Laid(<<Skip(2), Number(1)>>, <<0, 0, 0>>, 2 + 1, << <<0, 0>>, 0 >>)
  BY <1>6, <1>7, <1>8
<1> QED BY <1>9, LaidReads

(* Whatever items the answer to a login has, the client finds in it those  *)
(* it has to find.                                                         *)
LEMMA LoginUnderstood ==
    ASSUME Large, NEW items, Served(items), NEW s, s.shared \in Cells
    PROVE  LET data == ServerData("login", items, s)
           IN  /\ data \in Seq(Cells) /\ Len(data) <= Len(TlvSet(items)) + 40
               /\ ParseLogin(data, s) = [is |-> "login", code |-> 0, found |-> ItemsToFind(items)]
<1> DEFINE set == TlvSet(items)
           text == <<0, 0, 0>> \o set
           tea == TeaEncrypt(text, s.shared)
           env == WtloginCells
           last == U8(3)
           rest == tea \o last
           data == (env \o tea) \o last
<1>1. set \in Seq(Cells) /\ ReadTlvSet(set).ok = TRUE /\ ReadTlvSet(set).found = ItemsToFind(items)
  BY SetUnderstood
<1>2. ServerData("login", items, s) = data
  BY DEF ServerData, WtloginCells
<1>3. <<0, 0, 0>> \in Seq(Cells) /\ Len(<<0, 0, 0>>) = 3
  BY LoginHead
<1>4. Read(<<Skip(2), Number(1)>>, text) = Reader(<< <<0, 0>>, 0 >>, set)
  BY <1>1, LoginHead
<1>5. text \in Seq(Cells) /\ Len(text) = 3 + Len(set)
  <2>1. text \in Seq(Cells) /\ Len(text) = Len(<<0, 0, 0>>) + Len(set)
    BY <1>1, <1>3, Joined
  <2> QED BY <1>3, <2>1
<1> HIDE DEF set, text
<1>6. tea \in Seq(Cells)
  BY <1>5, TeaSized
<1>7. Len(tea) <= Len(text) + 17
  BY <1>5, TeaSized
<1>8. TeaDecrypt(tea, s.shared) = [ok |-> TRUE, text |-> text]
  BY <1>5, TeaRoundTrip
<1>9. PICK v : Laid(WtloginLayout, env, 16, v)
  BY WtloginRead
<1>10. \A t \in Seq(Cells) : (env \o t)[1] = 2
  BY WtloginRead
<1>11. env \in Seq(Cells) /\ Len(env) = 16
  BY <1>9, LaidReads
<1>12. last \in Seq(Cells) /\ Sized(last, 1) /\ Len(last) = 1
  BY SizedUInt DEF Sized
<1> HIDE DEF env, tea
<1>13. rest \in Seq(Cells) /\ rest # <<>> /\ Last(rest) = 3 /\ Len(rest) = Len(tea) + 1
  BY <1>6, LastOfJoin
<1>14. Front(rest) = tea
  BY <1>6, <1>12, FrontOfJoin
<1>15. data = env \o rest
  <2>1. \A a, b, c \in Seq(Cells) : (a \o b) \o c = a \o (b \o c)
    BY CellsAssociative
  <2> HIDE DEF last
  <2> QED BY <1>6, <1>11, <1>12, <2>1, Zenon
<1> HIDE DEF rest, data
<1>16. data \in Seq(Cells) /\ Len(data) = 16 + Len(rest)
  <2>1. env \o rest \in Seq(Cells) /\ Len(env \o rest) = Len(env) + Len(rest)
    BY <1>11, <1>13, Joined, ZenonT(30)
  <2> QED BY <1>11, <1>15, <2>1
<1>17. Len(data) <= Len(set) + 40
  <2>1. Len(tea) \in Nat /\ Len(set) \in Nat
    BY <1>1, <1>6
  <2> DEFINE a == Len(data)  b == Len(rest)  c == Len(tea)  d == Len(text)  e == Len(set)
  <2>2. a = 16 + b /\ b = c + 1 /\ c <= d + 17 /\ d = 3 + e /\ c \in Nat /\ e \in Nat
    BY <1>5, <1>7, <1>13, <1>16, <2>1
  <2> HIDE DEF a, b, c, d, e
  <2>3. a <= e + 40
    BY <2>2
  <2> QED BY <2>3 DEF a, e
<1>18. data[1] = 2
  BY <1>10, <1>13, <1>15
<1>19. data # <<>>
  <2>1. Len(rest) \in Nat
    BY <1>13
  <2>2. Len(data) # 0
    BY <1>16, <2>1
  <2> QED BY <2>2
<1>20. Read(WtloginLayout, data) = Reader(v, rest)
  BY <1>9, <1>13, <1>15, LaidReads
<1>21. ParseWtlogin(data, s) = [is |-> "body", body |-> text]
  <2> DEFINE r == Read(WtloginLayout, data)
  <2>1. r.ok /\ r.rest = rest
    BY <1>20 DEF Reader
  <2>2. ParseWtlogin(data, s) = OpenWtlogin(r, s)
    BY <1>18, <1>19 DEF ParseWtlogin
  <2> HIDE DEF r
  <2>3. OpenWtlogin(r, s) = OpenedWtlogin(TeaDecrypt(tea, s.shared))
    BY <1>13, <1>14, <2>1 DEF OpenWtlogin
  <2>4. OpenedWtlogin([ok |-> TRUE, text |-> text]) = [is |-> "body", body |-> text]
    BY DEF OpenedWtlogin
  <2> QED BY <1>8, <2>2, <2>3, <2>4
<1>22. ParseLogin(data, s) = LoginItems(Reader(<< <<0, 0>>, 0 >>, set))
  <2> DEFINE wt == ParseWtlogin(data, s)
  <2>1. wt.is = "body" /\ wt.body = text
    BY <1>21
  <2>2. ParseLogin(data, s) = LoginOf(wt)
    BY DEF ParseLogin
  <2> HIDE DEF wt
  <2>3. LoginOf(wt) = LoginItems(Read(<<Skip(2), Number(1)>>, text))
    BY <2>1 DEF LoginOf
  <2> QED BY <1>4, <2>2, <2>3
<1>23. LoginItems(Reader(<< <<0, 0>>, 0 >>, set)) = [is |-> "login", code |-> 0, found |-> ItemsToFind(items)]
  <2> DEFINE r == Reader(<< <<0, 0>>, 0 >>, set)
             found == ReadTlvSet(set)
  <2>1. r.ok /\ r.rest = set /\ r.fields[2] = 0
    BY DEF Reader
  <2> HIDE DEF r
  <2>2. LoginItems(r) = LoginEvent(r, found)
    BY <2>1 DEF LoginItems
  <2> HIDE DEF found
  <2>3. found.ok /\ found.found = ItemsToFind(items)
    BY <1>1 DEF found
  <2>4. LoginEvent(r, found) = [is |-> "login", code |-> r.fields[2], found |-> found.found]
    BY <2>1, <2>3 DEF LoginEvent
  <2> QED BY <2>1, <2>2, <2>3, <2>4, Zenon DEF r
<1> QED BY <1>2, <1>16, <1>17, <1>22, <1>23 DEF set

(* A third element.                                                        *)
LEMMA AppendThird == ASSUME NEW x, NEW y, NEW z PROVE Append(<<x, y>>, z) = <<x, y, z>>
<1> DEFINE S == {x, y, z}
           s == Append(<<x, y>>, z)
           t == <<x, y, z>>
<1>1. <<x, y>> \in Seq(S) /\ Len(<<x, y>>) = 2 /\ <<x, y>>[1] = x /\ <<x, y>>[2] = y /\ z \in S
  OBVIOUS
<1>2. t \in Seq(S) /\ Len(t) = 3 /\ t[1] = x /\ t[2] = y /\ t[3] = z
  OBVIOUS
<1> HIDE DEF S
<1>3. /\ s \in Seq(S) /\ Len(s) = 3 /\ s[3] = z
      /\ s[1] = x /\ s[2] = y
  BY <1>1, AppendProperties
<1>4. \A i \in 1 .. 3 : i = 1 \/ i = 2 \/ i = 3
  OBVIOUS
<1> HIDE DEF s, t
<1>5. \A i \in 1 .. Len(s) : s[i] = t[i]
  BY <1>2, <1>3, <1>4
<1>6. s = t
  BY <1>2, <1>3, <1>5, SeqEqual
<1> QED BY <1>6 DEF s, t

-----------------------------------------------------------------------------
(* The body of an answer.                                                  *)

(* What was deflated is inflated to what it was.                           *)
LEMMA DeflateBack ==
    ASSUME Large, NEW cells \in Seq(Cells)
    PROVE  /\ Deflate(cells) \in Seq(Cells) /\ Len(Deflate(cells)) = Len(cells) + 1
           /\ Inflate(Deflate(cells)).ok = TRUE /\ Inflate(Deflate(cells)).text = cells
<1> DEFINE n == Len(cells)
           back == Reverse(cells)
           deflated == <<7>> \o back
<1>1. n \in Nat /\ \A i \in 1 .. n : cells[i] \in Cells
  OBVIOUS
<1> HIDE DEF n
<1>2. back = [i \in 1 .. n |-> cells[(n - i) + 1]]
  BY DEF Reverse, n
<1>3. \A i \in 1 .. n : (n - i) + 1 \in 1 .. n /\ (n - ((n - i) + 1)) + 1 = i
  BY <1>1
<1>4. back \in Seq(Cells) /\ Len(back) = n /\ \A i \in 1 .. n : back[i] = cells[(n - i) + 1]
  BY <1>1, <1>2, <1>3
<1> HIDE DEF back
<1>5. Reverse(back) = cells
  <2> DEFINE again == Reverse(back)
  <2>1. again = [i \in 1 .. n |-> back[(n - i) + 1]]
    BY <1>4 DEF Reverse
  <2>2. \A i \in 1 .. n : back[(n - i) + 1] = cells[i]
    BY <1>3, <1>4
  <2>3. again \in Seq(Cells) /\ Len(again) = n /\ \A i \in 1 .. n : again[i] = cells[i]
    BY <1>1, <2>1, <2>2
  <2> HIDE DEF again
  <2>4. again = cells
    BY <2>3, SeqEqual DEF n
  <2> QED BY <2>4 DEF again
<1>6. <<7>> \in Seq(Cells) /\ Len(<<7>>) = 1 /\ <<7>>[1] = 7
  BY OneCell
<1>7. /\ deflated \in Seq(Cells) /\ Len(deflated) = Len(<<7>>) + Len(back)
      /\ (\A i \in 1 .. Len(<<7>>) : deflated[i] = <<7>>[i])
      /\ \A i \in 1 .. Len(back) : deflated[Len(<<7>>) + i] = back[i]
  BY <1>4, <1>6, Joined
<1> HIDE DEF deflated
<1>8. Len(deflated) = n + 1 /\ deflated[1] = 7 /\ \A i \in 1 .. n : deflated[i + 1] = back[i]
  BY <1>1, <1>4, <1>6, <1>7
<1>9. deflated # <<>> /\ Head(deflated) = 7
  <2>1. Len(deflated) # 0
    BY <1>1, <1>8
  <2>2. deflated # <<>>
    BY <2>1
  <2> QED BY <1>7, <1>8, <2>2, HeadTailProperties
<1>10. Tail(deflated) = back
  <2> DEFINE tail == Tail(deflated)
  <2>1. tail \in Seq(Cells) /\ Len(tail) = Len(deflated) - 1 /\ \A i \in 1 .. Len(tail) : tail[i] = deflated[i + 1]
    BY <1>7, <1>9, HeadTailProperties
  <2> HIDE DEF tail
  <2>2. Len(tail) = n
    BY <1>1, <1>8, <2>1
  <2>3. tail = back
    BY <1>4, <1>8, <2>1, <2>2, SeqEqual
  <2> QED BY <2>3 DEF tail
<1>11. Deflate(cells) = deflated
  BY DEF Deflate, deflated, back
<1>12. Inflate(deflated).ok = TRUE
  BY <1>9 DEF Inflate
<1>13. Inflate(deflated).text = cells
  BY <1>5, <1>10 DEF Inflate
<1> QED BY <1>7, <1>8, <1>11, <1>12, <1>13 DEF n

(* The fields of the body of an answer, behind its length.                 *)
BodyCells(q, code, cmd, z) ==
    U32(q) \o U32(code) \o Section(<<>>) \o Section(cmd) \o Section(<<>>) \o U32(z) \o Prefixed(4, 0, <<1>>)

(* The client reads what the server laid out.                              *)
BodyRead(n, q, code, cmd, z) ==
    \E v : After(BodyLayout, U32(n), BodyCells(q, code, cmd, z), 34, v)
          /\ v[2] = q /\ v[3] = code /\ v[5] = cmd /\ v[7] = z

LEMMA BodyFields ==
    ASSUME Large, NEW n \in Nat, n < Limit(4), NEW q \in Nat, q < Limit(4), NEW code \in {0, 1},
           NEW cmd \in Seq(Cells), Len(cmd) = 1, NEW z \in {0, 1}
    PROVE  BodyRead(n, q, code, cmd, z)
<1> DEFINE l1 == <<Number(4)>>  u1 == U32(n)  v1 == <<n>>
           l2 == Append(l1, Number(4))  d2 == U32(q)  v2 == Append(v1, q)
           l3 == Append(l2, Number(4))  d3 == d2 \o U32(code)  v3 == Append(v2, code)
           l4 == Append(l3, Counted)  d4 == d3 \o Section(<<>>)  v4 == Append(v3, <<>>)
           l5 == Append(l4, Counted)  d5 == d4 \o Section(cmd)  v5 == Append(v4, cmd)
           l6 == Append(l5, Counted)  d6 == d5 \o Section(<<>>)  v6 == Append(v5, <<>>)
           l7 == Append(l6, Number(4))  d7 == d6 \o U32(z)  v7 == Append(v6, z)
           l8 == Append(l7, Blob(4, 0))  d8 == d7 \o Prefixed(4, 0, <<1>>)  v8 == Append(v7, <<1>>)
<1>0. /\ code \in Nat /\ code < Limit(4) /\ z \in Nat /\ z < Limit(4) /\ 4 \in Widths
      /\ 0 + 4 < Limit(4) /\ 1 + 4 < Limit(4) /\ 1 + 0 < Limit(4)
      /\ <<>> \in Seq(Cells) /\ Len(<<>>) = 0 /\ <<1>> \in Seq(Cells) /\ Len(<<1>>) = 1
  <2>1. <<1>> \in Seq(Cells) /\ Len(<<1>>) = 1
    BY OneCell
  <2>2. 65536 <= Limit(4) /\ Limit(4) \in Nat /\ 4 \in Widths /\ <<>> \in Seq(Cells) /\ Len(<<>>) = 0
    BY LimitFacts, Limits
  <2> QED BY <2>1, <2>2
<1> HIDE DEF l1, u1, v1, l2, d2, v2, l3, d3, v3, l4, d4, v4, l5, d5, v5, l6, d6, v6, l7, d7, v7, l8, d8, v8
<1>1. Laid(l1, u1, 4, v1)
  BY LaidFirst DEF l1, u1, v1
<1>2. After(l2, u1, d2, 4 + 4, v2)
  BY <1>1, AfterFirst DEF l2, d2, v2
<1>3. After(l3, u1, d3, 4 + 4 + 4, v3)
  BY <1>0, <1>2, AfterNumber DEF l3, d3, v3
<1>4. After(l4, u1, d4, 4 + 4 + 4 + (4 + Len(<<>>)), v4)
  BY <1>0, <1>3, AfterBlob DEF l4, d4, v4, Counted, Section
<1>5. After(l5, u1, d5, 4 + 4 + 4 + (4 + Len(<<>>)) + (4 + Len(cmd)), v5)
  BY <1>0, <1>4, AfterBlob DEF l5, d5, v5, Counted, Section
<1>6. After(l6, u1, d6, 4 + 4 + 4 + (4 + Len(<<>>)) + (4 + Len(cmd)) + (4 + Len(<<>>)), v6)
  BY <1>0, <1>5, AfterBlob DEF l6, d6, v6, Counted, Section
<1>7. After(l7, u1, d7, 4 + 4 + 4 + (4 + Len(<<>>)) + (4 + Len(cmd)) + (4 + Len(<<>>)) + 4, v7)
  BY <1>0, <1>6, AfterNumber DEF l7, d7, v7
<1>8. After(l8, u1, d8, 4 + 4 + 4 + (4 + Len(<<>>)) + (4 + Len(cmd)) + (4 + Len(<<>>)) + 4 + (4 + Len(<<1>>)), v8)
  BY <1>0, <1>7, AfterBlob DEF l8, d8, v8
<1>9. BodyLayout \in Seq(FieldKinds) /\ Len(BodyLayout) = 8
  <2>1. Blob(4, 0) \in FieldKinds
    BY DEF Blob, FieldKinds
  <2> QED BY <2>1, FieldsKnown DEF BodyLayout
<1>10. Len(l8) = 8 /\ \A i \in 1 .. 8 : BodyLayout[i] = l8[i]
  BY DEF BodyLayout, l1, l2, l3, l4, l5, l6, l7, l8
<1>11. v8[2] = q /\ v8[3] = code /\ v8[5] = cmd /\ v8[7] = z
  BY DEF v1, v2, v3, v4, v5, v6, v7, v8
<1>12. 4 + 4 + 4 + (4 + Len(<<>>)) + (4 + Len(cmd)) + (4 + Len(<<>>)) + 4 + (4 + Len(<<1>>)) = 34
  BY <1>0
<1>13. BodyLayout = l8
  <2>1. l8 \in Seq(FieldKinds)
    BY <1>8 DEF After, Laid, Carries
  <2> QED BY <2>1, <1>9, <1>10, SeqEqual
<1>14. BodyCells(q, code, cmd, z) = d8 /\ U32(n) = u1
  BY DEF BodyCells, u1, d2, d3, d4, d5, d6, d7, d8
<1>15. After(BodyLayout, U32(n), BodyCells(q, code, cmd, z), 34, v8)
  BY <1>8, <1>12, <1>13, <1>14
<1> QED BY <1>11, <1>15 DEF BodyRead

(* Compressed or not, a body whose code is good becomes a packet with the  *)
(* data behind their length, and one whose code is not is refused.         *)
AnswerBody(q, code, cmd, compressed, data) ==
    Section(BodyCells(q, code, cmd, IF compressed THEN 1 ELSE 0)
            \o Section(IF compressed THEN Deflate(data) ELSE data))

(* What is passed on of a body.                                            *)
Passed(q, code, cmd, data) ==
    IF code # 0 THEN Refused("ret code")
    ELSE [is |-> "packet", sequence |-> q, command |-> cmd, payload |-> Section(data)]

(* So much is made of a body by ParseBody.                                 *)
LEMMA BodyUnderstood ==
    ASSUME Large, NEW q \in Nat, q < Limit(4), NEW code \in {0, 1}, NEW cmd \in Seq(Cells), Len(cmd) = 1,
           NEW compressed \in BOOLEAN, NEW data \in Seq(Cells), Len(data) + 64 < Limit(4)
    PROVE  /\ AnswerBody(q, code, cmd, compressed, data) \in Seq(Cells)
           /\ Len(AnswerBody(q, code, cmd, compressed, data)) <= Len(data) + 40
           /\ ParseBody(AnswerBody(q, code, cmd, compressed, data)) = Passed(q, code, cmd, data)
<1> DEFINE z == IF compressed THEN 1 ELSE 0
           content == IF compressed THEN Deflate(data) ELSE data
           fields == BodyCells(q, code, cmd, z)
           packed == Section(content)
           inner == fields \o packed
           n == Len(inner) + 4
           first == U32(n)
           body == first \o inner
<1>1. z \in {0, 1}
  OBVIOUS
<1>2. content \in Seq(Cells) /\ Len(content) <= Len(data) + 1
  <2>1. Len(data) \in Nat
    OBVIOUS
  <2>2. Deflate(data) \in Seq(Cells) /\ Len(Deflate(data)) = Len(data) + 1
    BY DeflateBack
  <2> QED BY <2>1, <2>2
<1>3. AnswerBody(q, code, cmd, compressed, data) = body
  BY DEF AnswerBody, Section, Prefixed, U32
<1> HIDE DEF z, content
<1>4. Limit(4) \in Nat /\ 65536 <= Limit(4) /\ Len(data) \in Nat /\ Len(content) \in Nat
  <2>1. Len(content) \in Nat
    BY <1>2
  <2> QED BY <2>1, LimitFacts
<1>5. packed \in Seq(Cells) /\ Len(packed) = 4 + Len(content)
  BY <1>2, SizedSection DEF Sized
<1>6. Read(<<Counted>>, packed) = Reader(<<content>>, <<>>)
  <2>1. Len(content) + 4 < Limit(4)
    BY <1>2, <1>4
  <2> QED BY <1>2, <2>1, WholeRead
<1>7. fields \in Seq(Cells) /\ Len(fields) = 30
  <2>1. 0 \in Nat /\ 0 < Limit(4)
    BY <1>4
  <2>2. PICK v : After(BodyLayout, U32(0), fields, 34, v)
    <3>1. BodyRead(0, q, code, cmd, z)
      BY <1>1, <2>1, BodyFields
    <3> QED BY <3>1 DEF BodyRead
  <2> HIDE DEF fields
  <2>3. fields \in Seq(Cells) /\ U32(0) \in Seq(Cells) /\ Len(U32(0) \o fields) = 34
    BY <2>2 DEF After, Laid
  <2>4. Len(U32(0)) = 4
    BY SizedUInt DEF Sized
  <2>5. Len(U32(0) \o fields) = Len(U32(0)) + Len(fields)
    BY <2>3, Joined
  <2>6. Len(fields) \in Nat
    BY <2>3
  <2> DEFINE a == Len(U32(0) \o fields)  b == Len(fields)
  <2>7. a = 34 /\ a = 4 + b /\ b \in Nat
    BY <2>3, <2>4, <2>5, <2>6
  <2> HIDE DEF a, b
  <2>8. b = 30
    BY <2>7
  <2> QED BY <2>3, <2>8 DEF b
<1> HIDE DEF fields, packed
<1>8. inner \in Seq(Cells) /\ Len(inner) = Len(fields) + Len(packed)
  BY <1>5, <1>7, Joined, ZenonT(30)
<1> HIDE DEF inner
<1>9. Len(inner) = 34 + Len(content)
  BY <1>4, <1>5, <1>7, <1>8
<1>10. n \in Nat /\ n < Limit(4)
  BY <1>2, <1>4, <1>9
<1> HIDE DEF n
<1>11. PICK v : After(BodyLayout, first, fields, 34, v) /\ v[2] = q /\ v[3] = code /\ v[5] = cmd /\ v[7] = z
  <2>1. BodyRead(n, q, code, cmd, z)
    BY <1>1, <1>10, BodyFields
  <2> QED BY <2>1 DEF fields, first, BodyRead
<1>12. first \in Seq(Cells) /\ Len(first) = 4
  BY <1>10, SizedUInt DEF Sized
<1> HIDE DEF first
<1>13. body = (first \o fields) \o packed
  <2>1. \A a, b, c \in Seq(Cells) : (a \o b) \o c = a \o (b \o c)
    BY CellsAssociative
  <2>2. (first \o fields) \o packed = first \o (fields \o packed)
    BY <1>5, <1>7, <1>12, <2>1, ZenonT(30)
  <2> QED BY <2>2, Zenon DEF inner
<1>14. body \in Seq(Cells) /\ Len(body) <= Len(data) + 40
  <2>1. body \in Seq(Cells) /\ Len(body) = Len(first) + Len(inner)
    BY <1>8, <1>12, Joined, ZenonT(30)
  <2>2. Len(body) = 38 + Len(content)
    BY <1>4, <1>9, <1>12, <2>1
  <2>3. Len(body) <= Len(data) + 40
    BY <1>2, <1>4, <2>2
  <2> QED BY <2>1, <2>3
<1> HIDE DEF body
<1>15. Read(BodyLayout, body) = Reader(v, packed)
  BY <1>5, <1>11, <1>13, LaidReads DEF After
<1> DEFINE r == Read(BodyLayout, body)
<1>16. r.ok = TRUE /\ r.rest = packed /\ r.fields = v
  BY <1>15 DEF Reader
<1>17. ParseBody(body) = ReadBody(r)
  BY DEF ParseBody
<1> HIDE DEF r
<1>18. ReadBody(r) = PacketOf(r, Section(data))
  <2>1. CASE compressed
    <3>1. r.fields[7] # 0
      BY <1>11, <1>16, <2>1 DEF z
    <3>2. content = Deflate(data)
      BY <2>1 DEF content
    <3> DEFINE whole == Read(<<Counted>>, packed)
    <3>3. ReadBody(r) = InflateBody(r, whole)
      BY <1>16, <3>1 DEF ReadBody
    <3>4. whole.ok = TRUE /\ whole.fields[1] = Deflate(data)
      BY <1>6, <3>2 DEF Reader
    <3> HIDE DEF whole
    <3>5. Inflate(Deflate(data)).ok = TRUE /\ Inflate(Deflate(data)).text = data
      BY DeflateBack
    <3>6. InflateBody(r, whole) = PacketOf(r, Inflated(data))
      BY <3>4, <3>5 DEF InflateBody
    <3>7. Inflated(data) = Section(data)
      BY DEF Inflated, Section, Prefixed, U32
    <3> QED BY <3>3, <3>6, <3>7
  <2>2. CASE ~ compressed
    <3>1. r.fields[7] = 0
      BY <1>11, <1>16, <2>2 DEF z
    <3>2. packed = Section(data)
      BY <2>2 DEF packed, content
    <3> QED BY <1>16, <3>1, <3>2 DEF ReadBody
  <2> QED BY <2>1, <2>2
<1>19. PacketOf(r, Section(data)) = Passed(q, code, cmd, data)
  BY <1>11, <1>16 DEF PacketOf, Passed
<1> QED BY <1>3, <1>14, <1>17, <1>18, <1>19

-----------------------------------------------------------------------------
(* The head of an answer.                                                  *)
RouteCells(flag, uin) == U8(flag) \o U8(0) \o Section(uin)

(* The client reads the flag and the account.                              *)
LEMMA RouteRead ==
    ASSUME Large, NEW flag \in 0 .. 3, NEW uin \in Seq(Cells), Len(uin) + 4 < Limit(4)
    PROVE  Laid(RouteLayout, RouteCells(flag, uin), 6 + Len(uin), <<flag, 0, uin>>)
<1> DEFINE l1 == <<Number(1)>>  c1 == U8(flag)  v1 == <<flag>>
           l2 == Append(l1, Number(1))  c2 == c1 \o U8(0)  v2 == Append(v1, 0)
           l3 == Append(l2, Counted)  c3 == c2 \o Section(uin)  v3 == Append(v2, uin)
<1>0. flag \in Nat /\ flag < Limit(1) /\ 0 < Limit(1) /\ Len(uin) \in Nat
  <2>1. 16 <= Limit(1) /\ Limit(1) \in Nat
    BY LimitFacts
  <2> QED BY <2>1
<1> HIDE DEF l1, c1, v1, l2, c2, v2, l3, c3, v3
<1>1. Laid(l1, c1, 1, v1)
  BY <1>0, LaidFirst DEF l1, c1, v1
<1>2. Laid(l2, c2, 1 + 1, v2)
  BY <1>0, <1>1, LaidNumber DEF l2, c2, v2
<1>3. Laid(l3, c3, 1 + 1 + (4 + Len(uin)), v3)
  BY <1>2, LaidSection DEF l3, c3, v3
<1>4. RouteLayout \in Seq(FieldKinds) /\ Len(RouteLayout) = 3
  BY FieldsKnown DEF RouteLayout
<1>5. Len(l3) = 3 /\ \A i \in 1 .. 3 : RouteLayout[i] = l3[i]
  BY DEF RouteLayout, l1, l2, l3
<1>6. RouteLayout = l3
  <2>1. l3 \in Seq(FieldKinds)
    BY <1>3 DEF Laid, Carries
  <2> QED BY <2>1, <1>4, <1>5, SeqEqual
<1>7. v3 = <<flag, 0, uin>>
  <2>1. v2 = <<flag, 0>>
    BY AppendPair DEF v1, v2
  <2> QED BY <2>1, AppendThird DEF v3
<1>8. 1 + 1 + (4 + Len(uin)) = 6 + Len(uin)
  BY <1>0
<1> QED BY <1>3, <1>6, <1>7, <1>8 DEF RouteCells, c1, c2, c3

(* Behind its length a packet has its type, and behind that its route.     *)
AnswerCells(type, flag, uin, sealed) ==
    Section(U32(type) \o U8(flag) \o U8(0) \o Section(uin) \o sealed)

(* What is read of a route, and what is made of it by the type before it.  *)
RouteOf(flag, uin, sealed) == Reader(<<flag, 0, uin>>, sealed)
Typed(type, flag, uin, sealed, s) ==
    IF type \notin {T12, T13} THEN Refused("type") ELSE ParseRoute(type, RouteOf(flag, uin, sealed), s)

(* An unknown protocol is refused before the rest is looked at.            *)
LEMMA TypeUnderstood ==
    ASSUME Large, NEW type \in {5, T12, T13}, NEW flag \in 0 .. 3, NEW uin \in Seq(Cells),
           NEW sealed \in Seq(Cells), Len(uin) + Len(sealed) + 32 < Limit(4), NEW s
    PROVE  ParsePacket(AnswerCells(type, flag, uin, sealed), s) = Typed(type, flag, uin, sealed, s)
<1> DEFINE a == U32(type)
           route == RouteCells(flag, uin)
           tail == route \o sealed
           inner == a \o tail
           n == Len(inner) + 4
           first == U32(n)
           cells == first \o inner
<1>1. Limit(4) \in Nat /\ 65536 <= Limit(4) /\ Len(uin) \in Nat /\ Len(sealed) \in Nat
  <2>1. Limit(4) \in Nat /\ 65536 <= Limit(4)
    BY LimitFacts
  <2>2. Len(uin) \in Nat /\ Len(sealed) \in Nat
    OBVIOUS
  <2> QED BY <2>1, <2>2
<1>2. type \in Nat /\ type < Limit(4)
  BY <1>1 DEF T12, T13
<1>3. a \in Seq(Cells) /\ Len(a) = 4
  BY <1>2, SizedUInt DEF Sized
<1>4. Laid(RouteLayout, route, 6 + Len(uin), <<flag, 0, uin>>)
  <2>1. Len(uin) + 4 < Limit(4)
    BY <1>1
  <2> QED BY <2>1, RouteRead
<1>5. route \in Seq(Cells) /\ Len(route) = 6 + Len(uin)
  BY <1>4, LaidReads
<1>6. U32(type) \o U8(flag) \o U8(0) \o Section(uin) \o sealed = inner
  <2> DEFINE b == U8(flag)  c == U8(0)  d == Section(uin)
  <2>1. b \in Seq(Cells) /\ c \in Seq(Cells) /\ d \in Seq(Cells)
    <3>1. flag \in Nat /\ 0 \in Nat
      OBVIOUS
    <3>2. Sized(U8(flag), 1) /\ Sized(U8(0), 1)
      BY <3>1, SizedUInt
    <3>3. Sized(Section(uin), 4 + Len(uin))
      BY SizedSection
    <3> QED BY <3>2, <3>3 DEF Sized
  <2>2. \A x, y, w \in Seq(Cells) : (x \o y) \o w = x \o (y \o w)
    BY CellsAssociative
  <2>3. b \o c \in Seq(Cells) /\ (b \o c) \o d \in Seq(Cells)
    <3>1. b \o c \in Seq(Cells)
      BY <2>1, Joined
    <3> HIDE DEF b, c, d
    <3> QED BY <2>1, <3>1, Joined
  <2> HIDE DEF a, b, c, d
  <2>4. (a \o b) \o c = a \o (b \o c)
    BY <1>3, <2>1, <2>2, Zenon
  <2>5. (a \o (b \o c)) \o d = a \o ((b \o c) \o d)
    BY <1>3, <2>1, <2>2, <2>3, ZenonT(30)
  <2>6. (a \o ((b \o c) \o d)) \o sealed = a \o (((b \o c) \o d) \o sealed)
    BY <1>3, <2>2, <2>3, Zenon
  <2>7. (((a \o b) \o c) \o d) \o sealed = a \o (((b \o c) \o d) \o sealed)
    BY <2>4, <2>5, <2>6, Zenon
  <2> QED BY <2>7 DEF a, b, c, d, RouteCells
<1> HIDE DEF route
<1>7. tail \in Seq(Cells) /\ Len(tail) = Len(route) + Len(sealed)
  BY <1>5, Joined
<1> HIDE DEF tail
<1>8. inner \in Seq(Cells) /\ Len(inner) = Len(a) + Len(tail)
  BY <1>3, <1>7, Joined, ZenonT(30)
<1>9. n \in Nat /\ n < Limit(4)
  <2> HIDE DEF a, inner
  <2>1. Len(inner) = 10 + Len(uin) + Len(sealed)
    BY <1>1, <1>3, <1>5, <1>7, <1>8
  <2> QED BY <1>1, <2>1
<1>10. AnswerCells(type, flag, uin, sealed) = cells
  BY <1>6 DEF AnswerCells, Section, Prefixed, U32
<1> HIDE DEF n
<1>11. Laid(<<Number(4)>>, first, 4, <<n>>)
  BY <1>9, LaidFirst
<1>12. Laid(Append(<<Number(4)>>, Number(4)), first \o a, 4 + 4, Append(<<n>>, type))
  BY <1>2, <1>11, LaidNumber
<1>13. Append(<<Number(4)>>, Number(4)) = <<Number(4), Number(4)>> /\ Append(<<n>>, type) = <<n, type>>
  BY AppendPair
<1>14. first \in Seq(Cells)
  BY <1>11, LaidReads
<1> HIDE DEF first, a
<1>15. cells = (first \o a) \o tail
  <2>1. \A x, y, w \in Seq(Cells) : (x \o y) \o w = x \o (y \o w)
    BY CellsAssociative
  <2> QED BY <1>3, <1>7, <1>14, <2>1, Zenon
<1>16. Read(<<Number(4), Number(4)>>, cells) = Reader(<<n, type>>, tail)
  <2>1. Laid(<<Number(4), Number(4)>>, first \o a, 4 + 4, <<n, type>>)
    BY <1>12, <1>13, Zenon
  <2>2. Read(<<Number(4), Number(4)>>, (first \o a) \o tail) = Reader(<<n, type>>, tail)
    BY <1>7, <2>1, LaidReads
  <2> QED BY <1>15, <2>2
<1>17. Read(RouteLayout, tail) = Reader(<<flag, 0, uin>>, sealed)
  BY <1>4, LaidReads DEF tail
<1> DEFINE head == Read(<<Number(4), Number(4)>>, cells)
<1>18. head.ok = TRUE /\ head.fields[2] = type /\ head.rest = tail
  BY <1>16 DEF Reader
<1>19. ParsePacket(cells, s) = ParseType(head, s)
  BY DEF ParsePacket
<1> HIDE DEF head, cells
<1>20. ParseType(head, s) = IF type \notin {T12, T13} THEN Refused("type")
                            ELSE ParseRoute(type, Read(RouteLayout, tail), s)
  BY <1>18 DEF ParseType
<1> QED BY <1>10, <1>17, <1>19, <1>20 DEF Typed, RouteOf

-----------------------------------------------------------------------------
(* What the parser of an event makes of the data of an answer.             *)

(* The server's items are such as SetUnderstood asks for.                  *)
LEMMA AnswersServed ==
    /\ \A items \in TlvSets : Served(items)
    /\ OtherUin \in Seq(Cells) /\ OtherUin # <<>> /\ \A s \in Sessions : s.uin # <<>> /\ s.uin # OtherUin
<1>1. Limit(2) = Byte * Byte
  BY DEF Limit
<1>2. OtherUin \in Seq(Cells) /\ OtherUin # <<>> /\ \A s \in Sessions : s.uin # <<>> /\ s.uin # OtherUin
  BY AnswersAssumption DEF Cells
<1>3. ASSUME NEW items \in TlvSets PROVE Served(items)
  <2>1. items \in Seq(Item)
    BY AnswersAssumption DEF Item, Cells
  <2>2. Len(items) < Limit(2)
    BY <1>1, AnswersAssumption
  <2>3. \A i \in 1 .. Len(items) : Len(items[i][2]) < Limit(2) /\ TlvOutcome(items[i][1], items[i][2]) # "panic"
    BY <1>1, AnswersAssumption
  <2> QED BY <2>1, <2>2, <2>3 DEF Served
<1> QED BY <1>2, <1>3

(* The commands tell the kinds apart.                                      *)
LEMMA CommandIs ==
    /\ Command("login") = <<1>> /\ Command("oidb") = <<3>> /\ Command("heartbeat") = <<4>>
    /\ <<1>> # <<3>> /\ <<1>> # <<4>> /\ <<3>> # <<4>>
<1> DEFINE names == {<<1>>, <<2>>, <<3>>, <<4>>}
<1>1. ASSUME NEW x \in names PROVE (CHOOSE c \in names : c = x) = x
  OBVIOUS
<1>2. <<1>> \in names /\ <<3>> \in names /\ <<4>> \in names
  OBVIOUS
<1>3. Command("login") = CHOOSE c \in names : c = <<1>>
  BY DEF Command
<1>4. Command("oidb") = CHOOSE c \in names : c = <<3>>
  BY DEF Command
<1>5. Command("heartbeat") = CHOOSE c \in names : c = <<4>>
  BY DEF Command
<1>6. <<1>>[1] = 1 /\ <<3>>[1] = 3 /\ <<4>>[1] = 4
  OBVIOUS
<1>7. <<1>> # <<3>> /\ <<1>> # <<4>> /\ <<3>> # <<4>>
  BY <1>6
<1> HIDE DEF names
<1> QED BY <1>1, <1>2, <1>3, <1>4, <1>5, <1>7

(* An oidb message is its code, then its body.                             *)
LEMMA OidbUnderstood ==
    ASSUME Large, NEW code \in 0 .. 15, NEW body \in Seq(Cells)
    PROVE  /\ OidbPacket(code, body) \in Seq(Cells) /\ Len(OidbPacket(code, body)) = 2 + Len(body)
           /\ ParseOidb(OidbPacket(code, body)) =
                IF code = 0 THEN [is |-> "event", body |-> body] ELSE Refused("oidb")
<1> DEFINE a == <<1>>
           b == <<code>>
           rest == b \o body
           cells == a \o rest
<1>1. a \in Seq(Cells) /\ Len(a) = 1 /\ a[1] = 1
  BY OneCell
<1>2. b \in Seq(Cells) /\ Len(b) = 1 /\ b[1] = code
  BY OneCell
<1> HIDE DEF a, b
<1>3. /\ rest \in Seq(Cells) /\ Len(rest) = Len(b) + Len(body)
      /\ \A i \in 1 .. Len(b) : rest[i] = b[i]
  BY <1>2, Joined
<1>4. Len(body) \in Nat
  OBVIOUS
<1>5. Len(rest) = 1 + Len(body) /\ rest[1] = code
  BY <1>2, <1>3
<1>6. rest # <<>>
  <2>1. Len(rest) # 0
    BY <1>4, <1>5
  <2> QED BY <2>1
<1>7. OidbPacket(code, body) = cells
  BY <1>6 DEF OidbPacket, Proto, a, b
<1>8. cells = (a \o b) \o body
  <2>1. \A x, y, w \in Seq(Cells) : (x \o y) \o w = x \o (y \o w)
    BY CellsAssociative
  <2> QED BY <1>1, <1>2, <2>1, Zenon
<1>9. <<>> \in Seq(Cells) /\ a \o b \in Seq(Cells) /\ Len(a \o b) = Len(a) + Len(b)
  <2>1. a \in Seq(Cells) /\ b \in Seq(Cells)
    BY <1>1, <1>2
  <2> QED BY <2>1, Joined
<1>10. Len(a \o b) = 2
  BY <1>1, <1>2, <1>9
<1>11. SubSeq(cells, 3, Len(cells)) = body
  <2>1. SubSeq((a \o b) \o body, Len(a \o b) + 1, Len((a \o b) \o body)) = body
    <3> DEFINE c == a \o b
    <3> HIDE DEF c
    <3>1. c \in Seq(Cells)
      BY <1>9 DEF c
    <3>2. SubSeq(c \o body, Len(c) + 1, Len(c \o body)) = body
      BY <3>1, Behind
    <3> QED BY <3>2 DEF c
  <2>2. 2 + 1 = 3
    OBVIOUS
  <2> QED BY <1>8, <1>10, <2>1, <2>2
<1> HIDE DEF rest
<1>12. /\ cells \in Seq(Cells) /\ Len(cells) = Len(a) + Len(rest)
       /\ (\A i \in 1 .. Len(a) : cells[i] = a[i])
       /\ \A i \in 1 .. Len(rest) : cells[Len(a) + i] = rest[i]
  <2>1. a \in Seq(Cells) /\ rest \in Seq(Cells)
    BY <1>1, <1>3
  <2> QED BY <2>1, Joined
<1> HIDE DEF cells
<1>13. Len(cells) = 2 + Len(body)
  BY <1>1, <1>4, <1>5, <1>12
<1>14. cells[1] = 1
  BY <1>1, <1>12
<1>15. cells[2] = code
  <2>1. 1 \in 1 .. Len(rest) /\ 1 + 1 = 2
    BY <1>4, <1>5
  <2>2. cells[1 + 1] = rest[1]
    BY <1>1, <1>12, <2>1
  <2> QED BY <1>5, <2>1, <2>2
<1>16. cells # <<>>
  <2>1. Len(cells) # 0
    BY <1>4, <1>13
  <2> QED BY <2>1
<1> QED BY <1>7, <1>11, <1>12, <1>13, <1>14, <1>15, <1>16 DEF ParseOidb

(* The server's answers to an oidb message.                                *)
LEMMA OidbAnswers ==
    ASSUME Large, NEW answer \in Answers("oidb")
    PROVE  answer[1] \in 0 .. 15 /\ answer[2] \in Seq(Cells) /\ Len(answer[2]) <= 1
<1>1. <<5>> \in Seq(Cells) /\ <<>> \in Seq(Cells) /\ Len(<<5>>) = 1 /\ Len(<<>>) = 0
  BY OneCell
<1>2. CASE answer = <<0, <<5>>>>
  <2>1. answer[1] = 0
    BY <1>2
  <2>2. answer[2] = <<5>>
    BY <1>2
  <2>3. Len(answer[2]) = 1
    BY <1>1, <2>2
  <2> QED BY <1>1, <2>1, <2>2, <2>3
<1>3. CASE answer = <<1, <<>>>>
  <2>1. answer[1] = 1
    BY <1>3
  <2>2. answer[2] = <<>>
    BY <1>3
  <2>3. Len(answer[2]) = 0
    BY <1>1, <2>2
  <2> QED BY <1>1, <2>1, <2>2, <2>3
<1>4. answer = <<0, <<5>>>> \/ answer = <<1, <<>>>>
  BY DEF Answers
<1> QED BY <1>2, <1>3, <1>4

(* What the client has to make of the data of an answer whose form is good. *)
EventMeant(kind, answer) ==
    CASE kind = "login" -> [is |-> "login", code |-> 0, found |-> ItemsToFind(answer)]
      [] kind = "oidb" -> (IF answer[1] = 0 THEN [is |-> "event", body |-> answer[2]] ELSE Refused("oidb"))
      [] kind = "heartbeat" -> [is |-> "alive"]

Answered == {"login", "oidb", "heartbeat"}

(* Data that fit a packet with an account's number.                        *)
Fits(data, uin) == data \in Seq(Cells) /\ uin \in Seq(Cells) /\ Len(data) + Len(uin) + 256 < Limit(4)

(* The parser that the command names gets the event out of the data.       *)
LEMMA EventUnderstood ==
    ASSUME Large, NEW s, Session(s), NEW kind \in Answered, NEW answer \in Answers(kind),
           NEW packet, packet.command = Command(kind)
    PROVE  ParseEvent(packet, Reader(<<ServerData(kind, answer, s)>>, <<>>), s) =
             [is |-> "resolved", sequence |-> packet.sequence, event |-> EventMeant(kind, answer)]
<1> DEFINE data == ServerData(kind, answer, s)
           payload == Reader(<<data>>, <<>>)
           cmd == packet.command
           event == CASE cmd = Command("login") -> ParseLogin(data, s)
                      [] cmd = Command("oidb") -> ParseOidb(data)
                      [] cmd = Command("heartbeat") -> [is |-> "alive"]
<1>1. payload.ok = TRUE /\ payload.fields[1] = data
  BY DEF Reader
<1>2. s.shared \in Cells
  BY DEF Session
<1>3. event = EventMeant(kind, answer)
  <2>1. CASE kind = "login"
    <3>1. answer \in TlvSets
      BY <2>1 DEF Answers
    <3>2. Served(answer)
      BY <3>1, AnswersServed
    <3>3. ParseLogin(data, s) = [is |-> "login", code |-> 0, found |-> ItemsToFind(answer)]
      BY <1>2, <2>1, <3>2, LoginUnderstood
    <3> HIDE DEF data
    <3>4. event = ParseLogin(data, s)
      BY <2>1, CommandIs
    <3> HIDE DEF event
    <3> QED BY <2>1, <3>3, <3>4 DEF EventMeant
  <2>2. CASE kind = "oidb"
    <3>1. answer \in Answers("oidb")
      BY <2>2
    <3>2. answer[1] \in 0 .. 15 /\ answer[2] \in Seq(Cells)
      BY <3>1, OidbAnswers
    <3>3. data = OidbPacket(answer[1], answer[2])
      BY <2>2 DEF ServerData
    <3>4. ParseOidb(data) = IF answer[1] = 0 THEN [is |-> "event", body |-> answer[2]] ELSE Refused("oidb")
      BY <3>2, <3>3, OidbUnderstood, ZenonT(30)
    <3> HIDE DEF data
    <3>5. event = ParseOidb(data)
      BY <2>2, CommandIs
    <3> HIDE DEF event
    <3> QED BY <2>2, <3>4, <3>5 DEF EventMeant
  <2>3. CASE kind = "heartbeat"
    <3> HIDE DEF data
    <3>1. event = [is |-> "alive"]
      BY <2>3, CommandIs
    <3> HIDE DEF event
    <3> QED BY <2>3, <3>1 DEF EventMeant
  <2> QED BY <2>1, <2>2, <2>3 DEF Answered
<1> HIDE DEF payload, data
<1>4. ParseEvent(packet, payload, s) = [is |-> "resolved", sequence |-> packet.sequence, event |-> event]
  BY <1>1 DEF ParseEvent
<1> HIDE DEF event
<1> QED BY <1>3, <1>4 DEF payload, data

(* The data of an answer leave room for the rest of a packet.              *)
LEMMA DataFits ==
    ASSUME Large, NEW s \in Sessions, NEW kind \in Answered, NEW answer \in Answers(kind),
           NEW uin \in {<<>>, s.uin, OtherUin}
    PROVE  Fits(ServerData(kind, answer, s), uin)
<1> DEFINE data == ServerData(kind, answer, s)
<1>1. Limit(4) = Width /\ Limit(4) \in Nat
  BY LimitFacts, WireAssumption DEF Limit
<1>2. Session(s)
  BY SessionsFit
<1>3. uin \in Seq(Cells) /\ Len(uin) \in Nat /\ Len(uin) + 1024 <= Width
  <2>1. s.uin \in Seq(Cells) /\ OtherUin \in Seq(Cells) /\ <<>> \in Seq(Cells) /\ Len(<<>>) = 0
    BY <1>2, AnswersServed DEF Session
  <2>2. Len(OtherUin) + 1024 <= Width
    BY AnswersAssumption DEF Short
  <2>3. Len(s.uin) + 1024 <= Width
    <3> DEFINE a == Len(s.uin)  b == Len(s.uid)  c == Len(s.tgt)  d == Len(s.d2)
    <3>1. a + b + c + d + 1024 <= Width
      BY <1>1, <1>2, ZenonT(30) DEF Session
    <3>2. a \in Nat /\ b \in Nat /\ c \in Nat /\ d \in Nat
      BY <1>2 DEF Session
    <3>3. Width \in Nat
      BY <1>1
    <3> HIDE DEF a, b, c, d
    <3>4. a + 1024 <= Width
      BY <3>1, <3>2, <3>3
    <3> QED BY <3>4 DEF a
  <2>4. 0 + 1024 <= Width
    <3>1. 65536 <= Limit(4) /\ Limit(4) \in Nat
      BY LimitFacts
    <3> QED BY <1>1, <3>1
  <2>5. uin = <<>> \/ uin = s.uin \/ uin = OtherUin
    OBVIOUS
  <2>6. uin \in Seq(Cells)
    BY <2>1, <2>5
  <2>7. Len(uin) + 1024 <= Width
    <3>1. CASE uin = <<>>
      BY <2>1, <2>4, <3>1
    <3>2. CASE uin = s.uin
      BY <2>3, <3>2, Zenon
    <3>3. CASE uin = OtherUin
      BY <2>2, <3>3, Zenon
    <3> QED BY <2>5, <3>1, <3>2, <3>3
  <2>8. Len(uin) \in Nat
    BY <2>6
  <2> QED BY <2>6, <2>7, <2>8
<1>4. CASE kind = "login"
  <2>1. answer \in TlvSets
    BY <1>4 DEF Answers
  <2>2. Served(answer) /\ s.shared \in Cells
    BY <1>2, <2>1, AnswersServed DEF Session
  <2>3. data \in Seq(Cells) /\ Len(data) <= Len(TlvSet(answer)) + 40
    BY <1>4, <2>2, LoginUnderstood
  <2>4. TlvSet(answer) \in Seq(Cells)
    BY <2>2, SetUnderstood
  <2> DEFINE set == TlvSet(answer)
  <2>5. Len(uin) + Len(set) + 1024 <= Width
    <3>1. \A u \in {OtherUin} \cup {x.uin : x \in Sessions} : Len(u) + Len(set) + 1024 <= Width
      BY <2>1, AnswersAssumption DEF Short
    <3>2. CASE uin = <<>>
      <4>1. Len(OtherUin) + Len(set) + 1024 <= Width
        BY <3>1
      <4>2. Len(OtherUin) \in Nat /\ Len(set) \in Nat /\ Len(<<>>) = 0
        BY <2>4, AnswersServed
      <4> HIDE DEF set
      <4> DEFINE a == Len(OtherUin)  b == Len(set)
      <4>3. a + b + 1024 <= Width /\ a \in Nat /\ b \in Nat /\ Width \in Nat
        BY <1>1, <4>1, <4>2
      <4> HIDE DEF a, b
      <4>4. 0 + b + 1024 <= Width
        BY <4>3
      <4> QED BY <3>2, <4>2, <4>4 DEF b
    <3>3. CASE uin # <<>>
      <4>1. uin \in {OtherUin} \cup {x.uin : x \in Sessions}
        BY <3>3
      <4> HIDE DEF set
      <4> QED BY <3>1, <4>1
    <3> QED BY <3>2, <3>3
  <2> HIDE DEF data
  <2> DEFINE a == Len(data)  b == Len(uin)  c == Len(set)
  <2>6. a <= c + 40 /\ b + c + 1024 <= Width /\ a \in Nat /\ b \in Nat /\ c \in Nat /\ Width \in Nat
    BY <1>1, <1>3, <2>3, <2>4, <2>5
  <2> HIDE DEF a, b, c
  <2>7. a + b + 256 < Width
    BY <2>6
  <2>8. Len(data) + Len(uin) + 256 < Limit(4)
    BY <1>1, <2>7 DEF a, b
  <2> QED BY <1>3, <2>3, <2>8 DEF Fits, data
<1>5. CASE kind # "login"
  <2>1. data \in Seq(Cells) /\ Len(data) <= 3
    <3>1. CASE kind = "oidb"
      <4>2. answer \in Answers("oidb")
        BY <3>1
      <4>3. answer[1] \in 0 .. 15 /\ answer[2] \in Seq(Cells) /\ Len(answer[2]) <= 1
        BY <4>2, OidbAnswers
      <4>4. data = OidbPacket(answer[1], answer[2])
        BY <3>1 DEF ServerData
      <4>5. data \in Seq(Cells) /\ Len(data) = 2 + Len(answer[2])
        BY <4>3, <4>4, OidbUnderstood
      <4>6. Len(answer[2]) \in Nat
        BY <4>3
      <4> HIDE DEF data
      <4> QED BY <4>3, <4>5, <4>6
    <3>2. CASE kind = "heartbeat"
      <4>1. data = <<>>
        BY <3>2 DEF ServerData, Answers
      <4> QED BY <4>1
    <3> QED BY <1>5, <3>1, <3>2 DEF Answered
  <2> HIDE DEF data
  <2> DEFINE a == Len(data)  b == Len(uin)
  <2>2. a <= 3 /\ b + 1024 <= Width /\ a \in Nat /\ b \in Nat /\ Width \in Nat
    BY <1>1, <1>3, <2>1
  <2> HIDE DEF a, b
  <2>3. a + b + 256 < Width
    BY <2>2
  <2>4. Len(data) + Len(uin) + 256 < Limit(4)
    BY <1>1, <2>3 DEF a, b
  <2> QED BY <1>3, <2>1, <2>4 DEF Fits, data
<1> QED BY <1>4, <1>5

-----------------------------------------------------------------------------
(* What the client makes of an answer.                                     *)

(* The forms an answer can have.                                           *)
LEMMA FormsKnown ==
    ASSUME NEW s, NEW form \in Forms(s)
    PROVE  /\ form.protocol \in {5, T12, T13} /\ form.flag \in 0 .. 3 /\ form.uin \in {<<>>, s.uin, OtherUin}
           /\ form.compressed \in BOOLEAN /\ form.code \in {0, 1}
<1> DEFINE known == [protocol : {T12, T13}, flag : 0 .. 2, uin : {s.uin, OtherUin},
                     compressed : BOOLEAN, code : {0, 1}]
           good == [protocol |-> T12, flag |-> 0, uin |-> s.uin, compressed |-> FALSE, code |-> 0]
<1>1. \/ form \in known \/ form = [good EXCEPT !.protocol = 5] \/ form = [good EXCEPT !.flag = 3, !.code = 1]
      \/ form = [good EXCEPT !.uin = <<>>, !.flag = 3]
  BY DEF Forms
<1>2. CASE form \in known
  BY <1>2
<1>3. CASE form = [good EXCEPT !.protocol = 5]
  BY <1>3
<1>4. CASE form = [good EXCEPT !.flag = 3, !.code = 1]
  BY <1>4
<1>5. CASE form = [good EXCEPT !.uin = <<>>, !.flag = 3]
  BY <1>5
<1> QED BY <1>1, <1>2, <1>3, <1>4, <1>5

(* Behind the head of an answer the client finds its body, encrypted with  *)
(* the key of the session, with none or not at all.                        *)
Seal(flag, body, s) ==
    IF flag \in {1, 2} THEN TeaEncrypt(body, IF flag = 1 THEN s.d2Key ELSE 0) ELSE body

(* What was sealed is opened again, and is not much longer.                *)
LEMMA SealOpens ==
    ASSUME Large, NEW s, Session(s), NEW flag \in 0 .. 3, NEW body \in Seq(Cells)
    PROVE  /\ Seal(flag, body, s) \in Seq(Cells) /\ Len(Seal(flag, body, s)) <= Len(body) + 17
           /\ flag \in {1, 2} =>
                TeaDecrypt(Seal(flag, body, s), IF flag = 1 THEN s.d2Key ELSE 0) = [ok |-> TRUE, text |-> body]
<1> DEFINE key == IF flag = 1 THEN s.d2Key ELSE 0
<1>1. key \in Cells
  <2>1. 0 \in Cells /\ s.d2Key \in Cells
    BY LimitFacts DEF Session
  <2> QED BY <2>1
<1> HIDE DEF key
<1>2. /\ TeaEncrypt(body, key) \in Seq(Cells) /\ Len(TeaEncrypt(body, key)) <= Len(body) + 17
      /\ TeaDecrypt(TeaEncrypt(body, key), key) = [ok |-> TRUE, text |-> body]
  BY <1>1, TeaSized, TeaRoundTrip
<1>3. CASE flag \in {1, 2}
  <2>1. Seal(flag, body, s) = TeaEncrypt(body, key)
    BY <1>3 DEF Seal, key
  <2> QED BY <1>2, <2>1 DEF key
<1>4. CASE flag \notin {1, 2}
  <2>1. Seal(flag, body, s) = body
    BY <1>4 DEF Seal
  <2>2. Len(body) <= Len(body) + 17
    <3>1. Len(body) \in Nat
      OBVIOUS
    <3> QED BY <3>1
  <2> QED BY <1>4, <2>1, <2>2
<1> QED BY <1>3, <1>4

(* What is made of a route.                                                *)
Routed(type, flag, uin, body, s) ==
    IF uin = <<>> THEN Refused("uin")
    ELSE IF uin # s.uin /\ type = T12 THEN Refused("other uin")
    ELSE IF flag = 3 THEN Refused("flag")
    ELSE ParseBody(body)

(* ParseRoute checks the account, then the flag, then opens the body.      *)
LEMMA RouteUnderstood ==
    ASSUME Large, NEW s, Session(s), NEW type, NEW flag \in 0 .. 3, NEW uin, NEW body \in Seq(Cells)
    PROVE  ParseRoute(type, RouteOf(flag, uin, Seal(flag, body, s)), s) = Routed(type, flag, uin, body, s)
<1> DEFINE sealed == Seal(flag, body, s)
           route == RouteOf(flag, uin, sealed)
           key == IF flag = 1 THEN s.d2Key ELSE 0
<1>1. route.ok = TRUE /\ route.rest = sealed /\ route.fields = <<flag, 0, uin>>
  BY DEF RouteOf, Reader
<1>2. route.fields[1] = flag /\ route.fields[3] = uin
  BY <1>1
<1>3. flag \in {1, 2} => TeaDecrypt(sealed, key) = [ok |-> TRUE, text |-> body]
  BY SealOpens
<1>4. flag \notin {1, 2} => sealed = body
  BY DEF Seal
<1> HIDE DEF route, sealed
<1>5. ParseRoute(type, route, s) =
        IF uin = <<>> THEN Refused("uin")
        ELSE IF uin # s.uin /\ type = T12 THEN Refused("other uin")
        ELSE IF flag = 0 THEN ParseBody(sealed)
        ELSE IF flag \notin {1, 2} THEN Refused("flag")
        ELSE ParsePlain(TeaDecrypt(sealed, key))
  BY <1>1, <1>2 DEF ParseRoute
<1> DEFINE meant == IF uin = <<>> THEN Refused("uin")
                    ELSE IF uin # s.uin /\ type = T12 THEN Refused("other uin")
                    ELSE IF flag = 3 THEN Refused("flag")
                    ELSE ParseBody(body)
<1>6. ParseRoute(type, route, s) = meant
  <2>1. CASE flag = 0
    <3>1. flag # 3 /\ sealed = body
      BY <1>4, <2>1
    <3> QED BY <1>5, <2>1, <3>1, Zenon
  <2>2. CASE flag = 3
    <3>1. flag # 0 /\ flag \notin {1, 2}
      BY <2>2
    <3> QED BY <1>5, <2>2, <3>1, Zenon
  <2>3. CASE flag \in {1, 2}
    <3>1. ParsePlain(TeaDecrypt(sealed, key)) = ParseBody(body)
      BY <1>3, <2>3 DEF ParsePlain
    <3>2. flag # 0 /\ flag # 3
      BY <2>3
    <3> HIDE DEF key
    <3> QED BY <1>5, <2>3, <3>1, <3>2, Zenon
  <2>4. flag = 0 \/ flag = 3 \/ flag \in {1, 2}
    OBVIOUS
  <2> QED BY <2>1, <2>2, <2>3, <2>4
<1> QED BY <1>6 DEF route, sealed, Routed

(* From the cells of an answer to what the parser of its event gets.       *)
Understood(form, p, data, s) ==
    IF form.protocol \notin {T12, T13} THEN Refused("type")
    ELSE IF form.uin = <<>> THEN Refused("uin")
    ELSE IF form.uin # s.uin /\ form.protocol = T12 THEN Refused("other uin")
    ELSE IF form.flag = 3 THEN Refused("flag")
    ELSE Passed(p.sequence, form.code, p.command, data)

(* The four parts of an answer put together.                               *)
LEMMA PacketUnderstood ==
    ASSUME Large, NEW s, Session(s), NEW form, NEW p, NEW data, Fits(data, form.uin),
           p.sequence \in Nat, p.sequence < Limit(4), p.command \in Seq(Cells), Len(p.command) = 1,
           form.protocol \in {5, T12, T13}, form.flag \in 0 .. 3, form.compressed \in BOOLEAN, form.code \in {0, 1}
    PROVE  ParsePacket(ServerPacket(form, p, data, s), s) = Understood(form, p, data, s)
<1> DEFINE uin == form.uin
           flag == form.flag
           type == form.protocol
           compressed == form.compressed
           code == form.code
           q == p.sequence
           cmd == p.command
           body == AnswerBody(q, code, cmd, compressed, data)
           sealed == Seal(flag, body, s)
           plain == Passed(q, code, cmd, data)
<1>1. /\ data \in Seq(Cells) /\ uin \in Seq(Cells) /\ Len(data) + Len(uin) + 256 < Limit(4)
      /\ Len(data) \in Nat /\ Len(uin) \in Nat /\ Limit(4) \in Nat
  <2>1. data \in Seq(Cells) /\ uin \in Seq(Cells) /\ Len(data) + Len(uin) + 256 < Limit(4)
    BY DEF Fits
  <2>2. Limit(4) \in Nat
    BY LimitFacts
  <2>3. Len(data) \in Nat /\ Len(uin) \in Nat
    BY <2>1
  <2> QED BY <2>1, <2>2, <2>3
<1>2. Len(data) + 64 < Limit(4)
  BY <1>1
<1>3. body \in Seq(Cells) /\ Len(body) <= Len(data) + 40 /\ ParseBody(body) = plain
  <2>1. /\ q \in Nat /\ q < Limit(4) /\ code \in {0, 1} /\ cmd \in Seq(Cells) /\ Len(cmd) = 1
        /\ compressed \in BOOLEAN /\ data \in Seq(Cells) /\ Len(data) + 64 < Limit(4)
    BY <1>1, <1>2
  <2> HIDE DEF q, code, cmd, compressed
  <2> QED BY <2>1, BodyUnderstood
<1>4. ServerPacket(form, p, data, s) = AnswerCells(type, flag, uin, sealed)
  BY DEF ServerPacket, AnswerCells, AnswerBody, BodyCells, Seal
<1> HIDE DEF body, plain
<1>5. sealed \in Seq(Cells) /\ Len(sealed) <= Len(body) + 17
  BY <1>3, SealOpens
<1>6. ParseRoute(type, RouteOf(flag, uin, sealed), s) = Routed(type, flag, uin, body, s)
  <2>1. flag \in 0 .. 3 /\ body \in Seq(Cells)
    BY <1>3
  <2> HIDE DEF flag, type, uin
  <2> QED BY <2>1, RouteUnderstood DEF sealed
<1> HIDE DEF sealed
<1>7. Len(uin) + Len(sealed) + 32 < Limit(4)
  <2> DEFINE a == Len(uin)  b == Len(sealed)  c == Len(body)  d == Len(data)
  <2>1. a \in Nat /\ b \in Nat /\ c \in Nat /\ d \in Nat /\ Limit(4) \in Nat
    <3>1. body \in Seq(Cells)
      BY <1>3
    <3>2. sealed \in Seq(Cells)
      BY <1>5
    <3> QED BY <1>1, <3>1, <3>2
  <2>2. b <= c + 17 /\ c <= d + 40 /\ d + a + 256 < Limit(4)
    BY <1>1, <1>3, <1>5
  <2> HIDE DEF a, b, c, d
  <2>3. a + b + 32 < Limit(4)
    BY <2>1, <2>2
  <2> QED BY <2>3 DEF a, b
<1>8. ParsePacket(AnswerCells(type, flag, uin, sealed), s) = Typed(type, flag, uin, sealed, s)
  BY <1>1, <1>5, <1>7, TypeUnderstood, SMTT(30)
<1> QED BY <1>3, <1>4, <1>6, <1>8 DEF plain, Routed, Understood, Typed

(* An answer is understood in whatever form it comes.                      *)
LEMMA HeardIsMeant ==
    ASSUME session \in Sessions, sent.kind \in Answered, sent.packet.sequence \in 0 .. Width - 1,
           sent.packet.command = Command(sent.kind), Answer
    PROVE  AnswerUnderstood'
<1> DEFINE s == session
           kind == sent.kind
           p == sent.packet
<1>1. Large /\ Limit(4) = Width /\ Width \in Nat
  BY WireAssumption, SequenceAssumption DEF Limit, Large
<1>2. PICK form \in Forms(s), answer \in Answers(kind) :
        /\ told' = [is |-> "answer", kind |-> kind, sequence |-> p.sequence, form |-> form, answer |-> answer]
        /\ heard' = Resolve(ServerPacket(form, p, ServerData(kind, answer, s), s), s)
  BY DEF Answer
<1> DEFINE data == ServerData(kind, answer, s)
           event == EventMeant(kind, answer)
           cells == ServerPacket(form, p, data, s)
<1>3. s \in Sessions /\ Session(s) /\ s.uin # <<>> /\ s.uin # OtherUin /\ OtherUin # <<>>
  BY SessionsFit, AnswersServed
<1>4. kind \in Answered /\ p.command = Command(kind)
  OBVIOUS
<1>5. p.sequence \in Nat /\ p.sequence < Limit(4)
  BY <1>1
<1>6. p.command \in Seq(Cells) /\ Len(p.command) = 1
  <2>1. kind \in {"login", "fetchQrCode", "queryResult", "oidb", "heartbeat"}
    BY <1>4 DEF Answered
  <2> QED BY <1>1, <1>4, <2>1, CommandShort
<1> HIDE DEF s, kind, p
<1>7. /\ form.protocol \in {5, T12, T13} /\ form.flag \in 0 .. 3 /\ form.uin \in {<<>>, s.uin, OtherUin}
      /\ form.compressed \in BOOLEAN /\ form.code \in {0, 1}
  BY FormsKnown
<1>8. Fits(data, form.uin)
  BY <1>1, <1>3, <1>4, <1>7, DataFits
<1>9. ParseEvent(p, Reader(<<data>>, <<>>), s) = [is |-> "resolved", sequence |-> p.sequence, event |-> event]
  BY <1>1, <1>3, <1>4, EventUnderstood
<1> HIDE DEF data, event
<1> DEFINE type == form.protocol
           good == [is |-> "packet", sequence |-> p.sequence, command |-> p.command, payload |-> Section(data)]
           parsed == Understood(form, p, data, s)
           resolved == [is |-> "resolved", sequence |-> p.sequence, event |-> event]
<1>10. ParsePacket(cells, s) = parsed
  BY <1>1, <1>3, <1>5, <1>6, <1>7, <1>8, PacketUnderstood
<1>11. ParseEvent(good, EventPayload(good.payload), s) = resolved
  <2>1. Read(<<Counted>>, Section(data)) = Reader(<<data>>, <<>>)
    <3>1. data \in Seq(Cells) /\ Len(data) + 4 < Limit(4)
      <4> DEFINE a == Len(data)  b == Len(form.uin)
      <4>1. data \in Seq(Cells) /\ a \in Nat /\ b \in Nat /\ a + b + 256 < Limit(4)
        BY <1>8 DEF Fits
      <4> HIDE DEF a, b
      <4>2. a + 4 < Limit(4)
        BY <1>1, <4>1
      <4> QED BY <4>1, <4>2 DEF a
    <3> QED BY <1>1, <3>1, WholeRead
  <2>2. EventPayload(good.payload) = Reader(<<data>>, <<>>)
    BY <2>1 DEF EventPayload
  <2>3. good.command = p.command /\ good.sequence = p.sequence
    OBVIOUS
  <2> HIDE DEF good
  <2>4. ParseEvent(good, Reader(<<data>>, <<>>), s) = ParseEvent(p, Reader(<<data>>, <<>>), s)
    BY <2>3 DEF ParseEvent
  <2> QED BY <1>9, <2>2, <2>4
<1>12. good.is = "packet" /\ \A why : Refused(why).is # "packet"
  BY DEF Refused
<1>13. Passed(p.sequence, form.code, p.command, data) = IF form.code # 0 THEN Refused("ret code") ELSE good
  BY DEF Passed
<1> HIDE DEF good, resolved, cells
<1> DEFINE meant == IF type \notin {T12, T13} THEN Refused("type")
                    ELSE IF form.uin = <<>> THEN Refused("uin")
                    ELSE IF form.uin # s.uin /\ type = T12 THEN Refused("other uin")
                    ELSE IF form.flag = 3 THEN Refused("flag")
                    ELSE IF form.code # 0 THEN Refused("ret code")
                    ELSE resolved
<1>14. ResolveEvent(parsed, s) = meant
  <2>1. \A why : ResolveEvent(Refused(why), s) = Refused(why)
    BY <1>12 DEF ResolveEvent
  <2>2. ResolveEvent(good, s) = resolved
    BY <1>11, <1>12 DEF ResolveEvent
  <2> DEFINE passed == Passed(p.sequence, form.code, p.command, data)
  <2>3. ResolveEvent(passed, s) = IF form.code # 0 THEN Refused("ret code") ELSE resolved
    <3>1. CASE form.code # 0
      BY <1>13, <2>1, <3>1
    <3>2. CASE form.code = 0
      BY <1>13, <2>2, <3>2
    <3> QED BY <3>1, <3>2
  <2> HIDE DEF passed
  <2> DEFINE opened == IF form.flag = 3 THEN Refused("flag") ELSE passed
             known == IF form.uin # s.uin /\ type = T12 THEN Refused("other uin") ELSE opened
             named == IF form.uin = <<>> THEN Refused("uin") ELSE known
  <2>4. parsed = IF type \notin {T12, T13} THEN Refused("type") ELSE named
    BY DEF Understood, passed
  <2>5. ResolveEvent(opened, s) = IF form.flag = 3 THEN Refused("flag") ELSE ResolveEvent(passed, s)
    BY <2>1
  <2> HIDE DEF opened
  <2>6. ResolveEvent(known, s) =
          IF form.uin # s.uin /\ type = T12 THEN Refused("other uin") ELSE ResolveEvent(opened, s)
    BY <2>1
  <2> HIDE DEF known
  <2>7. ResolveEvent(named, s) = IF form.uin = <<>> THEN Refused("uin") ELSE ResolveEvent(known, s)
    BY <2>1
  <2> HIDE DEF named
  <2>8. ResolveEvent(parsed, s) = IF type \notin {T12, T13} THEN Refused("type") ELSE ResolveEvent(named, s)
    BY <2>1, <2>4
  <2> QED BY <2>3, <2>5, <2>6, <2>7, <2>8, Zenon
<1>15. heard' = meant
  <2> HIDE DEF parsed, meant
  <2> QED BY <1>2, <1>10, <1>14 DEF Resolve, cells, data
<1>16. Meant(told') = meant
  <2> DEFINE t == told'
  <2>1. t.form = form /\ t.kind = kind /\ t.answer = answer /\ t.sequence = p.sequence
    BY <1>2
  <2> HIDE DEF t
  <2>2. event = CASE t.kind = "login" -> [is |-> "login", code |-> 0, found |-> ItemsToFind(t.answer)]
                  [] t.kind = "oidb" -> (IF t.answer[1] = 0 THEN [is |-> "event", body |-> t.answer[2]]
                                         ELSE Refused("oidb"))
                  [] t.kind = "heartbeat" -> [is |-> "alive"]
    BY <2>1 DEF event, EventMeant
  <2>3. (form.uin = OtherUin /\ type = T12) <=> (form.uin # <<>> /\ form.uin # s.uin /\ type = T12)
    BY <1>3, <1>7
  <2>4. Meant(t) =
          CASE type \notin {T12, T13} -> Refused("type")
            [] form.uin = <<>> /\ type \in {T12, T13} -> Refused("uin")
            [] form.uin = OtherUin /\ type = T12 -> Refused("other uin")
            [] OTHER -> IF form.flag = 3 THEN Refused("flag")
                        ELSE IF form.code # 0 THEN Refused("ret code") ELSE resolved
    BY <2>1, <2>2 DEF Meant, resolved
  <2>5. Meant(t) = meant
    <3>1. OtherUin # <<>>
      BY <1>3
    <3> HIDE DEF type
    <3>2. CASE type \notin {T12, T13}
      <4>1. type # T12
        BY <3>2
      <4>2. Meant(t) = Refused("type")
        BY <2>4, <3>2, <4>1
      <4> QED BY <3>2, <4>2
    <3>3. CASE type \in {T12, T13} /\ form.uin = <<>>
      <4>1. Meant(t) = Refused("uin")
        BY <2>4, <3>1, <3>3
      <4> QED BY <3>3, <4>1
    <3>4. CASE type = T12 /\ form.uin # <<>> /\ form.uin = OtherUin
      <4>1. Meant(t) = Refused("other uin")
        BY <2>4, <3>4
      <4> QED BY <2>3, <3>4, <4>1 DEF type
    <3>5. CASE type \in {T12, T13} /\ form.uin # <<>> /\ ~(form.uin = OtherUin /\ type = T12)
      <4>1. Meant(t) = IF form.flag = 3 THEN Refused("flag")
                       ELSE IF form.code # 0 THEN Refused("ret code") ELSE resolved
        BY <2>4, <3>5
      <4> QED BY <2>3, <3>5, <4>1 DEF type
    <3> QED BY <3>2, <3>3, <3>4, <3>5
  <2> QED BY <2>5 DEF t
<1> QED BY <1>15, <1>16 DEF AnswerUnderstood

(* The inductive invariant: what was sent has a number that fits and the   *)
(* command of its kind, so that the answer to it fits a packet and reaches *)
(* the parser of that kind.                                                *)
UnderstoodInv ==
    /\ TypeOK
    /\ session \in Sessions
    /\ sent.is = "packet" =>
          /\ sent.kind \in Kinds
          /\ sent.packet.sequence \in 0 .. Width - 1
          /\ sent.packet.command = Command(sent.kind)
    /\ AnswerUnderstood

(* Every step keeps it.                                                    *)
LEMMA UnderstoodStep == UnderstoodInv /\ [WireNext]_wireVars => UnderstoodInv'
<1> SUFFICES ASSUME UnderstoodInv, [WireNext]_wireVars PROVE UnderstoodInv'
  OBVIOUS
<1>1. TypeOK'
  BY WireStep, TypeStep DEF UnderstoodInv
<1>2. session' \in Sessions
  BY DEF UnderstoodInv, WireNext, Answer, TakeNumber, Build, wireVars
<1> DEFINE SentOK == sent.is = "packet" =>
                        /\ sent.kind \in Kinds
                        /\ sent.packet.sequence \in 0 .. Width - 1
                        /\ sent.packet.command = Command(sent.kind)
<1>3. SentOK' /\ AnswerUnderstood'
  <2>1. ASSUME NEW t \in Threads, TakeNumber(t) PROVE SentOK' /\ AnswerUnderstood'
    BY <2>1 DEF UnderstoodInv, AnswerUnderstood, TakeNumber, Nothing
  <2>2. ASSUME NEW t \in Threads, Build(t) PROVE SentOK' /\ AnswerUnderstood'
    <3>1. AnswerUnderstood'
      BY <2>2 DEF AnswerUnderstood, Build, Nothing
    <3>2. PICK kind \in Kinds :
            /\ sent'.kind = kind /\ sent'.packet.sequence = SEQUENCE /\ sent'.packet.command = Command(kind)
      BY <2>2 DEF Build
    <3>3. SEQUENCE \in 0 .. Width - 1
      BY DEF UnderstoodInv, TypeOK
    <3> QED BY <3>1, <3>2, <3>3
  <2>3. CASE Answer
    <3>1. sent.is = "packet" /\ sent.kind \in Kinds /\ Answers(sent.kind) # {}
      BY <2>3 DEF Answer, UnderstoodInv
    <3>2. sent.kind \in Answered
      BY <3>1, KindsAssumption DEF Answers, Answered
    <3>3. AnswerUnderstood'
      BY <2>3, <3>1, <3>2, HeardIsMeant DEF UnderstoodInv
    <3>4. SentOK'
      BY <2>3 DEF Answer, Nothing
    <3> QED BY <3>3, <3>4
  <2>4. CASE UNCHANGED wireVars
    BY <2>4 DEF UnderstoodInv, AnswerUnderstood, wireVars
  <2> QED BY <2>1, <2>2, <2>3, <2>4 DEF WireNext
<1> QED BY <1>1, <1>2, <1>3 DEF UnderstoodInv

(* The client makes of every answer what the server meant by it: it        *)
(* refuses an unknown protocol, a wrong account, an unknown flag and an    *)
(* error code, in that order, and otherwise finds the event that was sent, *)
(* encrypted or not, compressed or not, with every item of a login that    *)
(* can be decoded, whatever stands between them (SsoPacket::parse,         *)
(* resolve_event, parse_wtlogin_packet, TlvSet::deserialize).              *)
THEOREM AnswerUnderstoodAlways == WireSpec => []AnswerUnderstood
<1>1. WireInit => UnderstoodInv
  BY SequenceAssumption DEF WireInit, UnderstoodInv, TypeOK, Init, AnswerUnderstood, Nothing
<1>2. UnderstoodInv => AnswerUnderstood
  BY DEF UnderstoodInv
<1> QED BY <1>1, <1>2, UnderstoodStep, PTL DEF WireSpec

=============================================================================
