----------------------------- MODULE FoldProofs -----------------------------
(***************************************************************************)
(* Loops are folds and recursive functions in the modules about bytes and  *)
(* characters.  That one has a value at all, and what it is, is shown by   *)
(* induction over a set of numbers, which a smallest counterexample gives  *)
(* (Smallest, Induct).  FoldExists does it once for the library's FoldLeft *)
(* and ChainExists for a recursion over positions; the loops cite them.    *)
(***************************************************************************)
EXTENDS Integers, SequencesExt, SequenceTheorems, WellFoundedInduction, TLAPS

\* A set of numbers has a smallest one.
LEMMA Smallest ==
  ASSUME NEW S \in SUBSET Nat, S # {}
  PROVE  \E n \in S : \A m \in S : n <= m
<1>1. PICK n \in S : \A m \in S : <<m, n>> \notin OpToRel(<, Nat)
  BY WFMin, NatLessThanWellFounded
<1>2. \A m \in S : ~(m < n)
  BY <1>1 DEF OpToRel
<1>. QED BY <1>2

\* Induction, on a set that is not the operator of a theorem.
LEMMA Induct ==
  ASSUME NEW S \in SUBSET Nat, 0 \in S, \A n \in S : n + 1 \in S
  PROVE  \A n \in Nat : n \in S
<1> SUFFICES ASSUME Nat \ S # {}
             PROVE  FALSE
  OBVIOUS
<1>1. PICK n \in Nat \ S : \A m \in Nat \ S : n <= m
  BY Smallest
<1>2. n # 0 /\ n - 1 \in Nat /\ ~(n <= n - 1)
  BY <1>1
<1>3. n - 1 \in S
  BY <1>1, <1>2
<1>4. (n - 1) + 1 = n
  BY <1>1
<1>. QED BY <1>1, <1>3, <1>4

\* A bounded set of numbers has a largest one.
LEMMA MaxOf ==
  ASSUME NEW k \in Nat, NEW u \in SUBSET (1..k), u # {}
  PROVE  Max(u) \in u /\ \A x \in u : x <= Max(u)
<1>1. PICK S \in SUBSET Nat : S = {k - x : x \in u}
  <2>1. {k - x : x \in u} \in SUBSET Nat
    <3>1. \A x \in u : k - x \in Nat
      OBVIOUS
    <3>. QED BY <3>1
  <2>. QED BY <2>1
<1>2. PICK n \in S : \A m \in S : n <= m
  <2>1. S # {}
    BY <1>1
  <2>. QED BY <2>1, Smallest
<1>3. PICK y \in u : n = k - y
  BY <1>1
<1>4. \A x \in u : y >= x
  BY <1>1, <1>2, <1>3
<1>. QED BY <1>4 DEF Max

-----------------------------------------------------------------------------
(* Folds.                                                                  *)

\* The recursion over sets of positions that FoldLeft stands for, with a step
\* that is a function.
IsFold(it, m, base, G) ==
  \A u \in SUBSET (1..m) :
    it[u] = IF u = {} THEN base ELSE G[<<Max(u), it[u \ {Max(u)}]>>]

\* It has a solution.
LEMMA FoldExists ==
  ASSUME NEW T, NEW base \in T, NEW m \in Nat, NEW G \in [(1..m) \X T -> T]
  PROVE  \E it \in [SUBSET (1..m) -> T] : IsFold(it, m, base, G)
<1> DEFINE S == {k \in Nat :
                   k <= m => \E it \in [SUBSET (1..k) -> T] : IsFold(it, k, base, G)}
<1>1. 0 \in S
  <2>1. [u \in SUBSET (1..0) |-> base] \in [SUBSET (1..0) -> T]
    OBVIOUS
  <2>2. 1..0 = {}
    OBVIOUS
  <2>3. IsFold([u \in SUBSET (1..0) |-> base], 0, base, G)
    BY <2>2 DEF IsFold
  <2>. QED BY <2>1, <2>3
<1>2. ASSUME NEW k \in S
      PROVE  k + 1 \in S
  <2>0. k \in Nat /\ k + 1 \in Nat
    OBVIOUS
  <2> SUFFICES ASSUME k + 1 <= m
               PROVE  \E it \in [SUBSET (1..k + 1) -> T] : IsFold(it, k + 1, base, G)
    BY <2>0
  <2>1. k <= m /\ k + 1 \in 1..m /\ k + 1 \notin 1..k
    BY <2>0
  <2>2. PICK it \in [SUBSET (1..k) -> T] : IsFold(it, k, base, G)
    BY <2>0, <2>1
  <2>3. PICK next : next = [u \in SUBSET (1..k + 1) |->
                              IF k + 1 \in u THEN G[<<k + 1, it[u \ {k + 1}]>>] ELSE it[u]]
    OBVIOUS
  <2>4. ASSUME NEW u \in SUBSET (1..k + 1)
        PROVE  /\ k + 1 \notin u => u \in SUBSET (1..k)
               /\ u \ {k + 1} \in SUBSET (1..k)
    <3>1. 1..k + 1 = (1..k) \cup {k + 1}
      BY <2>1
    <3>. QED BY <3>1
  <2>5. next \in [SUBSET (1..k + 1) -> T]
    <3>1. ASSUME NEW u \in SUBSET (1..k + 1)
          PROVE  (IF k + 1 \in u THEN G[<<k + 1, it[u \ {k + 1}]>>] ELSE it[u]) \in T
      BY <2>1, <2>4
    <3>. QED BY <2>3, <3>1
  <2>6. ASSUME NEW u \in SUBSET (1..k)
        PROVE  next[u] = it[u]
    <3>1. k + 1 \notin u /\ u \in SUBSET (1..k + 1)
      BY <2>1
    <3>. QED BY <2>3, <3>1
  <2>7. ASSUME NEW u \in SUBSET (1..k + 1)
        PROVE  next[u] = IF u = {} THEN base ELSE G[<<Max(u), next[u \ {Max(u)}]>>]
    <3>1. CASE k + 1 \in u
      <4>1. Max(u) \in u /\ \A x \in u : x <= Max(u)
        <5>1. u # {}
          BY <3>1
        <5>. QED BY <2>0, <5>1, MaxOf
      <4>2. Max(u) = k + 1
        <5>1. Max(u) \in 1..k + 1 /\ k + 1 <= Max(u)
          BY <3>1, <4>1
        <5>. QED BY <2>1, <5>1
      <4>3. next[u] = G[<<k + 1, it[u \ {k + 1}]>>]
        BY <2>3, <3>1
      <4>4. next[u \ {k + 1}] = it[u \ {k + 1}]
        BY <2>4, <2>6
      <4>. QED BY <3>1, <4>2, <4>3, <4>4
    <3>2. CASE k + 1 \notin u
      <4>1. u \in SUBSET (1..k)
        BY <2>4, <3>2
      <4>2. next[u] = it[u]
        BY <2>6, <4>1
      <4>3. next[u \ {Max(u)}] = it[u \ {Max(u)}]
        BY <2>6, <4>1
      <4>4. it[u] = IF u = {} THEN base ELSE G[<<Max(u), it[u \ {Max(u)}]>>]
        BY <2>2, <4>1 DEF IsFold
      <4>. QED BY <4>2, <4>3, <4>4
    <3>. QED BY <3>1, <3>2
  <2>. QED BY <2>5, <2>7 DEF IsFold
<1> HIDE DEF S
<1>3. \A k \in Nat : k \in S
  <2>1. S \in SUBSET Nat
    BY DEF S
  <2>. QED BY <1>1, <1>2, <2>1, Induct
<1>4. PICK it \in [SUBSET (1..m) -> T] : IsFold(it, m, base, G)
  <2>1. m \in S /\ m <= m
    BY <1>3
  <2>. QED BY <2>1 DEF S
<1>. QED BY <1>4

\* The prefixes a fold goes through.
LEMMA Prefix ==
  ASSUME NEW k \in Nat, k # 0
  PROVE  1..k # {} /\ Max(1..k) = k /\ (1..k) \ {Max(1..k)} = 1..k - 1
<1>1. k \in 1..k
  OBVIOUS
<1>2. Max(1..k) \in 1..k /\ k <= Max(1..k)
  BY <1>1, MaxOf
<1>3. Max(1..k) = k
  BY <1>2
<1>. QED BY <1>1, <1>3

\* What a recursion over the positions has reached after each of them.
IsChain(f, m, base, G) ==
  f[0] = base /\ \A k \in 1..m : f[k] = G[<<k, f[k - 1]>>]

\* It reaches the end.
LEMMA ChainExists ==
  ASSUME NEW T, NEW base \in T, NEW m \in Nat, NEW G \in [(1..m) \X T -> T]
  PROVE  \E f \in [0..m -> T] : IsChain(f, m, base, G)
<1>1. PICK it \in [SUBSET (1..m) -> T] : IsFold(it, m, base, G)
  BY FoldExists
<1>2. PICK f : f = [k \in 0..m |-> it[1..k]]
  OBVIOUS
<1>3. f \in [0..m -> T]
  <2>1. \A k \in 0..m : 1..k \in SUBSET (1..m)
    OBVIOUS
  <2>. QED BY <1>2, <2>1
<1>4. f[0] = base
  <2>1. 1..0 = {} /\ 0 \in 0..m /\ {} \in SUBSET (1..m)
    OBVIOUS
  <2>. QED BY <1>1, <1>2, <2>1 DEF IsFold
<1>5. ASSUME NEW k \in 1..m
      PROVE  f[k] = G[<<k, f[k - 1]>>]
  <2>1. 1..k # {} /\ Max(1..k) = k /\ (1..k) \ {Max(1..k)} = 1..k - 1
    BY Prefix
  <2>2. 1..k \in SUBSET (1..m) /\ k \in 0..m /\ k - 1 \in 0..m
    OBVIOUS
  <2>3. it[1..k] = G[<<k, it[1..k - 1]>>]
    BY <1>1, <2>1, <2>2 DEF IsFold
  <2>. QED BY <1>2, <2>2, <2>3
<1>. QED BY <1>3, <1>4, <1>5 DEF IsChain

\* A recursion over sets of positions whose step is G on the values in T.
IsFoldIn(it, m, base, G, T) ==
  /\ it[{}] = base
  /\ \A u \in SUBSET (1..m) :
       u # {} /\ it[u \ {Max(u)}] \in T => it[u] = G[<<Max(u), it[u \ {Max(u)}]>>]

\* What a fold has reached after each position.
LEMMA Iterated ==
  ASSUME NEW T, NEW base \in T, NEW m \in Nat, NEW G \in [(1..m) \X T -> T], NEW it,
         IsFoldIn(it, m, base, G, T)
  PROVE  \E f \in [0..m -> T] : f[m] = it[1..m] /\ IsChain(f, m, base, G)
<1> DEFINE S == {k \in Nat : k <= m => it[1..k] \in T}
<1>1. ASSUME NEW k \in 1..m, it[1..k - 1] \in T
      PROVE  it[1..k] = G[<<k, it[1..k - 1]>>]
  <2>1. 1..k # {} /\ Max(1..k) = k /\ (1..k) \ {Max(1..k)} = 1..k - 1
    <3>1. k \in Nat /\ k # 0
      OBVIOUS
    <3>. QED BY <3>1, Prefix
  <2>2. 1..k \in SUBSET (1..m)
    OBVIOUS
  <2>. QED BY <1>1, <2>1, <2>2 DEF IsFoldIn
<1>2. it[1..0] = base
  <2>1. 1..0 = {}
    OBVIOUS
  <2>. QED BY <2>1 DEF IsFoldIn
<1>3. 0 \in S
  BY <1>2
<1>4. ASSUME NEW k \in S
      PROVE  k + 1 \in S
  <2>1. k \in Nat /\ k + 1 \in Nat
    OBVIOUS
  <2> SUFFICES ASSUME k + 1 <= m
               PROVE  it[1..k + 1] \in T
    BY <2>1
  <2>2. k + 1 \in 1..m /\ (k + 1) - 1 = k /\ it[1..k] \in T
    BY <2>1
  <2>3. it[1..k + 1] = G[<<k + 1, it[1..k]>>]
    BY <1>1, <2>2
  <2>. QED BY <2>2, <2>3
<1> HIDE DEF S
<1>5. \A k \in Nat : k \in S
  <2>1. S \in SUBSET Nat
    BY DEF S
  <2>. QED BY <1>3, <1>4, <2>1, Induct
<1>6. \A k \in 0..m : it[1..k] \in T
  <2>1. \A k \in 0..m : k \in S /\ k <= m
    BY <1>5
  <2>. QED BY <2>1 DEF S
<1>7. PICK f : f = [k \in 0..m |-> it[1..k]]
  OBVIOUS
<1>8. f \in [0..m -> T]
  BY <1>6, <1>7
<1>9. f[0] = base /\ f[m] = it[1..m]
  BY <1>2, <1>7
<1>10. ASSUME NEW k \in 1..m
       PROVE  f[k] = G[<<k, f[k - 1]>>]
  <2>1. k \in 0..m /\ k - 1 \in 0..m
    OBVIOUS
  <2>. QED BY <1>1, <1>6, <1>7, <2>1
<1>. QED BY <1>8, <1>9, <1>10 DEF IsChain

-----------------------------------------------------------------------------
\* A concatenation is what its prefixes grow to.
LEMMA Flattened ==
  ASSUME NEW S, NEW seqs \in Seq(Seq(S)), NEW grown \in [0..Len(seqs) -> Seq(S)],
         grown[0] = <<>>,
         \A k \in 1..Len(seqs) : grown[k] = grown[k - 1] \o seqs[k]
  PROVE  FlattenSeq(seqs) = grown[Len(seqs)]
<1> DEFINE n == Len(seqs)
           T == Seq(S)
           IsIt(f) == f = [i \in 1..n |-> IF i = 1 THEN seqs[i] ELSE f[i - 1] \o seqs[i]]
           flatten == CHOOSE f : IsIt(f)
<1>1. n \in Nat /\ \A k \in 1..n : seqs[k] \in T
  BY LenProperties, ElementOfSeq
<1>2. CASE n = 0
  <2>1. seqs = <<>>
    BY <1>2, EmptySeq
  <2>. QED BY <1>2, <2>1 DEF FlattenSeq
<1>3. CASE n # 0
  <2>1. FlattenSeq(seqs) = flatten[n]
    BY <1>3 DEF FlattenSeq
  <2>2. grown[1] = seqs[1]
    <3>1. 1 \in 1..n /\ 1 - 1 = 0 /\ seqs[1] \in Seq(S)
      BY <1>1, <1>3
    <3>2. <<>> \o seqs[1] = seqs[1]
      BY <3>1, ConcatEmptySeq
    <3>3. grown[1] = grown[1 - 1] \o seqs[1]
      BY <3>1
    <3>. QED BY <3>1, <3>2, <3>3
  <2>3. PICK g : g = [k \in 1..n |-> grown[k]]
    OBVIOUS
  <2>4. \A k \in 1..n : g[k] = IF k = 1 THEN seqs[k] ELSE g[k - 1] \o seqs[k]
    <3>1. \A k \in 1..n : k # 1 => k - 1 \in 1..n
      BY <1>1
    <3>. QED BY <2>2, <2>3, <3>1
  <2>5. IsIt(g)
    BY <2>3, <2>4
  <2>6. IsIt(flatten)
    <3> HIDE DEF IsIt
    <3>. QED BY <2>5
  <2> DEFINE U == {k \in Nat : k + 1 <= n => flatten[k + 1] = grown[k + 1]}
  <2>7. \A k \in 1..n : flatten[k] = IF k = 1 THEN seqs[k] ELSE flatten[k - 1] \o seqs[k]
    <3> HIDE DEF flatten
    <3>. QED BY <2>6
  <2> HIDE DEF flatten
  <2>8. 0 \in U
    <3>1. 0 + 1 = 1 /\ 1 \in 1..n
      BY <1>1, <1>3
    <3>. QED BY <2>2, <2>7, <3>1
  <2>9. ASSUME NEW k \in U
        PROVE  k + 1 \in U
    <3>1. k \in Nat /\ k + 1 \in Nat
      OBVIOUS
    <3> SUFFICES ASSUME (k + 1) + 1 <= n
                 PROVE  flatten[(k + 1) + 1] = grown[(k + 1) + 1]
      BY <3>1
    <3>2. /\ (k + 1) + 1 \in 1..n /\ (k + 1) + 1 # 1 /\ ((k + 1) + 1) - 1 = k + 1
          /\ flatten[k + 1] = grown[k + 1]
      BY <1>1, <3>1
    <3>3. PICK m \in 1..n : m = (k + 1) + 1
      BY <3>2
    <3>4. m # 1 /\ m - 1 = k + 1
      BY <3>2, <3>3
    <3>5. flatten[m] = flatten[m - 1] \o seqs[m] /\ grown[m] = grown[m - 1] \o seqs[m]
      BY <2>7, <3>4
    <3>. QED BY <3>2, <3>3, <3>4, <3>5
  <2> HIDE DEF U
  <2>10. \A k \in Nat : k \in U
    <3>1. U \in SUBSET Nat
      BY DEF U
    <3>. QED BY <2>8, <2>9, <3>1, Induct
  <2>11. n - 1 \in U /\ (n - 1) + 1 = n
    BY <1>1, <1>3, <2>10
  <2>12. flatten[n] = grown[n]
    BY <2>11 DEF U
  <2>. QED BY <2>1, <2>12
<1>. QED BY <1>2, <1>3
=============================================================================
