---------------------------- MODULE ConfigProofs ----------------------------
(***************************************************************************)
(* The configuration reader is right about every file: what load, Split    *)
(* and Number make of the characters, loop by loop, is what the properties *)
(* of Config say of the lines as a whole.                                  *)
(*                                                                         *)
(* What the loops compute is shown by induction over a set of numbers      *)
(* (FoldProofs).                                                           *)
(***************************************************************************)
EXTENDS Config, FoldProofs

-----------------------------------------------------------------------------
(* Config::load: blanks, the first sign, and the meaning of a line.          *)

\* RemoveWhiteSpaces, character by character.
LEMMA KeptSteps ==
  ASSUME NEW s \in Seq(STRING)
  PROVE  \E f : /\ RemoveWhiteSpaces(s) = f[Len(s)]
                /\ f[0] = <<>>
                /\ \A k \in 1..Len(s) :
                     f[k] = IF s[k] = " " THEN f[k - 1] ELSE Append(f[k - 1], s[k])
<1> DEFINE Kept(kept, c) == IF c = " " THEN kept ELSE Append(kept, c)
           T == Seq(STRING)
           G == [x \in (1..Len(s)) \X T |-> Kept(x[2], s[x[1]])]
           IsIt(it) == it = [u \in SUBSET (DOMAIN s) |->
                               IF u = {} THEN <<>> ELSE Kept(it[u \ {Max(u)}], s[Max(u)])]
           iter == CHOOSE it : IsIt(it)
<1>1. DOMAIN s = 1..Len(s) /\ Len(s) \in Nat
  OBVIOUS
<1>2. RemoveWhiteSpaces(s) = iter[DOMAIN s]
  BY DEF RemoveWhiteSpaces, FoldLeft, MapThenFoldSet
<1>3. G \in [(1..Len(s)) \X T -> T]
  <2>1. ASSUME NEW x \in (1..Len(s)) \X T
        PROVE  Kept(x[2], s[x[1]]) \in T
    <3>1. x[2] \in Seq(STRING) /\ s[x[1]] \in STRING
      OBVIOUS
    <3>. QED BY <3>1, AppendProperties
  <2>. QED BY <2>1
<1>4. <<>> \in T
  OBVIOUS
<1>5. PICK it \in [SUBSET (1..Len(s)) -> T] : IsFold(it, Len(s), <<>>, G)
  <2> HIDE DEF G, T
  <2>. QED BY <1>1, <1>3, <1>4, FoldExists
<1>6. IsIt(it)
  <2>1. ASSUME NEW u \in SUBSET (1..Len(s)), u # {}
        PROVE  G[<<Max(u), it[u \ {Max(u)}]>>] = Kept(it[u \ {Max(u)}], s[Max(u)])
    <3>1. Max(u) \in 1..Len(s) /\ it[u \ {Max(u)}] \in T
      BY <1>1, <2>1, MaxOf
    <3>. QED BY <3>1
  <2>. QED BY <1>1, <1>5, <2>1 DEF IsFold
<1>7. IsIt(iter)
  <2> HIDE DEF IsIt
  <2>. QED BY <1>6
<1>8. ASSUME NEW k \in 1..Len(s)
      PROVE  iter[1..k] = Kept(iter[1..k - 1], s[k])
  <2>1. 1..k # {} /\ Max(1..k) = k /\ (1..k) \ {Max(1..k)} = 1..k - 1
    BY Prefix
  <2>2. 1..k \in SUBSET (DOMAIN s)
    BY <1>1
  <2> HIDE DEF iter
  <2>. QED BY <1>7, <2>1, <2>2
<1>9. iter[1..0] = <<>>
  <2>1. 1..0 = {}
    OBVIOUS
  <2> HIDE DEF iter
  <2>. QED BY <1>7, <2>1
<1>10. PICK f : f = [k \in 0..Len(s) |-> iter[1..k]]
  OBVIOUS
<1> HIDE DEF iter
<1>11. f[0] = <<>> /\ f[Len(s)] = RemoveWhiteSpaces(s)
  BY <1>1, <1>2, <1>9, <1>10
<1>12. ASSUME NEW k \in 1..Len(s)
       PROVE  f[k] = Kept(f[k - 1], s[k])
  <2>1. k \in 0..Len(s) /\ k - 1 \in 0..Len(s)
    BY <1>1
  <2>. QED BY <1>8, <1>10, <2>1
<1>. QED BY <1>11, <1>12

\* No blank is left.
LEMMA NoBlanks ==
  ASSUME NEW s \in Seq(STRING)
  PROVE  RemoveWhiteSpaces(s) \in Seq(STRING \ {" "})
<1>1. PICK f : /\ RemoveWhiteSpaces(s) = f[Len(s)]
               /\ f[0] = <<>>
               /\ \A k \in 1..Len(s) :
                    f[k] = IF s[k] = " " THEN f[k - 1] ELSE Append(f[k - 1], s[k])
  BY KeptSteps
<1>2. PICK Black : Black = STRING \ {" "}
  OBVIOUS
<1>3. ASSUME NEW k \in 1..Len(s)
      PROVE  f[k] = f[k - 1] \/ (s[k] \in Black /\ f[k] = Append(f[k - 1], s[k]))
  <2>1. s[k] \in STRING
    OBVIOUS
  <2>. QED BY <1>1, <1>2, <2>1, Zenon
<1> DEFINE S == {k \in Nat : k <= Len(s) => f[k] \in Seq(Black)}
<1>4. 0 \in S
  <2>1. f[0] = <<>>
    BY <1>1, Zenon
  <2>2. <<>> \in Seq(Black)
    BY EmptySeq
  <2>. QED BY <2>1, <2>2
<1>5. ASSUME NEW k \in S
      PROVE  k + 1 \in S
  <2>1. k \in Nat /\ k + 1 \in Nat
    OBVIOUS
  <2> SUFFICES ASSUME k + 1 <= Len(s)
               PROVE  f[k + 1] \in Seq(Black)
    BY <2>1
  <2>2. k + 1 \in 1..Len(s) /\ (k + 1) - 1 = k /\ f[k] \in Seq(Black)
    BY <2>1
  <2>3. f[k + 1] = f[k] \/ (s[k + 1] \in Black /\ f[k + 1] = Append(f[k], s[k + 1]))
    BY <1>3, <2>2, Zenon
  <2>4. ASSUME NEW c \in Black
        PROVE  Append(f[k], c) \in Seq(Black)
    BY <2>2, AppendProperties, Zenon
  <2>. QED BY <2>2, <2>3, <2>4, Zenon
<1> HIDE DEF S
<1>6. \A k \in Nat : k \in S
  <2>1. S \in SUBSET Nat
    BY DEF S
  <2>. QED BY <1>4, <1>5, <2>1, Induct
<1>7. Len(s) \in S /\ Len(s) <= Len(s)
  BY <1>6
<1>8. f[Len(s)] \in Seq(Black)
  BY <1>7 DEF S
<1>. QED BY <1>1, <1>2, <1>8, Zenon

\* The first position of a character.
LEMMA FirstPosition ==
  ASSUME NEW C, NEW line \in Seq(C), NEW c, Positions(line, c) # {}
  PROVE  /\ FindFirst(line, c) \in Positions(line, c)
         /\ \A j \in Positions(line, c) : FindFirst(line, c) <= j
<1>1. Positions(line, c) \in SUBSET Nat
  BY DEF Positions
<1>2. \E i \in Positions(line, c) : \A j \in Positions(line, c) : i <= j
  BY <1>1, Smallest
<1>. QED BY <1>2, Zenon DEF FindFirst

\* Before a position, the line has the characters it had.
LEMMA PositionsBefore ==
  ASSUME NEW C, NEW line \in Seq(C), NEW c, NEW k \in DOMAIN line
  PROVE  Positions(SubSeq(line, 1, k - 1), c) = {j \in Positions(line, c) : j < k}
<1>1. PICK n \in Nat : n = Len(line) /\ DOMAIN line = 1..n
  OBVIOUS
<1>2. k \in 1..n /\ 1 \in Int /\ k - 1 \in Int /\ k - 1 \in Nat
  BY <1>1
<1>3. \A i \in 1..k - 1 : i \in 1..n /\ line[i] \in C
  BY <1>1, <1>2
<1>4. PICK before \in Seq(C) : before = SubSeq(line, 1, k - 1)
  BY <1>2, <1>3, SubSeqProperties
<1>5. Len(before) = k - 1
  <2>1. Len(SubSeq(line, 1, k - 1)) = IF 1 <= k - 1 THEN (k - 1) - 1 + 1 ELSE 0
    BY <1>2, <1>3, SubSeqProperties
  <2>. QED BY <1>2, <1>4, <2>1
<1>6. DOMAIN before = 1..k - 1
  BY <1>4, <1>5
<1>7. \A i \in 1..k - 1 : before[i] = line[i]
  <2>1. \A i \in 1..(k - 1) - 1 + 1 : SubSeq(line, 1, k - 1)[i] = line[1 + i - 1]
    BY <1>2, <1>3, SubSeqProperties
  <2>. QED BY <1>2, <1>4, <2>1
<1>8. ASSUME NEW j
      PROVE  j \in Positions(before, c) <=> j \in Positions(line, c) /\ j < k
  <2>1. j \in 1..k - 1 <=> j \in 1..n /\ j < k
    BY <1>1, <1>2
  <2>2. j \in Positions(before, c) <=> j \in 1..k - 1 /\ before[j] = c
    BY <1>6 DEF Positions
  <2>3. j \in Positions(line, c) <=> j \in 1..n /\ line[j] = c
    BY <1>1 DEF Positions
  <2>. QED BY <1>7, <2>1, <2>2, <2>3, Zenon
<1>. QED BY <1>4, <1>8, Zenon

\* The first sign is the only one with none before it.
LEMMA OnlyFirst ==
  ASSUME NEW C, NEW line \in Seq(C), NEW c
  PROVE  {k \in Positions(line, c) : Positions(SubSeq(line, 1, k - 1), c) = {}}
           = IF Positions(line, c) = {} THEN {} ELSE {FindFirst(line, c)}
<1>1. Positions(line, c) \in SUBSET Int
  BY DEF Positions
<1>2. \A k \in Positions(line, c) :
        Positions(SubSeq(line, 1, k - 1), c) = {} <=> \A j \in Positions(line, c) : ~(j < k)
  <2>1. ASSUME NEW k \in Positions(line, c)
        PROVE  Positions(SubSeq(line, 1, k - 1), c) = {}
                 <=> \A j \in Positions(line, c) : ~(j < k)
    <3>1. k \in DOMAIN line
      BY DEF Positions
    <3>2. Positions(SubSeq(line, 1, k - 1), c) = {j \in Positions(line, c) : j < k}
      BY <3>1, PositionsBefore
    <3>. QED BY <3>2
  <2>. QED BY <2>1
<1>3. CASE Positions(line, c) # {}
  <2>1. PICK f \in Positions(line, c) :
          f = FindFirst(line, c) /\ \A j \in Positions(line, c) : f <= j
    BY <1>3, FirstPosition
  <2>2. \A k \in Positions(line, c) : (\A j \in Positions(line, c) : ~(j < k)) <=> k = f
    BY <1>1, <2>1
  <2>. QED BY <1>2, <1>3, <2>1, <2>2, Zenon
<1>. QED BY <1>3

\* What a line sets, as load finds it, is what it means.
Sets(raw) ==
  LET line == RemoveWhiteSpaces(raw)
  IN  IF IsProperty(line) THEN {<<Property(line).name, Property(line).value>>} ELSE {}

LEMMA SetsItsMeaning ==
  ASSUME NEW raw \in Seq(STRING)
  PROVE  Meaning(raw) = Sets(raw)
<1>0. DOMAIN <<>> = {}
  OBVIOUS
<1>1. PICK line \in Seq(STRING \ {" "}) : line = RemoveWhiteSpaces(raw)
  BY NoBlanks
<1> DEFINE At(i) == <<SubSeq(line, 1, i - 1), SubSeq(line, i + 1, Len(line))>>
           P == Positions(line, "=")
           First == {k \in P : Positions(SubSeq(line, 1, k - 1), "=") = {}}
<1>2. First = IF P = {} THEN {} ELSE {FindFirst(line, "=")}
  BY OnlyFirst, Zenon
<1>3. line = <<>> => P = {}
  BY <1>0, Zenon DEF Positions
<1>4. Meaning(raw) = {At(i) : i \in {k \in P : /\ line[1] # "#"
                                               /\ Positions(SubSeq(line, 1, k - 1), "=") = {}}}
  BY <1>1, Zenon DEF Meaning
<1>5. Sets(raw) = IF line # <<>> /\ line[1] # "#" /\ P # {} THEN {At(FindFirst(line, "="))} ELSE {}
  BY <1>1, Zenon DEF Sets, IsProperty, Property, SplitAt
<1>6. CASE line[1] # "#"
  <2>1. Meaning(raw) = {At(i) : i \in First}
    BY <1>4, <1>6, Zenon
  <2>2. CASE P = {}
    BY <1>2, <1>5, <2>1, <2>2, Zenon
  <2>3. CASE P # {}
    BY <1>2, <1>3, <1>5, <1>6, <2>1, <2>3, Zenon
  <2>. QED BY <2>2, <2>3
<1>7. CASE line[1] = "#"
  BY <1>4, <1>5, <1>7, Zenon
<1>. QED BY <1>6, <1>7

\* What lines say last of every name.
Stands(ls, n) ==
  {pair \in Meaning(ls[n]) : \A m \in n + 1 .. Len(ls) : pair[1] \notin Names(ls[m])}

Said(ls) == UNION {Stands(ls, n) : n \in DOMAIN ls}

\* A line takes the names it gives from the lines before it.
LEMMA SaidGrows ==
  ASSUME NEW ls \in Seq(Lines), NEW raw \in Lines
  PROVE  Said(Append(ls, raw)) = {pair \in Said(ls) : pair[1] \notin Names(raw)} \cup Meaning(raw)
<1>1. PICK more \in Seq(Lines) : more = Append(ls, raw)
  <2>1. Append(ls, raw) \in Seq(Lines)
    OBVIOUS
  <2>. QED BY <2>1
<1>2. PICK k \in Nat : k = Len(ls)
  OBVIOUS
<1>3. Len(more) = k + 1 /\ DOMAIN more = 1..k + 1 /\ DOMAIN ls = 1..k
  BY <1>1, <1>2
<1>4. more[k + 1] = raw /\ \A n \in 1..k : more[n] = ls[n]
  BY <1>1, <1>2
<1>5. ASSUME NEW n \in 1..k, NEW pair
      PROVE  (\A m \in n + 1 .. k + 1 : pair[1] \notin Names(more[m]))
               <=> /\ \A m \in n + 1 .. k : pair[1] \notin Names(ls[m])
                   /\ pair[1] \notin Names(raw)
  <2>1. \A m : m \in n + 1 .. k + 1 <=> m \in n + 1 .. k \/ m = k + 1
    OBVIOUS
  <2>2. \A m \in n + 1 .. k : m \in 1..k
    OBVIOUS
  <2>. QED BY <1>4, <2>1, <2>2, Zenon
<1>6. ASSUME NEW pair
      PROVE  \A m \in (k + 1) + 1 .. k + 1 : pair[1] \notin Names(more[m])
  <2>1. (k + 1) + 1 .. k + 1 = {}
    OBVIOUS
  <2>. QED BY <2>1, Zenon
<1>7. ASSUME NEW pair
      PROVE  pair \in Said(more)
               <=> (pair \in Said(ls) /\ pair[1] \notin Names(raw)) \/ pair \in Meaning(raw)
  <2>1. pair \in Said(more)
          <=> \E n \in 1..k + 1 : /\ pair \in Meaning(more[n])
                                  /\ \A m \in n + 1 .. k + 1 : pair[1] \notin Names(more[m])
    <3>1. pair \in Said(more) <=> \E n \in DOMAIN more : pair \in Stands(more, n)
      BY DEF Said
    <3>. QED BY <1>3, <3>1, Zenon DEF Stands
  <2>2. pair \in Said(ls)
          <=> \E n \in 1..k : /\ pair \in Meaning(ls[n])
                              /\ \A m \in n + 1 .. k : pair[1] \notin Names(ls[m])
    <3>1. pair \in Said(ls) <=> \E n \in DOMAIN ls : pair \in Stands(ls, n)
      BY DEF Said
    <3>. QED BY <1>2, <1>3, <3>1, Zenon DEF Stands
  <2>3. \A n : n \in 1..k + 1 <=> n \in 1..k \/ n = k + 1
    OBVIOUS
  <2>4. ASSUME pair \in Said(more)
        PROVE  (pair \in Said(ls) /\ pair[1] \notin Names(raw)) \/ pair \in Meaning(raw)
    <3>1. PICK n \in 1..k + 1 : /\ pair \in Meaning(more[n])
                                /\ \A m \in n + 1 .. k + 1 : pair[1] \notin Names(more[m])
      BY <2>1, <2>4
    <3>2. CASE n = k + 1
      BY <1>4, <3>1, <3>2, Zenon
    <3>3. CASE n \in 1..k
      BY <1>4, <1>5, <2>2, <3>1, <3>3, Zenon
    <3>. QED BY <2>3, <3>2, <3>3
  <2>5. ASSUME pair \in Said(ls), pair[1] \notin Names(raw)
        PROVE  pair \in Said(more)
    <3>1. PICK n \in 1..k : /\ pair \in Meaning(ls[n])
                            /\ \A m \in n + 1 .. k : pair[1] \notin Names(ls[m])
      BY <2>2, <2>5
    <3>2. n \in 1..k + 1 /\ pair \in Meaning(more[n])
      BY <1>4, <2>3, <3>1, Zenon
    <3>. QED BY <1>5, <2>1, <2>5, <3>1, <3>2, Zenon
  <2>6. ASSUME pair \in Meaning(raw)
        PROVE  pair \in Said(more)
    <3>1. k + 1 \in 1..k + 1
      OBVIOUS
    <3>. QED BY <1>4, <1>6, <2>1, <2>6, <3>1, Zenon
  <2>. QED BY <2>4, <2>5, <2>6
<1>. QED BY <1>1, <1>7, Zenon

\* The pairs of a table of properties.
PairsOf(p) == {<<n, p[n]>> : n \in DOMAIN p}

\* ReadLine does to the pairs what the line does to what was said.
LEMMA ReadLineSays ==
  ASSUME NEW raw \in Lines, Lines \subseteq Seq(STRING), ReadLine(raw)
  PROVE  PairsOf(properties') = {pair \in PairsOf(properties) : pair[1] \notin Names(raw)}
                                  \cup Meaning(raw)
<1>1. PICK old, new : old = properties /\ new = properties'
  OBVIOUS
<1>2. PICK line : line = RemoveWhiteSpaces(raw)
  OBVIOUS
<1>3. Meaning(raw) = Sets(raw)
  BY SetsItsMeaning
<1>4. CASE IsProperty(line)
  <2>1. PICK n, v : n = Property(line).name /\ v = Property(line).value
    OBVIOUS
  <2>2. Meaning(raw) = {<<n, v>>}
    BY <1>2, <1>3, <1>4, <2>1, Zenon DEF Sets
  <2>3. Names(raw) = {n}
    BY <2>2 DEF Names
  <2>4. new = [x \in DOMAIN old \cup {n} |-> IF x = n THEN v ELSE old[x]]
    BY <1>1, <1>2, <1>4, <2>1, Zenon DEF ReadLine, Set
  <2>5. DOMAIN new = DOMAIN old \cup {n} /\ new[n] = v /\ \A x \in DOMAIN old : x # n => new[x] = old[x]
    BY <2>4
  <2>6. ASSUME NEW pair
        PROVE  pair \in PairsOf(new) <=> (pair \in PairsOf(old) /\ pair[1] # n) \/ pair = <<n, v>>
    <3>1. pair \in PairsOf(new) <=> \E x \in DOMAIN old \cup {n} : pair = <<x, new[x]>>
      BY <2>5, Zenon DEF PairsOf
    <3>2. pair \in PairsOf(old) <=> \E x \in DOMAIN old : pair = <<x, old[x]>>
      BY Zenon DEF PairsOf
    <3>3. \A x, y : <<x, y>>[1] = x
      OBVIOUS
    <3>4. ASSUME pair \in PairsOf(new)
          PROVE  (pair \in PairsOf(old) /\ pair[1] # n) \/ pair = <<n, v>>
      <4>1. PICK x \in DOMAIN old \cup {n} : pair = <<x, new[x]>>
        BY <3>1, <3>4
      <4>2. CASE x = n
        BY <2>5, <4>1, <4>2, Zenon
      <4>3. CASE x # n
        BY <2>5, <3>2, <3>3, <4>1, <4>3, Zenon
      <4>. QED BY <4>2, <4>3
    <3>5. ASSUME pair \in PairsOf(old), pair[1] # n
          PROVE  pair \in PairsOf(new)
      <4>1. PICK x \in DOMAIN old : pair = <<x, old[x]>>
        BY <3>2, <3>5
      <4>2. x # n
        BY <3>3, <3>5, <4>1, Zenon
      <4>. QED BY <2>5, <3>1, <4>1, <4>2, Zenon
    <3>6. ASSUME pair = <<n, v>>
          PROVE  pair \in PairsOf(new)
      BY <2>5, <3>1, <3>6, Zenon
    <3>. QED BY <3>4, <3>5, <3>6
  <2>. QED BY <1>1, <2>2, <2>3, <2>6
<1>5. CASE ~IsProperty(line)
  <2>1. new = old
    BY <1>1, <1>2, <1>5, Zenon DEF ReadLine
  <2>2. Meaning(raw) = {}
    BY <1>2, <1>3, <1>5, Zenon DEF Sets
  <2>3. Names(raw) = {}
    BY <2>2 DEF Names
  <2>. QED BY <1>1, <2>1, <2>2, <2>3
<1>. QED BY <1>4, <1>5

-----------------------------------------------------------------------------
(* Config::getPropertyList: Split, character by character.                   *)

LEMMA CutSteps ==
  ASSUME NEW s \in Seq(STRING)
  PROVE  \E f : /\ Split(s) = f[Len(s)]
                /\ f[0] = << <<>> >>
                /\ \A k \in 1..Len(s) :
                     f[k] = IF s[k] = Comma THEN Append(f[k - 1], <<>>)
                            ELSE Append(Front(f[k - 1]), Append(Last(f[k - 1]), s[k]))
<1> DEFINE Cut(cut, c) == IF c = Comma THEN Append(cut, <<>>)
                          ELSE Append(Front(cut), Append(Last(cut), c))
           T == {cut \in Seq(Seq(STRING)) : cut # <<>>}
           G == [x \in (1..Len(s)) \X T |-> Cut(x[2], s[x[1]])]
           IsIt(it) == it = [u \in SUBSET (DOMAIN s) |->
                               IF u = {} THEN << <<>> >> ELSE Cut(it[u \ {Max(u)}], s[Max(u)])]
           iter == CHOOSE it : IsIt(it)
<1>1. DOMAIN s = 1..Len(s) /\ Len(s) \in Nat
  OBVIOUS
<1>2. Split(s) = iter[DOMAIN s]
  BY DEF Split, FoldLeft, MapThenFoldSet
<1>3. G \in [(1..Len(s)) \X T -> T]
  <2>1. ASSUME NEW x \in (1..Len(s)) \X T
        PROVE  Cut(x[2], s[x[1]]) \in T
    <3>1. PICK cut \in Seq(Seq(STRING)) : cut = x[2] /\ cut # <<>>
      OBVIOUS
    <3>2. PICK c \in STRING : c = s[x[1]]
      <4>1. x[1] \in DOMAIN s /\ s[x[1]] \in STRING
        BY <1>1
      <4>. QED BY <4>1
    <3>3. Front(cut) \in Seq(Seq(STRING)) /\ Last(cut) \in Seq(STRING)
      BY <3>1 DEF Front, Last
    <3>4. PICK front \in Seq(Seq(STRING)), last \in Seq(STRING), none \in Seq(STRING) :
            front = Front(cut) /\ last = Last(cut) /\ none = <<>>
      <4>1. <<>> \in Seq(STRING)
        OBVIOUS
      <4>. QED BY <3>3, <4>1, Zenon
    <3>5. Append(cut, none) \in T
      <4>1. Append(cut, none) \in Seq(Seq(STRING)) /\ Append(cut, none) # <<>>
        BY AppendProperties, Zenon
      <4>. QED BY <4>1, Zenon
    <3>6. Append(front, Append(last, c)) \in T
      <4>1. PICK longer \in Seq(STRING) : longer = Append(last, c)
        <5>1. Append(last, c) \in Seq(STRING)
          BY AppendProperties
        <5>. QED BY <5>1
      <4>2. Append(front, longer) \in Seq(Seq(STRING)) /\ Append(front, longer) # <<>>
        BY AppendProperties, Zenon
      <4>. QED BY <4>1, <4>2, Zenon
    <3>. QED BY <3>1, <3>2, <3>4, <3>5, <3>6, Zenon
  <2>. QED BY <2>1
<1>4. << <<>> >> \in T
  OBVIOUS
<1>5. PICK it \in [SUBSET (1..Len(s)) -> T] : IsFold(it, Len(s), << <<>> >>, G)
  <2> HIDE DEF G, T
  <2>. QED BY <1>1, <1>3, <1>4, FoldExists
<1>6. IsIt(it)
  <2>1. ASSUME NEW u \in SUBSET (1..Len(s)), u # {}
        PROVE  G[<<Max(u), it[u \ {Max(u)}]>>] = Cut(it[u \ {Max(u)}], s[Max(u)])
    <3>1. Max(u) \in 1..Len(s) /\ it[u \ {Max(u)}] \in T
      BY <1>1, <2>1, MaxOf
    <3> HIDE DEF T
    <3>. QED BY <3>1
  <2>2. \A u \in SUBSET (1..Len(s)) :
          it[u] = IF u = {} THEN << <<>> >> ELSE Cut(it[u \ {Max(u)}], s[Max(u)])
    <3> HIDE DEF G, Cut, T
    <3>. QED BY <1>5, <2>1 DEF IsFold
  <2> HIDE DEF Cut, T
  <2>. QED BY <1>1, <2>2
<1>7. IsIt(iter)
  <2> HIDE DEF IsIt
  <2>. QED BY <1>6
<1>8. ASSUME NEW k \in 1..Len(s)
      PROVE  iter[1..k] = Cut(iter[1..k - 1], s[k])
  <2>1. 1..k # {} /\ Max(1..k) = k /\ (1..k) \ {Max(1..k)} = 1..k - 1
    BY Prefix
  <2>2. 1..k \in SUBSET (DOMAIN s)
    BY <1>1
  <2> HIDE DEF iter, Cut
  <2>. QED BY <1>7, <2>1, <2>2
<1>9. iter[1..0] = << <<>> >>
  <2>1. 1..0 = {}
    OBVIOUS
  <2> HIDE DEF iter, Cut
  <2>. QED BY <1>7, <2>1
<1>10. PICK f : f = [k \in 0..Len(s) |-> iter[1..k]]
  OBVIOUS
<1> HIDE DEF iter, Cut
<1>11. f[0] = << <<>> >> /\ f[Len(s)] = Split(s)
  BY <1>1, <1>2, <1>9, <1>10
<1>12. ASSUME NEW k \in 1..Len(s)
       PROVE  f[k] = Cut(f[k - 1], s[k])
  <2>1. k \in 0..Len(s) /\ k - 1 \in 0..Len(s)
    BY <1>1
  <2>. QED BY <1>8, <1>10, <2>1
<1>. QED BY <1>11, <1>12, Zenon DEF Cut

\* Characters b to e lie between two commas, or between one and the start.
IsPiece(s, b, e) ==
  /\ b = 1 \/ s[b - 1] = Comma
  /\ \A i \in b..e : s[i] # Comma

\* What Split has after k characters: the pieces that ended before them, and the
\* one it is in.
CutUpTo(s, k, cut) ==
  /\ cut \in Seq(Seq(STRING)) /\ cut # <<>>
  /\ \A i \in 1 .. Len(cut) - 1 :
       \E e \in 0 .. k - 1 : \E b \in 1 .. e + 1 :
         IsPiece(s, b, e) /\ s[e + 1] = Comma /\ cut[i] = SubSeq(s, b, e)
  /\ \A e \in 0 .. k - 1 : \A b \in 1 .. e + 1 :
       IsPiece(s, b, e) /\ s[e + 1] = Comma =>
         \E i \in 1 .. Len(cut) - 1 : cut[i] = SubSeq(s, b, e)
  /\ \E b \in 1 .. k + 1 : IsPiece(s, b, k) /\ cut[Len(cut)] = SubSeq(s, b, k)

\* Only one piece ends at a place.
LEMMA SamePiece ==
  ASSUME NEW s, NEW e \in Nat, NEW b \in 1 .. e + 1, NEW c \in 1 .. e + 1,
         IsPiece(s, b, e), IsPiece(s, c, e)
  PROVE  b = c
<1>1. ASSUME NEW x \in 1 .. e + 1, NEW y \in 1 .. e + 1, x < y, IsPiece(s, x, e), IsPiece(s, y, e)
      PROVE  FALSE
  <2>1. y - 1 \in x..e /\ y # 1
    BY <1>1
  <2>. QED BY <1>1, <2>1, Zenon DEF IsPiece
<1>2. b < c \/ c < b \/ b = c
  OBVIOUS
<1>. QED BY <1>1, <1>2

\* A piece grows by its next character.
LEMMA SubSeqGrows ==
  ASSUME NEW C, NEW s \in Seq(C), NEW k \in Nat, k + 1 <= Len(s), NEW b \in 1 .. k + 1
  PROVE  SubSeq(s, b, k + 1) = Append(SubSeq(s, b, k), s[k + 1]) /\ SubSeq(s, b, k) \in Seq(C)
<1>1. PICK m : m = k + 1 /\ m - 1 = k
  OBVIOUS
<1>2. b \in 1..Len(s) /\ m \in b..Len(s) /\ s[m] \in C
  BY <1>1
<1>3. SubSeq(s, b, m) = SubSeq(s, b, m - 1) \o <<s[m]>>
  BY <1>2, SubSeqRecursiveSecond
<1>4. PICK piece \in Seq(C) : piece = SubSeq(s, b, m - 1)
  <2>1. b \in Int /\ m - 1 \in Int /\ \A i \in b .. m - 1 : s[i] \in C
    BY <1>1, <1>2
  <2>. QED BY <2>1, SubSeqProperties
<1>5. Append(piece, s[m]) = piece \o <<s[m]>>
  BY <1>2, AppendIsConcat
<1>. QED BY <1>1, <1>3, <1>4, <1>5, Zenon

\* One piece more.
IsAppended(next, P, cut, piece) ==
  /\ next \in Seq(P) /\ next # <<>> /\ Len(next) = Len(cut) + 1
  /\ \A i \in 1..Len(cut) : next[i] = cut[i]
  /\ next[Len(cut) + 1] = piece

LEMMA Appended ==
  ASSUME NEW P, NEW cut \in Seq(P), NEW piece \in P
  PROVE  IsAppended(Append(cut, piece), P, cut, piece)
BY AppendProperties DEF IsAppended

LEMMA CutGrows ==
  ASSUME NEW s \in Seq(STRING), NEW k \in Nat, k + 1 <= Len(s),
         NEW cut, CutUpTo(s, k, cut), NEW next,
         next = IF s[k + 1] = Comma THEN Append(cut, <<>>)
                ELSE Append(Front(cut), Append(Last(cut), s[k + 1]))
  PROVE  CutUpTo(s, k + 1, next)
<1>1. cut \in Seq(Seq(STRING)) /\ cut # <<>>
  BY DEF CutUpTo
<1>2. PICK m \in Nat : Len(cut) = m + 1 /\ Len(cut) - 1 = m
  <2>1. Len(cut) \in Nat \ {0}
    BY <1>1, EmptySeq
  <2>2. Len(cut) - 1 \in Nat /\ Len(cut) = (Len(cut) - 1) + 1
    BY <2>1
  <2>. QED BY <2>2
<1>3. PICK b0 \in 1 .. k + 1 : IsPiece(s, b0, k) /\ cut[m + 1] = SubSeq(s, b0, k)
  BY <1>2, Zenon DEF CutUpTo
<1>4. \A i \in 1..m : \E e \in 0 .. k - 1 : \E b \in 1 .. e + 1 :
        IsPiece(s, b, e) /\ s[e + 1] = Comma /\ cut[i] = SubSeq(s, b, e)
  BY <1>2, Zenon DEF CutUpTo
<1>5. \A e \in 0 .. k - 1 : \A b \in 1 .. e + 1 :
        IsPiece(s, b, e) /\ s[e + 1] = Comma => \E i \in 1..m : cut[i] = SubSeq(s, b, e)
  BY <1>2, Zenon DEF CutUpTo
<1>6. \A e : e \in 0 .. (k + 1) - 1 <=> e \in 0 .. k - 1 \/ e = k
  OBVIOUS
<1>7. k \in 0 .. (k + 1) - 1 /\ m + 1 \in 1 .. m + 1 /\ \A i : i \in 1 .. m + 1 <=> i \in 1..m \/ i = m + 1
  OBVIOUS
<1>8. CASE s[k + 1] = Comma
  <2>1. PICK none \in Seq(STRING) : none = <<>>
    <3>1. <<>> \in Seq(STRING)
      OBVIOUS
    <3>. QED BY <3>1
  <2>2. next = Append(cut, none)
    BY <1>8, <2>1
  <2>3. /\ next \in Seq(Seq(STRING)) /\ next # <<>> /\ Len(next) = Len(cut) + 1
        /\ (\A i \in 1..Len(cut) : next[i] = cut[i]) /\ next[Len(cut) + 1] = none
    <3>1. PICK old \in Seq(Seq(STRING)) : old = cut
      BY <1>1
    <3>2. IsAppended(Append(old, none), Seq(STRING), old, none)
      BY Appended
    <3>. QED BY <2>2, <3>1, <3>2, Zenon DEF IsAppended
  <2>4. Len(next) = m + 2 /\ Len(next) - 1 = m + 1 /\ next[m + 2] = none
    BY <1>2, <2>3
  <2>5. \A i \in 1 .. m + 1 : next[i] = cut[i]
    BY <1>2, <2>3, Zenon
  <2>6. \A i \in 1 .. Len(next) - 1 : \E e \in 0 .. (k + 1) - 1 : \E b \in 1 .. e + 1 :
          IsPiece(s, b, e) /\ s[e + 1] = Comma /\ next[i] = SubSeq(s, b, e)
    BY <1>3, <1>4, <1>6, <1>7, <1>8, <2>4, <2>5, Zenon
  <2>7. ASSUME NEW e \in 0 .. (k + 1) - 1, NEW b \in 1 .. e + 1, IsPiece(s, b, e), s[e + 1] = Comma
        PROVE  \E i \in 1 .. Len(next) - 1 : next[i] = SubSeq(s, b, e)
    <3>1. CASE e = k
      <4>1. b = b0
        BY <1>3, <2>7, <3>1, SamePiece
      <4>. QED BY <1>3, <1>7, <2>4, <2>5, <3>1, <4>1, Zenon
    <3>2. CASE e \in 0 .. k - 1
      BY <1>5, <1>7, <2>4, <2>5, <2>7, <3>2, Zenon
    <3>. QED BY <1>6, <3>1, <3>2
  <2>8. k + 2 \in 1 .. (k + 1) + 1 /\ IsPiece(s, k + 2, k + 1)
    <3>1. (k + 2) - 1 = k + 1 /\ k + 2 .. k + 1 = {} /\ k + 2 \in 1 .. (k + 1) + 1
      OBVIOUS
    <3>. QED BY <1>8, <3>1, Zenon DEF IsPiece
  <2>9. SubSeq(s, k + 2, k + 1) = none
    BY <2>1, SubSeqEmpty
  <2>10. next[Len(next)] = none
    BY <2>4
  <2>. QED BY <2>3, <2>6, <2>7, <2>8, <2>9, <2>10, Zenon DEF CutUpTo
<1>9. CASE s[k + 1] # Comma
  <2>1. SubSeq(s, b0, k + 1) = Append(SubSeq(s, b0, k), s[k + 1]) /\ SubSeq(s, b0, k) \in Seq(STRING)
    BY SubSeqGrows
  <2>2. PICK longer \in Seq(STRING) : longer = SubSeq(s, b0, k + 1)
    <3>1. s[k + 1] \in STRING
      OBVIOUS
    <3>. QED BY <2>1, <3>1, AppendProperties
  <2>3. Append(Last(cut), s[k + 1]) = longer
    BY <1>2, <1>3, <2>1, <2>2 DEF Last
  <2>4. PICK front \in Seq(Seq(STRING)) : front = Front(cut)
    <3>1. Front(cut) \in Seq(Seq(STRING))
      BY <1>1 DEF Front
    <3>. QED BY <3>1
  <2>5. Len(front) = m /\ \A i \in 1..m : front[i] = cut[i]
    BY <1>1, <1>2, <2>4 DEF Front
  <2>6. next = Append(front, longer)
    BY <1>9, <2>3, <2>4
  <2>7. /\ next \in Seq(Seq(STRING)) /\ next # <<>> /\ Len(next) = m + 1
        /\ (\A i \in 1..m : next[i] = front[i]) /\ next[m + 1] = longer
    <3>1. IsAppended(Append(front, longer), Seq(STRING), front, longer)
      BY Appended
    <3>2. next # <<>> /\ next \in Seq(Seq(STRING)) /\ Len(next) = m + 1
      BY <2>5, <2>6, <3>1, Zenon DEF IsAppended
    <3>3. (\A i \in 1..m : next[i] = front[i]) /\ next[m + 1] = longer
      BY <2>5, <2>6, <3>1, Zenon DEF IsAppended
    <3>. QED BY <3>2, <3>3
  <2>8. Len(next) - 1 = m
    BY <2>7
  <2>9. \A i \in 1 .. Len(next) - 1 : \E e \in 0 .. (k + 1) - 1 : \E b \in 1 .. e + 1 :
          IsPiece(s, b, e) /\ s[e + 1] = Comma /\ next[i] = SubSeq(s, b, e)
    <3>1. \A i \in 1..m : next[i] = cut[i]
      BY <2>5, <2>7, Zenon
    <3> SUFFICES ASSUME NEW i \in 1..m
                 PROVE  \E e \in 0 .. (k + 1) - 1 : \E b \in 1 .. e + 1 :
                          IsPiece(s, b, e) /\ s[e + 1] = Comma /\ next[i] = SubSeq(s, b, e)
      BY <2>8, Zenon
    <3>2. PICK e \in 0 .. k - 1 : \E b \in 1 .. e + 1 :
            IsPiece(s, b, e) /\ s[e + 1] = Comma /\ cut[i] = SubSeq(s, b, e)
      BY <1>4
    <3>. QED BY <1>6, <3>1, <3>2, Zenon
  <2>10. ASSUME NEW e \in 0 .. (k + 1) - 1, NEW b \in 1 .. e + 1, IsPiece(s, b, e), s[e + 1] = Comma
         PROVE  \E i \in 1 .. Len(next) - 1 : next[i] = SubSeq(s, b, e)
    <3>1. e \in 0 .. k - 1
      BY <1>6, <1>9, <2>10, Zenon
    <3>. QED BY <1>5, <2>5, <2>7, <2>8, <2>10, <3>1, Zenon
  <2>11. b0 \in 1 .. (k + 1) + 1 /\ IsPiece(s, b0, k + 1)
    <3>1. b0 \in 1 .. (k + 1) + 1 /\ \A i \in b0 .. k + 1 : i \in b0..k \/ i = k + 1
      OBVIOUS
    <3>. QED BY <1>3, <1>9, <3>1, Zenon DEF IsPiece
  <2>12. next[Len(next)] = SubSeq(s, b0, k + 1)
    BY <2>2, <2>7
  <2>. QED BY <2>7, <2>9, <2>10, <2>11, <2>12, Zenon DEF CutUpTo
<1>. QED BY <1>8, <1>9

LEMMA CutStarts ==
  ASSUME NEW s \in Seq(STRING)
  PROVE  CutUpTo(s, 0, << <<>> >>)
<1>1. PICK none \in Seq(STRING) : none = <<>>
  <2>1. <<>> \in Seq(STRING)
    OBVIOUS
  <2>. QED BY <2>1
<1>2. <<none>> \in Seq(Seq(STRING)) /\ Len(<<none>>) = 1 /\ <<none>> # <<>> /\ <<none>>[1] = none
  OBVIOUS
<1>3. 1 .. 1 - 1 = {} /\ 0 .. 0 - 1 = {} /\ 1..0 = {} /\ 1 \in 1 .. 0 + 1
  OBVIOUS
<1>4. SubSeq(s, 1, 0) = none
  BY <1>1, SubSeqEmpty
<1>5. IsPiece(s, 1, 0)
  BY <1>3, Zenon DEF IsPiece
<1>6. CutUpTo(s, 0, <<none>>)
  BY <1>2, <1>3, <1>4, <1>5, Zenon DEF CutUpTo
<1>. QED BY <1>1, <1>6, Zenon

\* A piece ends at a comma or with the content.
Ends(s, e) == e = Len(s) \/ s[e + 1] = Comma

\* The pieces of a content are the ones Split returns, and it returns no other.
LEMMA SplitPieces ==
  ASSUME NEW s \in Seq(STRING)
  PROVE  /\ Split(s) \in Seq(Seq(STRING))
         /\ \A i \in DOMAIN Split(s) :
              \E e \in 0 .. Len(s) : \E b \in 1 .. e + 1 :
                IsPiece(s, b, e) /\ Ends(s, e) /\ Split(s)[i] = SubSeq(s, b, e)
         /\ \A e \in 0 .. Len(s) : \A b \in 1 .. e + 1 :
              IsPiece(s, b, e) /\ Ends(s, e) =>
                \E i \in DOMAIN Split(s) : Split(s)[i] = SubSeq(s, b, e)
<1>1. PICK f : /\ Split(s) = f[Len(s)]
               /\ f[0] = << <<>> >>
               /\ \A k \in 1..Len(s) :
                    f[k] = IF s[k] = Comma THEN Append(f[k - 1], <<>>)
                           ELSE Append(Front(f[k - 1]), Append(Last(f[k - 1]), s[k]))
  BY CutSteps
<1> DEFINE S == {k \in Nat : k <= Len(s) => CutUpTo(s, k, f[k])}
<1>2. 0 \in S
  BY <1>1, CutStarts
<1>3. ASSUME NEW k \in S
      PROVE  k + 1 \in S
  <2>1. k \in Nat /\ k + 1 \in Nat
    OBVIOUS
  <2> SUFFICES ASSUME k + 1 <= Len(s)
               PROVE  CutUpTo(s, k + 1, f[k + 1])
    BY <2>1
  <2>2. k + 1 \in 1..Len(s) /\ (k + 1) - 1 = k /\ k <= Len(s)
    BY <2>1
  <2>3. CutUpTo(s, k, f[k])
    BY <2>2
  <2>4. f[k + 1] = IF s[k + 1] = Comma THEN Append(f[k], <<>>)
                   ELSE Append(Front(f[k]), Append(Last(f[k]), s[k + 1]))
    BY <1>1, <2>2, Zenon
  <2>. QED BY <2>1, <2>3, <2>4, CutGrows
<1> HIDE DEF S
<1>4. \A k \in Nat : k \in S
  <2>1. S \in SUBSET Nat
    BY DEF S
  <2>. QED BY <1>2, <1>3, <2>1, Induct
<1>5. PICK n \in Nat : n = Len(s)
  OBVIOUS
<1>6. PICK cut : cut = Split(s) /\ CutUpTo(s, n, cut)
  <2>1. n \in S /\ n <= Len(s)
    BY <1>4, <1>5
  <2>. QED BY <1>1, <1>5, <2>1 DEF S
<1>7. cut \in Seq(Seq(STRING)) /\ cut # <<>>
  BY <1>6 DEF CutUpTo
<1>8. PICK m \in Nat : Len(cut) = m + 1 /\ Len(cut) - 1 = m
  <2>1. Len(cut) \in Nat \ {0}
    BY <1>7, EmptySeq
  <2>2. Len(cut) - 1 \in Nat /\ Len(cut) = (Len(cut) - 1) + 1
    BY <2>1
  <2>. QED BY <2>2
<1>9. DOMAIN cut = 1 .. m + 1 /\ \A i : i \in 1 .. m + 1 <=> i \in 1..m \/ i = m + 1
  BY <1>7, <1>8
<1>10. PICK b0 \in 1 .. n + 1 : IsPiece(s, b0, n) /\ cut[m + 1] = SubSeq(s, b0, n)
  BY <1>6, <1>8, Zenon DEF CutUpTo
<1>11. n \in 0..n /\ \A e : e \in 0..n <=> e \in 0 .. n - 1 \/ e = n
  OBVIOUS
<1>12. ASSUME NEW i \in 1 .. m + 1
       PROVE  \E e \in 0..n : \E b \in 1 .. e + 1 :
                IsPiece(s, b, e) /\ Ends(s, e) /\ cut[i] = SubSeq(s, b, e)
  <2>1. CASE i = m + 1
    BY <1>5, <1>10, <1>11, <2>1, Zenon DEF Ends
  <2>2. CASE i \in 1..m
    BY <1>6, <1>8, <1>11, <2>2, Zenon DEF CutUpTo, Ends
  <2>. QED BY <1>9, <2>1, <2>2
<1>13. ASSUME NEW e \in 0..n, NEW b \in 1 .. e + 1, IsPiece(s, b, e), Ends(s, e)
       PROVE  \E i \in 1 .. m + 1 : cut[i] = SubSeq(s, b, e)
  <2>1. CASE e = n
    <3>1. b = b0
      BY <1>10, <1>13, <2>1, SamePiece
    <3>2. m + 1 \in 1 .. m + 1
      OBVIOUS
    <3>. QED BY <1>10, <2>1, <3>1, <3>2, Zenon
  <2>2. CASE e \in 0 .. n - 1
    <3>1. e # n
      BY <2>2
    <3>2. s[e + 1] = Comma
      BY <1>5, <1>13, <3>1, Zenon DEF Ends
    <3>. QED BY <1>6, <1>8, <1>9, <1>13, <2>2, <3>2, Zenon DEF CutUpTo
  <2>. QED BY <1>11, <2>1, <2>2
<1>. QED BY <1>5, <1>6, <1>7, <1>9, <1>12, <1>13, Zenon

-----------------------------------------------------------------------------
(* std::stoi: Number, digit by digit.                                        *)

LEMMA DigitValues == Digits \in [DOMAIN Digits -> Nat] /\ Comma \notin DOMAIN Digits
<1>1. DOMAIN Digits = {"0", "1", "2", "3", "4", "5", "6", "7", "8", "9"}
  BY DEF Digits
<1>2. ASSUME NEW c \in DOMAIN Digits
      PROVE  Digits[c] \in {0, 1, 2, 3, 4, 5, 6, 7, 8, 9}
  BY DEF Digits
<1>3. {0, 1, 2, 3, 4, 5, 6, 7, 8, 9} \subseteq Nat
  OBVIOUS
<1>4. Digits = [c \in DOMAIN Digits |-> Digits[c]]
  BY DEF Digits
<1>5. Comma \notin DOMAIN Digits
  BY <1>1 DEF Comma
<1> HIDE DEF Digits
<1>. QED BY <1>2, <1>3, <1>4, <1>5

LEMMA DecimalSteps ==
  ASSUME NEW d \in Seq(DOMAIN Digits)
  PROVE  \E f : /\ f \in [0..Len(d) -> Nat]
                /\ Decimal(d) = f[Len(d)]
                /\ f[0] = 0
                /\ \A k \in 1..Len(d) : f[k] = 10 * f[k - 1] + Digits[d[k]]
<1> DEFINE More(n, c) == 10 * n + Digits[c]
           G == [x \in (1..Len(d)) \X Nat |-> More(x[2], d[x[1]])]
           IsIt(it) == it = [u \in SUBSET (DOMAIN d) |->
                               IF u = {} THEN 0 ELSE More(it[u \ {Max(u)}], d[Max(u)])]
           iter == CHOOSE it : IsIt(it)
<1>0. \A c \in DOMAIN Digits : \A n \in Nat : More(n, c) \in Nat
  BY DigitValues
<1>1. DOMAIN d = 1..Len(d) /\ Len(d) \in Nat /\ \A k \in 1..Len(d) : d[k] \in DOMAIN Digits
  OBVIOUS
<1>2. Decimal(d) = iter[DOMAIN d]
  BY DEF Decimal, FoldLeft, MapThenFoldSet
<1> HIDE DEF More
<1>3. G \in [(1..Len(d)) \X Nat -> Nat]
  BY <1>0, <1>1
<1>4. PICK it \in [SUBSET (1..Len(d)) -> Nat] : IsFold(it, Len(d), 0, G)
  <2>1. 0 \in Nat
    OBVIOUS
  <2> HIDE DEF G
  <2>. QED BY <1>1, <1>3, <2>1, FoldExists
<1>5. IsIt(it)
  <2>1. ASSUME NEW u \in SUBSET (1..Len(d)), u # {}
        PROVE  G[<<Max(u), it[u \ {Max(u)}]>>] = More(it[u \ {Max(u)}], d[Max(u)])
    <3>1. Max(u) \in 1..Len(d) /\ it[u \ {Max(u)}] \in Nat
      BY <1>1, <2>1, MaxOf
    <3>. QED BY <3>1
  <2>2. \A u \in SUBSET (1..Len(d)) :
          it[u] = IF u = {} THEN 0 ELSE More(it[u \ {Max(u)}], d[Max(u)])
    <3> HIDE DEF G
    <3>. QED BY <1>4, <2>1 DEF IsFold
  <2>. QED BY <1>1, <2>2
<1>6. IsIt(iter)
  <2> HIDE DEF IsIt
  <2>. QED BY <1>5
<1>7. ASSUME NEW k \in 1..Len(d)
      PROVE  iter[1..k] = More(iter[1..k - 1], d[k])
  <2>1. 1..k # {} /\ Max(1..k) = k /\ (1..k) \ {Max(1..k)} = 1..k - 1
    BY Prefix
  <2>2. 1..k \in SUBSET (DOMAIN d)
    BY <1>1
  <2> HIDE DEF iter
  <2>. QED BY <1>6, <2>1, <2>2
<1>8. iter[1..0] = 0
  <2>1. 1..0 = {}
    OBVIOUS
  <2> HIDE DEF iter
  <2>. QED BY <1>6, <2>1
<1> HIDE DEF iter
<1> DEFINE S == {k \in Nat : k <= Len(d) => iter[1..k] \in Nat}
<1>9. \A k \in Nat : k \in S
  <2>1. 0 \in S
    BY <1>8
  <2>2. ASSUME NEW k \in S
        PROVE  k + 1 \in S
    <3>1. k \in Nat /\ k + 1 \in Nat
      OBVIOUS
    <3> SUFFICES ASSUME k + 1 <= Len(d)
                 PROVE  iter[1..k + 1] \in Nat
      BY <3>1
    <3>2. k + 1 \in 1..Len(d) /\ (k + 1) - 1 = k /\ iter[1..k] \in Nat
      BY <1>1, <3>1
    <3>3. iter[1..k + 1] = More(iter[1..(k + 1) - 1], d[k + 1])
      BY <1>7, <3>2
    <3>4. d[k + 1] \in DOMAIN Digits
      BY <1>1, <3>2
    <3>5. More(iter[1..k], d[k + 1]) \in Nat
      BY <1>0, <3>2, <3>4, Zenon
    <3>. QED BY <3>2, <3>3, <3>5
  <2>3. S \in SUBSET Nat
    OBVIOUS
  <2> HIDE DEF S
  <2>. QED BY <2>1, <2>2, <2>3, Induct
<1>10. PICK f : f = [k \in 0..Len(d) |-> iter[1..k]]
  OBVIOUS
<1>11. f \in [0..Len(d) -> Nat]
  BY <1>9, <1>10
<1>12. f[0] = 0 /\ f[Len(d)] = Decimal(d)
  BY <1>1, <1>2, <1>8, <1>10
<1>13. ASSUME NEW k \in 1..Len(d)
       PROVE  f[k] = More(f[k - 1], d[k])
  <2>1. k \in 0..Len(d) /\ k - 1 \in 0..Len(d)
    BY <1>1
  <2>. QED BY <1>7, <1>10, <2>1
<1>. QED BY <1>11, <1>12, <1>13, Zenon DEF More

\* The characters a number is told apart by.
LEMMA CharsApart ==
  /\ \A c \in Spaces : c \notin Signs /\ c \notin DOMAIN Digits
  /\ \A c \in Signs : c \notin DOMAIN Digits
  /\ Comma \notin Spaces /\ Comma \notin Signs /\ "-" \in Signs
<1>1. DOMAIN Digits = {"0", "1", "2", "3", "4", "5", "6", "7", "8", "9"}
  BY DEF Digits
<1> HIDE DEF Digits
<1>. QED BY <1>1 DEF Spaces, Signs, Comma

\* Past stops at the first other character.
LEMMA PastIs ==
  ASSUME NEW p \in Seq(STRING), NEW from \in 1 .. Len(p) + 1, NEW chars
  PROVE  /\ Past(p, from, chars) \in from .. Len(p) + 1
         /\ \A i \in from .. Past(p, from, chars) - 1 : p[i] \in chars
         /\ Past(p, from, chars) <= Len(p) => p[Past(p, from, chars)] \notin chars
<1>1. PICK l \in Nat : l = Len(p)
  OBVIOUS
<1>2. PICK S \in SUBSET Nat : S = {i \in from .. l + 1 : i = l + 1 \/ p[i] \notin chars}
  <2>1. {i \in from .. l + 1 : i = l + 1 \/ p[i] \notin chars} \in SUBSET Nat
    BY <1>1
  <2>. QED BY <2>1
<1>3. l + 1 \in S
  BY <1>1, <1>2
<1>4. PICK to \in S : \A i \in S : to <= i
  BY <1>3, Smallest
<1>5. to \in from .. l + 1 /\ (to <= l => p[to] \notin chars)
  BY <1>1, <1>2, <1>4
<1>6. ASSUME NEW i \in from .. to - 1
      PROVE  p[i] \in chars
  <2>1. i \in from .. l + 1 /\ ~(to <= i)
    BY <1>1, <1>5
  <2>. QED BY <1>2, <1>4, <2>1, Zenon
<1>7. \E x \in from .. Len(p) + 1 :
        /\ \A i \in from .. x - 1 : p[i] \in chars
        /\ x <= Len(p) => p[x] \notin chars
  BY <1>1, <1>5, <1>6, Zenon
<1>. QED BY <1>7, Zenon DEF Past

\* What Number has found: where white space ends, where digits begin and end.
Found(p, start, first, after) ==
  /\ start \in 1 .. Len(p) + 1 /\ first \in 1 .. Len(p) + 1 /\ after \in first .. Len(p) + 1
  /\ \A i \in 1 .. start - 1 : p[i] \in Spaces
  /\ start <= Len(p) => p[start] \notin Spaces
  /\ first = IF start <= Len(p) /\ p[start] \in Signs THEN start + 1 ELSE start
  /\ \A i \in first .. after - 1 : p[i] \in DOMAIN Digits
  /\ after <= Len(p) => p[after] \notin DOMAIN Digits

LEMMA NumberIs ==
  ASSUME NEW p \in Seq(STRING)
  PROVE  \E start, first, after :
           /\ Found(p, start, first, after)
           /\ Number(p).value \in Int
           /\ Number(p).ok = (first < after /\ Number(p).value \in Ints)
           /\ Number(p).value =
                IF start < first /\ p[start] = "-" THEN -Decimal(SubSeq(p, first, after - 1))
                ELSE Decimal(SubSeq(p, first, after - 1))
<1>1. PICK l \in Nat : l = Len(p)
  OBVIOUS
<1>2. PICK start : start = Past(p, 1, Spaces)
  OBVIOUS
<1>3. /\ start \in 1 .. l + 1
      /\ \A i \in 1 .. start - 1 : p[i] \in Spaces
      /\ start <= l => p[start] \notin Spaces
  <2>1. PICK one \in 1 .. l + 1 : one = 1
    BY <1>1
  <2>. QED BY <1>1, <1>2, <2>1, PastIs
<1>4. PICK first : first = IF start <= l /\ p[start] \in Signs THEN start + 1 ELSE start
  OBVIOUS
<1>5. first \in 1 .. l + 1
  BY <1>1, <1>3, <1>4
<1>6. PICK after : after = Past(p, first, DOMAIN Digits)
  OBVIOUS
<1>7. /\ after \in first .. l + 1
      /\ \A i \in first .. after - 1 : p[i] \in DOMAIN Digits
      /\ after <= l => p[after] \notin DOMAIN Digits
  BY <1>1, <1>5, <1>6, PastIs
<1>8. PICK size \in Nat : size = Decimal(SubSeq(p, first, after - 1))
  <2>1. first \in Int /\ after - 1 \in Int
    BY <1>1, <1>5, <1>7
  <2>2. SubSeq(p, first, after - 1) \in Seq(DOMAIN Digits)
    BY <1>7, <2>1, SubSeqProperties
  <2>3. PICK f : f \in [0..Len(SubSeq(p, first, after - 1)) -> Nat]
                 /\ Decimal(SubSeq(p, first, after - 1)) = f[Len(SubSeq(p, first, after - 1))]
    BY <2>2, DecimalSteps
  <2>4. Len(SubSeq(p, first, after - 1)) \in 0..Len(SubSeq(p, first, after - 1))
    <3>1. PICK k \in Nat : k = Len(SubSeq(p, first, after - 1))
      BY <2>2, LenProperties
    <3>2. k \in 0..k
      OBVIOUS
    <3>. QED BY <3>1, <3>2
  <2>. QED BY <2>3, <2>4
<1>9. PICK minus \in BOOLEAN : minus = (start < first /\ p[start] = "-")
  OBVIOUS
<1>10. minus <=> (start <= l /\ p[start] \in Signs) /\ p[start] = "-"
  <2>1. start < first <=> start <= l /\ p[start] \in Signs
    BY <1>3, <1>4
  <2>. QED BY <1>9, <2>1
<1>11. PICK value \in Int : value = IF minus THEN -size ELSE size
  BY <1>8
<1>12. Number(p) = [ok |-> first < after /\ value \in Ints, value |-> value]
  <2>1. Number(p) = LET x == IF (start <= l /\ p[start] \in Signs) /\ p[start] = "-"
                             THEN -size ELSE size
                    IN  [ok |-> first < after /\ x \in Ints, value |-> x]
    BY <1>1, <1>2, <1>4, <1>6, <1>8, Zenon DEF Number
  <2>. QED BY <1>10, <1>11, <2>1, Zenon
<1>13. Number(p).ok = (first < after /\ value \in Ints) /\ Number(p).value = value
  BY <1>12
<1>14. Found(p, start, first, after)
  BY <1>1, <1>3, <1>4, <1>5, <1>7, Zenon DEF Found
<1>15. Number(p).value = IF start < first /\ p[start] = "-"
                         THEN -Decimal(SubSeq(p, first, after - 1))
                         ELSE Decimal(SubSeq(p, first, after - 1))
  BY <1>8, <1>9, <1>11, <1>13, Zenon
<1>. QED BY <1>11, <1>13, <1>14, <1>15, Zenon

-----------------------------------------------------------------------------
(* The numbers of a list.                                                    *)

\* Where a piece begins, one begins that ends.
LEMMA PieceFrom ==
  ASSUME NEW s \in Seq(STRING), NEW b \in 1 .. Len(s) + 1, b = 1 \/ s[b - 1] = Comma
  PROVE  \E e \in 0..Len(s) : b \in 1 .. e + 1 /\ IsPiece(s, b, e) /\ Ends(s, e)
<1>1. PICK l \in Nat : l = Len(s)
  OBVIOUS
<1>2. PICK S \in SUBSET Nat : S = {i \in b..l : s[i] = Comma}
  <2>1. {i \in b..l : s[i] = Comma} \in SUBSET Nat
    BY <1>1
  <2>. QED BY <2>1
<1>3. CASE S = {}
  <2>1. l \in 0..l /\ b \in 1 .. l + 1
    BY <1>1
  <2>2. IsPiece(s, b, l)
    BY <1>2, <1>3 DEF IsPiece
  <2>. QED BY <1>1, <2>1, <2>2, Zenon DEF Ends
<1>4. CASE S # {}
  <2>1. PICK c \in S : \A i \in S : c <= i
    BY <1>4, Smallest
  <2>2. c \in b..l /\ s[c] = Comma
    BY <1>2, <2>1
  <2>3. PICK e : e = c - 1 /\ e + 1 = c
    BY <2>2
  <2>4. e \in 0..l /\ b \in 1 .. e + 1
    BY <1>1, <2>2, <2>3
  <2>5. ASSUME NEW i \in b..e
        PROVE  s[i] # Comma
    <3>1. i \in b..l /\ ~(c <= i)
      BY <1>1, <2>2, <2>3
    <3>. QED BY <1>2, <2>1, <3>1
  <2>6. IsPiece(s, b, e) /\ Ends(s, e)
    BY <2>2, <2>3, <2>5, Zenon DEF IsPiece, Ends
  <2>. QED BY <1>1, <2>4, <2>6
<1>. QED BY <1>3, <1>4

\* Digits that only white space and a sign precede begin where Number says.
LEMMA RunBegins ==
  ASSUME NEW p \in Seq(STRING), NEW start, NEW first, NEW after, Found(p, start, first, after),
         NEW c \in 1..Len(p), p[c] \in DOMAIN Digits,
         \A i \in 1 .. c - 1 : p[i] \in Spaces \/ (i = c - 1 /\ p[i] \in Signs)
  PROVE  c = first
<1>1. PICK l \in Nat : l = Len(p)
  OBVIOUS
<1>2. /\ start \in 1 .. l + 1
      /\ \A i \in 1 .. start - 1 : p[i] \in Spaces
      /\ start <= l => p[start] \notin Spaces
      /\ first = IF start <= l /\ p[start] \in Signs THEN start + 1 ELSE start
  BY <1>1, Zenon DEF Found
<1>3. p[c] \notin Spaces /\ p[c] \notin Signs
  BY CharsApart
<1>4. c \in 1..l
  BY <1>1
<1>5. start <= c
  <2> SUFFICES ASSUME ~(start <= c)
               PROVE  FALSE
    OBVIOUS
  <2>1. c \in 1 .. start - 1
    BY <1>2, <1>4
  <2>. QED BY <1>2, <1>3, <2>1, Zenon
<1>6. CASE start = c
  BY <1>2, <1>3, <1>6
<1>7. CASE start < c
  <2>1. start \in 1 .. c - 1 /\ start <= l
    BY <1>2, <1>4, <1>7
  <2>2. start = c - 1 /\ p[start] \in Signs
    BY <1>2, <2>1, Zenon
  <2>. QED BY <1>2, <1>4, <2>1, <2>2
<1>. QED BY <1>2, <1>4, <1>5, <1>6, <1>7

\* And they end where it says.
LEMMA RunIs ==
  ASSUME NEW p \in Seq(STRING), NEW start, NEW first, NEW after, Found(p, start, first, after)
  PROVE  \A run : run \in DigitRuns(p, 1) <=> first < after /\ run = <<first, after - 1>>
<1>1. PICK l \in Nat : l = Len(p) /\ DOMAIN p = 1..l
  OBVIOUS
<1>2. /\ start \in 1 .. l + 1 /\ first \in 1 .. l + 1 /\ after \in first .. l + 1
      /\ \A i \in 1 .. start - 1 : p[i] \in Spaces
      /\ first = IF start <= l /\ p[start] \in Signs THEN start + 1 ELSE start
      /\ \A i \in first .. after - 1 : p[i] \in DOMAIN Digits
      /\ after <= l => p[after] \notin DOMAIN Digits
  BY <1>1, Zenon DEF Found
<1>3. ASSUME NEW c, NEW d
      PROVE  <<c, d>> \in DigitRuns(p, 1)
               <=> /\ c \in 1..l /\ d \in 1..l
                   /\ 1 <= c /\ c <= d
                   /\ \A i \in c..d : p[i] \in DOMAIN Digits
                   /\ d + 1 \in 1..l => p[d + 1] \notin DOMAIN Digits
                   /\ \A i \in 1 .. c - 1 : p[i] \in Spaces \/ (i = c - 1 /\ p[i] \in Signs)
  <2>1. <<c, d>>[1] = c /\ <<c, d>>[2] = d
    OBVIOUS
  <2>. QED BY <1>1, <2>1, Zenon DEF DigitRuns
<1>4. ASSUME first < after
      PROVE  <<first, after - 1>> \in DigitRuns(p, 1)
  <2>1. /\ first \in 1..l /\ after - 1 \in 1..l /\ 1 <= first /\ first <= after - 1
        /\ (after - 1) + 1 = after /\ (after \in 1..l => after <= l)
    BY <1>2, <1>4
  <2>2. ASSUME NEW i \in 1 .. first - 1
        PROVE  p[i] \in Spaces \/ (i = first - 1 /\ p[i] \in Signs)
    <3>1. i \in 1 .. start - 1 \/ (i = start /\ i = first - 1 /\ p[start] \in Signs)
      BY <1>2
    <3>. QED BY <1>2, <3>1
  <2>3. (after - 1) + 1 \in 1..l => p[(after - 1) + 1] \notin DOMAIN Digits
    BY <1>2, <2>1
  <2>. QED BY <1>2, <1>3, <2>1, <2>2, <2>3, Zenon
<1>5. ASSUME NEW run \in DigitRuns(p, 1)
      PROVE  first < after /\ run = <<first, after - 1>>
  <2>1. PICK c \in 1..l, d \in 1..l : run = <<c, d>>
    BY <1>1 DEF DigitRuns
  <2>2. /\ c <= d
        /\ \A i \in c..d : p[i] \in DOMAIN Digits
        /\ d + 1 \in 1..l => p[d + 1] \notin DOMAIN Digits
        /\ \A i \in 1 .. c - 1 : p[i] \in Spaces \/ (i = c - 1 /\ p[i] \in Signs)
    BY <1>3, <1>5, <2>1, Zenon
  <2>3. c \in 1..Len(p) /\ c \in c..d
    BY <1>1, <2>1, <2>2
  <2>4. c = first
    BY <2>2, <2>3, RunBegins
  <2>5. ~(d >= after)
    <3> SUFFICES ASSUME d >= after
                 PROVE  FALSE
      OBVIOUS
    <3>1. after \in c..d /\ after <= l
      BY <1>2, <2>1, <2>4
    <3>. QED BY <1>2, <2>2, <3>1, Zenon
  <2>6. ~(d < after - 1)
    <3> SUFFICES ASSUME d < after - 1
                 PROVE  FALSE
      OBVIOUS
    <3>1. d + 1 \in first .. after - 1 /\ d + 1 \in 1..l
      BY <1>2, <2>1, <2>2, <2>4
    <3>. QED BY <1>2, <2>2, <3>1, Zenon
  <2>7. d = after - 1 /\ first < after
    BY <1>2, <2>1, <2>2, <2>4, <2>5, <2>6
  <2>. QED BY <2>1, <2>4, <2>7
<1>. QED BY <1>4, <1>5, Zenon

\* Number accepts a text exactly when it begins with a number an int holds, and
\* then it is that number.
LEMMA NumberAtStart ==
  ASSUME NEW p \in Seq(STRING)
  PROVE  /\ NumbersAt(p, 1) = IF Number(p).ok THEN {Number(p).value} ELSE {}
         /\ Number(p).value \in Int
<1>1. PICK start, first, after :
        /\ Found(p, start, first, after)
        /\ Number(p).value \in Int
        /\ Number(p).ok = (first < after /\ Number(p).value \in Ints)
        /\ Number(p).value =
             IF start < first /\ p[start] = "-" THEN -Decimal(SubSeq(p, first, after - 1))
             ELSE Decimal(SubSeq(p, first, after - 1))
  BY NumberIs
<1>2. PICK run : run = <<first, after - 1>>
  OBVIOUS
<1>3. \A r : r \in DigitRuns(p, 1) <=> first < after /\ r = run
  BY <1>1, <1>2, RunIs
<1>4. (1 < first /\ p[first - 1] = "-") <=> (start < first /\ p[start] = "-")
  <2>1. PICK l \in Nat : l = Len(p)
    OBVIOUS
  <2>2. /\ start \in 1 .. l + 1
        /\ \A i \in 1 .. start - 1 : p[i] \in Spaces
        /\ first = IF start <= l /\ p[start] \in Signs THEN start + 1 ELSE start
    BY <1>1, <2>1, Zenon DEF Found
  <2>3. CASE first = start + 1
    <3>1. 1 < first /\ first - 1 = start /\ start < first
      BY <2>2, <2>3
    <3>. QED BY <3>1
  <2>4. CASE first = start
    <3>1. 1 < first => first - 1 \in 1 .. start - 1
      BY <2>2, <2>4
    <3>2. 1 < first => p[first - 1] # "-"
      BY <2>2, <3>1, CharsApart, Zenon
    <3>3. ~(start < first)
      BY <2>2, <2>4
    <3>. QED BY <3>2, <3>3
  <2>. QED BY <2>2, <2>3, <2>4
<1>5. Written(p, 1, run) = Number(p).value
  <2>1. run[1] = first /\ run[2] = after - 1
    BY <1>2
  <2>. QED BY <1>1, <1>4, <2>1, Zenon DEF Written
<1>6. ASSUME NEW x
      PROVE  x \in NumbersAt(p, 1) <=> Number(p).ok /\ x = Number(p).value
  <2>1. x \in NumbersAt(p, 1)
          <=> (\E r \in DigitRuns(p, 1) : x = Written(p, 1, r)) /\ x \in Ints
    BY Zenon DEF NumbersAt
  <2>. QED BY <1>1, <1>3, <1>5, <2>1, Zenon
<1>. QED BY <1>1, <1>6, Zenon

\* A piece has the runs of digits that its list has there.
LEMMA RunsOfPiece ==
  ASSUME NEW s \in Seq(STRING), NEW e \in 0..Len(s), NEW b \in 1 .. e + 1,
         IsPiece(s, b, e), Ends(s, e),
         NEW k \in Nat, k = e - b + 1,
         NEW p \in Seq(STRING), Len(p) = k, \A i \in 1..k : p[i] = s[b + i - 1]
  PROVE  /\ \A c, d : <<c, d>> \in DigitRuns(p, 1) => <<b + c - 1, b + d - 1>> \in DigitRuns(s, b)
         /\ \A c, d : <<c, d>> \in DigitRuns(s, b) =>
              <<c - b + 1, d - b + 1>> \in DigitRuns(p, 1)
<1>1. PICK l \in Nat : l = Len(s) /\ DOMAIN s = 1..l
  OBVIOUS
<1>2. e \in 0..l /\ b \in 1 .. e + 1 /\ DOMAIN p = 1..k
  BY <1>1
<1>3. ASSUME NEW q, NEW from, NEW c, NEW d
      PROVE  <<c, d>> \in DigitRuns(q, from)
               <=> /\ c \in DOMAIN q /\ d \in DOMAIN q
                   /\ from <= c /\ c <= d
                   /\ \A i \in c..d : q[i] \in DOMAIN Digits
                   /\ d + 1 \in DOMAIN q => q[d + 1] \notin DOMAIN Digits
                   /\ \A i \in from .. c - 1 : q[i] \in Spaces \/ (i = c - 1 /\ q[i] \in Signs)
  <2>1. <<c, d>>[1] = c /\ <<c, d>>[2] = d
    OBVIOUS
  <2>. QED BY <2>1, Zenon DEF DigitRuns
<1>4. Comma \notin DOMAIN Digits /\ Comma \notin Spaces /\ Comma \notin Signs
  BY DigitValues, CharsApart
<1>5. e + 1 \in 1..l => s[e + 1] = Comma
  BY <1>1, <1>2 DEF Ends
<1>6. ASSUME NEW i \in b..e
      PROVE  i - b + 1 \in 1..k /\ s[i] = p[i - b + 1]
  <2>1. i - b + 1 \in 1..k /\ b + (i - b + 1) - 1 = i
    BY <1>2
  <2>. QED BY <2>1
<1>7. ASSUME NEW c, NEW d, <<c, d>> \in DigitRuns(p, 1)
      PROVE  <<b + c - 1, b + d - 1>> \in DigitRuns(s, b)
  <2>1. /\ c \in 1..k /\ d \in 1..k /\ c <= d
        /\ \A i \in c..d : p[i] \in DOMAIN Digits
        /\ d + 1 \in 1..k => p[d + 1] \notin DOMAIN Digits
        /\ \A i \in 1 .. c - 1 : p[i] \in Spaces \/ (i = c - 1 /\ p[i] \in Signs)
    BY <1>2, <1>3, <1>7, Zenon
  <2>2. PICK x \in b..e, y \in b..e : x = b + c - 1 /\ y = b + d - 1
    BY <1>2, <2>1
  <2>3. x \in 1..l /\ y \in 1..l /\ b <= x /\ x <= y
    BY <1>2, <2>1, <2>2
  <2>4. ASSUME NEW i \in x..y
        PROVE  s[i] \in DOMAIN Digits
    <3>1. i \in b..e /\ i - b + 1 \in c..d
      BY <1>2, <2>1, <2>2
    <3>. QED BY <1>6, <2>1, <3>1
  <2>5. y + 1 \in 1..l => s[y + 1] \notin DOMAIN Digits
    <3> SUFFICES ASSUME y + 1 \in 1..l
                 PROVE  s[y + 1] \notin DOMAIN Digits
      OBVIOUS
    <3>1. CASE y = e
      BY <1>4, <1>5, <3>1
    <3>2. CASE y # e
      <4>1. y + 1 \in b..e /\ (y + 1) - b + 1 = d + 1
        BY <1>2, <2>1, <2>2, <3>2
      <4>. QED BY <1>6, <2>1, <4>1
    <3>. QED BY <3>1, <3>2
  <2>6. ASSUME NEW i \in b .. x - 1
        PROVE  s[i] \in Spaces \/ (i = x - 1 /\ s[i] \in Signs)
    <3>1. i \in b..e /\ i - b + 1 \in 1 .. c - 1 /\ (i - b + 1 = c - 1 => i = x - 1)
      BY <1>2, <2>1, <2>2
    <3>2. s[i] = p[i - b + 1]
      BY <1>6, <3>1
    <3>. QED BY <2>1, <3>1, <3>2
  <2>7. <<x, y>> \in DigitRuns(s, b)
    BY <1>1, <1>3, <2>3, <2>4, <2>5, <2>6, Zenon
  <2>. QED BY <2>2, <2>7
<1>8. ASSUME NEW c, NEW d, <<c, d>> \in DigitRuns(s, b)
      PROVE  <<c - b + 1, d - b + 1>> \in DigitRuns(p, 1)
  <2>1. /\ c \in 1..l /\ d \in 1..l /\ b <= c /\ c <= d
        /\ \A i \in c..d : s[i] \in DOMAIN Digits
        /\ d + 1 \in 1..l => s[d + 1] \notin DOMAIN Digits
        /\ \A i \in b .. c - 1 : s[i] \in Spaces \/ (i = c - 1 /\ s[i] \in Signs)
    BY <1>1, <1>3, <1>8, Zenon
  <2>2. d <= e
    <3> SUFFICES ASSUME ~(d <= e)
                 PROVE  FALSE
      OBVIOUS
    <3>1. e + 1 \in 1..l /\ (e + 1 \in c..d \/ e + 1 \in b .. c - 1)
      BY <1>2, <2>1
    <3>. QED BY <1>4, <1>5, <2>1, <3>1
  <2>3. PICK x \in 1..k, y \in 1..k : x = c - b + 1 /\ y = d - b + 1
    BY <1>2, <2>1, <2>2
  <2>4. 1 <= x /\ x <= y
    BY <1>2, <2>1, <2>3
  <2>5. ASSUME NEW i \in 1..k
        PROVE  p[i] = s[b + i - 1]
    OBVIOUS
  <2>6. ASSUME NEW i \in x..y
        PROVE  p[i] \in DOMAIN Digits
    <3>1. i \in 1..k /\ b + i - 1 \in c..d
      BY <1>2, <2>1, <2>2, <2>3
    <3>. QED BY <2>1, <2>5, <3>1
  <2>7. y + 1 \in 1..k => p[y + 1] \notin DOMAIN Digits
    <3> SUFFICES ASSUME y + 1 \in 1..k
                 PROVE  p[y + 1] \notin DOMAIN Digits
      OBVIOUS
    <3>1. b + (y + 1) - 1 = d + 1 /\ d + 1 \in 1..l
      BY <1>2, <2>1, <2>3
    <3>. QED BY <2>1, <2>5, <3>1
  <2>8. ASSUME NEW i \in 1 .. x - 1
        PROVE  p[i] \in Spaces \/ (i = x - 1 /\ p[i] \in Signs)
    <3>1. i \in 1..k /\ b + i - 1 \in b .. c - 1 /\ (b + i - 1 = c - 1 => i = x - 1)
      BY <1>2, <2>1, <2>2, <2>3
    <3>2. p[i] = s[b + i - 1]
      BY <2>5, <3>1
    <3>. QED BY <2>1, <3>1, <3>2
  <2>9. <<x, y>> \in DigitRuns(p, 1)
    <3>1. DOMAIN p = 1..k /\ x \in 1..k /\ y \in 1..k
      BY <1>2
    <3>2. /\ \A i \in x..y : p[i] \in DOMAIN Digits
          /\ \A i \in 1 .. x - 1 : p[i] \in Spaces \/ (i = x - 1 /\ p[i] \in Signs)
      BY <2>6, <2>8, Zenon
    <3>. QED BY <1>3, <2>4, <2>7, <3>1, <3>2, Zenon
  <2>. QED BY <2>3, <2>9
<1>. QED BY <1>7, <1>8

\* What is written where a piece begins is what the piece begins with.
LEMMA NumbersOfPiece ==
  ASSUME NEW s \in Seq(STRING), NEW e \in 0..Len(s), NEW b \in 1 .. e + 1,
         IsPiece(s, b, e), Ends(s, e)
  PROVE  NumbersAt(s, b) = NumbersAt(SubSeq(s, b, e), 1)
<1>1. PICK l \in Nat : l = Len(s) /\ DOMAIN s = 1..l
  OBVIOUS
<1>2. PICK k \in Nat : k = e - b + 1 /\ e \in Nat /\ b \in Nat
  BY <1>1
<1>3. b \in Int /\ e \in Int /\ \A i \in b..e : s[i] \in STRING
  BY <1>1
<1>4. PICK p \in Seq(STRING) : p = SubSeq(s, b, e)
  BY <1>3, SubSeqProperties
<1>5. Len(p) = k
  <2>1. Len(SubSeq(s, b, e)) = IF b <= e THEN e - b + 1 ELSE 0
    BY <1>3, SubSeqProperties
  <2>2. b <= e \/ e - b + 1 = 0
    BY <1>2
  <2>. QED BY <1>2, <1>4, <2>1, <2>2
<1>6. \A i \in 1..k : p[i] = s[b + i - 1]
  BY <1>2, <1>3, <1>4, SubSeqProperties
<1>7. /\ \A c, d : <<c, d>> \in DigitRuns(p, 1) => <<b + c - 1, b + d - 1>> \in DigitRuns(s, b)
      /\ \A c, d : <<c, d>> \in DigitRuns(s, b) =>
           <<c - b + 1, d - b + 1>> \in DigitRuns(p, 1)
  BY <1>2, <1>5, <1>6, RunsOfPiece
<1>8. ASSUME NEW c \in 1..k, NEW d \in 1..k, c <= d
      PROVE  Written(s, b, <<b + c - 1, b + d - 1>>) = Written(p, 1, <<c, d>>)
  <2>1. SubSeq(p, c, d) = SubSeq(s, b + c - 1, b + d - 1)
    <3>1. b \in 1..Len(s) /\ e \in 1..Len(s) /\ c \in 1 .. e - b + 1 /\ d \in 1 .. e - b + 1
      BY <1>1, <1>2
    <3>. QED BY <1>4, <3>1, SubSeqOfSubSeq
  <2>2. b < b + c - 1 <=> 1 < c
    BY <1>2
  <2>3. 1 < c => s[(b + c - 1) - 1] = p[c - 1]
    <3> SUFFICES ASSUME 1 < c
                 PROVE  s[(b + c - 1) - 1] = p[c - 1]
      OBVIOUS
    <3>1. c - 1 \in 1..k /\ b + (c - 1) - 1 = (b + c - 1) - 1
      BY <1>2
    <3>. QED BY <1>6, <3>1
  <2>4. PICK x, y : x = b + c - 1 /\ y = b + d - 1
    OBVIOUS
  <2>5. /\ <<x, y>>[1] = x /\ <<x, y>>[2] = y
        /\ <<c, d>>[1] = c /\ <<c, d>>[2] = d
    OBVIOUS
  <2>. QED BY <2>1, <2>2, <2>3, <2>4, <2>5, Zenon DEF Written
<1>9. ASSUME NEW q, NEW from, NEW x
      PROVE  x \in NumbersAt(q, from)
               <=> (\E r \in DigitRuns(q, from) : x = Written(q, from, r)) /\ x \in Ints
  BY Zenon DEF NumbersAt
<1>10. ASSUME NEW x, x \in NumbersAt(p, 1)
       PROVE  x \in NumbersAt(s, b)
  <2>1. PICK r \in DigitRuns(p, 1) : x = Written(p, 1, r)
    BY <1>9, <1>10
  <2>2. PICK c \in 1..k, d \in 1..k : r = <<c, d>> /\ c <= d
    BY <1>5, <2>1 DEF DigitRuns
  <2>3. PICK q : q = <<b + c - 1, b + d - 1>>
    OBVIOUS
  <2>4. q \in DigitRuns(s, b) /\ Written(s, b, q) = x
    BY <1>7, <1>8, <2>1, <2>2, <2>3
  <2>. QED BY <1>9, <1>10, <2>4, Zenon
<1>11. ASSUME NEW x, x \in NumbersAt(s, b)
       PROVE  x \in NumbersAt(p, 1)
  <2>1. PICK r \in DigitRuns(s, b) : x = Written(s, b, r)
    BY <1>9, <1>11
  <2>2. PICK v \in 1..l, w \in 1..l : r = <<v, w>>
    BY <1>1, <2>1 DEF DigitRuns
  <2>3. PICK c, d : c = v - b + 1 /\ d = w - b + 1
    OBVIOUS
  <2>4. <<c, d>> \in DigitRuns(p, 1)
    BY <1>7, <2>1, <2>2, <2>3, Zenon
  <2>5. c \in 1..k /\ d \in 1..k /\ c <= d
    BY <1>5, <2>4 DEF DigitRuns
  <2>6. v = b + c - 1 /\ w = b + d - 1
    BY <1>2, <2>2, <2>3
  <2>. QED BY <1>8, <1>9, <1>11, <2>1, <2>2, <2>4, <2>5, <2>6, Zenon
<1>. QED BY <1>4, <1>10, <1>11, Zenon

\* The ports a sequence of pieces gives.
Ports(ps) ==
  {Number(ps[i]).value % PortValues : i \in {j \in DOMAIN ps : Number(ps[j]).ok}}

\* The ports of a list are those of the numbers written in it.
PortsIn(s) == UNION {{n % PortValues : n \in NumbersAt(s, from)} : from \in Starts(s)}

LEMMA PortsOfSplit ==
  ASSUME NEW s \in Seq(STRING)
  PROVE  Ports(Split(s)) = PortsIn(s)
<1>1. PICK cut : cut = Split(s)
  OBVIOUS
<1>2. ASSUME NEW e \in 0..Len(s), NEW b \in 1 .. e + 1, IsPiece(s, b, e), Ends(s, e)
      PROVE  \A x : x \in NumbersAt(s, b) <=> /\ Number(SubSeq(s, b, e)).ok
                                              /\ x = Number(SubSeq(s, b, e)).value
  <2>1. NumbersAt(s, b) = NumbersAt(SubSeq(s, b, e), 1)
    BY <1>2, NumbersOfPiece
  <2>2. SubSeq(s, b, e) \in Seq(STRING)
    <3>1. b \in Int /\ e \in Int /\ \A i \in b..e : s[i] \in STRING
      OBVIOUS
    <3>. QED BY <3>1, SubSeqProperties
  <2>. QED BY <2>1, <2>2, NumberAtStart, Zenon
<1>3. ASSUME NEW b
      PROVE  b \in Starts(s) <=> b \in 1 .. Len(s) + 1 /\ (b = 1 \/ s[b - 1] = Comma)
  <2>1. PICK l \in Nat : l = Len(s) /\ DOMAIN s = 1..l
    OBVIOUS
  <2>2. b \in Starts(s) <=> b = 1 \/ \E i \in 1..l : s[i] = Comma /\ b = i + 1
    BY <2>1 DEF Starts, Positions
  <2>3. ASSUME NEW i \in 1..l, b = i + 1
        PROVE  b \in 1 .. l + 1 /\ b - 1 = i
    BY <2>3
  <2>4. ASSUME b \in 1 .. l + 1, b # 1
        PROVE  b - 1 \in 1..l /\ b = (b - 1) + 1
    BY <2>4
  <2>5. 1 \in 1 .. l + 1
    BY <2>1
  <2>. QED BY <2>1, <2>2, <2>3, <2>4, <2>5, Zenon
<1>4. ASSUME NEW x
      PROVE  /\ x \in Ports(cut)
                  <=> \E i \in DOMAIN cut : Number(cut[i]).ok /\ x = Number(cut[i]).value % PortValues
             /\ x \in PortsIn(s)
                  <=> \E from \in Starts(s) : \E n \in NumbersAt(s, from) : x = n % PortValues
  <2>1. PICK P : P = [from \in Starts(s) |-> {n % PortValues : n \in NumbersAt(s, from)}]
    OBVIOUS
  <2>2. x \in PortsIn(s) <=> \E from \in Starts(s) : x \in P[from]
    BY <2>1 DEF PortsIn
  <2>3. \A from \in Starts(s) : x \in P[from] <=> \E n \in NumbersAt(s, from) : x = n % PortValues
    BY <2>1
  <2>. QED BY <2>2, <2>3, Zenon DEF Ports
<1>5. ASSUME NEW x, x \in Ports(cut)
      PROVE  x \in PortsIn(s)
  <2>1. PICK i \in DOMAIN cut : Number(cut[i]).ok /\ x = Number(cut[i]).value % PortValues
    BY <1>4, <1>5
  <2>2. PICK e \in 0..Len(s) : \E b \in 1 .. e + 1 :
          IsPiece(s, b, e) /\ Ends(s, e) /\ cut[i] = SubSeq(s, b, e)
    BY <1>1, SplitPieces, Zenon
  <2>3. PICK b \in 1 .. e + 1 : IsPiece(s, b, e) /\ Ends(s, e) /\ cut[i] = SubSeq(s, b, e)
    BY <2>2
  <2>4. b \in 1 .. Len(s) + 1 /\ (b = 1 \/ s[b - 1] = Comma)
    BY <2>3 DEF IsPiece
  <2>5. Number(cut[i]).value \in NumbersAt(s, b)
    BY <1>2, <2>1, <2>3, Zenon
  <2>. QED BY <1>3, <1>4, <2>1, <2>4, <2>5, Zenon
<1>6. ASSUME NEW x, x \in PortsIn(s)
      PROVE  x \in Ports(cut)
  <2>1. PICK b \in Starts(s) : \E n \in NumbersAt(s, b) : x = n % PortValues
    BY <1>4, <1>6
  <2>2. PICK n \in NumbersAt(s, b) : x = n % PortValues
    BY <2>1
  <2>3. b \in 1 .. Len(s) + 1 /\ (b = 1 \/ s[b - 1] = Comma)
    BY <1>3
  <2>4. PICK e \in 0..Len(s) : b \in 1 .. e + 1 /\ IsPiece(s, b, e) /\ Ends(s, e)
    BY <2>3, PieceFrom, Zenon
  <2>5. PICK i \in DOMAIN cut : cut[i] = SubSeq(s, b, e)
    BY <1>1, <2>4, SplitPieces, Zenon
  <2>. QED BY <1>2, <1>4, <2>2, <2>4, <2>5, Zenon
<1>. QED BY <1>1, <1>5, <1>6, Zenon

\* The first piece and the others.
PortOf(piece) == IF Number(piece).ok THEN {Number(piece).value % PortValues} ELSE {}

LEMMA PortsOfTail ==
  ASSUME NEW ps \in Seq(Seq(STRING)), ps # <<>>
  PROVE  Ports(ps) = PortOf(Head(ps)) \cup Ports(Tail(ps))
<1>1. PICK rest \in Seq(Seq(STRING)) : rest = Tail(ps)
  <2>1. Tail(ps) \in Seq(Seq(STRING))
    OBVIOUS
  <2>. QED BY <2>1
<1>2. PICK n \in Nat : Len(ps) = n + 1 /\ DOMAIN ps = 1 .. n + 1
  <2>1. Len(ps) \in Nat \ {0} /\ DOMAIN ps = 1..Len(ps)
    BY EmptySeq, LenProperties
  <2>2. Len(ps) - 1 \in Nat /\ Len(ps) = (Len(ps) - 1) + 1
    BY <2>1
  <2>. QED BY <2>1, <2>2
<1>3. DOMAIN rest = 1..n /\ \A i \in 1..n : rest[i] = ps[i + 1]
  BY <1>1, <1>2
<1>4. Head(ps) = ps[1]
  OBVIOUS
<1>5. 1 \in 1 .. n + 1 /\ (\A i \in 1..n : i + 1 \in 1 .. n + 1)
        /\ \A i \in 1 .. n + 1 : i = 1 \/ \E j \in 1..n : i = j + 1
  <2>1. ASSUME NEW i \in 1 .. n + 1, i # 1
        PROVE  i - 1 \in 1..n /\ i = (i - 1) + 1
    BY <2>1
  <2>. QED BY <2>1
<1>6. ASSUME NEW x
      PROVE  x \in Ports(ps) <=> x \in PortOf(ps[1]) \/ x \in Ports(rest)
  <2>1. x \in Ports(ps)
          <=> \E i \in 1 .. n + 1 : Number(ps[i]).ok /\ x = Number(ps[i]).value % PortValues
    BY <1>2, Zenon DEF Ports
  <2>2. x \in Ports(rest)
          <=> \E i \in 1..n : Number(rest[i]).ok /\ x = Number(rest[i]).value % PortValues
    BY <1>3, Zenon DEF Ports
  <2>3. x \in PortOf(ps[1]) <=> Number(ps[1]).ok /\ x = Number(ps[1]).value % PortValues
    BY Zenon DEF PortOf
  <2>4. ASSUME x \in Ports(ps)
        PROVE  x \in PortOf(ps[1]) \/ x \in Ports(rest)
    <3>1. PICK i \in 1 .. n + 1 : Number(ps[i]).ok /\ x = Number(ps[i]).value % PortValues
      BY <2>1, <2>4
    <3>2. CASE i = 1
      BY <2>3, <3>1, <3>2, Zenon
    <3>3. ASSUME NEW j \in 1..n, i = j + 1
          PROVE  x \in Ports(rest)
      BY <1>3, <2>2, <3>1, <3>3, Zenon
    <3>. QED BY <1>5, <3>2, <3>3, Zenon
  <2>5. ASSUME x \in Ports(rest)
        PROVE  x \in Ports(ps)
    BY <1>3, <1>5, <2>1, <2>2, <2>5, Zenon
  <2>6. ASSUME x \in PortOf(ps[1])
        PROVE  x \in Ports(ps)
    BY <1>5, <2>1, <2>3, <2>6, Zenon
  <2>. QED BY <2>4, <2>5, <2>6
<1>. QED BY <1>1, <1>4, <1>6, Zenon

LEMMA PortsOfNone == Ports(<<>>) = {} /\ PortsIn(<<>>) = {} /\ NumbersAt(<<>>, 1) = {}
<1>1. DOMAIN <<>> = {}
  OBVIOUS
<1>2. Positions(<<>>, Comma) = {}
  BY <1>1, Zenon DEF Positions
<1>3. NumbersAt(<<>>, 1) = {}
  BY <1>1, Zenon DEF NumbersAt, DigitRuns
<1>4. Starts(<<>>) = {1}
  BY <1>2 DEF Starts
<1>5. PortsIn(<<>>) = {}
  BY <1>3, <1>4, Zenon DEF PortsIn
<1>. QED BY <1>1, <1>3, <1>5 DEF Ports

-----------------------------------------------------------------------------
(* The inductive invariant.                                                  *)

NameOK(n) == Positions(n, "=") = {}

ValueOK(v) == v \in Seq(STRING \ {" "})

\* What the variables hold.
TypeInv ==
  /\ lines \in Seq(Lines) /\ Len(lines) <= MaxLines
  /\ \A n \in DOMAIN properties : NameOK(n) /\ ValueOK(properties[n])
  /\ pieces \in Seq(Seq(STRING))
  /\ \A i \in DOMAIN pieces : Positions(pieces[i], Comma) = {}
  /\ usedPorts \subseteq 0 .. PortValues - 1
  /\ serverPort \in 0 .. PortValues - 1
  /\ phase \in {"loading", "listing", "adding", "done", "ended"}

\* From GetList on, the ports added and those of the pieces left are the list's.
PortInv ==
  /\ phase \in {"loading", "listing"} => usedPorts = {}
  /\ phase \in {"adding", "done"} => usedPorts \cup Ports(pieces) = Ports(PropertyList(ListKey))
  /\ phase = "done" => pieces = <<>>

\* After GetServerPort, the port is the one the property gives.
ServerInv ==
  phase # "loading" =>
    /\ phase = "ended" <=> ~IntProperty(ServerKey).ok
    /\ IntProperty(ServerKey).ok => serverPort = IntProperty(ServerKey).value % PortValues

ConfigInv == TypeInv /\ LastLineCounts /\ PortInv /\ ServerInv

\* A part of a sequence has its characters.
LEMMA PartOfSeq ==
  ASSUME NEW C, NEW s \in Seq(C), NEW b \in Nat \ {0}, NEW e \in Nat, e <= Len(s)
  PROVE  SubSeq(s, b, e) \in Seq(C)
<1>1. b \in Int /\ e \in Int /\ \A i \in b..e : s[i] \in C
  OBVIOUS
<1>. QED BY <1>1, SubSeqProperties

\* Around the first position of a character.
LEMMA AroundFirst ==
  ASSUME NEW C, NEW line \in Seq(C), NEW c, Positions(line, c) # {}
  PROVE  /\ Positions(SubSeq(line, 1, FindFirst(line, c) - 1), c) = {}
         /\ SubSeq(line, FindFirst(line, c) + 1, Len(line)) \in Seq(C)
<1>1. PICK k : k = FindFirst(line, c) /\ k \in Positions(line, c)
                 /\ \A j \in Positions(line, c) : k <= j
  BY FirstPosition
<1>2. k \in DOMAIN line /\ k \in Int /\ \A j \in Positions(line, c) : j \in Int
  BY <1>1 DEF Positions
<1>3. Positions(SubSeq(line, 1, k - 1), c) = {j \in Positions(line, c) : j < k}
  BY <1>2, PositionsBefore
<1>4. \A j \in Positions(line, c) : ~(j < k)
  BY <1>1, <1>2
<1>5. k + 1 \in Nat \ {0} /\ Len(line) \in Nat /\ Len(line) <= Len(line)
  BY <1>2
<1>6. SubSeq(line, k + 1, Len(line)) \in Seq(C)
  BY <1>5, PartOfSeq
<1>. QED BY <1>1, <1>3, <1>4, <1>6

\* A property has a name without the sign and a value without blanks.
LEMMA PropertyOK ==
  ASSUME NEW line \in Seq(STRING \ {" "}), IsProperty(line)
  PROVE  NameOK(Property(line).name) /\ ValueOK(Property(line).value)
<1>1. Positions(line, "=") # {}
  BY Zenon DEF IsProperty
<1>2. /\ Positions(SubSeq(line, 1, FindFirst(line, "=") - 1), "=") = {}
      /\ SubSeq(line, FindFirst(line, "=") + 1, Len(line)) \in Seq(STRING \ {" "})
  BY <1>1, AroundFirst, Zenon
<1>. QED BY <1>2, Zenon DEF NameOK, ValueOK, Property, SplitAt

\* Split leaves no comma in a piece.
LEMMA PiecesOK ==
  ASSUME NEW s \in Seq(STRING)
  PROVE  \A i \in DOMAIN Split(s) : Positions(Split(s)[i], Comma) = {}
<1> SUFFICES ASSUME NEW i \in DOMAIN Split(s)
             PROVE  Positions(Split(s)[i], Comma) = {}
  OBVIOUS
<1>1. PICK e \in 0..Len(s) : \E b \in 1 .. e + 1 :
        IsPiece(s, b, e) /\ Ends(s, e) /\ Split(s)[i] = SubSeq(s, b, e)
  BY SplitPieces, Zenon
<1>2. PICK b \in 1 .. e + 1 : IsPiece(s, b, e) /\ Split(s)[i] = SubSeq(s, b, e)
  BY <1>1
<1>3. b \in Int /\ e \in Int /\ \A j \in b..e : s[j] \in STRING
  OBVIOUS
<1>4. PICK p \in Seq(STRING) : p = SubSeq(s, b, e)
  BY <1>3, SubSeqProperties
<1>5. Len(p) = IF b <= e THEN e - b + 1 ELSE 0
  BY <1>3, <1>4, SubSeqProperties
<1>6. \A j \in 1 .. e - b + 1 : p[j] = s[b + j - 1]
  BY <1>3, <1>4, SubSeqProperties
<1>7. ASSUME NEW j \in DOMAIN p
      PROVE  p[j] # Comma
  <2>1. j \in 1 .. e - b + 1 /\ b + j - 1 \in b..e
    BY <1>5
  <2>. QED BY <1>2, <1>6, <2>1, Zenon DEF IsPiece
<1>. QED BY <1>2, <1>4, <1>7, Zenon DEF Positions

\* A value is a sequence of characters without a blank.
LEMMA ValueIs ==
  ASSUME NEW v, ValueOK(v)
  PROVE  v \in Seq(STRING) /\ Positions(v, " ") = {}
<1>1. PICK Black, blank : Black = STRING \ {" "} /\ blank = " "
  OBVIOUS
<1>2. v \in Seq(Black)
  BY <1>1, Zenon DEF ValueOK
<1>3. Black \subseteq STRING /\ blank \notin Black
  BY <1>1, Zenon
<1>4. v \in Seq(STRING)
  BY <1>2, <1>3, SeqMonotonic
<1>5. \A i \in DOMAIN v : v[i] \in Black
  BY <1>2
<1>6. Positions(v, blank) = {}
  BY <1>3, <1>5, Zenon DEF Positions
<1>. QED BY <1>1, <1>4, <1>6, Zenon

\* What the configuration answers is well formed.
LEMMA Answers ==
  ASSUME TypeInv, NEW key
  PROVE  /\ GetProperty(key) \in Seq(STRING)
         /\ IntProperty(key).value \in Int
         /\ PropertyList(key) \in Seq(Seq(STRING))
         /\ \A i \in DOMAIN PropertyList(key) : Positions(PropertyList(key)[i], Comma) = {}
<1>1. <<>> \in Seq(STRING) /\ <<>> \in Seq(Seq(STRING)) /\ DOMAIN <<>> = {} /\ 0 \in Int
  OBVIOUS
<1>2. key \in DOMAIN properties => properties[key] \in Seq(STRING)
  BY ValueIs DEF TypeInv
<1>3. PICK content \in Seq(STRING) : content = GetProperty(key)
  BY <1>1, <1>2, Zenon DEF GetProperty
<1>4. Number(content).value \in Int
  BY NumberAtStart, Zenon
<1>5. IntProperty(key).value \in Int
  <2>1. CASE content = <<>>
    <3>1. IntProperty(key) = [ok |-> TRUE, value |-> 0]
      BY <1>3, <2>1, Zenon DEF IntProperty
    <3>. QED BY <3>1
  <2>2. CASE content # <<>>
    <3>1. IntProperty(key) = Number(content)
      BY <1>3, <2>2, Zenon DEF IntProperty
    <3>. QED BY <1>4, <3>1, Zenon
  <2>. QED BY <2>1, <2>2
<1>6. CASE key \in DOMAIN properties
  <2>1. PropertyList(key) = Split(content)
    BY <1>3, <1>6, Zenon DEF PropertyList, GetProperty
  <2>. QED BY <1>3, <1>5, <2>1, SplitPieces, PiecesOK, Zenon
<1>7. CASE key \notin DOMAIN properties
  <2>1. PropertyList(key) = <<>>
    BY <1>7, Zenon DEF PropertyList
  <2>. QED BY <1>1, <1>3, <1>5, <2>1, Zenon
<1>. QED BY <1>6, <1>7

\* A number, as a port.
LEMMA Wraps ==
  ASSUME NEW n \in Int
  PROVE  n % PortValues \in 0 .. PortValues - 1
BY ConfigAssumption

LEMMA InitInv == Init => ConfigInv
<1> SUFFICES ASSUME Init
             PROVE  ConfigInv
  OBVIOUS
<1>1. DOMAIN <<>> = {} /\ <<>> \in Seq(Lines) /\ <<>> \in Seq(Seq(STRING)) /\ Len(<<>>) = 0
  OBVIOUS
<1>2. 0 <= MaxLines /\ 0 \in 0 .. PortValues - 1
  BY ConfigAssumption
<1>3. TypeInv
  BY <1>1, <1>2, Zenon DEF Init, TypeInv
<1>4. LastLineCounts
  <2>1. PairsOf(<<>>) = {} /\ Said(<<>>) = {}
    BY <1>1 DEF PairsOf, Said
  <2>2. PairsOf(properties) = Said(lines)
    BY <2>1, Zenon DEF Init
  <2>. QED BY <2>2, Zenon DEF LastLineCounts, PairsOf, Said, Stands
<1>5. PortInv /\ ServerInv
  BY DEF Init, PortInv, ServerInv
<1>. QED BY <1>3, <1>4, <1>5 DEF ConfigInv

\* ReadLine.
LEMMA ReadLineInv ==
  ASSUME ConfigInv, NEW raw \in Lines, ReadLine(raw)
  PROVE  ConfigInv'
<1>1. raw \in Seq(STRING) /\ Lines \subseteq Seq(STRING)
  BY ConfigAssumption
<1>2. PICK ls \in Seq(Lines) : ls = lines
  BY Zenon DEF ConfigInv, TypeInv
<1>3. lines' = Append(ls, raw) /\ Len(ls) < MaxLines /\ MaxLines \in Nat
  BY <1>2, ConfigAssumption DEF ReadLine
<1>4. lines' \in Seq(Lines) /\ Len(lines') <= MaxLines
  BY <1>3
<1>5. \A n \in DOMAIN properties' : NameOK(n) /\ ValueOK(properties'[n])
  <2>1. PICK line \in Seq(STRING \ {" "}) : line = RemoveWhiteSpaces(raw)
    BY <1>1, NoBlanks, Zenon
  <2>2. \A n \in DOMAIN properties : NameOK(n) /\ ValueOK(properties[n])
    BY Zenon DEF ConfigInv, TypeInv
  <2>3. CASE IsProperty(line)
    <3>1. PICK name, value : /\ name = Property(line).name /\ value = Property(line).value
                             /\ NameOK(name) /\ ValueOK(value)
      BY <2>3, PropertyOK, Zenon
    <3>2. properties' = [n \in DOMAIN properties \cup {name} |->
                           IF n = name THEN value ELSE properties[n]]
      BY <2>1, <2>3, <3>1, Zenon DEF ReadLine, Set
    <3>. QED BY <2>2, <3>1, <3>2, Zenon
  <2>4. CASE ~IsProperty(line)
    BY <2>1, <2>2, <2>4, Zenon DEF ReadLine
  <2>. QED BY <2>3, <2>4
<1>6. TypeInv'
  BY <1>4, <1>5, Zenon DEF ConfigInv, TypeInv, ReadLine
<1>7. LastLineCounts'
  <2>1. PairsOf(properties') = {pair \in PairsOf(properties) : pair[1] \notin Names(raw)}
                                 \cup Meaning(raw)
    BY <1>1, ReadLineSays, Zenon
  <2>2. Said(lines') = {pair \in Said(lines) : pair[1] \notin Names(raw)} \cup Meaning(raw)
    BY <1>2, <1>3, SaidGrows, Zenon
  <2>3. PairsOf(properties) = Said(lines)
    BY Zenon DEF ConfigInv, LastLineCounts, PairsOf, Said, Stands
  <2>4. PairsOf(properties') = Said(lines')
    BY <2>1, <2>2, <2>3, Zenon
  <2>. QED BY <2>4, Zenon DEF LastLineCounts, PairsOf, Said, Stands
<1>8. PortInv' /\ ServerInv'
  <2>1. phase' = "loading" /\ usedPorts' = usedPorts /\ usedPorts = {}
    BY DEF ReadLine, ConfigInv, PortInv
  <2>. QED BY <2>1 DEF PortInv, ServerInv
<1>. QED BY <1>6, <1>7, <1>8 DEF ConfigInv

\* What the other actions leave alone.
LEMMA SameProperties ==
  ASSUME UNCHANGED <<lines, properties>>, LastLineCounts, NEW key
  PROVE  /\ LastLineCounts'
         /\ GetProperty(key)' = GetProperty(key)
         /\ IntProperty(key)' = IntProperty(key)
         /\ PropertyList(key)' = PropertyList(key)
<1>1. lines' = lines /\ properties' = properties
  OBVIOUS
<1>2. LastLineCounts'
  <2>1. PairsOf(properties) = Said(lines)
    BY Zenon DEF LastLineCounts, PairsOf, Said, Stands
  <2>2. PairsOf(properties') = Said(lines')
    BY <1>1, <2>1, Zenon
  <2>. QED BY <2>2, Zenon DEF LastLineCounts, PairsOf, Said, Stands
<1>. QED BY <1>1, <1>2, Zenon DEF GetProperty, IntProperty, PropertyList

\* GetServerPort.
LEMMA GetServerPortInv ==
  ASSUME ConfigInv, GetServerPort
  PROVE  ConfigInv'
<1>1. PICK n : n = IntProperty(ServerKey) /\ n.value \in Int
  BY Answers DEF ConfigInv
<1>2. UNCHANGED <<lines, properties>> /\ LastLineCounts
  BY DEF ConfigInv, GetServerPort
<1>3. LastLineCounts' /\ IntProperty(ServerKey)' = n
  BY <1>1, <1>2, SameProperties
<1>4. /\ phase = "loading" /\ UNCHANGED <<lines, properties, pieces, usedPorts>>
      /\ serverPort' = IF n.ok THEN n.value % PortValues ELSE serverPort
      /\ phase' = IF n.ok THEN "listing" ELSE "ended"
  BY <1>1 DEF GetServerPort
<1>5. n.value % PortValues \in 0 .. PortValues - 1
  BY <1>1, Wraps
<1>6. TypeInv'
  BY <1>4, <1>5, Zenon DEF ConfigInv, TypeInv
<1>7. PortInv'
  BY <1>4 DEF ConfigInv, PortInv
<1>8. ServerInv'
  BY <1>3, <1>4 DEF ServerInv
<1>. QED BY <1>3, <1>6, <1>7, <1>8 DEF ConfigInv

\* GetList.
LEMMA GetListInv ==
  ASSUME ConfigInv, GetList
  PROVE  ConfigInv'
<1>1. UNCHANGED <<lines, properties>> /\ LastLineCounts
  BY DEF ConfigInv, GetList
<1>2. /\ LastLineCounts' /\ IntProperty(ServerKey)' = IntProperty(ServerKey)
      /\ PropertyList(ListKey)' = PropertyList(ListKey)
  BY <1>1, SameProperties
<1>3. /\ PropertyList(ListKey) \in Seq(Seq(STRING))
      /\ \A i \in DOMAIN PropertyList(ListKey) : Positions(PropertyList(ListKey)[i], Comma) = {}
  BY Answers DEF ConfigInv
<1>4. /\ phase = "listing" /\ phase' = "adding" /\ pieces' = PropertyList(ListKey)
      /\ UNCHANGED <<lines, properties, usedPorts, serverPort>>
  BY DEF GetList
<1>5. TypeInv'
  BY <1>3, <1>4, Zenon DEF ConfigInv, TypeInv
<1>6. PortInv'
  <2>1. usedPorts' = {} /\ Ports(pieces)' = Ports(PropertyList(ListKey))
    BY <1>4 DEF ConfigInv, PortInv, Ports
  <2>. QED BY <1>2, <1>4, <2>1 DEF PortInv
<1>7. ServerInv'
  BY <1>2, <1>4 DEF ConfigInv, ServerInv
<1>. QED BY <1>2, <1>5, <1>6, <1>7 DEF ConfigInv

\* AddPort.
LEMMA AddPortInv ==
  ASSUME ConfigInv, AddPort
  PROVE  ConfigInv'
<1>1. UNCHANGED <<lines, properties>> /\ LastLineCounts
  BY DEF ConfigInv, AddPort
<1>2. /\ LastLineCounts' /\ IntProperty(ServerKey)' = IntProperty(ServerKey)
      /\ PropertyList(ListKey)' = PropertyList(ListKey)
  BY <1>1, SameProperties
<1>3. /\ phase = "adding" /\ pieces # <<>> /\ pieces' = Tail(pieces)
      /\ UNCHANGED <<lines, properties, serverPort, phase>>
  BY DEF AddPort
<1>4. usedPorts' = usedPorts \cup PortOf(Head(pieces))
  BY Zenon DEF AddPort, PortOf
<1>5. pieces \in Seq(Seq(STRING)) /\ \A i \in DOMAIN pieces : Positions(pieces[i], Comma) = {}
  BY Zenon DEF ConfigInv, TypeInv
<1>6. PortOf(Head(pieces)) \subseteq 0 .. PortValues - 1
  <2>1. Head(pieces) \in Seq(STRING)
    BY <1>3, <1>5
  <2>2. Number(Head(pieces)).value \in Int
    BY <2>1, NumberAtStart, Zenon
  <2>. QED BY <2>2, Wraps, Zenon DEF PortOf
<1>7. pieces' \in Seq(Seq(STRING)) /\ \A i \in DOMAIN pieces' : Positions(pieces'[i], Comma) = {}
  <2>1. PICK rest \in Seq(Seq(STRING)) : rest = Tail(pieces)
    <3>1. Tail(pieces) \in Seq(Seq(STRING))
      BY <1>3, <1>5
    <3>. QED BY <3>1
  <2>2. \A i \in DOMAIN rest : i + 1 \in DOMAIN pieces /\ rest[i] = pieces[i + 1]
    BY <1>3, <1>5, <2>1
  <2>. QED BY <1>3, <1>5, <2>1, <2>2, Zenon
<1>8. usedPorts' \subseteq 0 .. PortValues - 1
  BY <1>4, <1>6, Zenon DEF ConfigInv, TypeInv
<1>9. TypeInv'
  BY <1>3, <1>7, <1>8, Zenon DEF ConfigInv, TypeInv
<1>10. PortInv'
  <2>1. Ports(pieces) = PortOf(Head(pieces)) \cup Ports(pieces')
    BY <1>3, <1>5, PortsOfTail
  <2>2. usedPorts \cup Ports(pieces) = Ports(PropertyList(ListKey))
    BY <1>3 DEF ConfigInv, PortInv
  <2>3. usedPorts' \cup Ports(pieces') = Ports(PropertyList(ListKey))
    BY <1>4, <2>1, <2>2, Zenon
  <2>4. Ports(pieces)' = Ports(pieces') /\ Ports(PropertyList(ListKey))' = Ports(PropertyList(ListKey))
    BY <1>2, Zenon DEF Ports
  <2>. QED BY <1>3, <2>3, <2>4 DEF PortInv
<1>11. ServerInv'
  BY <1>2, <1>3 DEF ConfigInv, ServerInv
<1>. QED BY <1>2, <1>9, <1>10, <1>11 DEF ConfigInv

\* Configured, and stuttering.
LEMMA ConfiguredInv ==
  ASSUME ConfigInv, Configured
  PROVE  ConfigInv'
<1>1. UNCHANGED <<lines, properties>> /\ LastLineCounts
  BY DEF ConfigInv, Configured
<1>2. /\ LastLineCounts' /\ IntProperty(ServerKey)' = IntProperty(ServerKey)
      /\ PropertyList(ListKey)' = PropertyList(ListKey)
  BY <1>1, SameProperties
<1>3. /\ phase = "adding" /\ phase' = "done" /\ pieces = <<>>
      /\ UNCHANGED <<lines, properties, pieces, usedPorts, serverPort>>
  BY DEF Configured
<1>4. TypeInv'
  BY <1>3, Zenon DEF ConfigInv, TypeInv
<1>5. Ports(pieces)' = Ports(pieces) /\ Ports(PropertyList(ListKey))' = Ports(PropertyList(ListKey))
  BY <1>2, <1>3, Zenon DEF Ports
<1>6. PortInv'
  BY <1>3, <1>5 DEF ConfigInv, PortInv
<1>7. ServerInv'
  BY <1>2, <1>3 DEF ConfigInv, ServerInv
<1>. QED BY <1>2, <1>4, <1>6, <1>7 DEF ConfigInv

LEMMA StutterInv ==
  ASSUME ConfigInv, UNCHANGED vars
  PROVE  ConfigInv'
<1>1. UNCHANGED <<lines, properties>> /\ LastLineCounts
  BY DEF ConfigInv, vars
<1>2. /\ LastLineCounts' /\ IntProperty(ServerKey)' = IntProperty(ServerKey)
      /\ PropertyList(ListKey)' = PropertyList(ListKey)
  BY <1>1, SameProperties
<1>3. UNCHANGED <<lines, properties, pieces, usedPorts, serverPort, phase>>
  BY DEF vars
<1>4. TypeInv'
  BY <1>3, Zenon DEF ConfigInv, TypeInv
<1>5. Ports(pieces)' = Ports(pieces) /\ Ports(PropertyList(ListKey))' = Ports(PropertyList(ListKey))
  BY <1>2, <1>3, Zenon DEF Ports
<1>6. PortInv'
  BY <1>3, <1>5 DEF ConfigInv, PortInv
<1>7. ServerInv'
  BY <1>2, <1>3 DEF ConfigInv, ServerInv
<1>. QED BY <1>2, <1>4, <1>6, <1>7 DEF ConfigInv

-----------------------------------------------------------------------------
(* What the invariant says of the answers.                                   *)

LEMMA TypeFollows == ConfigInv => ConfigTypeOK
<1> SUFFICES ASSUME ConfigInv
             PROVE  ConfigTypeOK
  OBVIOUS
<1>1. \A n \in DOMAIN properties : ValueOK(properties[n]) /\ Positions(n, "=") = {}
  BY Zenon DEF ConfigInv, TypeInv, NameOK
<1>2. \A n \in DOMAIN properties : Positions(n, "=") = {} /\ Positions(properties[n], " ") = {}
  BY <1>1, ValueIs, Zenon
<1>. QED BY <1>2, Zenon DEF ConfigInv, TypeInv, ConfigTypeOK

LEMMA PortsFollow == ConfigInv => PortsAsWritten
<1> SUFFICES ASSUME ConfigInv, phase = "done"
             PROVE  usedPorts = PortsIn(GetProperty(ListKey))
  BY Zenon DEF PortsAsWritten, PortsIn
<1>1. usedPorts \cup Ports(pieces) = Ports(PropertyList(ListKey)) /\ pieces = <<>>
  BY DEF ConfigInv, PortInv
<1>2. usedPorts = Ports(PropertyList(ListKey))
  BY <1>1, PortsOfNone
<1>3. CASE ListKey \in DOMAIN properties
  <2>1. PropertyList(ListKey) = Split(GetProperty(ListKey))
    BY <1>3, Zenon DEF PropertyList, GetProperty
  <2>2. GetProperty(ListKey) \in Seq(STRING)
    BY Answers DEF ConfigInv
  <2>. QED BY <1>2, <2>1, <2>2, PortsOfSplit, Zenon
<1>4. CASE ListKey \notin DOMAIN properties
  <2>1. PropertyList(ListKey) = <<>> /\ GetProperty(ListKey) = <<>>
    BY <1>4, Zenon DEF PropertyList, GetProperty
  <2>. QED BY <1>2, <2>1, PortsOfNone, Zenon
<1>. QED BY <1>3, <1>4

LEMMA ServerPortFollows == ConfigInv => ServerPortAsWritten
<1> SUFFICES ASSUME ConfigInv, phase # "loading"
             PROVE  ServerPortAsWritten
  BY DEF ServerPortAsWritten
<1>1. PICK content \in Seq(STRING) : content = GetProperty(ServerKey)
  BY Answers DEF ConfigInv
<1>2. PICK n : n = IntProperty(ServerKey)
  OBVIOUS
<1>3. (phase = "ended" <=> ~n.ok) /\ (n.ok => serverPort = n.value % PortValues)
  BY <1>2 DEF ConfigInv, ServerInv
<1>4. PICK numbers : numbers = NumbersAt(content, 1)
  OBVIOUS
<1>5. SUFFICES /\ phase = "ended" <=> content # <<>> /\ numbers = {}
               /\ \A x \in numbers : serverPort = x % PortValues
               /\ content = <<>> => serverPort = 0
  BY <1>1, <1>4, Zenon DEF ServerPortAsWritten
<1>6. CASE content = <<>>
  <2>1. n = [ok |-> TRUE, value |-> 0]
    BY <1>1, <1>2, <1>6, Zenon DEF IntProperty
  <2>2. numbers = {}
    BY <1>4, <1>6, PortsOfNone, Zenon
  <2>3. 0 % PortValues = 0
    BY ConfigAssumption
  <2>. QED BY <1>3, <1>6, <2>1, <2>2, <2>3
<1>7. CASE content # <<>>
  <2>1. n = Number(content)
    BY <1>1, <1>2, <1>7, Zenon DEF IntProperty
  <2>2. numbers = IF n.ok THEN {n.value} ELSE {}
    BY <1>4, <2>1, NumberAtStart, Zenon
  <2>. QED BY <1>3, <1>7, <2>2, Zenon
<1>. QED BY <1>6, <1>7

-----------------------------------------------------------------------------
(* The theorems.                                                             *)

\* Every step of the reading preserves the invariant: the table is what the
\* lines said, the ports added and the pieces left are the list's, and the port
\* of the frontend is the one written.
THEOREM ConfigInvariant == Spec => []ConfigInv
<1>1. ConfigInv /\ [Next]_vars => ConfigInv'
  <2> SUFFICES ASSUME ConfigInv, [Next]_vars
               PROVE  ConfigInv'
    OBVIOUS
  <2>1. CASE \E line \in Lines : ReadLine(line)
    BY <2>1, ReadLineInv
  <2>2. CASE GetServerPort
    BY <2>2, GetServerPortInv
  <2>3. CASE GetList
    BY <2>3, GetListInv
  <2>4. CASE AddPort
    BY <2>4, AddPortInv
  <2>5. CASE Configured
    BY <2>5, ConfiguredInv
  <2>6. CASE UNCHANGED vars
    BY <2>6, StutterInv
  <2>. QED BY <2>1, <2>2, <2>3, <2>4, <2>5, <2>6, Zenon DEF Next
<1>. QED BY InitInv, <1>1, PTL DEF Spec

\* A name has no sign, a value no blank, a piece no comma, and a port 16 bits,
\* whatever the file says (Config::load, Config::getPropertyList).
THEOREM ConfigTypeCorrect == Spec => []ConfigTypeOK
<1>. QED BY ConfigInvariant, TypeFollows, PTL

\* The table of properties is what the lines say last of every name, however
\* many lines there are and whatever they hold (Config::load).
THEOREM LastLineCountsCorrect == Spec => []LastLineCounts
<1>1. ConfigInv => LastLineCounts
  BY DEF ConfigInv
<1>. QED BY ConfigInvariant, <1>1, PTL

\* A node offers exactly the ports its list names, signs and numbers out of an
\* int's range included, for lists of any length (Config::getPropertyList,
\* Node::initialize).
THEOREM PortsAsWrittenCorrect == Spec => []PortsAsWritten
<1>. QED BY ConfigInvariant, PortsFollow, PTL

\* A node connects to the port its configuration names, and ends at its start
\* exactly when it names something that no int holds (Config::getIntProperty,
\* Node::initialize).
THEOREM ServerPortAsWrittenCorrect == Spec => []ServerPortAsWritten
<1>. QED BY ConfigInvariant, ServerPortFollows, PTL
=============================================================================
