------------------------- MODULE ClientLoopsProofs -------------------------
(***************************************************************************)
(* The node's end of its connection: its three loops, main and the peer    *)
(* move packets from one queue to the next, and keep their order.          *)
(***************************************************************************)
EXTENDS ClientLoops, SequenceTheorems, TLAPS

\* The numbers of a sequence grow, and do not exceed b.
Ordered(s, b) ==
  /\ \A i, j \in 1..Len(s) : i < j => s[i] < s[j]
  /\ \A i \in 1..Len(s) : s[i] <= b

\* What is on its way from the executor's queue to the frontend.
FirstsOf(q) == [i \in 1..Len(q) |-> q[i].first]
Chain(o, w, s, p, f) == o \o w \o s \o p \o f
Inside == Chain(outbound, writing, sendQ, Pending, FirstsOf(execQ))

\* Each thread stays in its own loop, and a mutex is held exactly between the
\* steps that need it.
Threading ==
  /\ pc["main"] \in {"start", "info", "serve", "flag", "end", "notify", "done"}
  /\ pc["recv"] \in {"done", "top", "recv", "push", "out", "flag", "end", "notify"}
  /\ pc["send"] \in {"done", "top", "lock", "checked", "wait", "write"}
  /\ pc["exec"] \in {"done", "top", "lock", "checked", "wait", "run"}
  /\ sendMtx = "send" <=> pc["send"] \in {"checked", "write"}
  /\ execMtx = "exec" <=> pc["exec"] \in {"checked", "run"}
  /\ writing # <<>> <=> pc["send"] = "write"

\* The frontend sends nothing before it has read the NodeInfo, and that is the
\* first packet that leaves.
Peering ==
  /\ peer.busy => peer.con /\ peer.written < MaxRequests
  /\ peer.written > 0 => peer.con
  /\ pc["main"] \in {"start", "info"} =>
       /\ ~peer.con
       /\ outbound = <<>> /\ writing = <<>> /\ sendQ = <<>> /\ execQ = <<>>
       /\ pc["exec"] # "run"
  /\ pc["main"] = "start" =>
       pc["recv"] = "done" /\ pc["send"] = "done" /\ pc["exec"] = "done"

\* Bursts are of requests received, and the burst at hand is the last.
Bursts ==
  /\ \A i \in 1..Len(execQ) : execQ[i].last <= received
  /\ pc["recv"] = "push" =>
       /\ burst \in Burst /\ burst.first <= burst.last /\ burst.last <= received
       /\ Ordered(Inside, burst.first - 1)

ClientInv ==
  /\ ClientTypeOK /\ Threading /\ Peering /\ Bursts
  /\ Ordered(Inside, received)

-----------------------------------------------------------------------------
(* Growing sequences.                                                      *)

\* A concatenation grows when its parts do, and all of the first comes before
\* all of the second.
LEMMA OrderedConcat ==
  ASSUME NEW s \in Seq(Nat), NEW t \in Seq(Nat), NEW b \in Int
  PROVE  Ordered(s \o t, b) <=>
           /\ Ordered(s, b) /\ Ordered(t, b)
           /\ \A i \in 1..Len(s), j \in 1..Len(t) : s[i] < t[j]
<1>1. /\ Len(s) \in Nat /\ Len(t) \in Nat /\ Len(s \o t) = Len(s) + Len(t)
      /\ \A i \in 1..Len(s) : s[i] \in Nat
      /\ \A i \in 1..Len(t) : t[i] \in Nat
      /\ \A i \in 1..Len(s) + Len(t) :
           (s \o t)[i] = IF i <= Len(s) THEN s[i] ELSE t[i - Len(s)]
  BY ConcatProperties
<1>2. /\ \A i \in 1..Len(s) : i \in 1..Len(s \o t) /\ (s \o t)[i] = s[i]
      /\ \A i \in 1..Len(t) : Len(s) + i \in 1..Len(s \o t) /\ (s \o t)[Len(s) + i] = t[i]
  BY <1>1
<1>3. ASSUME Ordered(s \o t, b)
      PROVE  /\ Ordered(s, b) /\ Ordered(t, b)
             /\ \A i \in 1..Len(s), j \in 1..Len(t) : s[i] < t[j]
  <2>1. Ordered(s, b)
    BY <1>2, <1>3 DEF Ordered
  <2>2. Ordered(t, b)
    <3>1. \A i, j \in 1..Len(t) : i < j => Len(s) + i < Len(s) + j
      BY <1>1
    <3>. QED BY <1>2, <1>3, <3>1 DEF Ordered
  <2>3. ASSUME NEW i \in 1..Len(s), NEW j \in 1..Len(t)
        PROVE  s[i] < t[j]
    <3>1. i < Len(s) + j
      BY <1>1
    <3>. QED BY <1>2, <1>3, <3>1 DEF Ordered
  <2>. QED BY <2>1, <2>2, <2>3
<1>4. ASSUME Ordered(s, b), Ordered(t, b),
             \A i \in 1..Len(s), j \in 1..Len(t) : s[i] < t[j]
      PROVE  Ordered(s \o t, b)
  <2>1. ASSUME NEW i \in 1..Len(s \o t)
        PROVE  (s \o t)[i] <= b
    BY <1>1, <1>4 DEF Ordered
  <2>2. ASSUME NEW i \in 1..Len(s \o t), NEW j \in 1..Len(s \o t), i < j
        PROVE  (s \o t)[i] < (s \o t)[j]
    <3>1. CASE j <= Len(s)
      BY <1>1, <1>4, <2>2, <3>1 DEF Ordered
    <3>2. CASE i <= Len(s) /\ ~(j <= Len(s))
      BY <1>1, <1>4, <2>2, <3>2 DEF Ordered
    <3>3. CASE ~(i <= Len(s))
      <4>1. /\ i - Len(s) \in 1..Len(t) /\ j - Len(s) \in 1..Len(t)
            /\ i - Len(s) < j - Len(s)
            /\ (s \o t)[i] = t[i - Len(s)] /\ (s \o t)[j] = t[j - Len(s)]
        BY <1>1, <2>2, <3>3
      <4>. QED BY <1>4, <4>1 DEF Ordered
    <3>. QED BY <1>1, <3>1, <3>2, <3>3
  <2>. QED BY <2>1, <2>2 DEF Ordered
<1>. QED BY <1>3, <1>4

\* Nothing is out of order for what is missing.
LEMMA OrderedDrop ==
  ASSUME NEW s \in Seq(Nat), NEW t \in Seq(Nat), NEW u \in Seq(Nat), NEW b \in Int,
         Ordered((s \o t) \o u, b)
  PROVE  Ordered(s \o u, b)
<1>1. /\ s \o t \in Seq(Nat) /\ Len(s \o t) = Len(s) + Len(t)
      /\ Len(s) \in Nat /\ Len(t) \in Nat
      /\ \A i \in 1..Len(s) + Len(t) :
           (s \o t)[i] = IF i <= Len(s) THEN s[i] ELSE t[i - Len(s)]
  BY ConcatProperties
<1>2. /\ Ordered(s \o t, b) /\ Ordered(u, b)
      /\ \A i \in 1..Len(s \o t), j \in 1..Len(u) : (s \o t)[i] < u[j]
  BY <1>1, OrderedConcat
<1>3. Ordered(s, b)
  BY <1>2, OrderedConcat
<1>4. \A i \in 1..Len(s) : i \in 1..Len(s \o t) /\ (s \o t)[i] = s[i]
  BY <1>1
<1>5. \A i \in 1..Len(s), j \in 1..Len(u) : s[i] < u[j]
  BY <1>2, <1>4
<1>. QED BY <1>2, <1>3, <1>5, OrderedConcat

LEMMA OrderedUp ==
  ASSUME NEW s \in Seq(Nat), NEW b \in Int, NEW c \in Int, b <= c, Ordered(s, b)
  PROVE  Ordered(s, c)
<1>1. \A i \in 1..Len(s) : s[i] \in Nat
  OBVIOUS
<1>. QED BY <1>1 DEF Ordered

LEMMA OrderedOne ==
  ASSUME NEW x \in Nat, NEW b \in Int, x <= b
  PROVE  <<x>> \in Seq(Nat) /\ Ordered(<<x>>, b)
<1>1. <<x>> \in Seq(Nat) /\ Len(<<x>>) = 1 /\ <<x>>[1] = x
  OBVIOUS
<1>. QED BY <1>1 DEF Ordered

LEMMA OrderedAppend ==
  ASSUME NEW s \in Seq(Nat), NEW x \in Nat, NEW b \in Int, x <= b, Ordered(s, x - 1)
  PROVE  Ordered(s \o <<x>>, b)
<1>1. x - 1 \in Int /\ x - 1 <= b /\ \A i \in 1..Len(s) : s[i] \in Nat
  OBVIOUS
<1>2. Ordered(s, b) /\ Ordered(<<x>>, b) /\ <<x>> \in Seq(Nat)
  BY <1>1, OrderedUp, OrderedOne
<1>3. \A i \in 1..Len(s), j \in 1..Len(<<x>>) : s[i] < <<x>>[j]
  BY <1>1 DEF Ordered
<1>. QED BY <1>2, <1>3, OrderedConcat

\* The empty sequence, wherever it stands.
LEMMA Empty ==
  ASSUME NEW s \in Seq(Nat)
  PROVE  <<>> \in Seq(Nat) /\ s \o <<>> = s /\ <<>> \o s = s
BY ConcatEmptySeq, EmptySeq

-----------------------------------------------------------------------------
(* The chain of queues: what moves from one to the next keeps its place.   *)

LEMMA Concats ==
  ASSUME NEW s \in Seq(Nat), NEW t \in Seq(Nat)
  PROVE  s \o t \in Seq(Nat)
BY ConcatProperties

LEMMA Associative ==
  ASSUME NEW s \in Seq(Nat), NEW t \in Seq(Nat), NEW u \in Seq(Nat)
  PROVE  (s \o t) \o u = s \o (t \o u)
BY ConcatAssociative, SMTT(60)

LEMMA ChainType ==
  ASSUME NEW o \in Seq(Nat), NEW w \in Seq(Nat), NEW s \in Seq(Nat),
         NEW p \in Seq(Nat), NEW f \in Seq(Nat)
  PROVE  Chain(o, w, s, p, f) \in Seq(Nat)
<1>1. o \o w \in Seq(Nat)
  BY Concats
<1>2. (o \o w) \o s \in Seq(Nat)
  BY <1>1, Concats
<1>3. ((o \o w) \o s) \o p \in Seq(Nat)
  BY <1>2, Concats
<1>4. (((o \o w) \o s) \o p) \o f \in Seq(Nat)
  BY <1>3, Concats
<1>. QED BY <1>4 DEF Chain

LEMMA FirstsType ==
  ASSUME NEW q \in Seq(Burst)
  PROVE  /\ FirstsOf(q) \in Seq(Nat) /\ Len(FirstsOf(q)) = Len(q)
         /\ \A i \in 1..Len(q) : FirstsOf(q)[i] = q[i].first
<1>1. Len(q) \in Nat /\ \A i \in 1..Len(q) : q[i] \in Burst
  OBVIOUS
<1>2. \A i \in 1..Len(q) : q[i].first \in Nat
  BY <1>1 DEF Burst, Requests
<1>3. \A i \in 1..Len(q) : FirstsOf(q)[i] = q[i].first
  BY DEF FirstsOf
<1>4. FirstsOf(q) \in [1..Len(q) -> Nat]
  BY <1>2 DEF FirstsOf
<1>. QED BY <1>1, <1>3, <1>4

\* A sequence is its head and its tail.
LEMMA HeadThenTail ==
  ASSUME NEW s \in Seq(Nat), s # <<>>
  PROVE  Head(s) \in Nat /\ Tail(s) \in Seq(Nat) /\ s = <<Head(s)>> \o Tail(s)
<1>1. /\ Head(s) \in Nat /\ Tail(s) \in Seq(Nat) /\ Len(Tail(s)) = Len(s) - 1 /\ Head(s) = s[1]
      /\ \A i \in 1..Len(Tail(s)) : Tail(s)[i] = s[i + 1]
      /\ Len(s) \in Nat \ {0}
  BY HeadTailProperties, EmptySeq
<1>2. <<Head(s)>> \in Seq(Nat) /\ Len(<<Head(s)>>) = 1 /\ <<Head(s)>>[1] = s[1]
  BY <1>1
<1> DEFINE t == <<Head(s)>> \o Tail(s)
<1>3. /\ t \in Seq(Nat) /\ Len(t) = Len(s)
      /\ \A i \in 1..Len(s) : t[i] = IF i <= 1 THEN <<Head(s)>>[i] ELSE Tail(s)[i - 1]
  BY <1>1, <1>2, ConcatProperties
<1>4. \A i \in 1..Len(s) : t[i] = s[i]
  <2>1. ASSUME NEW i \in 1..Len(s)
        PROVE  t[i] = s[i]
    <3>1. CASE i = 1
      BY <1>2, <1>3, <3>1
    <3>2. CASE i # 1
      <4>1. i - 1 \in 1..Len(Tail(s)) /\ (i - 1) + 1 = i /\ ~(i <= 1)
        BY <1>1, <3>2
      <4>. QED BY <1>1, <1>3, <4>1
    <3>. QED BY <3>1, <3>2
  <2>. QED BY <2>1
<1> HIDE DEF t
<1>5. s = t
  BY <1>3, <1>4, SeqEqual
<1>. QED BY <1>1, <1>5 DEF t

\* sendLoop takes the head of the queue.
LEMMA ChainPoll ==
  ASSUME NEW o \in Seq(Nat), NEW s \in Seq(Nat), NEW p, NEW f, s # <<>>
  PROVE  Chain(o, <<>>, s, p, f) = Chain(o, <<Head(s)>>, Tail(s), p, f)
<1>1. <<Head(s)>> \in Seq(Nat) /\ Tail(s) \in Seq(Nat) /\ s = <<Head(s)>> \o Tail(s)
  BY HeadThenTail
<1>2. o \o (<<Head(s)>> \o Tail(s)) = (o \o <<Head(s)>>) \o Tail(s)
  BY <1>1, Associative
<1>3. (o \o <<>>) \o s = (o \o <<Head(s)>>) \o Tail(s)
  BY <1>1, <1>2, Empty
<1>. QED BY <1>3 DEF Chain

\* sendBytes puts it into the socket.
LEMMA ChainSend ==
  ASSUME NEW o \in Seq(Nat), NEW w \in Seq(Nat), NEW s, NEW p, NEW f
  PROVE  Chain(o, w, s, p, f) = Chain(o \o w, <<>>, s, p, f)
<1>1. (o \o w) \o <<>> = o \o w
  BY Empty, Concats
<1>. QED BY <1>1 DEF Chain

\* Concatenation as a symbol, for the provers to rewrite with.
Cat(s, t) == s \o t

LEMMA CatAssociative ==
  ASSUME NEW s \in Seq(Nat), NEW t \in Seq(Nat), NEW u \in Seq(Nat)
  PROVE  Cat(s, t) \in Seq(Nat) /\ Cat(Cat(s, t), u) = Cat(s, Cat(t, u))
BY Concats, Associative DEF Cat

LEMMA ChainCat ==
  ASSUME NEW o, NEW w, NEW s, NEW p, NEW f
  PROVE  Chain(o, w, s, p, f) = Cat(Cat(Cat(Cat(o, w), s), p), f)
BY DEF Chain, Cat

\* The executor's packet is queued as an answer.
LEMMA ChainRun ==
  ASSUME NEW o \in Seq(Nat), NEW w \in Seq(Nat), NEW s \in Seq(Nat), NEW x \in Nat, NEW f
  PROVE  Chain(o, w, s, <<x>>, f) = Chain(o, w, Append(s, x), <<>>, f)
<1>1. PICK t \in Seq(Nat) : t = <<x>>
  <2>1. <<x>> \in Seq(Nat)
    OBVIOUS
  <2>. QED BY <2>1, Zenon
<1>2. PICK a \in Seq(Nat) : a = Cat(o, w)
  BY CatAssociative, SMT
<1>3. PICK c \in Seq(Nat) : c = Cat(s, t)
  BY CatAssociative, SMT
<1>4. c = Append(s, x)
  BY <1>1, <1>3 DEF Cat
<1>5. Cat(Cat(a, s), t) = Cat(a, c)
  BY <1>3, CatAssociative, SMT
<1>6. PICK e \in Seq(Nat) : e = Cat(a, c)
  BY CatAssociative, SMT
<1>7. Cat(e, <<>>) = e
  BY Empty DEF Cat
<1>8. Cat(Cat(Cat(Cat(o, w), s), <<x>>), f) = Cat(Cat(Cat(Cat(o, w), Append(s, x)), <<>>), f)
  BY <1>1, <1>2, <1>4, <1>5, <1>6, <1>7, Zenon
<1>. QED BY <1>8, ChainCat, Zenon

\* The executor takes the head of its queue.
LEMMA ChainPop ==
  ASSUME NEW o \in Seq(Nat), NEW w \in Seq(Nat), NEW s \in Seq(Nat), NEW f \in Seq(Nat), f # <<>>
  PROVE  Chain(o, w, s, <<>>, f) = Chain(o, w, s, <<Head(f)>>, Tail(f))
<1>1. <<Head(f)>> \in Seq(Nat) /\ Tail(f) \in Seq(Nat) /\ f = <<Head(f)>> \o Tail(f)
  BY HeadThenTail
<1> DEFINE a == (o \o w) \o s
<1>2. o \o w \in Seq(Nat)
  BY Concats
<1>3. a \in Seq(Nat)
  BY <1>2, Concats
<1> HIDE DEF a
<1>4. a \o <<>> = a
  BY <1>3, Empty
<1>5. (a \o <<Head(f)>>) \o Tail(f) = a \o (<<Head(f)>> \o Tail(f))
  BY <1>1, <1>3, Associative
<1>6. (a \o <<>>) \o f = (a \o <<Head(f)>>) \o Tail(f)
  BY <1>1, <1>4, <1>5, Zenon
<1>. QED BY <1>6 DEF Chain, a

\* recvLoop adds at the end.
LEMMA ChainPush ==
  ASSUME NEW o \in Seq(Nat), NEW w \in Seq(Nat), NEW s \in Seq(Nat),
         NEW p \in Seq(Nat), NEW f \in Seq(Nat), NEW t \in Seq(Nat)
  PROVE  Chain(o, w, s, p, Cat(f, t)) = Cat(Chain(o, w, s, p, f), t)
<1>1. Cat(o, w) \in Seq(Nat)
  BY CatAssociative, SMT
<1>2. Cat(Cat(o, w), s) \in Seq(Nat)
  BY <1>1, CatAssociative, SMT
<1>3. Cat(Cat(Cat(o, w), s), p) \in Seq(Nat)
  BY <1>2, CatAssociative, SMT
<1>4. Cat(Cat(Cat(Cat(o, w), s), p), Cat(f, t)) = Cat(Cat(Cat(Cat(Cat(o, w), s), p), f), t)
  BY <1>3, CatAssociative, SMT
<1>. QED BY <1>4, ChainCat, SMT

\* endConnection drops what is queued to be sent.
LEMMA ChainEnd ==
  ASSUME NEW o \in Seq(Nat), NEW w \in Seq(Nat), NEW s \in Seq(Nat),
         NEW p \in Seq(Nat), NEW f \in Seq(Nat), NEW b \in Int,
         Ordered(Chain(o, w, s, p, f), b)
  PROVE  Ordered(Chain(o, w, <<>>, p, f), b)
<1>1. Cat(o, w) \in Seq(Nat) /\ Cat(Cat(o, w), s) \in Seq(Nat) /\ Cat(p, f) \in Seq(Nat)
  <2>1. Cat(o, w) \in Seq(Nat)
    BY CatAssociative, SMT
  <2>2. Cat(Cat(o, w), s) \in Seq(Nat)
    BY <2>1, CatAssociative, SMT
  <2>3. Cat(p, f) \in Seq(Nat)
    BY CatAssociative, SMT
  <2>. QED BY <2>1, <2>2, <2>3
<1>2. Cat(Cat(Cat(Cat(o, w), s), p), f) = Cat(Cat(Cat(o, w), s), Cat(p, f))
  BY <1>1, CatAssociative, SMT
<1>3. Cat(Cat(o, w), <<>>) = Cat(o, w)
  <2>1. Cat(o, w) \o <<>> = Cat(o, w)
    BY <1>1, Empty
  <2>. QED BY <2>1 DEF Cat
<1>4. Cat(Cat(Cat(Cat(o, w), <<>>), p), f) = Cat(Cat(o, w), Cat(p, f))
  <2>1. Cat(Cat(Cat(o, w), p), f) = Cat(Cat(o, w), Cat(p, f))
    BY <1>1, CatAssociative, SMT
  <2>. QED BY <1>3, <2>1
<1>5. Ordered(Cat(Cat(Cat(o, w), s), Cat(p, f)), b)
  BY <1>2, ChainCat, SMT
<1>6. Ordered(Cat(Cat(o, w), Cat(p, f)), b)
  <2>1. PICK a \in Seq(Nat), c \in Seq(Nat) : a = Cat(o, w) /\ c = Cat(p, f)
    BY <1>1
  <2>2. Ordered((a \o s) \o c, b)
    BY <1>5, <2>1 DEF Cat
  <2>3. Ordered(a \o c, b)
    BY <2>2, OrderedDrop
  <2>. QED BY <2>1, <2>3 DEF Cat
<1>. QED BY <1>4, <1>6, ChainCat, SMT

\* A torn burst is skipped.
LEMMA ChainSkip ==
  ASSUME NEW o \in Seq(Nat), NEW w \in Seq(Nat), NEW s \in Seq(Nat),
         NEW f \in Seq(Nat), f # <<>>, NEW b \in Int,
         Ordered(Chain(o, w, s, <<>>, f), b)
  PROVE  Ordered(Chain(o, w, s, <<>>, Tail(f)), b)
<1>1. <<Head(f)>> \in Seq(Nat) /\ Tail(f) \in Seq(Nat)
  BY HeadThenTail
<1> DEFINE a == (o \o w) \o s
<1>2. o \o w \in Seq(Nat)
  BY Concats
<1>3. a \in Seq(Nat) /\ a \o <<>> = a
  BY <1>2, Concats, Empty
<1>4. Ordered((a \o <<Head(f)>>) \o Tail(f), b)
  <2>1. Ordered(Chain(o, w, s, <<Head(f)>>, Tail(f)), b)
    BY ChainPop
  <2>. QED BY <2>1 DEF Chain
<1> HIDE DEF a
<1>5. Ordered(a \o Tail(f), b)
  BY <1>1, <1>3, <1>4, OrderedDrop
<1>. QED BY <1>3, <1>5 DEF Chain, a

\* What comes before the chain can be set apart.
LEMMA ChainPrefix ==
  ASSUME NEW r \in Seq(Nat), NEW o \in Seq(Nat), NEW w \in Seq(Nat), NEW s \in Seq(Nat),
         NEW p \in Seq(Nat), NEW f \in Seq(Nat)
  PROVE  Chain(Cat(r, o), w, s, p, f) = Cat(r, Chain(o, w, s, p, f))
<1>1. Cat(Cat(r, o), w) = Cat(r, Cat(o, w)) /\ Cat(o, w) \in Seq(Nat)
  BY CatAssociative, SMT
<1>2. Cat(Cat(r, Cat(o, w)), s) = Cat(r, Cat(Cat(o, w), s)) /\ Cat(Cat(o, w), s) \in Seq(Nat)
  BY <1>1, CatAssociative, SMT
<1>3. /\ Cat(Cat(r, Cat(Cat(o, w), s)), p) = Cat(r, Cat(Cat(Cat(o, w), s), p))
      /\ Cat(Cat(Cat(o, w), s), p) \in Seq(Nat)
  BY <1>2, CatAssociative, SMT
<1>4. Cat(Cat(r, Cat(Cat(Cat(o, w), s), p)), f) = Cat(r, Cat(Cat(Cat(Cat(o, w), s), p), f))
  BY <1>3, CatAssociative, SMT
<1>. QED BY <1>1, <1>2, <1>3, <1>4, ChainCat, SMT

LEMMA ChainSplit ==
  ASSUME NEW r \in Seq(Nat), NEW o \in Seq(Nat), NEW w \in Seq(Nat), NEW s \in Seq(Nat),
         NEW p \in Seq(Nat), NEW f \in Seq(Nat), NEW b, Ordered(Chain(r \o o, w, s, p, f), b)
  PROVE  Ordered(r \o Chain(o, w, s, p, f), b)
<1>1. Ordered(Chain(Cat(r, o), w, s, p, f), b)
  BY DEF Cat
<1>2. Ordered(Cat(r, Chain(o, w, s, p, f)), b)
  BY <1>1, ChainPrefix, SMT
<1>. QED BY <1>2 DEF Cat

\* The frontend reads some of what has arrived.
LEMMA ChainRead ==
  ASSUME NEW o \in Seq(Nat), NEW w \in Seq(Nat), NEW s \in Seq(Nat),
         NEW p \in Seq(Nat), NEW f \in Seq(Nat), NEW b \in Int, NEW j \in 1..Len(o),
         Ordered(Chain(o, w, s, p, f), b)
  PROVE  /\ SubSeq(o, j + 1, Len(o)) \in Seq(Nat)
         /\ Ordered(Chain(SubSeq(o, j + 1, Len(o)), w, s, p, f), b)
<1>1. Len(o) \in Nat /\ j \in 0..Len(o) /\ 1 \in 1..(Len(o) + 1) /\ Len(o) \in j..Len(o)
  OBVIOUS
<1>2. PICK r \in Seq(Nat) : r = SubSeq(o, 1, j)
  <2>1. SubSeq(o, 1, j) \in Seq(Nat)
    OBVIOUS
  <2>. QED BY <2>1
<1>3. PICK u \in Seq(Nat) : u = SubSeq(o, j + 1, Len(o))
  <2>1. SubSeq(o, j + 1, Len(o)) \in Seq(Nat)
    BY <1>1
  <2>. QED BY <2>1
<1>4. Ordered(Chain(r \o u, w, s, p, f), b)
  <2>1. o = r \o u
    BY <1>1, <1>2, <1>3, ConcatAdjacentSubSeq, SubSeqFull
  <2>. QED BY <2>1, Zenon
<1>5. Ordered(r \o Chain(u, w, s, p, f), b)
  BY <1>4, ChainSplit
<1>6. Chain(u, w, s, p, f) \in Seq(Nat)
  BY ChainType
<1>7. Ordered(Chain(u, w, s, p, f), b)
  BY <1>5, <1>6, OrderedConcat
<1>. QED BY <1>3, <1>7

-----------------------------------------------------------------------------
(* Steps that move threads and no packet.                                  *)

Labels == {"start", "info", "serve", "top", "recv", "push", "out", "lock", "checked", "wait",
           "write", "run", "flag", "end", "notify", "done"}

LEMMA ClientNumbers ==
  ASSUME ClientTypeOK
  PROVE  /\ MaxRequests \in Nat /\ InCap \in Nat /\ OutCap \in Nat
         /\ received \in Nat /\ received <= MaxRequests /\ popped \in Nat
         /\ peer.written \in Nat /\ peer.written <= MaxRequests
         /\ received <= peer.written /\ peer.written - received <= InCap
         /\ job \in Nat
BY ClientAssumption DEF ClientTypeOK, Inbound, Peer, Answers

LEMMA Queues ==
  ASSUME ClientTypeOK
  PROVE  /\ outbound \in Seq(Nat) /\ writing \in Seq(Nat) /\ sendQ \in Seq(Nat)
         /\ Pending \in Seq(Nat) /\ FirstsOf(execQ) \in Seq(Nat) /\ execQ \in Seq(Burst)
         /\ Len(FirstsOf(execQ)) = Len(execQ)
         /\ Inside \in Seq(Nat)
<1>1. Seq(Answers) \subseteq Seq(Nat)
  BY SeqMonotonic, ClientAssumption DEF Answers
<1>2. outbound \in Seq(Nat) /\ writing \in Seq(Nat) /\ sendQ \in Seq(Nat) /\ execQ \in Seq(Burst)
  BY <1>1 DEF ClientTypeOK
<1>3. FirstsOf(execQ) \in Seq(Nat) /\ Len(FirstsOf(execQ)) = Len(execQ)
  BY <1>2, FirstsType
<1>4. Pending \in Seq(Nat)
  BY ClientNumbers DEF Pending
<1>. QED BY <1>2, <1>3, <1>4, ChainType DEF Inside

LEMMA Moves ==
  ASSUME ClientInv, UNCHANGED <<outbound, writing, sendQ, job, execQ, burst, popped, received, peer>>,
         active' \in BOOLEAN, open' \in BOOLEAN, alive' \in BOOLEAN, overslept' \subseteq Loops,
         pc' \in [Threads -> Labels],
         sendMtx' \in {Nobody, "send"}, execMtx' \in {Nobody, "exec"},
         Threading',
         pc'["exec"] = "run" <=> pc["exec"] = "run",
         pc'["recv"] = "push" => pc["recv"] = "push",
         pc'["main"] \in {"start", "info"} => pc["main"] \in {"start", "info"},
         pc'["main"] = "start" => pc' = pc
  PROVE  ClientInv'
<1>1. Inside' = Inside
  BY DEF Inside, Pending
<1>2. ClientTypeOK'
  BY DEF ClientInv, ClientTypeOK, Labels, Inbound
<1>3. Peering'
  BY DEF ClientInv, Peering
<1>4. Bursts'
  BY <1>1 DEF ClientInv, Bursts
<1>. QED BY <1>1, <1>2, <1>3, <1>4 DEF ClientInv

LEMMA Unmoved ==
  ASSUME ClientInv, UNCHANGED <<outbound, writing, sendQ, job, execQ, burst, popped, received, peer>>,
         UNCHANGED <<pc, sendMtx, execMtx, active, open, overslept>>, alive' \in BOOLEAN
  PROVE  ClientInv'
<1>1. Threading'
  BY DEF ClientInv, Threading
<1>. QED BY <1>1, Moves DEF ClientInv, ClientTypeOK, Labels

\* The receiving and the main thread move on their own.
LEMMA RecvMoves ==
  ASSUME ClientInv, NEW label \in {"recv", "out", "flag", "done"},
         pc["recv"] \in {"top", "recv", "out"}, Goto("recv", label),
         UNCHANGED <<conVars, execVars, sendVars, recvVars, peerVars, overslept>>
  PROVE  ClientInv'
<1>1. UNCHANGED <<outbound, writing, sendQ, job, execQ, burst, popped, received, peer,
                  sendMtx, execMtx, active, open, alive, overslept>>
  BY DEF conVars, execVars, sendVars, recvVars, peerVars
<1>2. pc \in [Threads -> Labels]
  BY DEF ClientInv, ClientTypeOK, Labels
<1>3. /\ pc' \in [Threads -> Labels] /\ pc'["recv"] = label
      /\ pc'["main"] = pc["main"] /\ pc'["send"] = pc["send"] /\ pc'["exec"] = pc["exec"]
  BY <1>2 DEF Goto, Threads, Loops, Labels
<1>4. Threading'
  BY <1>1, <1>3 DEF ClientInv, Threading
<1>5. pc["main"] # "start"
  BY DEF ClientInv, Peering
<1>. QED BY <1>1, <1>3, <1>4, <1>5, Moves DEF ClientInv, ClientTypeOK

LEMMA SendMoves ==
  ASSUME ClientInv, NEW label \in {"top", "lock", "checked", "wait", "done"},
         pc["send"] \in {"top", "lock", "checked"}, Goto("send", label),
         UNCHANGED <<conVars, execVars, sendQ, writing, recvVars, peerVars, overslept>>,
         sendMtx' = IF label = "checked" THEN "send"
                    ELSE IF pc["send"] = "checked" THEN Nobody ELSE sendMtx
  PROVE  ClientInv'
<1>1. UNCHANGED <<outbound, writing, sendQ, job, execQ, burst, popped, received, peer,
                  execMtx, active, open, alive, overslept>>
  BY DEF conVars, execVars, recvVars, peerVars
<1>2. pc \in [Threads -> Labels] /\ sendMtx \in {Nobody, "send"}
  BY DEF ClientInv, ClientTypeOK, Labels
<1>3. /\ pc' \in [Threads -> Labels] /\ pc'["send"] = label
      /\ pc'["main"] = pc["main"] /\ pc'["recv"] = pc["recv"] /\ pc'["exec"] = pc["exec"]
  BY <1>2 DEF Goto, Threads, Loops, Labels
<1>4. sendMtx' \in {Nobody, "send"} /\ (sendMtx' = "send" <=> label = "checked")
  BY <1>2 DEF ClientInv, Threading, Nobody
<1>5. Threading'
  BY <1>1, <1>3, <1>4 DEF ClientInv, Threading
<1>6. pc["main"] # "start"
  BY DEF ClientInv, Peering
<1>. QED BY <1>1, <1>3, <1>4, <1>5, <1>6, Moves DEF ClientInv, ClientTypeOK

LEMMA ExecMoves ==
  ASSUME ClientInv, NEW label \in {"top", "lock", "checked", "wait", "done"},
         pc["exec"] \in {"top", "lock", "checked"}, Goto("exec", label),
         UNCHANGED <<conVars, execQ, popped, job, sendVars, recvVars, peerVars, overslept>>,
         execMtx' = IF label = "checked" THEN "exec"
                    ELSE IF pc["exec"] = "checked" THEN Nobody ELSE execMtx
  PROVE  ClientInv'
<1>1. UNCHANGED <<outbound, writing, sendQ, job, execQ, burst, popped, received, peer,
                  sendMtx, active, open, alive, overslept>>
  BY DEF conVars, sendVars, recvVars, peerVars
<1>2. pc \in [Threads -> Labels] /\ execMtx \in {Nobody, "exec"}
  BY DEF ClientInv, ClientTypeOK, Labels
<1>3. /\ pc' \in [Threads -> Labels] /\ pc'["exec"] = label
      /\ pc'["main"] = pc["main"] /\ pc'["recv"] = pc["recv"] /\ pc'["send"] = pc["send"]
  BY <1>2 DEF Goto, Threads, Loops, Labels
<1>4. execMtx' \in {Nobody, "exec"} /\ (execMtx' = "exec" <=> label = "checked")
  BY <1>2 DEF ClientInv, Threading, Nobody
<1>5. Threading'
  BY <1>1, <1>3, <1>4 DEF ClientInv, Threading
<1>6. pc["main"] # "start"
  BY DEF ClientInv, Peering
<1>. QED BY <1>1, <1>3, <1>4, <1>5, <1>6, Moves DEF ClientInv, ClientTypeOK

LEMMA MovesKeep ==
  ASSUME ClientInv,
         \/ RecvTop \/ ReceiveNothing \/ RecvOut
         \/ SendTop \/ PollNothing \/ SendWaits
         \/ ExecTop \/ PopNothing \/ ExecWaits
         \/ MainReturns \/ RecvThrows \/ SendThrows \/ PollClosed
  PROVE  ClientInv'
<1>1. CASE RecvTop \/ ReceiveNothing \/ RecvOut
  <2>1. PICK label \in {"recv", "out", "flag", "done"} : Goto("recv", label)
    BY <1>1 DEF RecvTop, ReceiveNothing, RecvOut
  <2>. QED BY <1>1, <2>1, RecvMoves DEF RecvTop, ReceiveNothing, RecvOut, At
<1>2. CASE SendTop
  <2>1. PICK label \in {"lock", "done"} : Goto("send", label)
    BY <1>2 DEF SendTop
  <2>. QED BY <1>2, <2>1, SendMoves DEF SendTop, At, sendVars
<1>3. CASE PollNothing
  <2>1. CASE active
    BY <1>3, <2>1, SendMoves DEF PollNothing, At
  <2>2. CASE ~active
    BY <1>3, <2>2, SendMoves DEF PollNothing, At
  <2>. QED BY <2>1, <2>2
<1>4. CASE SendWaits
  BY <1>4, SendMoves DEF SendWaits, At
<1>5. CASE ExecTop
  <2>1. PICK label \in {"lock", "done"} : Goto("exec", label)
    BY <1>5 DEF ExecTop
  <2>. QED BY <1>5, <2>1, ExecMoves DEF ExecTop, At, execVars
<1>6. CASE PopNothing
  <2>1. CASE active
    BY <1>6, <2>1, ExecMoves DEF PopNothing, At
  <2>2. CASE ~active
    BY <1>6, <2>2, ExecMoves DEF PopNothing, At
  <2>. QED BY <2>1, <2>2
<1>7. CASE ExecWaits
  BY <1>7, ExecMoves DEF ExecWaits, At
<1>8. CASE MainReturns \/ RecvThrows \/ SendThrows \/ PollClosed
  <2>1. Dies
    BY <1>8 DEF MainReturns, RecvThrows, SendThrows, PollClosed
  <2>. QED BY <2>1, Unmoved DEF Dies, execVars, sendVars, recvVars, peerVars
<1>. QED BY <1>1, <1>2, <1>3, <1>4, <1>5, <1>6, <1>7, <1>8

\* Main starts and is interrupted, and whoever closes clears _active and wakes
\* the loops.
LEMMA MainMovesKeep ==
  ASSUME ClientInv, Connect \/ Interrupted
  PROVE  ClientInv'
<1>1. UNCHANGED <<outbound, writing, sendQ, job, execQ, burst, popped, received, peer,
                  sendMtx, execMtx, alive, overslept>>
  BY DEF Connect, Interrupted, conVars, execVars, sendVars, recvVars, peerVars
<1>2. pc \in [Threads -> Labels]
  BY DEF ClientInv, ClientTypeOK, Labels
<1>3. CASE Connect
  <2>1. /\ pc["main"] = "start" /\ pc["recv"] = "done" /\ pc["send"] = "done" /\ pc["exec"] = "done"
        /\ active' = TRUE /\ open' = TRUE
    BY <1>3 DEF Connect, At, ClientInv, Peering
  <2>2. /\ pc' \in [Threads -> Labels] /\ pc'["main"] = "info"
        /\ pc'["recv"] = "top" /\ pc'["send"] = "top" /\ pc'["exec"] = "top"
    BY <1>3 DEF Connect, Threads, Loops, Labels
  <2>3. Threading'
    BY <1>1, <2>1, <2>2 DEF ClientInv, Threading
  <2>. QED BY <1>1, <2>1, <2>2, <2>3, Moves DEF ClientInv, ClientTypeOK
<1>4. CASE Interrupted
  <2>1. pc["main"] = "serve" /\ UNCHANGED <<active, open>>
    BY <1>4 DEF Interrupted, At, conVars
  <2>2. /\ pc' \in [Threads -> Labels] /\ pc'["main"] = "flag"
        /\ pc'["recv"] = pc["recv"] /\ pc'["send"] = pc["send"] /\ pc'["exec"] = pc["exec"]
    BY <1>2, <1>4 DEF Interrupted, Goto, Threads, Loops, Labels
  <2>3. Threading'
    BY <1>1, <2>1, <2>2 DEF ClientInv, Threading
  <2>. QED BY <1>1, <2>1, <2>2, <2>3, Moves DEF ClientInv, ClientTypeOK
<1>. QED BY <1>3, <1>4

LEMMA CloserMovesKeep ==
  ASSUME ClientInv, NEW t \in Closers, ClearActive(t) \/ Notify(t)
  PROVE  ClientInv'
<1>1. UNCHANGED <<outbound, writing, sendQ, job, execQ, burst, popped, received, peer,
                  sendMtx, execMtx, open, alive>>
  BY DEF ClearActive, Notify, NotifyLoops, conVars, execVars, sendVars, recvVars, peerVars
<1>2. pc \in [Threads -> Labels]
  BY DEF ClientInv, ClientTypeOK, Labels
<1>3. /\ active' \in BOOLEAN /\ overslept' \subseteq Loops
      /\ open' \in BOOLEAN /\ alive' \in BOOLEAN
      /\ sendMtx' \in {Nobody, "send"} /\ execMtx' \in {Nobody, "exec"}
  BY <1>1 DEF ClearActive, Notify, NotifyLoops, conVars, ClientInv, ClientTypeOK
<1>4. t = "main" \/ t = "recv"
  BY DEF Closers
<1>5. /\ pc' \in [Threads -> Labels] /\ pc[t] \in {"flag", "notify"} /\ pc'[t] \in {"end", "done"}
      /\ \A u \in Closers \ {t} : pc'[u] = pc[u]
      /\ \A u \in Loops : pc'[u] = pc[u] \/ (pc[u] = "wait" /\ pc'[u] = "lock")
  <2>1. CASE ClearActive(t)
    BY <1>2, <1>4, <2>1 DEF ClearActive, At, Goto, Threads, Loops, Labels, Closers
  <2>2. CASE Notify(t)
    <3>1. /\ pc[t] = "notify"
          /\ \A u \in Threads : pc'[u] = IF u = t THEN "done"
                                         ELSE IF u \in Loops /\ pc[u] = "wait" THEN "lock" ELSE pc[u]
      BY <2>2 DEF Notify, NotifyLoops, At, GotoAndNotify
    <3>2. pc' \in [Threads -> Labels]
      BY <1>2, <2>2 DEF Notify, NotifyLoops, GotoAndNotify, Labels
    <3>. QED BY <1>4, <3>1, <3>2 DEF Threads, Loops, Closers
  <2>. QED BY <2>1, <2>2
<1>6. /\ pc'["main"] = pc["main"] \/ (pc["main"] \in {"flag", "notify"} /\ pc'["main"] \in {"end", "done"})
      /\ pc'["recv"] = pc["recv"] \/ (pc["recv"] \in {"flag", "notify"} /\ pc'["recv"] \in {"end", "done"})
      /\ pc'["send"] = pc["send"] \/ (pc["send"] = "wait" /\ pc'["send"] = "lock")
      /\ pc'["exec"] = pc["exec"] \/ (pc["exec"] = "wait" /\ pc'["exec"] = "lock")
  BY <1>4, <1>5 DEF Loops, Closers
<1>7. Threading'
  BY <1>1, <1>6 DEF ClientInv, Threading
<1>8. pc["main"] # "start"
  BY <1>4, <1>5 DEF ClientInv, Peering
<1>9. pc'["main"] # "start"
  BY <1>6, <1>8
<1>. QED BY <1>1, <1>3, <1>5, <1>6, <1>7, <1>9, Moves

-----------------------------------------------------------------------------
(* Steps that move a packet.                                               *)

\* What arrives from the frontend's end stays in order when nothing is added
\* inside, whatever is dropped.
LEMMA Kept ==
  ASSUME ClientInv, received' = received, burst' = burst,
         pc'["recv"] = "push" => pc["recv"] = "push",
         \A i \in 1..Len(execQ') : execQ'[i].last <= received,
         \A b \in Int : Ordered(Inside, b) => Ordered(Inside', b)
  PROVE  Bursts' /\ Ordered(Inside, received)'
<1>1. received \in Int
  BY ClientNumbers DEF ClientInv
<1>2. Ordered(Inside', received')
  BY <1>1 DEF ClientInv
<1>3. ASSUME pc["recv"] = "push"
      PROVE  Ordered(Inside', burst.first - 1)
  <2>1. burst.first - 1 \in Int /\ Ordered(Inside, burst.first - 1)
    BY <1>3, ClientAssumption DEF ClientInv, Bursts, Burst, Requests
  <2>. QED BY <2>1
<1>4. Bursts'
  BY <1>3 DEF ClientInv, Bursts
<1>5. Ordered(Inside, received)' <=> Ordered(Inside', received')
  BY DEF Ordered
<1>. QED BY <1>2, <1>4, <1>5

LEMMA Gotos ==
  ASSUME ClientTypeOK, NEW t \in Threads, NEW label \in Labels, Goto(t, label)
  PROVE  /\ pc' \in [Threads -> Labels] /\ pc'[t] = label
         /\ \A u \in Threads \ {t} : pc'[u] = pc[u]
<1>1. pc \in [Threads -> Labels]
  BY DEF ClientTypeOK, Labels
<1>. QED BY <1>1 DEF Goto

LEMMA Notifies ==
  ASSUME ClientTypeOK, NEW t \in Threads, NEW label \in Labels, NEW l \in Loops \ {t},
         GotoAndNotify(t, label, {l})
  PROVE  /\ pc' \in [Threads -> Labels] /\ pc'[t] = label
         /\ \A u \in Threads \ {t, l} : pc'[u] = pc[u]
         /\ pc'[l] = pc[l] \/ (pc[l] = "wait" /\ pc'[l] = "lock")
<1>1. pc \in [Threads -> Labels] /\ "lock" \in Labels /\ l \in Threads
  BY DEF ClientTypeOK, Labels, Threads
<1>. QED BY <1>1 DEF GotoAndNotify

\* The frontend writes a request, or breaks the connection.
LEMMA PeerMovesKeep ==
  ASSUME ClientInv, PeerTakesUp \/ PeerWrites \/ PeerBreaks
  PROVE  ClientInv'
<1>1. UNCHANGED <<outbound, writing, sendQ, job, execQ, burst, popped, received,
                  sendMtx, execMtx, pc, active, open, alive, overslept>>
  BY DEF PeerTakesUp, PeerWrites, PeerBreaks, conVars, execVars, sendVars, recvVars
<1>2. /\ peer \in Peer
      /\ MaxRequests \in Nat /\ InCap \in Nat /\ received \in Nat /\ peer.written \in Nat
      /\ received <= peer.written /\ peer.written - received <= InCap
      /\ peer.written <= MaxRequests
  BY ClientNumbers DEF ClientInv, ClientTypeOK
<1>3. /\ peer.busy => peer.con /\ peer.written < MaxRequests
      /\ peer.written > 0 => peer.con
  BY DEF ClientInv, Peering
<1>4. /\ peer' \in Peer /\ peer'.con = peer.con
      /\ received <= peer'.written /\ peer'.written - received <= InCap
      /\ peer'.busy => peer'.con /\ peer'.written < MaxRequests
      /\ peer'.written > 0 => peer'.con
  <2>1. CASE PeerTakesUp
    <3>1. /\ peer.con /\ peer.written < MaxRequests
          /\ peer' = [up |-> peer.up, con |-> peer.con, written |-> peer.written, busy |-> TRUE]
      BY <1>2, <2>1 DEF PeerTakesUp, Peer
    <3>. QED BY <1>2, <1>3, <3>1 DEF Peer
  <2>2. CASE PeerWrites
    <3>1. /\ peer.busy /\ peer.written - received < InCap
          /\ peer' = [up |-> peer.up, con |-> peer.con, written |-> peer.written + 1, busy |-> FALSE]
      BY <1>2, <2>2 DEF PeerWrites, Peer, Inbound
    <3>. QED BY <1>2, <1>3, <3>1 DEF Peer
  <2>3. CASE PeerBreaks
    <3>1. peer' = [up |-> FALSE, con |-> peer.con, written |-> peer.written, busy |-> peer.busy]
      BY <1>2, <2>3 DEF PeerBreaks, Peer
    <3>. QED BY <1>2, <1>3, <3>1 DEF Peer
  <2>. QED BY <2>1, <2>2, <2>3
<1>5. Inside' = Inside
  BY <1>1 DEF Inside, Pending
<1>6. Inbound' \in 0..InCap
  <2>1. peer'.written \in Nat
    BY <1>4 DEF Peer
  <2>2. Inbound' = peer'.written - received
    BY <1>1 DEF Inbound
  <2>. QED BY <1>2, <1>4, <2>1, <2>2
<1>7. ClientTypeOK'
  BY <1>1, <1>4, <1>6 DEF ClientInv, ClientTypeOK
<1>8. Peering' /\ Threading'
  BY <1>1, <1>4 DEF ClientInv, Peering, Threading
<1>9. Bursts' /\ Ordered(Inside, received)'
  BY <1>1, <1>5 DEF ClientInv, Bursts
<1>. QED BY <1>7, <1>8, <1>9 DEF ClientInv

\* It reads some of the answers.
LEMMA PeerReadsKeeps ==
  ASSUME ClientInv, PeerReads
  PROVE  ClientInv'
<1>1. UNCHANGED <<writing, sendQ, job, execQ, burst, popped, received,
                  sendMtx, execMtx, pc, active, open, alive, overslept>>
  BY DEF PeerReads, conVars, execVars, sendVars, recvVars
<1>2. PICK j \in 1..Len(outbound) :
        /\ outbound' = SubSeq(outbound, j + 1, Len(outbound))
        /\ peer' = [peer EXCEPT !.con = @ \/ outbound[1] = 0]
  BY DEF PeerReads
<1>3. /\ outbound \in Seq(Nat) /\ writing \in Seq(Nat) /\ sendQ \in Seq(Nat)
      /\ Pending \in Seq(Nat) /\ FirstsOf(execQ) \in Seq(Nat)
  BY Queues DEF ClientInv
<1>4. outbound \in Seq(Answers) /\ Len(outbound) \in Nat /\ Len(outbound) <= OutCap /\ OutCap \in Nat
  BY ClientAssumption DEF ClientInv, ClientTypeOK
<1>5. outbound' \in Seq(Answers) /\ Len(outbound') <= OutCap
  <2>1. /\ SubSeq(outbound, j + 1, Len(outbound)) \in Seq(Answers)
        /\ Len(SubSeq(outbound, j + 1, Len(outbound))) = Len(outbound) - j
    BY <1>4, SubSeqProperties
  <2>. QED BY <1>2, <1>4, <2>1
<1>6. pc["main"] \notin {"start", "info"}
  <2>1. outbound # <<>>
    BY <1>4
  <2>. QED BY <2>1 DEF ClientInv, Peering
<1>7. /\ peer' \in Peer /\ peer'.written = peer.written /\ peer'.busy = peer.busy
      /\ peer.con => peer'.con
  BY <1>2 DEF ClientInv, ClientTypeOK, Peer
<1>8. ClientTypeOK'
  BY <1>1, <1>5, <1>7 DEF ClientInv, ClientTypeOK, Inbound
<1>9. Peering' /\ Threading'
  BY <1>1, <1>6, <1>7 DEF ClientInv, Peering, Threading
<1>10. Pending' = Pending
  BY <1>1 DEF Pending
<1>11. Inside' = Chain(SubSeq(outbound, j + 1, Len(outbound)), writing, sendQ, Pending, FirstsOf(execQ))
  BY <1>1, <1>2, <1>10 DEF Inside
<1>12. ASSUME NEW b \in Int, Ordered(Inside, b)
       PROVE  Ordered(Inside', b)
  <2>1. Ordered(Chain(outbound, writing, sendQ, Pending, FirstsOf(execQ)), b)
    BY <1>12 DEF Inside
  <2>2. Ordered(Chain(SubSeq(outbound, j + 1, Len(outbound)), writing, sendQ, Pending,
                      FirstsOf(execQ)), b)
    BY <1>3, <2>1, ChainRead
  <2>. QED BY <1>11, <2>2
<1>13. \A i \in 1..Len(execQ') : execQ'[i].last <= received
  BY <1>1 DEF ClientInv, Bursts
<1>14. Bursts' /\ Ordered(Inside, received)'
  BY <1>1, <1>12, <1>13, Kept
<1>. QED BY <1>8, <1>9, <1>14 DEF ClientInv

\* sendLoop takes the head of its queue.
LEMMA PollKeeps ==
  ASSUME ClientInv, Poll
  PROVE  ClientInv'
<1>1. /\ UNCHANGED <<outbound, job, execQ, burst, popped, received, peer,
                     execMtx, active, open, alive, overslept>>
      /\ sendQ # <<>> /\ sendQ' = Tail(sendQ) /\ writing' = <<Head(sendQ)>>
      /\ pc["send"] = "lock" /\ sendMtx' = "send" /\ Goto("send", "write")
  BY DEF Poll, Polled, At, conVars, execVars, recvVars, peerVars
<1>2. /\ pc' \in [Threads -> Labels] /\ pc'["send"] = "write"
      /\ pc'["main"] = pc["main"] /\ pc'["recv"] = pc["recv"] /\ pc'["exec"] = pc["exec"]
  BY <1>1, Gotos DEF ClientInv, Threads, Loops, Labels
<1>3. /\ outbound \in Seq(Nat) /\ sendQ \in Seq(Nat) /\ writing = <<>>
  BY <1>1, Queues DEF ClientInv, Threading
<1>4. /\ Tail(sendQ) \in Seq(Answers) /\ <<Head(sendQ)>> \in Seq(Answers)
      /\ <<Head(sendQ)>> # <<>> /\ Len(<<Head(sendQ)>>) = 1
  BY <1>1 DEF ClientInv, ClientTypeOK
<1>5. ClientTypeOK'
  BY <1>1, <1>2, <1>4 DEF ClientInv, ClientTypeOK, Inbound, Labels
<1>6. Peering'
  BY <1>1, <1>2 DEF ClientInv, Peering
<1>7. Threading'
  BY <1>1, <1>2, <1>4 DEF ClientInv, Threading
<1>8. Pending' = Pending
  BY <1>1, <1>2 DEF Pending
<1>9. Inside' = Inside
  <2>1. Inside' = Chain(outbound, <<Head(sendQ)>>, Tail(sendQ), Pending, FirstsOf(execQ))
    BY <1>1, <1>8 DEF Inside
  <2>2. Inside = Chain(outbound, <<>>, sendQ, Pending, FirstsOf(execQ))
    BY <1>3 DEF Inside
  <2>. QED BY <1>1, <1>3, <2>1, <2>2, ChainPoll
<1>10. Bursts' /\ Ordered(Inside, received)'
  BY <1>1, <1>2, <1>9 DEF ClientInv, Bursts
<1>. QED BY <1>5, <1>6, <1>7, <1>10 DEF ClientInv

\* sendBytes writes it into the socket.
LEMMA SendBytesKeeps ==
  ASSUME ClientInv, SendBytes
  PROVE  ClientInv'
<1>1. /\ UNCHANGED <<sendQ, job, execQ, burst, popped, received, peer,
                     execMtx, active, open, alive, overslept>>
      /\ Len(outbound) < OutCap /\ outbound' = outbound \o writing /\ writing' = <<>>
      /\ pc["send"] = "write" /\ sendMtx' = Nobody /\ Goto("send", "top")
  BY DEF SendBytes, At, conVars, execVars, recvVars
<1>2. /\ pc' \in [Threads -> Labels] /\ pc'["send"] = "top"
      /\ pc'["main"] = pc["main"] /\ pc'["recv"] = pc["recv"] /\ pc'["exec"] = pc["exec"]
  BY <1>1, Gotos DEF ClientInv, Threads, Loops, Labels
<1>3. /\ outbound \in Seq(Nat) /\ writing \in Seq(Nat) /\ writing # <<>>
  BY <1>1, Queues DEF ClientInv, Threading
<1>4. outbound \o writing \in Seq(Answers) /\ Len(outbound \o writing) <= OutCap
  <2>1. /\ outbound \in Seq(Answers) /\ writing \in Seq(Answers) /\ Len(writing) <= 1
        /\ Len(outbound) \in Nat /\ Len(writing) \in Nat /\ OutCap \in Nat
    BY ClientAssumption DEF ClientInv, ClientTypeOK
  <2>2. outbound \o writing \in Seq(Answers) /\ Len(outbound \o writing) = Len(outbound) + Len(writing)
    BY <2>1, ConcatProperties
  <2>. QED BY <1>1, <2>1, <2>2
<1>5. ClientTypeOK'
  <2>1. writing' \in Seq(Answers) /\ Len(writing') <= 1
    BY <1>1
  <2>. QED BY <1>1, <1>2, <1>4, <2>1 DEF ClientInv, ClientTypeOK, Inbound, Labels
<1>6. Peering'
  <2>1. pc["main"] \notin {"start", "info"}
    BY <1>3 DEF ClientInv, Peering
  <2>. QED BY <1>1, <1>2, <2>1 DEF ClientInv, Peering
<1>7. Threading'
  BY <1>1, <1>2 DEF ClientInv, Threading, Nobody
<1>8. Pending' = Pending
  BY <1>1, <1>2 DEF Pending
<1>9. Inside' = Inside
  <2>1. Inside' = Chain(outbound \o writing, <<>>, sendQ, Pending, FirstsOf(execQ))
    BY <1>1, <1>8 DEF Inside
  <2>. QED BY <1>3, <2>1, ChainSend DEF Inside
<1>10. Bursts' /\ Ordered(Inside, received)'
  BY <1>1, <1>2, <1>9 DEF ClientInv, Bursts
<1>. QED BY <1>5, <1>6, <1>7, <1>10 DEF ClientInv

\* endConnection drops what is still queued.
LEMMA EndConnectionKeeps ==
  ASSUME ClientInv, NEW t \in Closers, EndConnection(t)
  PROVE  ClientInv'
<1>1. /\ UNCHANGED <<outbound, writing, job, execQ, burst, popped, received, peer,
                     sendMtx, execMtx, active, alive, overslept>>
      /\ open' = FALSE /\ sendQ' = <<>> /\ pc[t] = "end" /\ Goto(t, "notify")
  BY DEF EndConnection, At, execVars, recvVars, peerVars
<1>2. t \in Threads /\ (t = "main" \/ t = "recv")
  BY DEF Closers, Threads
<1>3. /\ pc' \in [Threads -> Labels] /\ pc'[t] = "notify"
      /\ \A u \in Threads \ {t} : pc'[u] = pc[u]
  BY <1>1, <1>2, Gotos DEF ClientInv, Labels
<1>4. /\ pc'["main"] = pc["main"] \/ (pc["main"] = "end" /\ pc'["main"] = "notify")
      /\ pc'["recv"] = pc["recv"] \/ (pc["recv"] = "end" /\ pc'["recv"] = "notify")
      /\ pc'["send"] = pc["send"] /\ pc'["exec"] = pc["exec"]
  BY <1>1, <1>2, <1>3 DEF Threads, Loops
<1>5. /\ outbound \in Seq(Nat) /\ writing \in Seq(Nat) /\ sendQ \in Seq(Nat)
      /\ Pending \in Seq(Nat) /\ FirstsOf(execQ) \in Seq(Nat)
  BY Queues DEF ClientInv
<1>6. ClientTypeOK'
  <2>1. sendQ' \in Seq(Answers)
    BY <1>1
  <2>. QED BY <1>1, <1>3, <2>1 DEF ClientInv, ClientTypeOK, Inbound, Labels
<1>7. Peering'
  <2>1. pc["main"] # "start"
    BY <1>1, <1>2 DEF ClientInv, Peering
  <2>2. pc'["main"] \in {"start", "info"} => pc["main"] \in {"start", "info"}
    BY <1>4
  <2>3. pc'["main"] # "start"
    BY <1>4, <2>1
  <2>. QED BY <1>1, <1>4, <2>1, <2>2, <2>3 DEF ClientInv, Peering
<1>8. Threading'
  BY <1>1, <1>4 DEF ClientInv, Threading
<1>9. Pending' = Pending
  BY <1>1, <1>4 DEF Pending
<1>10. Inside' = Chain(outbound, writing, <<>>, Pending, FirstsOf(execQ))
  BY <1>1, <1>9 DEF Inside
<1>11. ASSUME NEW b \in Int, Ordered(Inside, b)
       PROVE  Ordered(Inside', b)
  BY <1>5, <1>10, <1>11, ChainEnd DEF Inside
<1>12. \A i \in 1..Len(execQ') : execQ'[i].last <= received
  BY <1>1 DEF ClientInv, Bursts
<1>13. Bursts' /\ Ordered(Inside, received)'
  BY <1>1, <1>4, <1>11, <1>12, Kept
<1>. QED BY <1>6, <1>7, <1>8, <1>13 DEF ClientInv

\* The executor queues the answer of the packet it ran.
LEMMA RunKeeps ==
  ASSUME ClientInv, Run
  PROVE  ClientInv'
<1>1. /\ UNCHANGED <<outbound, writing, execQ, burst, popped, received, peer,
                     sendMtx, active, open, alive, overslept>>
      /\ sendQ' = Append(sendQ, job) /\ job' = 0 /\ sendMtx = Nobody
      /\ pc["exec"] = "run" /\ execMtx' = Nobody /\ GotoAndNotify("exec", "top", {"send"})
  BY DEF Run, SendPacket, Sends, At, conVars, recvVars, peerVars
<1>2. /\ pc' \in [Threads -> Labels] /\ pc'["exec"] = "top"
      /\ pc'["main"] = pc["main"] /\ pc'["recv"] = pc["recv"]
      /\ pc'["send"] = pc["send"] \/ (pc["send"] = "wait" /\ pc'["send"] = "lock")
  <2>1. "exec" \in Threads /\ "top" \in Labels /\ "send" \in Loops \ {"exec"}
        /\ "main" \in Threads \ {"exec", "send"} /\ "recv" \in Threads \ {"exec", "send"}
    BY DEF Threads, Loops, Labels
  <2>. QED BY <1>1, <2>1, Notifies DEF ClientInv
<1>3. /\ outbound \in Seq(Nat) /\ writing \in Seq(Nat) /\ sendQ \in Seq(Nat) /\ job \in Nat
  BY Queues, ClientNumbers DEF ClientInv
<1>4. ClientTypeOK'
  <2>1. sendQ' \in Seq(Answers) /\ job' \in Answers
    BY <1>1, ClientAssumption DEF ClientInv, ClientTypeOK, Answers
  <2>. QED BY <1>1, <1>2, <2>1 DEF ClientInv, ClientTypeOK, Inbound, Labels
<1>5. Peering'
  <2>1. pc["main"] \notin {"start", "info"}
    BY <1>1 DEF ClientInv, Peering
  <2>. QED BY <1>1, <1>2, <2>1 DEF ClientInv, Peering
<1>6. Threading'
  BY <1>1, <1>2 DEF ClientInv, Threading, Nobody
<1>7. Inside' = Inside
  <2>1. Pending = <<job>> /\ Pending' = <<>>
    BY <1>1, <1>2 DEF Pending
  <2>2. Inside' = Chain(outbound, writing, Append(sendQ, job), <<>>, FirstsOf(execQ))
    BY <1>1, <2>1 DEF Inside
  <2>. QED BY <1>3, <2>1, <2>2, ChainRun DEF Inside
<1>8. Bursts' /\ Ordered(Inside, received)'
  BY <1>1, <1>2, <1>7 DEF ClientInv, Bursts
<1>. QED BY <1>4, <1>5, <1>6, <1>8 DEF ClientInv

\* Main queues the NodeInfo, before anything else can be inside.
LEMMA SendNodeInfoKeeps ==
  ASSUME ClientInv, SendNodeInfo
  PROVE  ClientInv'
<1>1. /\ UNCHANGED <<outbound, writing, job, execQ, burst, popped, received, peer,
                     sendMtx, execMtx, active, open, alive, overslept>>
      /\ sendQ' = Append(sendQ, 0)
      /\ pc["main"] = "info" /\ GotoAndNotify("main", "serve", {"send"})
  BY DEF SendNodeInfo, SendPacket, Sends, At, conVars, execVars, recvVars, peerVars
<1>2. /\ pc' \in [Threads -> Labels] /\ pc'["main"] = "serve"
      /\ pc'["exec"] = pc["exec"] /\ pc'["recv"] = pc["recv"]
      /\ pc'["send"] = pc["send"] \/ (pc["send"] = "wait" /\ pc'["send"] = "lock")
  BY <1>1, Notifies DEF ClientInv, Threads, Loops, Labels
<1>3. /\ ~peer.con /\ outbound = <<>> /\ writing = <<>> /\ sendQ = <<>> /\ execQ = <<>>
      /\ pc["exec"] # "run"
  BY <1>1 DEF ClientInv, Peering
<1>4. received = 0
  <2>1. /\ received \in Nat /\ peer.written \in Nat /\ received <= peer.written
        /\ ~(peer.written > 0)
    BY <1>3, ClientNumbers DEF ClientInv, Peering
  <2>. QED BY <2>1
<1>5. sendQ' = <<0>>
  BY <1>1, <1>3
<1>6. ClientTypeOK'
  <2>1. sendQ' \in Seq(Answers)
    BY <1>5, ClientAssumption DEF Answers
  <2>. QED BY <1>1, <1>2, <2>1 DEF ClientInv, ClientTypeOK, Inbound, Labels
<1>7. Peering'
  BY <1>1, <1>2 DEF ClientInv, Peering
<1>8. Threading'
  BY <1>1, <1>2 DEF ClientInv, Threading, Nobody
<1>9. pc["recv"] # "push"
  <2>1. SUFFICES ASSUME pc["recv"] = "push"
                 PROVE  FALSE
    OBVIOUS
  <2>2. burst \in Burst /\ burst.last <= received
    BY <2>1 DEF ClientInv, Bursts
  <2>. QED BY <1>4, <2>2, ClientAssumption DEF Burst, Requests
<1>10. FirstsOf(execQ) = <<>> /\ Pending' = <<>>
  BY <1>2, <1>3 DEF FirstsOf, Pending
<1>11. Inside' = <<0>>
  <2>1. Inside' = Chain(<<>>, <<>>, <<0>>, <<>>, <<>>)
    BY <1>1, <1>3, <1>5, <1>10 DEF Inside
  <2>2. <<0>> \in Seq(Nat) /\ <<>> \o <<>> = <<>> /\ <<>> \o <<0>> = <<0>> /\ <<0>> \o <<>> = <<0>>
    <3>1. <<0>> \in Seq(Nat) /\ <<>> \in Seq(Nat)
      OBVIOUS
    <3>. QED BY <3>1, Empty
  <2>. QED BY <2>1, <2>2 DEF Chain
<1>12. Ordered(Inside, received)'
  <2>1. Ordered(<<0>>, 0)
    BY OrderedOne
  <2>2. received' = 0
    BY <1>1, <1>4
  <2>. QED BY <1>11, <2>1, <2>2
<1>13. Bursts'
  BY <1>1, <1>2, <1>3, <1>9 DEF Bursts
<1>. QED BY <1>6, <1>7, <1>8, <1>12, <1>13 DEF ClientInv

\* The first requests of a queue of bursts, when one is taken or added.
LEMMA FirstsOfTail ==
  ASSUME NEW q \in Seq(Burst), q # <<>>
  PROVE  /\ Head(q) \in Burst /\ Tail(q) \in Seq(Burst)
         /\ FirstsOf(q) # <<>>
         /\ Head(FirstsOf(q)) = Head(q).first
         /\ Tail(FirstsOf(q)) = FirstsOf(Tail(q))
<1>1. /\ Head(q) \in Burst /\ Tail(q) \in Seq(Burst) /\ Len(Tail(q)) = Len(q) - 1
      /\ Head(q) = q[1] /\ Len(q) \in Nat \ {0}
      /\ \A i \in 1..Len(Tail(q)) : Tail(q)[i] = q[i + 1]
  BY HeadTailProperties, EmptySeq
<1>2. /\ FirstsOf(q) \in Seq(Nat) /\ Len(FirstsOf(q)) = Len(q)
      /\ \A i \in 1..Len(q) : FirstsOf(q)[i] = q[i].first
  BY FirstsType
<1>3. FirstsOf(q) # <<>>
  BY <1>1, <1>2
<1>4. /\ Head(FirstsOf(q)) = FirstsOf(q)[1] /\ Tail(FirstsOf(q)) \in Seq(Nat)
      /\ Len(Tail(FirstsOf(q))) = Len(q) - 1
      /\ \A i \in 1..Len(q) - 1 : Tail(FirstsOf(q))[i] = FirstsOf(q)[i + 1]
  BY <1>2, <1>3, HeadTailProperties
<1>5. /\ FirstsOf(Tail(q)) \in Seq(Nat) /\ Len(FirstsOf(Tail(q))) = Len(q) - 1
      /\ \A i \in 1..Len(q) - 1 : FirstsOf(Tail(q))[i] = Tail(q)[i].first
  BY <1>1, FirstsType
<1>6. \A i \in 1..Len(q) - 1 : Tail(FirstsOf(q))[i] = FirstsOf(Tail(q))[i]
  <2>1. ASSUME NEW i \in 1..Len(q) - 1
        PROVE  Tail(FirstsOf(q))[i] = FirstsOf(Tail(q))[i]
    <3>1. i + 1 \in 1..Len(q) /\ i \in 1..Len(Tail(q))
      BY <1>1
    <3>. QED BY <1>1, <1>2, <1>4, <1>5, <3>1
  <2>. QED BY <2>1
<1>7. Tail(FirstsOf(q)) = FirstsOf(Tail(q))
  BY <1>4, <1>5, <1>6, SeqEqual
<1>8. Head(FirstsOf(q)) = Head(q).first
  <2>1. 1 \in 1..Len(q)
    BY <1>1
  <2>. QED BY <1>1, <1>2, <1>4, <2>1
<1>. QED BY <1>1, <1>3, <1>7, <1>8

LEMMA FirstsOfAppend ==
  ASSUME NEW q \in Seq(Burst), NEW b \in Burst
  PROVE  FirstsOf(Append(q, b)) = FirstsOf(q) \o <<b.first>>
<1>1. /\ Append(q, b) \in Seq(Burst) /\ Len(Append(q, b)) = Len(q) + 1 /\ Len(q) \in Nat
      /\ \A i \in 1..Len(q) : Append(q, b)[i] = q[i]
      /\ Append(q, b)[Len(q) + 1] = b
  BY AppendProperties
<1>2. b.first \in Nat /\ <<b.first>> \in Seq(Nat) /\ Len(<<b.first>>) = 1 /\ <<b.first>>[1] = b.first
  BY ClientAssumption DEF Burst, Requests
<1>3. /\ FirstsOf(q) \in Seq(Nat) /\ Len(FirstsOf(q)) = Len(q)
      /\ \A i \in 1..Len(q) : FirstsOf(q)[i] = q[i].first
  BY FirstsType
<1>4. /\ FirstsOf(Append(q, b)) \in Seq(Nat) /\ Len(FirstsOf(Append(q, b))) = Len(q) + 1
      /\ \A i \in 1..Len(q) + 1 : FirstsOf(Append(q, b))[i] = Append(q, b)[i].first
  BY <1>1, FirstsType
<1>5. PICK s \in Seq(Nat) : s = Append(FirstsOf(q), b.first)
  BY <1>2, <1>3, AppendProperties
<1>6. /\ Len(s) = Len(q) + 1
      /\ \A i \in 1..Len(q) : s[i] = FirstsOf(q)[i]
      /\ s[Len(q) + 1] = b.first
  BY <1>2, <1>3, <1>5, AppendProperties
<1>7. \A i \in 1..Len(q) + 1 : FirstsOf(Append(q, b))[i] = s[i]
  <2>1. ASSUME NEW i \in 1..Len(q) + 1
        PROVE  FirstsOf(Append(q, b))[i] = s[i]
    <3>1. CASE i \in 1..Len(q)
      BY <1>1, <1>3, <1>4, <1>6, <3>1
    <3>2. CASE i \notin 1..Len(q)
      <4>1. i = Len(q) + 1
        BY <1>1, <3>2
      <4>. QED BY <1>1, <1>4, <1>6, <4>1
    <3>. QED BY <3>1, <3>2
  <2>. QED BY <2>1
<1>8. FirstsOf(Append(q, b)) = s
  BY <1>4, <1>6, <1>7, SeqEqual
<1>9. Append(FirstsOf(q), b.first) = FirstsOf(q) \o <<b.first>>
  BY <1>2, <1>3
<1>. QED BY <1>5, <1>8, <1>9

\* The executor takes the head of its queue, or skips it.
LEMMA PopKeeps ==
  ASSUME ClientInv, Pop
  PROVE  ClientInv'
<1>1. /\ UNCHANGED <<outbound, writing, sendQ, burst, received, peer,
                     sendMtx, active, open, alive, overslept>>
      /\ execQ # <<>> /\ execQ' = Tail(execQ) /\ popped' = Head(execQ).last
      /\ execMtx = Nobody /\ pc["exec"] = "lock"
      /\ IF Head(execQ).torn
         THEN UNCHANGED <<execMtx, job>> /\ Goto("exec", "top")
         ELSE job' = Head(execQ).first /\ execMtx' = "exec" /\ Goto("exec", "run")
  BY DEF Pop, Takes, At, conVars, sendVars, recvVars, peerVars
<1>2. PICK label \in {"top", "run"} :
        /\ Goto("exec", label)
        /\ IF label = "top" THEN execMtx' = Nobody /\ job' = job
                            ELSE execMtx' = "exec" /\ job' = Head(execQ).first
  BY <1>1
<1>3. /\ pc' \in [Threads -> Labels] /\ pc'["exec"] = label
      /\ pc'["main"] = pc["main"] /\ pc'["recv"] = pc["recv"] /\ pc'["send"] = pc["send"]
  BY <1>2, Gotos DEF ClientInv, Threads, Loops, Labels
<1>4. /\ outbound \in Seq(Nat) /\ writing \in Seq(Nat) /\ sendQ \in Seq(Nat)
      /\ execQ \in Seq(Burst) /\ FirstsOf(execQ) \in Seq(Nat)
  BY Queues DEF ClientInv
<1>5. /\ Head(execQ) \in Burst /\ Tail(execQ) \in Seq(Burst) /\ FirstsOf(execQ) # <<>>
      /\ Head(FirstsOf(execQ)) = Head(execQ).first
      /\ Tail(FirstsOf(execQ)) = FirstsOf(Tail(execQ))
  BY <1>1, <1>4, FirstsOfTail
<1>6. Head(execQ).last <= received /\ \A i \in 1..Len(Tail(execQ)) : Tail(execQ)[i].last <= received
  <2>1. /\ Head(execQ) = execQ[1] /\ 1 \in 1..Len(execQ)
        /\ \A i \in 1..Len(Tail(execQ)) : i + 1 \in 1..Len(execQ) /\ Tail(execQ)[i] = execQ[i + 1]
    BY <1>1, <1>4, HeadTailProperties, EmptySeq
  <2>. QED BY <2>1 DEF ClientInv, Bursts
<1>7. ClientTypeOK'
  <2>1. Head(execQ).first \in Answers /\ Head(execQ).last \in 0..received
    BY <1>5, <1>6, ClientAssumption, ClientNumbers DEF Burst, Requests, Answers, ClientInv
  <2>2. job' \in Answers /\ popped' \in 0..received' /\ execMtx' \in {Nobody, "exec"}
    BY <1>1, <1>2, <2>1 DEF ClientInv, ClientTypeOK
  <2>. QED BY <1>1, <1>3, <1>5, <2>2 DEF ClientInv, ClientTypeOK, Inbound, Labels
<1>8. Peering'
  <2>1. pc["main"] \notin {"start", "info"}
    BY <1>1 DEF ClientInv, Peering
  <2>. QED BY <1>1, <1>3, <2>1 DEF ClientInv, Peering
<1>9. Threading'
  BY <1>1, <1>2, <1>3 DEF ClientInv, Threading, Nobody
<1>10. Inside = Chain(outbound, writing, sendQ, <<>>, FirstsOf(execQ))
  BY <1>1 DEF Inside, Pending
<1>11. ASSUME NEW b \in Int, Ordered(Inside, b)
       PROVE  Ordered(Inside', b)
  <2>1. CASE label = "top"
    <3>1. Pending' = <<>>
      BY <1>3, <2>1 DEF Pending
    <3>2. Inside' = Chain(outbound, writing, sendQ, <<>>, Tail(FirstsOf(execQ)))
      BY <1>1, <1>5, <3>1 DEF Inside
    <3>. QED BY <1>4, <1>5, <1>10, <1>11, <3>2, ChainSkip
  <2>2. CASE label = "run"
    <3>1. Pending' = <<Head(FirstsOf(execQ))>>
      BY <1>2, <1>3, <1>5, <2>2 DEF Pending
    <3>2. Inside' = Chain(outbound, writing, sendQ, <<Head(FirstsOf(execQ))>>, Tail(FirstsOf(execQ)))
      BY <1>1, <1>5, <3>1 DEF Inside
    <3>. QED BY <1>4, <1>5, <1>10, <1>11, <3>2, ChainPop
  <2>. QED BY <2>1, <2>2
<1>12. Bursts' /\ Ordered(Inside, received)'
  <2>1. \A i \in 1..Len(execQ') : execQ'[i].last <= received
    BY <1>1, <1>6
  <2>. QED BY <1>1, <1>3, <1>11, <2>1, Kept
<1>. QED BY <1>7, <1>8, <1>9, <1>12 DEF ClientInv

\* recvLoop hands its burst over: it is the newest of all.
LEMMA PushKeeps ==
  ASSUME ClientInv, Push
  PROVE  ClientInv'
<1>1. /\ UNCHANGED <<outbound, writing, sendQ, job, popped, received, peer,
                     sendMtx, execMtx, active, open, alive, overslept>>
      /\ execQ' = Append(execQ, burst) /\ burst' = NoBurst /\ execMtx = Nobody
      /\ pc["recv"] = "push" /\ GotoAndNotify("recv", "top", {"exec"})
  BY DEF Push, At, conVars, sendVars, peerVars
<1>2. /\ pc' \in [Threads -> Labels] /\ pc'["recv"] = "top"
      /\ pc'["main"] = pc["main"] /\ pc'["send"] = pc["send"]
      /\ pc'["exec"] = pc["exec"] \/ (pc["exec"] = "wait" /\ pc'["exec"] = "lock")
  BY <1>1, Notifies DEF ClientInv, Threads, Loops, Labels
<1>3. /\ outbound \in Seq(Nat) /\ writing \in Seq(Nat) /\ sendQ \in Seq(Nat)
      /\ Pending \in Seq(Nat) /\ FirstsOf(execQ) \in Seq(Nat) /\ execQ \in Seq(Burst)
      /\ Inside \in Seq(Nat)
  BY Queues DEF ClientInv
<1>4. /\ burst \in Burst /\ burst.first <= burst.last /\ burst.last <= received
      /\ Ordered(Inside, burst.first - 1)
  BY <1>1 DEF ClientInv, Bursts
<1>5. burst.first \in Nat /\ burst.last \in Nat /\ received \in Nat /\ burst.first \in Nat \ {0}
  BY <1>4, ClientAssumption, ClientNumbers DEF ClientInv, Burst, Requests
<1>6. ClientTypeOK'
  <2>1. execQ' \in Seq(Burst)
    BY <1>1, <1>3, <1>4
  <2>. QED BY <1>1, <1>2, <2>1 DEF ClientInv, ClientTypeOK, Inbound, Labels
<1>7. pc["main"] \notin {"start", "info"}
  <2>1. SUFFICES ASSUME pc["main"] \in {"start", "info"}
                 PROVE  FALSE
    OBVIOUS
  <2>2. /\ ~peer.con /\ (peer.written > 0 => peer.con)
        /\ peer.written \in Nat /\ received <= peer.written
    BY <2>1, ClientNumbers DEF ClientInv, Peering
  <2>. QED BY <1>4, <1>5, <2>2
<1>8. Peering'
  BY <1>1, <1>2, <1>7 DEF ClientInv, Peering
<1>9. Threading'
  BY <1>1, <1>2 DEF ClientInv, Threading, Nobody
<1>10. Pending' = Pending
  BY <1>1, <1>2 DEF Pending
<1>11. Inside' = Inside \o <<burst.first>>
  <2>1. FirstsOf(execQ') = FirstsOf(execQ) \o <<burst.first>>
    BY <1>1, <1>3, <1>4, FirstsOfAppend
  <2>2. Inside' = Chain(outbound, writing, sendQ, Pending, FirstsOf(execQ) \o <<burst.first>>)
    BY <1>1, <1>10, <2>1 DEF Inside
  <2>3. <<burst.first>> \in Seq(Nat)
    BY <1>5
  <2>4. PICK t \in Seq(Nat) : t = <<burst.first>>
    BY <2>3
  <2>5. Chain(outbound, writing, sendQ, Pending, Cat(FirstsOf(execQ), t))
          = Cat(Chain(outbound, writing, sendQ, Pending, FirstsOf(execQ)), t)
    BY <1>3, ChainPush, SMT
  <2>. QED BY <2>2, <2>4, <2>5 DEF Inside, Cat
<1>12. Ordered(Inside, received)'
  <2>1. burst.first <= received
    BY <1>4, <1>5
  <2>2. Ordered(Inside \o <<burst.first>>, received)
    BY <1>3, <1>4, <1>5, <2>1, OrderedAppend
  <2>. QED BY <1>1, <1>11, <2>2
<1>13. \A i \in 1..Len(execQ') : execQ'[i].last <= received
  <2>1. /\ Len(execQ') = Len(execQ) + 1 /\ Len(execQ) \in Nat
        /\ \A i \in 1..Len(execQ) : execQ'[i] = execQ[i]
        /\ execQ'[Len(execQ) + 1] = burst
    BY <1>1, <1>3, <1>4, AppendProperties
  <2>2. \A i \in 1..Len(execQ) : execQ[i].last <= received
    BY DEF ClientInv, Bursts
  <2>3. ASSUME NEW i \in 1..Len(execQ')
        PROVE  execQ'[i].last <= received
    <3>1. i \in 1..Len(execQ) \/ i = Len(execQ) + 1
      BY <2>1
    <3>. QED BY <1>4, <2>1, <2>2, <3>1
  <2>. QED BY <2>3
<1>14. Bursts'
  BY <1>1, <1>2, <1>13 DEF Bursts
<1>. QED BY <1>6, <1>8, <1>9, <1>12, <1>14 DEF ClientInv

\* recvLoop takes the next requests from the socket.
LEMMA ReceiveKeeps ==
  ASSUME ClientInv, Receive
  PROVE  ClientInv'
<1>1. /\ UNCHANGED <<outbound, writing, sendQ, job, execQ, popped, peer,
                     sendMtx, execMtx, active, open, alive, overslept>>
      /\ pc["recv"] = "recv" /\ Goto("recv", "push")
  BY DEF Receive, Received, At, conVars, execVars, sendVars, peerVars
<1>2. PICK j \in 1..Inbound, torn \in BOOLEAN :
        /\ received' = received + j + 0
        /\ burst' = [first |-> received + 1, last |-> received', torn |-> torn]
  BY <1>1 DEF Receive, Received
<1>3. /\ pc' \in [Threads -> Labels] /\ pc'["recv"] = "push"
      /\ pc'["main"] = pc["main"] /\ pc'["send"] = pc["send"] /\ pc'["exec"] = pc["exec"]
  BY <1>1, Gotos DEF ClientInv, Threads, Loops, Labels
<1>4. /\ MaxRequests \in Nat /\ InCap \in Nat /\ received \in Nat /\ peer.written \in Nat
      /\ popped \in Nat /\ peer.written <= MaxRequests /\ received <= peer.written
      /\ peer.written - received <= InCap /\ popped <= received
  BY ClientNumbers DEF ClientInv, ClientTypeOK
<1>5. /\ j \in Nat /\ j >= 1 /\ received' = received + j /\ received' <= peer.written
  BY <1>2, <1>4 DEF Inbound
<1>6. burst' \in Burst /\ burst'.first = received + 1 /\ burst'.last = received'
  <2>1. received + 1 \in Requests /\ received' \in Requests
    BY <1>4, <1>5 DEF Requests
  <2>. QED BY <1>2, <2>1 DEF Burst
<1>7. ClientTypeOK'
  <2>1. received' \in 0..MaxRequests /\ popped' \in 0..received'
    BY <1>1, <1>4, <1>5
  <2>2. Inbound' \in 0..InCap
    BY <1>1, <1>4, <1>5 DEF Inbound
  <2>. QED BY <1>1, <1>3, <1>6, <2>1, <2>2 DEF ClientInv, ClientTypeOK, Labels
<1>8. Peering'
  <2>1. pc["main"] # "start"
    BY <1>1 DEF ClientInv, Peering
  <2>. QED BY <1>1, <1>3, <2>1 DEF ClientInv, Peering
<1>9. Threading'
  BY <1>1, <1>3 DEF ClientInv, Threading
<1>10. Inside' = Inside /\ Inside \in Seq(Nat)
  BY <1>1, <1>3, Queues DEF ClientInv, Inside, Pending
<1>11. Ordered(Inside, received) /\ Ordered(Inside, received')
  <2>1. received \in Int /\ received' \in Int /\ received <= received'
    BY <1>4, <1>5
  <2>. QED BY <1>10, <2>1, OrderedUp DEF ClientInv
<1>12. Bursts'
  <2>1. \A i \in 1..Len(execQ') : execQ'[i].last <= received'
    <3>1. ASSUME NEW i \in 1..Len(execQ)
          PROVE  execQ[i].last <= received'
      <4>1. execQ[i] \in Burst
        BY DEF ClientInv, ClientTypeOK
      <4>2. execQ[i].last <= received /\ execQ[i].last \in Nat
        BY <4>1, ClientAssumption DEF ClientInv, Bursts, Burst, Requests
      <4>. QED BY <1>4, <1>5, <4>2
    <3>. QED BY <1>1, <3>1
  <2>2. burst'.first - 1 = received /\ burst'.first <= burst'.last
    BY <1>4, <1>5, <1>6
  <2>3. Ordered(Inside', burst'.first - 1)
    BY <1>10, <1>11, <2>2
  <2>4. burst'.last <= received'
    BY <1>4, <1>5, <1>6
  <2>. QED BY <1>6, <2>1, <2>2, <2>3, <2>4 DEF Bursts
<1>13. Ordered(Inside, received)'
  BY <1>10, <1>11
<1>. QED BY <1>7, <1>8, <1>9, <1>12, <1>13 DEF ClientInv

-----------------------------------------------------------------------------
\* What the invariants say of a socket that nobody has opened yet.
LEMMA ClientInit ==
  ASSUME Init
  PROVE  ClientInv
<1>1. Pending = <<>> /\ FirstsOf(execQ) = <<>>
  BY DEF Init, Pending, FirstsOf, Threads, Loops
<1>2. Inside = <<>>
  <2>1. <<>> \o <<>> = <<>>
    BY Empty
  <2>. QED BY <1>1, <2>1 DEF Init, Inside, Chain
<1>3. Ordered(Inside, received)
  BY <1>2 DEF Ordered
<1>4. ClientTypeOK
  <2>1. /\ <<>> \in Seq(Answers) /\ <<>> \in Seq(Burst) /\ Len(<<>>) = 0
        /\ 0 \in Answers /\ 0 \in 0..MaxRequests /\ 0 \in 0..InCap /\ 0 <= OutCap
    BY ClientAssumption DEF Answers
  <2>2. Inbound = 0 /\ peer \in Peer
    BY <2>1 DEF Init, Inbound, Peer
  <2>3. pc \in [Threads -> Labels]
    BY DEF Init, Labels
  <2>4. /\ outbound \in Seq(Answers) /\ Len(outbound) <= OutCap
        /\ sendQ \in Seq(Answers) /\ execQ \in Seq(Burst)
    BY <2>1 DEF Init
  <2>5. writing \in Seq(Answers) /\ Len(writing) <= 1
    BY <2>1 DEF Init
  <2>6. /\ active \in BOOLEAN /\ open \in BOOLEAN /\ alive \in BOOLEAN
        /\ sendMtx \in {Nobody, "send"} /\ execMtx \in {Nobody, "exec"}
        /\ burst \in Burst \cup {NoBurst} /\ overslept \subseteq Loops
    BY DEF Init
  <2>7. received \in 0..MaxRequests /\ popped \in 0..received /\ job \in Answers
    BY <2>1 DEF Init
  <2>. QED BY <2>1, <2>2, <2>3, <2>4, <2>5, <2>6, <2>7 DEF ClientTypeOK, Labels
<1>5. Threading
  BY DEF Init, Threading, Threads, Loops, Nobody
<1>6. Peering
  BY DEF Init, Peering, Threads, Loops
<1>7. Bursts
  BY DEF Init, Bursts, Threads, Loops
<1>. QED BY <1>3, <1>4, <1>5, <1>6, <1>7 DEF ClientInv

LEMMA ClientNext ==
  ASSUME ClientInv, [Next]_vars
  PROVE  ClientInv'
<1>1. CASE Connect \/ Interrupted
  BY <1>1, MainMovesKeep
<1>2. CASE SendNodeInfo
  BY <1>2, SendNodeInfoKeeps
<1>3. CASE MainReturns \/ RecvThrows \/ SendThrows
  BY <1>3, MovesKeep
<1>4. CASE RecvStep
  BY <1>4, MovesKeep, ReceiveKeeps, PushKeeps DEF RecvStep
<1>5. CASE SendStep
  BY <1>5, MovesKeep, PollKeeps, SendBytesKeeps DEF SendStep
<1>6. CASE ExecStep
  BY <1>6, MovesKeep, PopKeeps, RunKeeps DEF ExecStep
<1>7. CASE \E t \in Closers : CloseStep(t)
  BY <1>7, CloserMovesKeep, EndConnectionKeeps DEF CloseStep
<1>8. CASE PeerReads
  BY <1>8, PeerReadsKeeps
<1>9. CASE PeerTakesUp \/ PeerWrites \/ PeerBreaks
  BY <1>9, PeerMovesKeep
<1>10. CASE UNCHANGED vars
  <2>1. /\ UNCHANGED <<outbound, writing, sendQ, job, execQ, burst, popped, received, peer>>
        /\ UNCHANGED <<pc, sendMtx, execMtx, active, open, overslept, alive>>
    BY <1>10 DEF vars, conVars, execVars, sendVars, recvVars, peerVars
  <2>. QED BY <2>1, Unmoved DEF ClientInv, ClientTypeOK
<1>. QED BY <1>1, <1>2, <1>3, <1>4, <1>5, <1>6, <1>7, <1>8, <1>9, <1>10 DEF Next

\* The threads, the mutexes and the queues keep the invariant, however they
\* are interleaved.
THEOREM ClientInvariant == Spec => []ClientInv
<1>. QED BY ClientInit, ClientNext, PTL DEF Spec

\* The node's end of the connection never leaves its types.
THEOREM ClientTypeCorrect == Spec => []ClientTypeOK
<1>1. ClientInv => ClientTypeOK
  BY DEF ClientInv
<1>. QED BY <1>1, ClientInvariant, PTL

\* From the executor's queue to the frontend's socket, answers keep the order
\* of their requests: none is sent twice, and none without its request.
THEOREM AnswersInOrderCorrect == Spec => []AnswersInOrder
<1>1. ClientInv => AnswersInOrder
  BY DEF ClientInv, AnswersInOrder, Inside, Chain, FirstsOf, Ordered
<1>. QED BY <1>1, ClientInvariant, PTL


-----------------------------------------------------------------------------
(* What the loops add up to: the promise of NodeLink.                      *)

\* The last request that has been put into the executor's queue.
Newest == IF execQ = <<>> THEN popped ELSE execQ[Len(execQ)].last

\* The bursts in the executor's queue follow one another without a gap, from
\* the last request taken out to the last one received.
Consecutive ==
  /\ \A i \in 1..Len(execQ) :
       /\ execQ[i].first = (IF i = 1 THEN popped ELSE execQ[i - 1].last) + 1
       /\ execQ[i].first <= execQ[i].last
  /\ IF pc["recv"] = "push"
     THEN burst.first = Newest + 1 /\ burst.first <= burst.last /\ burst.last = received
     ELSE Newest = received

\* The socket is closed after _active is cleared, and neither is set again.
Closing ==
  /\ active => open
  /\ pc["main"] = "start" => ~open
  /\ \A t \in Closers : pc[t] = "end" => ~active

FlowInv == Consecutive /\ Closing

LEMMA FlowKept ==
  ASSUME FlowInv, UNCHANGED <<execQ, popped, received, burst, active, open>>,
         pc'["recv"] = "push" <=> pc["recv"] = "push",
         pc'["main"] = "start" => pc["main"] = "start",
         \A t \in Closers : pc'[t] = "end" => pc[t] = "end"
  PROVE  FlowInv'
<1>1. Newest' = Newest
  BY DEF Newest
<1>2. Consecutive'
  BY <1>1 DEF FlowInv, Consecutive
<1>3. Closing'
  BY DEF FlowInv, Closing
<1>. QED BY <1>2, <1>3 DEF FlowInv

\* Steps of one thread that touch neither the bursts nor the socket.
LEMMA GotoFlow ==
  ASSUME ClientInv, FlowInv, UNCHANGED <<execQ, popped, received, burst, active, open>>,
         NEW t \in Threads, NEW label \in Labels \ {"start", "push", "end"},
         pc[t] # "push", Goto(t, label)
  PROVE  FlowInv'
<1>1. /\ pc' \in [Threads -> Labels] /\ pc'[t] = label
      /\ \A u \in Threads \ {t} : pc'[u] = pc[u]
  BY Gotos DEF ClientInv
<1>2. "recv" \in Threads /\ "main" \in Threads /\ Closers \subseteq Threads
  BY DEF Threads, Closers
<1>. QED BY <1>1, <1>2, FlowKept

LEMMA NotifyFlow ==
  ASSUME ClientInv, FlowInv, UNCHANGED <<execQ, popped, received, burst, active, open>>,
         NEW t \in Threads, NEW label \in Labels \ {"start", "push", "end"}, NEW woken \in SUBSET Loops,
         pc[t] # "push", GotoAndNotify(t, label, woken)
  PROVE  FlowInv'
<1>1. \A u \in Threads :
        pc'[u] = IF u = t THEN label
                 ELSE IF u \in woken /\ pc[u] = "wait" THEN "lock" ELSE pc[u]
  BY DEF GotoAndNotify
<1>2. "recv" \in Threads /\ "main" \in Threads /\ Closers \subseteq Threads
  BY DEF Threads, Closers
<1>3. /\ pc'["recv"] = "push" <=> pc["recv"] = "push"
      /\ pc'["main"] = "start" => pc["main"] = "start"
  BY <1>1, <1>2
<1>4. \A u \in Closers : pc'[u] = "end" => pc[u] = "end"
  BY <1>1, <1>2
<1>. QED BY <1>3, <1>4, FlowKept

LEMMA QuietFlow ==
  ASSUME ClientInv, FlowInv,
         \/ SendNodeInfo \/ Interrupted
         \/ RecvTop \/ ReceiveNothing \/ RecvOut
         \/ SendTop \/ Poll \/ PollNothing \/ SendWaits \/ SendBytes
         \/ ExecTop \/ PopNothing \/ ExecWaits \/ Run
         \/ \E t \in Closers : Notify(t)
  PROVE  FlowInv'
<1>1. CASE SendNodeInfo
  <2>1. UNCHANGED <<execQ, popped, received, burst, active, open>> /\ pc["main"] # "push"
    BY <1>1 DEF SendNodeInfo, At, conVars, execVars, recvVars
  <2>2. "main" \in Threads /\ "serve" \in Labels \ {"start", "push", "end"} /\ {"send"} \in SUBSET Loops
        /\ GotoAndNotify("main", "serve", {"send"})
    BY <1>1 DEF SendNodeInfo, SendPacket, Sends, Threads, Labels, Loops
  <2>. QED BY <2>1, <2>2, NotifyFlow
<1>2. CASE Run
  <2>1. UNCHANGED <<execQ, popped, received, burst, active, open>> /\ pc["exec"] # "push"
    BY <1>2 DEF Run, At, conVars, execVars, recvVars
  <2>2. "exec" \in Threads /\ "top" \in Labels \ {"start", "push", "end"} /\ {"send"} \in SUBSET Loops
        /\ GotoAndNotify("exec", "top", {"send"})
    BY <1>2 DEF Run, SendPacket, Sends, Threads, Labels, Loops
  <2>. QED BY <2>1, <2>2, NotifyFlow
<1>3. ASSUME NEW t \in Closers, Notify(t)
      PROVE  FlowInv'
  <2>1. UNCHANGED <<execQ, popped, received, burst, active, open>> /\ pc[t] # "push"
    BY <1>3 DEF Notify, NotifyLoops, At, conVars, execVars, recvVars
  <2>2. t \in Threads /\ "done" \in Labels \ {"start", "push", "end"} /\ Loops \in SUBSET Loops
        /\ GotoAndNotify(t, "done", Loops)
    BY <1>3 DEF Notify, NotifyLoops, Threads, Labels, Closers
  <2>. QED BY <2>1, <2>2, NotifyFlow
<1>4. CASE Interrupted
  <2>1. UNCHANGED <<execQ, popped, received, burst, active, open>> /\ pc["main"] # "push"
        /\ Goto("main", "flag")
    BY <1>4 DEF Interrupted, At, conVars, execVars, recvVars
  <2>2. "main" \in Threads /\ "flag" \in Labels \ {"start", "push", "end"}
    BY DEF Threads, Labels
  <2>. QED BY <2>1, <2>2, GotoFlow
<1>5. CASE RecvTop \/ ReceiveNothing \/ RecvOut
  <2>1. UNCHANGED <<execQ, popped, received, burst, active, open>> /\ pc["recv"] # "push"
    BY <1>5 DEF RecvTop, ReceiveNothing, RecvOut, At, conVars, execVars, recvVars
  <2>2. PICK label \in {"recv", "out", "flag", "done"} : Goto("recv", label)
    BY <1>5 DEF RecvTop, ReceiveNothing, RecvOut
  <2>3. "recv" \in Threads /\ label \in Labels \ {"start", "push", "end"}
    BY DEF Threads, Labels
  <2>. QED BY <2>1, <2>2, <2>3, GotoFlow
<1>6. CASE SendTop \/ Poll \/ PollNothing \/ SendWaits \/ SendBytes
  <2>1. UNCHANGED <<execQ, popped, received, burst, active, open>> /\ pc["send"] # "push"
    BY <1>6 DEF SendTop, Poll, Polled, PollNothing, SendWaits, SendBytes, At, conVars, execVars, recvVars
  <2>2. PICK label \in {"top", "lock", "checked", "wait", "write", "done"} : Goto("send", label)
    BY <1>6 DEF SendTop, Poll, Polled, PollNothing, SendWaits, SendBytes
  <2>3. "send" \in Threads /\ label \in Labels \ {"start", "push", "end"}
    BY DEF Threads, Loops, Labels
  <2>. QED BY <2>1, <2>2, <2>3, GotoFlow
<1>7. CASE ExecTop \/ PopNothing \/ ExecWaits
  <2>1. UNCHANGED <<execQ, popped, received, burst, active, open>> /\ pc["exec"] # "push"
    BY <1>7 DEF ExecTop, PopNothing, ExecWaits, At, conVars, execVars, recvVars
  <2>2. PICK label \in {"top", "lock", "checked", "wait", "done"} : Goto("exec", label)
    BY <1>7 DEF ExecTop, PopNothing, ExecWaits
  <2>3. "exec" \in Threads /\ label \in Labels \ {"start", "push", "end"}
    BY DEF Threads, Loops, Labels
  <2>. QED BY <2>1, <2>2, <2>3, GotoFlow
<1>. QED BY <1>1, <1>2, <1>3, <1>4, <1>5, <1>6, <1>7

\* The socket is opened, _active is cleared, and the socket is closed.
LEMMA CloseFlow ==
  ASSUME ClientInv, FlowInv, Connect \/ \E t \in Closers : ClearActive(t) \/ EndConnection(t)
  PROVE  FlowInv'
<1>1. CASE Connect
  <2>1. UNCHANGED <<execQ, popped, received, burst>> /\ active' = TRUE /\ open' = TRUE
        /\ pc' = [t \in Threads |-> IF t = "main" THEN "info" ELSE "top"]
    BY <1>1 DEF Connect, execVars, recvVars
  <2>2. pc["recv"] # "push"
    BY <1>1 DEF Connect, At, ClientInv, Peering
  <2>3. pc'["main"] = "info" /\ pc'["recv"] = "top"
    BY <2>1 DEF Threads
  <2>4. Newest' = Newest
    BY <2>1 DEF Newest
  <2>5. Consecutive'
    BY <2>1, <2>2, <2>3, <2>4 DEF FlowInv, Consecutive
  <2>6. Closing'
    BY <2>1, <2>3 DEF Closing, Closers
  <2>. QED BY <2>5, <2>6 DEF FlowInv
<1>2. ASSUME NEW t \in Closers, ClearActive(t) \/ EndConnection(t)
      PROVE  FlowInv'
  <2>1. /\ UNCHANGED <<execQ, popped, received, burst>> /\ active' = FALSE
        /\ open' = open \/ open' = FALSE
        /\ pc[t] \in {"flag", "end"}
    BY <1>2 DEF ClearActive, EndConnection, At, execVars, recvVars, FlowInv, Closing, ClientInv, ClientTypeOK
  <2>2. PICK label \in {"end", "notify"} : Goto(t, label)
    BY <1>2 DEF ClearActive, EndConnection
  <2>3. t \in Threads /\ label \in Labels /\ "recv" \in Threads /\ "main" \in Threads
    BY DEF Threads, Closers, Labels
  <2>4. pc'[t] = label /\ \A u \in Threads \ {t} : pc'[u] = pc[u]
    BY <2>2, <2>3, Gotos DEF ClientInv
  <2>5. /\ pc'["recv"] = "push" <=> pc["recv"] = "push"
        /\ pc'["main"] = "start" => pc["main"] = "start"
    BY <2>1, <2>3, <2>4
  <2>6. Newest' = Newest
    BY <2>1 DEF Newest
  <2>7. Consecutive'
    BY <2>1, <2>5, <2>6 DEF FlowInv, Consecutive
  <2>8. Closing'
    BY <2>1, <2>5 DEF FlowInv, Closing
  <2>. QED BY <2>7, <2>8 DEF FlowInv
<1>. QED BY <1>1, <1>2


\* The executor takes a burst: the next one follows it.
LEMMA PopFlow ==
  ASSUME ClientInv, FlowInv, Pop
  PROVE  FlowInv'
<1>1. /\ UNCHANGED <<received, burst, active, open>>
      /\ execQ # <<>> /\ execQ' = Tail(execQ) /\ popped' = Head(execQ).last
      /\ pc["exec"] = "lock"
  BY DEF Pop, Takes, At, conVars, recvVars
<1>2. PICK label \in {"top", "run"} : Goto("exec", label)
  BY DEF Pop, Takes
<1>3. /\ pc'["recv"] = pc["recv"] /\ pc'["main"] = pc["main"]
  BY <1>2, Gotos DEF ClientInv, Threads, Loops, Labels
<1>4. execQ \in Seq(Burst)
  BY Queues DEF ClientInv
<1>5. PICK n \in Nat : Len(execQ) = n + 1
  <2>1. Len(execQ) \in Nat /\ Len(execQ) # 0
    BY <1>1, <1>4
  <2>2. Len(execQ) - 1 \in Nat /\ Len(execQ) = (Len(execQ) - 1) + 1
    BY <2>1
  <2>. QED BY <2>2
<1>6. /\ Len(execQ') = n /\ popped' = execQ[1].last
      /\ \A i \in 1..n : execQ'[i] = execQ[i + 1]
  BY <1>1, <1>4, <1>5, HeadTailProperties
<1>7. ASSUME NEW i \in 1..n
      PROVE  /\ execQ'[i].first = (IF i = 1 THEN popped' ELSE execQ'[i - 1].last) + 1
             /\ execQ'[i].first <= execQ'[i].last
  <2>1. i + 1 \in 1..Len(execQ) /\ i + 1 # 1 /\ (i + 1) - 1 = i
    BY <1>5
  <2>2. /\ execQ[i + 1].first = execQ[i].last + 1
        /\ execQ[i + 1].first <= execQ[i + 1].last
    BY <2>1 DEF FlowInv, Consecutive
  <2>3. CASE i = 1
    BY <1>6, <2>2, <2>3
  <2>4. CASE i # 1
    <3>1. i - 1 \in 1..n /\ (i - 1) + 1 = i
      BY <2>4
    <3>. QED BY <1>6, <2>2, <2>4, <3>1
  <2>. QED BY <2>3, <2>4
<1>8. Newest' = Newest
  <2>1. Newest = execQ[n + 1].last
    BY <1>1, <1>5 DEF Newest
  <2>2. CASE n = 0
    <3>1. execQ' = <<>>
      BY <1>1, <1>4, <1>6, <2>2
    <3>. QED BY <1>6, <2>1, <2>2, <3>1 DEF Newest
  <2>3. CASE n # 0
    <3>1. execQ' # <<>> /\ n \in 1..n
      BY <1>6, <2>3
    <3>. QED BY <1>6, <2>1, <3>1 DEF Newest
  <2>. QED BY <2>2, <2>3
<1>9. Consecutive'
  <2>1. IF pc["recv"] = "push"
        THEN burst.first = Newest + 1 /\ burst.first <= burst.last /\ burst.last = received
        ELSE Newest = received
    BY DEF FlowInv, Consecutive
  <2>. QED BY <1>1, <1>3, <1>6, <1>7, <1>8, <2>1 DEF Consecutive
<1>10. Closing'
  <2>1. \A t \in Closers : pc'[t] = pc[t]
    BY <1>3 DEF Closers
  <2>. QED BY <1>1, <1>3, <2>1 DEF FlowInv, Closing
<1>. QED BY <1>9, <1>10 DEF FlowInv

\* recvLoop adds its burst, which follows the newest.
LEMMA PushFlow ==
  ASSUME ClientInv, FlowInv, Push
  PROVE  FlowInv'
<1>1. /\ UNCHANGED <<popped, received, active, open>>
      /\ execQ' = Append(execQ, burst) /\ pc["recv"] = "push"
      /\ GotoAndNotify("recv", "top", {"exec"})
  BY DEF Push, At, conVars
<1>2. pc'["recv"] = "top" /\ pc'["main"] = pc["main"]
  BY <1>1, Notifies DEF ClientInv, Threads, Loops, Labels
<1>3. execQ \in Seq(Burst) /\ burst \in Burst
  BY <1>1, Queues DEF ClientInv, Bursts
<1>4. burst.first = Newest + 1 /\ burst.first <= burst.last /\ burst.last = received
  BY <1>1 DEF FlowInv, Consecutive
<1>5. PICK n \in Nat : Len(execQ) = n
  BY <1>3
<1>6. /\ Len(execQ') = n + 1 /\ execQ' # <<>>
      /\ \A i \in 1..n : execQ'[i] = execQ[i]
      /\ execQ'[n + 1] = burst
  <2>1. /\ Len(Append(execQ, burst)) = n + 1
        /\ \A i \in 1..n : Append(execQ, burst)[i] = execQ[i]
        /\ Append(execQ, burst)[n + 1] = burst
    BY <1>3, <1>5, AppendProperties
  <2>. QED BY <1>1, <2>1
<1>7. ASSUME NEW i \in 1..n + 1
      PROVE  /\ execQ'[i].first = (IF i = 1 THEN popped ELSE execQ'[i - 1].last) + 1
             /\ execQ'[i].first <= execQ'[i].last
  <2>1. CASE i \in 1..n
    <3>1. /\ execQ[i].first = (IF i = 1 THEN popped ELSE execQ[i - 1].last) + 1
          /\ execQ[i].first <= execQ[i].last
      BY <1>5, <2>1 DEF FlowInv, Consecutive
    <3>2. i # 1 => i - 1 \in 1..n
      BY <2>1
    <3>. QED BY <1>6, <2>1, <3>1, <3>2
  <2>2. CASE i \notin 1..n
    <3>1. i = n + 1
      BY <2>2
    <3>2. CASE n = 0
      <4>1. Newest = popped
        BY <1>3, <1>5, <3>2 DEF Newest
      <4>. QED BY <1>4, <1>6, <3>1, <3>2, <4>1
    <3>3. CASE n # 0
      <4>1. Newest = execQ[n].last
        BY <1>3, <1>5, <3>3 DEF Newest
      <4>2. i # 1 /\ i - 1 = n /\ n \in 1..n
        BY <3>1, <3>3
      <4>. QED BY <1>4, <1>6, <3>1, <4>1, <4>2
    <3>. QED BY <3>2, <3>3
  <2>. QED BY <2>1, <2>2
<1>8. Newest' = received
  BY <1>4, <1>6 DEF Newest
<1>9. Consecutive'
  BY <1>1, <1>2, <1>6, <1>7, <1>8 DEF Consecutive
<1>10. Closing'
  <2>1. \A t \in Closers : pc'[t] = "end" => pc[t] = "end"
    BY <1>2 DEF Closers
  <2>. QED BY <1>1, <1>2, <2>1 DEF FlowInv, Closing
<1>. QED BY <1>9, <1>10 DEF FlowInv

\* recvLoop takes the requests behind the newest.
LEMMA ReceiveFlow ==
  ASSUME ClientInv, FlowInv, Receive
  PROVE  FlowInv'
<1>1. /\ UNCHANGED <<execQ, popped, active, open>>
      /\ pc["recv"] = "recv" /\ Goto("recv", "push")
  BY DEF Receive, Received, At, conVars, execVars
<1>2. PICK j \in 1..Inbound, torn \in BOOLEAN :
        /\ received' = received + j + 0
        /\ burst' = [first |-> received + 1, last |-> received', torn |-> torn]
  BY DEF Receive, Received
<1>3. pc'["recv"] = "push" /\ pc'["main"] = pc["main"]
  BY <1>1, Gotos DEF ClientInv, Threads, Loops, Labels
<1>4. Newest = received /\ Newest' = Newest
  BY <1>1 DEF FlowInv, Consecutive, Newest
<1>5. received \in Nat /\ Inbound \in Nat
  BY ClientNumbers DEF ClientInv, Inbound
<1>6. burst'.first = Newest' + 1 /\ burst'.first <= burst'.last /\ burst'.last = received'
  BY <1>2, <1>4, <1>5
<1>7. Consecutive'
  BY <1>1, <1>3, <1>6 DEF FlowInv, Consecutive
<1>8. Closing'
  <2>1. \A t \in Closers : pc'[t] = "end" => pc[t] = "end"
    BY <1>3 DEF Closers
  <2>. QED BY <1>1, <1>3, <2>1 DEF FlowInv, Closing
<1>. QED BY <1>7, <1>8 DEF FlowInv

LEMMA FlowNext ==
  ASSUME ClientInv, FlowInv, [Next]_vars
  PROVE  FlowInv'
<1>1. CASE Dies \/ PeerReads \/ PeerTakesUp \/ PeerWrites \/ PeerBreaks \/ UNCHANGED vars
  <2>1. UNCHANGED <<execQ, popped, received, burst, active, open, pc>>
    BY <1>1 DEF Dies, PeerReads, PeerTakesUp, PeerWrites, PeerBreaks,
                vars, conVars, execVars, recvVars
  <2>. QED BY <2>1, FlowKept
<1>2. CASE MainReturns \/ RecvThrows \/ SendThrows \/ PollClosed
  BY <1>1, <1>2 DEF MainReturns, RecvThrows, SendThrows, PollClosed
<1>3. CASE SendNodeInfo \/ Interrupted
  BY <1>3, QuietFlow
<1>4. CASE Connect
  BY <1>4, CloseFlow
<1>5. CASE RecvStep
  BY <1>5, QuietFlow, ReceiveFlow, PushFlow DEF RecvStep
<1>6. CASE SendStep
  BY <1>2, <1>6, QuietFlow DEF SendStep
<1>7. CASE ExecStep
  BY <1>7, QuietFlow, PopFlow DEF ExecStep
<1>8. CASE \E t \in Closers : CloseStep(t)
  BY <1>8, QuietFlow, CloseFlow DEF CloseStep
<1>. QED BY <1>1, <1>2, <1>3, <1>4, <1>5, <1>6, <1>7, <1>8 DEF Next

LEMMA FlowInit ==
  ASSUME Init
  PROVE  FlowInv
<1>1. Len(execQ) = 0 /\ Newest = 0 /\ received = 0 /\ pc["recv"] # "push"
  BY DEF Init, Newest, Threads
<1>2. Consecutive
  BY <1>1 DEF Consecutive
<1>3. Closing
  BY DEF Init, Closing
<1>. QED BY <1>2, <1>3 DEF FlowInv

\* What the executor's queue holds is, without a gap, what recvLoop received and
\* the executor has not taken out, and _active is never set on a closed socket,
\* for any number of requests and any buffers.
THEOREM FlowInvariant == Spec => []FlowInv
<1>. QED BY ClientInvariant, FlowInit, FlowNext, PTL DEF Spec


-----------------------------------------------------------------------------
(* What the mapping makes of the queues.                                   *)

AnswersOf(s) == [i \in 1..Len(s) |-> Reply(s[i])]
AllReplies == {Reply(a) : a \in Nat}

RequestsBetween(p, w) == [i \in 1..(w - p) |-> [type |-> "close", key |-> KeyOfRequest(p + i)]]
AllRequests == {[type |-> "close", key |-> KeyOfRequest(i)] : i \in Nat}

LEMMA AnswersOfType ==
  ASSUME NEW s \in Seq(Nat)
  PROVE  /\ AnswersOf(s) \in Seq(AllReplies) /\ Len(AnswersOf(s)) = Len(s) /\ Len(s) \in Nat
         /\ \A i \in 1..Len(s) : AnswersOf(s)[i] = Reply(s[i])
<1>1. Len(s) \in Nat /\ \A i \in 1..Len(s) : s[i] \in Nat
  OBVIOUS
<1>2. \A i \in 1..Len(s) : Reply(s[i]) \in AllReplies
  BY <1>1 DEF AllReplies
<1>3. AnswersOf(s) \in [1..Len(s) -> AllReplies]
  BY <1>2 DEF AnswersOf
<1>4. \A i \in 1..Len(s) : AnswersOf(s)[i] = Reply(s[i])
  BY DEF AnswersOf
<1>. QED BY <1>1, <1>3, <1>4

LEMMA AnswersOfAppend ==
  ASSUME NEW s \in Seq(Nat), NEW x \in Nat
  PROVE  AnswersOf(Append(s, x)) = Append(AnswersOf(s), Reply(x))
<1>1. PICK t \in Seq(Nat) : t = Append(s, x)
  BY AppendProperties
<1>2. /\ Len(s) \in Nat /\ Len(t) = Len(s) + 1 /\ t[Len(s) + 1] = x
      /\ \A i \in 1..Len(s) : t[i] = s[i]
  BY <1>1, AppendProperties
<1>3. /\ AnswersOf(s) \in Seq(AllReplies) /\ Len(AnswersOf(s)) = Len(s)
      /\ \A i \in 1..Len(s) : AnswersOf(s)[i] = Reply(s[i])
  BY AnswersOfType
<1>4. /\ AnswersOf(t) \in Seq(AllReplies) /\ Len(AnswersOf(t)) = Len(t)
      /\ \A i \in 1..Len(t) : AnswersOf(t)[i] = Reply(t[i])
  BY AnswersOfType
<1>5. Reply(x) \in AllReplies
  BY DEF AllReplies
<1>6. PICK u \in Seq(AllReplies) : u = Append(AnswersOf(s), Reply(x))
  BY <1>3, <1>5, AppendProperties
<1>7. /\ Len(u) = Len(s) + 1 /\ u[Len(s) + 1] = Reply(x)
      /\ \A i \in 1..Len(s) : u[i] = AnswersOf(s)[i]
  BY <1>3, <1>5, <1>6, AppendProperties
<1>8. ASSUME NEW i \in 1..Len(t)
      PROVE  AnswersOf(t)[i] = u[i]
  <2>1. i \in 1..Len(s) \/ i = Len(s) + 1
    BY <1>2
  <2>. QED BY <1>2, <1>3, <1>4, <1>7, <2>1
<1>9. AnswersOf(t) = u
  BY <1>2, <1>4, <1>7, <1>8, SeqEqual
<1>. QED BY <1>1, <1>6, <1>9

\* What is dropped at the end, and what is taken at the front.
LEMMA AnswersOfPrefix ==
  ASSUME NEW s \in Seq(Nat), NEW t \in Seq(Nat)
  PROVE  /\ Len(s) \in 0..Len(AnswersOf(s \o t))
         /\ SubSeq(AnswersOf(s \o t), 1, Len(s)) = AnswersOf(s)
<1>1. PICK u \in Seq(Nat) : u = s \o t
  BY Concats
<1>2. /\ Len(s) \in Nat /\ Len(t) \in Nat /\ Len(u) = Len(s) + Len(t)
      /\ \A i \in 1..Len(s) : u[i] = s[i]
  BY <1>1, ConcatProperties
<1>3. /\ AnswersOf(s) \in Seq(AllReplies) /\ Len(AnswersOf(s)) = Len(s)
      /\ \A i \in 1..Len(s) : AnswersOf(s)[i] = Reply(s[i])
  BY AnswersOfType
<1>4. /\ AnswersOf(u) \in Seq(AllReplies) /\ Len(AnswersOf(u)) = Len(u)
      /\ \A i \in 1..Len(u) : AnswersOf(u)[i] = Reply(u[i])
  BY AnswersOfType
<1>5. PICK v : v = SubSeq(AnswersOf(u), 1, Len(s))
  OBVIOUS
<1>6. /\ v \in Seq(AllReplies) /\ Len(v) = Len(s)
      /\ \A i \in 1..Len(s) : v[i] = AnswersOf(u)[i]
  <2>1. \A i \in 1..Len(s) : AnswersOf(u)[i] \in AllReplies
    BY <1>2, <1>4, ElementOfSeq
  <2>. QED BY <1>2, <1>5, <2>1, SubSeqProperties
<1>7. ASSUME NEW i \in 1..Len(s)
      PROVE  v[i] = AnswersOf(s)[i]
  <2>1. i \in 1..Len(u)
    BY <1>2
  <2>2. v[i] = Reply(u[i])
    BY <1>4, <1>6, <2>1
  <2>. QED BY <1>2, <1>3, <2>2
<1>8. v = AnswersOf(s)
  BY <1>3, <1>6, <1>7, SeqEqual
<1>. QED BY <1>1, <1>2, <1>4, <1>5, <1>8

LEMMA AnswersOfRest ==
  ASSUME NEW r \in Seq(Nat), NEW t \in Seq(Nat)
  PROVE  SubSeq(AnswersOf(r \o t), Len(r) + 1, Len(AnswersOf(r \o t))) = AnswersOf(t)
<1>1. PICK u \in Seq(Nat) : u = r \o t
  BY Concats
<1>2. PICK j \in Nat : j = Len(r)
  OBVIOUS
<1>3. /\ Len(t) \in Nat /\ Len(u) = j + Len(t)
      /\ \A i \in 1..Len(u) : u[i] = IF i <= j THEN r[i] ELSE t[i - j]
  BY <1>1, <1>2, ConcatProperties
<1>4. ASSUME NEW i \in 1..Len(t)
      PROVE  j + i \in 1..Len(u) /\ u[j + i] = t[i]
  <2>1. j + i \in 1..Len(u) /\ ~(j + i <= j) /\ (j + i) - j = i
    BY <1>3
  <2>. QED BY <1>3, <2>1
<1>5. /\ AnswersOf(t) \in Seq(AllReplies) /\ Len(AnswersOf(t)) = Len(t)
      /\ \A i \in 1..Len(t) : AnswersOf(t)[i] = Reply(t[i])
  BY AnswersOfType
<1>6. /\ AnswersOf(u) \in Seq(AllReplies) /\ Len(AnswersOf(u)) = Len(u)
      /\ \A i \in 1..Len(u) : AnswersOf(u)[i] = Reply(u[i])
  BY AnswersOfType
<1>7. PICK v : v = SubSeq(AnswersOf(u), j + 1, Len(u))
  OBVIOUS
<1>8. /\ v \in Seq(AllReplies) /\ Len(v) = Len(t)
      /\ \A i \in 1..Len(t) : v[i] = AnswersOf(u)[j + i]
  <2>1. j + 1 \in Int /\ Len(u) \in Int /\ j + 1 >= 1
    BY <1>3
  <2>2. \A i \in (j + 1)..Len(u) : AnswersOf(u)[i] \in AllReplies
    BY <1>3, <1>6, ElementOfSeq
  <2>3. /\ v \in Seq(AllReplies)
        /\ Len(v) = IF j + 1 <= Len(u) THEN Len(u) - (j + 1) + 1 ELSE 0
        /\ \A i \in 1..(Len(u) - (j + 1) + 1) : v[i] = AnswersOf(u)[(j + 1) + i - 1]
    BY <1>7, <2>1, <2>2, SubSeqProperties
  <2>4. Len(u) - (j + 1) + 1 = Len(t) /\ \A i \in 1..Len(t) : (j + 1) + i - 1 = j + i
    BY <1>2, <1>3
  <2>. QED BY <1>2, <1>3, <2>3, <2>4
<1>9. \A i \in 1..Len(t) : v[i] = AnswersOf(t)[i]
  BY <1>4, <1>5, <1>6, <1>8
<1>10. v = AnswersOf(t)
  BY <1>5, <1>8, <1>9, SeqEqual
<1>. QED BY <1>1, <1>2, <1>6, <1>7, <1>10

LEMMA RequestsType ==
  ASSUME NEW p \in Nat, NEW w \in Nat, p <= w
  PROVE  /\ RequestsBetween(p, w) \in Seq(AllRequests) /\ Len(RequestsBetween(p, w)) = w - p
         /\ \A i \in 1..(w - p) :
              RequestsBetween(p, w)[i] = [type |-> "close", key |-> KeyOfRequest(p + i)]
<1>1. PICK n \in Nat : n = w - p
  OBVIOUS
<1>2. \A i \in 1..n : [type |-> "close", key |-> KeyOfRequest(p + i)] \in AllRequests
  BY DEF AllRequests
<1>3. RequestsBetween(p, w) = [i \in 1..n |-> [type |-> "close", key |-> KeyOfRequest(p + i)]]
  BY <1>1 DEF RequestsBetween
<1>4. RequestsBetween(p, w) \in [1..n -> AllRequests]
  BY <1>2, <1>3
<1>5. \A i \in 1..n : RequestsBetween(p, w)[i] = [type |-> "close", key |-> KeyOfRequest(p + i)]
  BY <1>3
<1>. QED BY <1>1, <1>4, <1>5

LEMMA RequestsAppend ==
  ASSUME NEW p \in Nat, NEW w \in Nat, p <= w
  PROVE  RequestsBetween(p, w + 1)
           = Append(RequestsBetween(p, w), [type |-> "close", key |-> KeyOfRequest(w + 1)])
<1>1. PICK m \in AllRequests : m = [type |-> "close", key |-> KeyOfRequest(w + 1)]
  <2>1. PICK i \in Nat : i = w + 1
    OBVIOUS
  <2>2. [type |-> "close", key |-> KeyOfRequest(i)] \in AllRequests
    BY DEF AllRequests
  <2>. QED BY <2>1, <2>2, Zenon
<1>2. PICK n \in Nat : n = w - p
  OBVIOUS
<1>3. PICK s \in Seq(AllRequests) : s = RequestsBetween(p, w)
  BY RequestsType
<1>4. /\ Len(s) = n
      /\ \A i \in 1..n : s[i] = [type |-> "close", key |-> KeyOfRequest(p + i)]
  BY <1>2, <1>3, RequestsType
<1>5. PICK u \in Seq(AllRequests) : u = Append(s, m)
  BY AppendProperties
<1>6. Len(u) = n + 1 /\ u[n + 1] = m /\ \A i \in 1..n : u[i] = s[i]
  BY <1>4, <1>5, AppendProperties
<1>7. PICK t \in Seq(AllRequests) : t = RequestsBetween(p, w + 1)
  <2>1. w + 1 \in Nat /\ p <= w + 1
    OBVIOUS
  <2>. QED BY <2>1, RequestsType
<1>8. /\ Len(t) = n + 1
      /\ \A i \in 1..n + 1 : t[i] = [type |-> "close", key |-> KeyOfRequest(p + i)]
  <2>1. w + 1 \in Nat /\ p <= w + 1 /\ (w + 1) - p = n + 1
    BY <1>2
  <2>. QED BY <1>7, <2>1, RequestsType
<1>9. ASSUME NEW i \in 1..n + 1
      PROVE  t[i] = u[i]
  <2>1. CASE i \in 1..n
    BY <1>4, <1>6, <1>8, <2>1
  <2>2. CASE i \notin 1..n
    <3>1. i = n + 1 /\ p + (n + 1) = w + 1
      BY <1>2, <2>2
    <3>. QED BY <1>1, <1>6, <1>8, <3>1
  <2>. QED BY <2>1, <2>2
<1>10. t = u
  BY <1>6, <1>8, <1>9, SeqEqual
<1>. QED BY <1>1, <1>3, <1>5, <1>7, <1>10

LEMMA RequestsRest ==
  ASSUME NEW p \in Nat, NEW w \in Nat, NEW q \in Nat, p < q, q <= w
  PROVE  /\ q - p \in 1..Len(RequestsBetween(p, w))
         /\ Head(RequestsBetween(p, w)) = [type |-> "close", key |-> KeyOfRequest(p + 1)]
         /\ SubSeq(RequestsBetween(p, w), (q - p) + 1, Len(RequestsBetween(p, w)))
              = RequestsBetween(q, w)
<1>1. PICK n \in Nat, j \in Nat, m \in Nat :
        n = w - p /\ j = q - p /\ m = w - q /\ n = j + m /\ j >= 1 /\ p + j = q
  <2>1. w - p \in Nat /\ q - p \in Nat /\ w - q \in Nat /\ w - p = (q - p) + (w - q)
        /\ q - p >= 1 /\ p + (q - p) = q
    OBVIOUS
  <2>. QED BY <2>1
<1>2. PICK s \in Seq(AllRequests) : s = RequestsBetween(p, w)
  <2>1. p <= w
    OBVIOUS
  <2>. QED BY <2>1, RequestsType
<1>3. /\ Len(s) = n
      /\ \A i \in 1..n : s[i] = [type |-> "close", key |-> KeyOfRequest(p + i)]
  <2>1. p <= w
    OBVIOUS
  <2>2. /\ Len(s) = w - p
        /\ \A i \in 1..(w - p) : s[i] = [type |-> "close", key |-> KeyOfRequest(p + i)]
    BY <1>2, <2>1, RequestsType
  <2>. QED BY <1>1, <2>2, Zenon
<1>4. PICK t \in Seq(AllRequests) : t = RequestsBetween(q, w)
  BY RequestsType
<1>5. /\ Len(t) = m
      /\ \A i \in 1..m : t[i] = [type |-> "close", key |-> KeyOfRequest(q + i)]
  BY <1>1, <1>4, RequestsType
<1>6. PICK v : v = SubSeq(s, j + 1, Len(s))
  OBVIOUS
<1>7. v \in Seq(AllRequests) /\ Len(v) = m /\ \A i \in 1..m : v[i] = s[j + i]
  <2>1. j + 1 \in Int /\ Len(s) \in Int /\ j + 1 >= 1
    BY <1>3
  <2>2. \A i \in (j + 1)..Len(s) : s[i] \in AllRequests
    BY <1>1, <1>3, ElementOfSeq
  <2>3. /\ v \in Seq(AllRequests)
        /\ Len(v) = IF j + 1 <= Len(s) THEN Len(s) - (j + 1) + 1 ELSE 0
        /\ \A i \in 1..(Len(s) - (j + 1) + 1) : v[i] = s[(j + 1) + i - 1]
    BY <1>6, <2>1, <2>2, SubSeqProperties
  <2>4. Len(s) - (j + 1) + 1 = m /\ (j + 1 <= Len(s) <=> m # 0)
        /\ \A i \in 1..m : (j + 1) + i - 1 = j + i
    BY <1>1, <1>3
  <2>. QED BY <2>3, <2>4
<1>8. ASSUME NEW i \in 1..m
      PROVE  v[i] = t[i]
  <2>1. j + i \in 1..n /\ p + (j + i) = q + i
    BY <1>1
  <2>. QED BY <1>3, <1>5, <1>7, <2>1
<1>9. v = t
  BY <1>5, <1>7, <1>8, SeqEqual
<1>10. j \in 1..Len(s)
  BY <1>1, <1>3
<1>11. Head(s) = [type |-> "close", key |-> KeyOfRequest(p + 1)]
  <2>1. 1 \in 1..n /\ s # <<>>
    BY <1>1, <1>3
  <2>2. Head(s) = s[1]
    BY <2>1, HeadTailProperties
  <2>. QED BY <1>3, <2>1, <2>2
<1>. QED BY <1>1, <1>2, <1>4, <1>6, <1>9, <1>10, <1>11


-----------------------------------------------------------------------------
(* Every step is one of NodeLink's, or none.                               *)

LEMMA SentType ==
  ASSUME ClientInv
  PROVE  /\ outbound \in Seq(Nat) /\ writing \in Seq(Nat) /\ sendQ \in Seq(Nat)
         /\ Pending \in Seq(Nat) /\ Unsent \in Seq(Nat)
         /\ outbound \o writing \in Seq(Nat)
         /\ Sent \in Seq(Nat)
<1>1. /\ outbound \in Seq(Nat) /\ writing \in Seq(Nat) /\ sendQ \in Seq(Nat)
      /\ Pending \in Seq(Nat)
  BY Queues DEF ClientInv
<1>2. <<>> \in Seq(Nat) /\ <<0>> \in Seq(Nat)
  OBVIOUS
<1>3. PICK i \in Seq(Nat) : i = IF pc["main"] = "info" THEN <<0>> ELSE <<>>
  BY <1>2
<1>4. sendQ \o Pending \in Seq(Nat)
  BY <1>1, Concats
<1>5. Unsent \in Seq(Nat)
  BY <1>3, <1>4, Concats DEF Unsent
<1>6. PICK w \in Seq(Nat) : w = IF alive THEN writing ELSE <<>>
  BY <1>1, <1>2
<1>7. PICK u \in Seq(Nat) : u = IF alive /\ open THEN Unsent ELSE <<>>
  BY <1>2, <1>5
<1>8. outbound \o w \in Seq(Nat) /\ outbound \o writing \in Seq(Nat)
  BY <1>1, Concats
<1>9. Sent \in Seq(Nat)
  BY <1>6, <1>7, <1>8, Concats DEF Sent
<1>. QED BY <1>1, <1>5, <1>8, <1>9

\* A step that moves no packet across the ends of the connection.
LEMMA Unseen ==
  ASSUME Sent' = Sent, ToNode' = ToNode, alive' = alive, open' = open, peer'.con = peer.con,
         pc'["main"] = "start" <=> pc["main"] = "start"
  PROVE  UNCHANGED L!linkVars
<1>1. ToFrontend' = ToFrontend
  BY DEF ToFrontend
<1>. QED BY <1>1 DEF L!linkVars

\* NodeLink's variables for one start of one node.
OnNode(x) == [n \in {"node"} |-> x]
OnLink(x) == [l \in {"node"} \X {1} |-> x]

LEMMA OneNode ==
  ASSUME NEW x, NEW y
  PROVE  OnNode(x)["node"] = x /\ OnNode(y) = [OnNode(x) EXCEPT !["node"] = y]
BY DEF OnNode

LEMMA OneLink ==
  ASSUME NEW x, NEW y
  PROVE  OnLink(x)[<<"node", 1>>] = x /\ OnLink(y) = [OnLink(x) EXCEPT ![<<"node", 1>>] = y]
<1>1. \A l \in {"node"} \X {1} : l = <<"node", 1>>
  OBVIOUS
<1>. QED BY <1>1 DEF OnLink

Up == alive /\ pc["main"] # "start"
Wired == alive /\ open
Starts == IF pc["main"] = "start" THEN 0 ELSE 1
Con == IF peer.con THEN 1 ELSE 0

\* The end of what the node sent is dropped.
LEMMA UnsentSeen ==
  ASSUME pc["main"] # "start", NEW j \in 0..Len(ToFrontend), ToFrontend' = SubSeq(ToFrontend, 1, j)
  PROVE  L!UnsentLost("node")
<1>1. OnNode(Starts)["node"] = 1
  BY DEF Starts, OnNode
<1>2. OnLink(ToFrontend)[<<"node", 1>>] = ToFrontend
  BY OneLink
<1>3. OnLink(ToFrontend') = [OnLink(ToFrontend) EXCEPT ![<<"node", 1>>] = ToFrontend']
  <2>1. PICK x, y : x = ToFrontend /\ y = ToFrontend'
    OBVIOUS
  <2>. QED BY <2>1, OneLink, Zenon
<1>4. L!UnsentLost("node") <=>
        \E k \in 0..Len(OnLink(ToFrontend)[<<"node", OnNode(Starts)["node"]>>]) :
           OnLink(ToFrontend')
             = [OnLink(ToFrontend) EXCEPT ![<<"node", OnNode(Starts)["node"]>>] =
                  SubSeq(OnLink(ToFrontend)[<<"node", OnNode(Starts)["node"]>>], 1, k)]
  BY DEF L!UnsentLost, OnLink, OnNode, Starts
<1>. QED BY <1>1, <1>2, <1>3, <1>4, Zenon

\* The process ends.
LEMMA DiesSeen ==
  ASSUME ClientInv, alive, pc["main"] # "start", Dies
  PROVE  L!LinkNext
<1>1. /\ UNCHANGED <<outbound, peer, pc, open>> /\ alive' = FALSE
  BY DEF Dies, peerVars
<1>2. outbound \in Seq(Nat) /\ writing \in Seq(Nat) /\ Unsent \in Seq(Nat)
  BY SentType
<1>3. Sent' = outbound
  BY <1>1, <1>2, Empty DEF Sent
<1>4. PICK t \in Seq(Nat) : Sent = outbound \o t
  <2>1. PICK u \in Seq(Nat) : u = IF open THEN Unsent ELSE <<>>
    BY <1>2, Empty
  <2>2. Sent = (outbound \o writing) \o u
    BY <2>1 DEF Sent
  <2>3. writing \o u \in Seq(Nat)
    BY <1>2, Concats
  <2>4. (outbound \o writing) \o u = outbound \o (writing \o u)
    BY <1>2, Associative
  <2>. QED BY <2>2, <2>3, <2>4, Zenon
<1>5. ToFrontend = AnswersOf(outbound \o t) /\ ToFrontend' = AnswersOf(outbound)
  BY <1>3, <1>4 DEF ToFrontend, AnswersOf
<1>6. PICK j \in 0..Len(ToFrontend) : ToFrontend' = SubSeq(ToFrontend, 1, j)
  BY <1>2, <1>5, AnswersOfPrefix
<1>7. ToNode' = <<>>
  BY <1>1 DEF ToNode
<1>8. L!UnsentLost("node")
  BY <1>6, UnsentSeen
<1>9. L!NodeStops("node")
  BY <1>1, <1>7, <1>8 DEF L!NodeStops
<1>. QED BY <1>9 DEF L!LinkNext

\* Main connects.
LEMMA ConnectSeen ==
  ASSUME ClientInv, FlowInv, Connect
  PROVE  L!LinkNext
<1>1. /\ UNCHANGED <<outbound, writing, sendQ, popped, peer, job, alive, execQ>> /\ open' = TRUE /\ ~open /\ alive
      /\ pc["main"] = "start" /\ pc'["main"] = "info" /\ pc'["exec"] = "top"
      /\ outbound = <<>> /\ writing = <<>> /\ sendQ = <<>> /\ ~peer.con
  BY DEF Connect, At, execVars, sendVars, peerVars, FlowInv, Closing, ClientInv, Peering, Threads, Loops
<1>2. peer.written = 0 /\ popped = 0
  <2>1. peer.written \in Nat /\ popped \in Nat /\ received \in Nat /\ received <= peer.written /\ popped <= received
    BY ClientNumbers DEF ClientInv, ClientTypeOK
  <2>2. ~(peer.written > 0)
    BY <1>1 DEF ClientInv, Peering
  <2>. QED BY <2>1, <2>2
<1>3. Sent = <<>> /\ Sent' = <<0>>
  <2>1. <<0>> \in Seq(Nat) /\ <<>> \in Seq(Nat)
    OBVIOUS
  <2>2. <<>> \o <<>> = <<>> /\ <<>> \o <<0>> = <<0>>
    BY <2>1, Empty
  <2>3. Pending' = <<>>
    BY <1>1 DEF Pending
  <2>4. Unsent' = <<0>>
    BY <1>1, <2>2, <2>3 DEF Unsent
  <2>. QED BY <1>1, <2>2, <2>4 DEF Sent
<1>4. ToFrontend = <<>> /\ ToFrontend' = <<[type |-> "info", used |-> {}]>>
  <2>1. ToFrontend = <<>>
    BY <1>3 DEF ToFrontend
  <2>2. Len(Sent') = 1 /\ Sent'[1] = 0
    BY <1>3
  <2>3. ToFrontend' = [i \in 1..Len(Sent') |-> Reply(Sent'[i])]
    BY DEF ToFrontend, Reply
  <2>4. ToFrontend' = <<Reply(0)>>
    BY <2>2, <2>3
  <2>. QED BY <2>1, <2>4 DEF Reply
<1>5. ToNode = <<>> /\ ToNode' = <<>>
  BY <1>1, <1>2 DEF ToNode
<1>6. L!NodeStarts("node")
  <2>1. OnLink(ToFrontend') = [OnLink(ToFrontend) EXCEPT ![<<"node", 1>>] = ToFrontend']
    <3>1. PICK x, y : x = ToFrontend /\ y = ToFrontend'
      OBVIOUS
    <3>. QED BY <3>1, OneLink, Zenon
  <2>2. OnNode(Starts)["node"] = 0 /\ 0 + 1 = 1
    BY <1>1 DEF OnNode, Starts
  <2>3. OnLink(ToFrontend')
          = [OnLink(ToFrontend) EXCEPT ![<<"node", OnNode(Starts)["node"] + 1>>] = <<L!NodeInfo({})>>]
    BY <1>4, <2>1, <2>2, Zenon DEF L!NodeInfo
  <2>4. /\ ~OnNode(Up)["node"]
        /\ OnNode(Up') = [OnNode(Up) EXCEPT !["node"] = TRUE]
        /\ OnNode(Wired') = [OnNode(Wired) EXCEPT !["node"] = TRUE]
        /\ OnNode(Starts') = [OnNode(Starts) EXCEPT !["node"] = OnNode(Starts)["node"] + 1]
        /\ OnNode(ToNode') = OnNode(ToNode) /\ OnNode(Con') = OnNode(Con)
    <3>1. Up = FALSE /\ Up' = TRUE /\ Wired' = TRUE /\ Starts = 0 /\ Starts' = 1
          /\ Con' = Con /\ ToNode' = ToNode
      BY <1>1, <1>5 DEF Up, Wired, Starts, Con
    <3>2. OnNode(TRUE) = [OnNode(FALSE) EXCEPT !["node"] = TRUE] /\ ~OnNode(FALSE)["node"]
      BY OneNode
    <3>3. OnNode(TRUE) = [OnNode(Wired) EXCEPT !["node"] = TRUE]
      BY DEF OnNode
    <3>4. OnNode(1) = [OnNode(0) EXCEPT !["node"] = OnNode(0)["node"] + 1]
      BY DEF OnNode
    <3>. QED BY <3>1, <3>2, <3>3, <3>4, Zenon
  <2>. QED BY <2>2, <2>3, <2>4 DEF L!NodeStarts, OnLink, OnNode, Up, Wired, Starts, Con
<1>. QED BY <1>6 DEF L!LinkNext


\* endConnection: the first to call it breaks the link.
LEMMA EndConnectionSeen ==
  ASSUME ClientInv, FlowInv, NEW t \in Closers, EndConnection(t)
  PROVE  L!LinkNext \/ UNCHANGED L!linkVars
<1>1. /\ UNCHANGED <<outbound, writing, job, popped, peer, alive>> /\ alive
      /\ open' = FALSE /\ sendQ' = <<>> /\ pc[t] = "end" /\ Goto(t, "notify")
  BY DEF EndConnection, At, execVars, peerVars
<1>2. t \in Threads /\ (t = "main" \/ t = "recv")
  BY DEF Closers, Threads
<1>3. pc'[t] = "notify" /\ \A u \in Threads \ {t} : pc'[u] = pc[u]
  BY <1>1, <1>2, Gotos DEF ClientInv, Labels
<1>4. pc["main"] # "start" /\ pc'["main"] # "start"
  <2>1. pc["main"] # "start"
    BY <1>1, <1>2 DEF ClientInv, Peering
  <2>. QED BY <1>2, <1>3, <2>1 DEF Threads
<1>5. /\ outbound \o writing \in Seq(Nat) /\ Unsent \in Seq(Nat)
      /\ outbound \in Seq(Nat) /\ writing \in Seq(Nat)
  BY SentType
<1>6. ToNode' = <<>>
  BY <1>1 DEF ToNode
<1>7. Sent' = outbound \o writing
  <2>1. Sent' = (outbound \o writing) \o <<>>
    BY <1>1 DEF Sent
  <2>. QED BY <1>5, <2>1, Empty
<1>8. CASE open
  <2>1. Sent = (outbound \o writing) \o Unsent
    BY <1>1, <1>8 DEF Sent
  <2>2. PICK a \in Seq(Nat), b \in Seq(Nat) : a = outbound \o writing /\ b = Unsent
    BY <1>5
  <2>3. ToFrontend = AnswersOf(a \o b) /\ ToFrontend' = AnswersOf(a)
    BY <1>7, <2>1, <2>2 DEF ToFrontend, AnswersOf
  <2>4. PICK j \in 0..Len(ToFrontend) : ToFrontend' = SubSeq(ToFrontend, 1, j)
    BY <2>3, AnswersOfPrefix
  <2>5. L!UnsentLost("node")
    BY <1>4, <2>4, UnsentSeen
  <2>6. /\ OnNode(Up)["node"] /\ OnNode(Wired)["node"]
        /\ OnNode(Wired') = [OnNode(Wired) EXCEPT !["node"] = FALSE]
        /\ OnNode(ToNode') = [OnNode(ToNode) EXCEPT !["node"] = <<>>]
        /\ OnNode(Up') = OnNode(Up) /\ OnNode(Starts') = OnNode(Starts) /\ OnNode(Con') = OnNode(Con)
    <3>1. Up = TRUE /\ Up' = TRUE /\ Wired = TRUE /\ Wired' = FALSE /\ Starts' = Starts /\ Con' = Con
      BY <1>1, <1>4, <1>8 DEF Up, Wired, Starts, Con
    <3>2. OnNode(FALSE) = [OnNode(TRUE) EXCEPT !["node"] = FALSE] /\ OnNode(TRUE)["node"]
      BY OneNode
    <3>3. OnNode(<<>>) = [OnNode(ToNode) EXCEPT !["node"] = <<>>]
      BY DEF OnNode
    <3>. QED BY <1>6, <3>1, <3>2, <3>3, Zenon
  <2>7. L!LinkBreaks("node")
    BY <2>5, <2>6 DEF L!LinkBreaks, OnNode, Up, Wired, Starts, Con
  <2>. QED BY <2>7 DEF L!LinkNext, L!LinkFaults
<1>9. CASE ~open
  <2>1. Sent = (outbound \o writing) \o <<>>
    BY <1>1, <1>9 DEF Sent
  <2>2. Sent' = Sent
    BY <1>5, <1>7, <2>1, Empty
  <2>3. ToNode = <<>>
    BY <1>9 DEF ToNode
  <2>4. open' = open
    BY <1>1, <1>9 DEF ClientInv, ClientTypeOK
  <2>5. ToNode' = ToNode /\ alive' = alive /\ peer'.con = peer.con
    BY <1>1, <1>6, <2>3
  <2>. QED BY <1>4, <2>2, <2>4, <2>5, Unseen
<1>. QED BY <1>8, <1>9

\* The frontend writes a request: it arrives if the socket is open.
LEMMA PeerWritesSeen ==
  ASSUME ClientInv, FlowInv, PeerWrites
  PROVE  L!LinkNext
<1>1. /\ UNCHANGED <<outbound, writing, sendQ, job, popped, pc, open, alive>> /\ alive
      /\ peer.busy /\ peer' = [peer EXCEPT !.busy = FALSE, !.written = @ + 1]
  BY DEF PeerWrites, conVars, execVars, sendVars
<1>2. /\ peer'.con = peer.con /\ peer.con /\ pc["main"] # "start"
      /\ peer'.written = peer.written + 1 /\ peer.written + 1 \in Requests
      /\ peer.written \in Nat /\ popped \in Nat /\ popped <= peer.written
  <2>1. peer \in Peer /\ peer.con /\ peer.written < MaxRequests /\ pc["main"] # "start"
    BY <1>1 DEF ClientInv, ClientTypeOK, Peering
  <2>2. peer.written \in Nat /\ popped \in Nat /\ received \in Nat /\ popped <= received
        /\ received <= peer.written /\ MaxRequests \in Nat
    BY ClientNumbers DEF ClientInv, ClientTypeOK
  <2>3. peer'.con = peer.con /\ peer'.written = peer.written + 1
    BY <1>1, <2>1 DEF Peer
  <2>. QED BY <2>1, <2>2, <2>3 DEF Requests
<1>3. PICK m : m = [type |-> "close", key |-> KeyOfRequest(peer.written + 1)]
  OBVIOUS
<1>4. m \in L!Requests
  <2>1. KeyOfRequest(peer.written + 1) \in L!Keys
    BY <1>2 DEF L!Keys, KeyOfRequest
  <2>. QED BY <1>3, <2>1 DEF L!Requests
<1>5. Sent' = Sent
  BY <1>1 DEF Sent, Unsent, Pending
<1>6. ToFrontend' = ToFrontend
  BY <1>5 DEF ToFrontend
<1>7. ToNode' = IF open THEN Append(ToNode, m) ELSE ToNode
  <2>1. CASE open
    <3>1. ToNode = RequestsBetween(popped, peer.written)
          /\ ToNode' = RequestsBetween(popped, peer.written + 1)
      BY <1>1, <1>2, <2>1 DEF ToNode, RequestsBetween
    <3>. QED BY <1>2, <1>3, <2>1, <3>1, RequestsAppend
  <2>2. CASE ~open
    BY <1>1, <2>2 DEF ToNode
  <2>. QED BY <2>1, <2>2
<1>8. L!Linked("node") <=> open
  <2>1. L!Linked("node") <=> OnNode(Up)["node"] /\ OnNode(Wired)["node"] /\ OnNode(Con)["node"] = OnNode(Starts)["node"]
    BY DEF L!Linked, OnNode, Up, Wired, Con, Starts
  <2>2. /\ OnNode(Up)["node"] = Up /\ OnNode(Wired)["node"] = Wired
        /\ OnNode(Con)["node"] = Con /\ OnNode(Starts)["node"] = Starts
    BY OneNode
  <2>3. (Up <=> TRUE) /\ (Wired <=> open) /\ Con = 1 /\ Starts = 1
    BY <1>1, <1>2 DEF Up, Wired, Con, Starts
  <2>. QED BY <2>1, <2>2, <2>3
<1>9. OnNode(ToNode') = [OnNode(ToNode) EXCEPT !["node"] =
                           IF L!Linked("node") THEN Append(OnNode(ToNode)["node"], m)
                           ELSE OnNode(ToNode)["node"]]
  <2>1. OnNode(ToNode)["node"] = ToNode /\ OnNode(ToNode') = [OnNode(ToNode) EXCEPT !["node"] = ToNode']
    BY DEF OnNode
  <2>. QED BY <1>7, <1>8, <2>1, Zenon
<1>10. /\ OnLink(ToFrontend') = OnLink(ToFrontend)
       /\ OnNode(Up') = OnNode(Up) /\ OnNode(Wired') = OnNode(Wired)
       /\ OnNode(Starts') = OnNode(Starts) /\ OnNode(Con') = OnNode(Con)
  <2>1. Up' = Up /\ Wired' = Wired /\ Starts' = Starts /\ Con' = Con
    BY <1>1, <1>2 DEF Up, Wired, Starts, Con
  <2>. QED BY <1>6, <2>1, Zenon
<1>11. L!FrontendSends("node", m)
  BY <1>9, <1>10 DEF L!FrontendSends, OnNode, OnLink, Up, Wired, Starts, Con
<1>. QED BY <1>4, <1>11 DEF L!LinkNext


\* What stands before two other queues can be set apart.
LEMMA SetApart ==
  ASSUME NEW r \in Seq(Nat), NEW o \in Seq(Nat), NEW w \in Seq(Nat), NEW u \in Seq(Nat)
  PROVE  Cat(Cat(Cat(r, o), w), u) = Cat(r, Cat(Cat(o, w), u))
<1>1. Cat(Cat(r, o), w) = Cat(r, Cat(o, w)) /\ Cat(o, w) \in Seq(Nat)
  BY CatAssociative, SMT
<1>2. Cat(Cat(r, Cat(o, w)), u) = Cat(r, Cat(Cat(o, w), u))
  BY <1>1, CatAssociative, SMT
<1>. QED BY <1>1, <1>2, Zenon

\* The frontend reads some of what has arrived, and NodeInfo if it is first.
LEMMA PeerReadsSeen ==
  ASSUME ClientInv, PeerReads
  PROVE  L!LinkNext
<1>1. /\ UNCHANGED <<writing, sendQ, job, popped, pc, open, alive>> /\ alive
  BY DEF PeerReads, conVars, execVars, sendVars
<1>2. PICK j \in 1..Len(outbound) :
        /\ outbound' = SubSeq(outbound, j + 1, Len(outbound))
        /\ peer' = [peer EXCEPT !.con = peer.con \/ outbound[1] = 0]
  BY DEF PeerReads
<1>3. /\ peer'.con <=> (peer.con \/ outbound[1] = 0)
      /\ peer'.written = peer.written
  BY <1>2 DEF ClientInv, ClientTypeOK, Peer
<1>4. PICK o \in Seq(Nat), w \in Seq(Nat) : o = outbound /\ w = writing
  BY SentType
<1>5. PICK u \in Seq(Nat) : u = IF open THEN Unsent ELSE <<>>
  BY SentType, Empty
<1>6. PICK r \in Seq(Nat), s \in Seq(Nat) :
        r = SubSeq(o, 1, j) /\ s = SubSeq(o, j + 1, Len(o)) /\ Len(r) = j /\ o = Cat(r, s)
  <2>1. Len(o) \in Nat /\ j \in 0..Len(o) /\ 1 \in 1..(Len(o) + 1) /\ Len(o) \in j..Len(o)
    BY <1>4
  <2>2. SubSeq(o, 1, j) \in Seq(Nat) /\ SubSeq(o, j + 1, Len(o)) \in Seq(Nat) /\ Len(SubSeq(o, 1, j)) = j
    BY <2>1
  <2>3. o = SubSeq(o, 1, j) \o SubSeq(o, j + 1, Len(o))
    BY <2>1, ConcatAdjacentSubSeq, SubSeqFull
  <2>. QED BY <2>2, <2>3 DEF Cat
<1>7. Sent = Cat(Cat(o, w), u) /\ Sent' = Cat(Cat(s, w), u)
  <2>1. Unsent' = Unsent
    BY <1>1 DEF Unsent, Pending
  <2>. QED BY <1>1, <1>2, <1>4, <1>5, <1>6, <2>1 DEF Sent, Cat
<1>8. PICK t \in Seq(Nat) : t = Cat(Cat(s, w), u)
  BY CatAssociative, SMT
<1>9. Sent = r \o t /\ Sent' = t
  <2>1. Cat(Cat(Cat(r, s), w), u) = Cat(r, Cat(Cat(s, w), u))
    BY SetApart
  <2>2. Sent = Cat(r, t) /\ Sent' = t
    BY <1>6, <1>7, <1>8, <2>1
  <2>. QED BY <2>2 DEF Cat
<1>10. /\ ToFrontend = AnswersOf(r \o t) /\ ToFrontend' = AnswersOf(t)
  BY <1>9 DEF ToFrontend, AnswersOf
<1>11. ToFrontend' = L!AfterRead(ToFrontend, j)
  <2>1. SubSeq(AnswersOf(r \o t), Len(r) + 1, Len(AnswersOf(r \o t))) = AnswersOf(t)
    BY AnswersOfRest
  <2>2. Len(r) = j
    BY <1>6
  <2>. QED BY <1>10, <2>1, <2>2, Zenon DEF L!AfterRead
<1>12. j \in 1..Len(ToFrontend) /\ Head(ToFrontend) = Reply(outbound[1])
  <2>1. PICK v \in Seq(Nat) : v = r \o t
    BY Concats
  <2>2. Len(v) = j + Len(t) /\ v[1] = r[1] /\ Len(t) \in Nat /\ j >= 1
    <3>1. Len(r) = j /\ j \in Nat /\ j >= 1 /\ Len(t) \in Nat
      BY <1>4, <1>6
    <3>2. /\ Len(v) = Len(r) + Len(t)
          /\ \A i \in 1..Len(v) : v[i] = IF i <= Len(r) THEN r[i] ELSE t[i - Len(r)]
      BY <2>1, ConcatProperties
    <3>. QED BY <3>1, <3>2
  <2>3. r[1] = outbound[1]
    <3>1. 1 <= j /\ j <= Len(o)
      BY <1>4
    <3>. QED BY <1>4, <1>6, <3>1
  <2>4. PICK a \in Seq(AllReplies) :
          a = AnswersOf(v) /\ Len(a) = Len(v) /\ \A i \in 1..Len(v) : a[i] = Reply(v[i])
    BY AnswersOfType
  <2>5. 1 \in 1..Len(v) /\ j \in 1..Len(v) /\ a # <<>>
    BY <2>2, <2>4
  <2>6. Head(a) = a[1]
    BY <2>5, HeadTailProperties
  <2>7. ToFrontend = a
    BY <1>10, <2>1, <2>4
  <2>. QED BY <2>2, <2>3, <2>4, <2>5, <2>6, <2>7
<1>13. /\ OnNode(ToNode') = OnNode(ToNode)
       /\ OnNode(Up') = OnNode(Up) /\ OnNode(Wired') = OnNode(Wired)
       /\ OnNode(Starts') = OnNode(Starts)
  <2>1. Up' = Up /\ Wired' = Wired /\ Starts' = Starts /\ ToNode' = ToNode
    BY <1>1, <1>3 DEF Up, Wired, Starts, ToNode
  <2>. QED BY <2>1, Zenon
<1>14. OnNode(Con') = IF Reply(outbound[1]).type = "info" THEN [OnNode(Con) EXCEPT !["node"] = 1]
                      ELSE OnNode(Con)
  <2>1. CASE outbound[1] = 0
    <3>1. Reply(outbound[1]).type = "info" /\ Con' = 1
      BY <1>3, <2>1 DEF Reply, Con
    <3>2. OnNode(1) = [OnNode(Con) EXCEPT !["node"] = 1]
      BY DEF OnNode
    <3>. QED BY <3>1, <3>2, Zenon
  <2>2. CASE outbound[1] # 0
    <3>1. Reply(outbound[1]).type # "info" /\ Con' = Con
      BY <1>3, <2>2 DEF Reply, Con
    <3>. QED BY <3>1, Zenon
  <2>. QED BY <2>1, <2>2
<1>15. L!FrontendReads(<<"node", 1>>, j, Head(OnLink(ToFrontend)[<<"node", 1>>]))
  <2>1. OnLink(ToFrontend)[<<"node", 1>>] = ToFrontend
    BY OneLink
  <2>2. OnLink(ToFrontend') = [OnLink(ToFrontend) EXCEPT ![<<"node", 1>>] = L!AfterRead(ToFrontend, j)]
    <3>1. PICK x, y : x = ToFrontend /\ y = ToFrontend'
      OBVIOUS
    <3>. QED BY <1>11, <3>1, OneLink, Zenon
  <2>3. OnLink(ToFrontend') = [OnLink(ToFrontend) EXCEPT ![<<"node", 1>>] =
                                 L!AfterRead(OnLink(ToFrontend)[<<"node", 1>>], j)]
    BY <2>1, <2>2, Zenon
  <2>4. j \in 1..Len(OnLink(ToFrontend)[<<"node", 1>>])
    BY <1>12, <2>1, Zenon
  <2>5. PICK h : h = Head(OnLink(ToFrontend)[<<"node", 1>>])
    OBVIOUS
  <2>6. h = Reply(outbound[1])
    BY <1>12, <2>1, <2>5, Zenon
  <2>7. OnNode(Con') = IF h.type = "info" THEN [OnNode(Con) EXCEPT ![<<"node", 1>>[1]] = <<"node", 1>>[2]]
                       ELSE OnNode(Con)
    BY <1>14, <2>6
  <2>8. L!FrontendReads(<<"node", 1>>, j, h)
    BY <1>13, <2>3, <2>4, <2>5, <2>7
       DEF L!FrontendReads, OnNode, OnLink, Up, Wired, Starts, Con
  <2>. QED BY <2>5, <2>8, Zenon
<1>16. j \in 1..Len(OnLink(ToFrontend)[<<"node", 1>>])
  <2>1. OnLink(ToFrontend)[<<"node", 1>>] = ToFrontend
    BY OneLink
  <2>. QED BY <1>12, <2>1, Zenon
<1>. QED BY <1>15, <1>16 DEF L!LinkNext, OnLink


\* The executor takes a burst: NodeLink's node answers its first request, or
\* all of it is lost.
LEMMA PopSeen ==
  ASSUME ClientInv, FlowInv, Pop
  PROVE  L!LinkNext
<1>1. /\ UNCHANGED <<outbound, writing, sendQ, peer, open, alive>> /\ alive /\ active
      /\ pc["exec"] = "lock" /\ execQ # <<>> /\ popped' = Head(execQ).last
  BY DEF Pop, Takes, At, conVars, sendVars, peerVars
<1>2. /\ open /\ pc["main"] # "start" /\ pc["main"] # "info"
  BY <1>1 DEF FlowInv, Closing, ClientInv, Peering
<1>3. PICK label \in {"top", "run"} :
        /\ Goto("exec", label)
        /\ label = "run" => ~Head(execQ).torn /\ job' = Head(execQ).first
        /\ label = "top" => UNCHANGED job
  BY DEF Pop, Takes
<1>4. pc'["exec"] = label /\ pc'["main"] = pc["main"]
  BY <1>3, Gotos DEF ClientInv, Threads, Loops, Labels
<1>5. PICK p \in Nat, q \in Nat, w \in Nat :
        /\ p = popped /\ q = popped' /\ w = peer.written
        /\ p < q /\ q <= w /\ Head(execQ).first = p + 1
  <2>1. execQ \in Seq(Burst)
    BY Queues DEF ClientInv
  <2>2. 1 \in 1..Len(execQ) /\ Head(execQ) = execQ[1] /\ execQ[1] \in Burst
    BY <1>1, <2>1
  <2>3. execQ[1].first = popped + 1 /\ execQ[1].first <= execQ[1].last
    BY <2>2 DEF FlowInv, Consecutive
  <2>4. execQ[1].last <= received
    BY <2>2 DEF ClientInv, Bursts
  <2>5. popped \in Nat /\ received \in Nat /\ peer.written \in Nat /\ received <= peer.written
    BY ClientNumbers DEF ClientInv
  <2>6. execQ[1].last \in Nat
    BY <2>2 DEF Burst, Requests
  <2>. QED BY <1>1, <2>2, <2>3, <2>4, <2>5, <2>6
<1>6. ToNode = RequestsBetween(p, w) /\ ToNode' = RequestsBetween(q, w)
  BY <1>1, <1>2, <1>5 DEF ToNode, RequestsBetween
<1>7. PICK j : j = q - p
  OBVIOUS
<1>8. /\ j \in 1..Len(ToNode)
      /\ Head(ToNode) = [type |-> "close", key |-> KeyOfRequest(p + 1)]
      /\ ToNode' = L!AfterRead(ToNode, j)
  <2>1. /\ q - p \in 1..Len(RequestsBetween(p, w))
        /\ Head(RequestsBetween(p, w)) = [type |-> "close", key |-> KeyOfRequest(p + 1)]
        /\ SubSeq(RequestsBetween(p, w), (q - p) + 1, Len(RequestsBetween(p, w)))
             = RequestsBetween(q, w)
    <3>1. p < q /\ q <= w
      BY <1>5
    <3>. QED BY <3>1, RequestsRest
  <2>. QED BY <1>6, <1>7, <2>1, Zenon DEF L!AfterRead
<1>9. /\ OnNode(ToNode)["node"] = ToNode
      /\ OnNode(ToNode') = [OnNode(ToNode) EXCEPT !["node"] = L!AfterRead(OnNode(ToNode)["node"], j)]
  <2>1. OnNode(ToNode)["node"] = ToNode /\ OnNode(ToNode') = [OnNode(ToNode) EXCEPT !["node"] = ToNode']
    BY DEF OnNode
  <2>. QED BY <1>8, <2>1, Zenon
<1>10. /\ Up /\ Wired /\ OnNode(Up)["node"] /\ OnNode(Wired)["node"] /\ OnNode(Starts)["node"] = 1
       /\ OnNode(Up') = OnNode(Up) /\ OnNode(Wired') = OnNode(Wired)
       /\ OnNode(Starts') = OnNode(Starts) /\ OnNode(Con') = OnNode(Con)
  <2>1. Up = TRUE /\ Wired = TRUE /\ Up' = TRUE /\ Wired' = TRUE /\ Starts = 1 /\ Starts' = Starts /\ Con' = Con
    BY <1>1, <1>2, <1>4 DEF Up, Wired, Starts, Con
  <2>2. OnNode(TRUE)["node"] = TRUE /\ OnNode(1)["node"] = 1
    BY OneNode
  <2>. QED BY <2>1, <2>2, Zenon
<1>11. j \in 1..Len(OnNode(ToNode)["node"])
  BY <1>8, <1>9, Zenon
<1>12. /\ outbound \in Seq(Nat) /\ writing \in Seq(Nat) /\ sendQ \in Seq(Nat)
  BY SentType
<1>13. PICK a \in Seq(Nat) : a = outbound \o writing
  BY <1>12, Concats
<1>14. Sent = Cat(a, sendQ)
  <2>1. Pending = <<>>
    BY <1>1 DEF Pending
  <2>2. Unsent = sendQ
    <3>1. (sendQ \o <<>>) \o <<>> = sendQ
      BY <1>12, Empty
    <3>. QED BY <1>2, <2>1, <3>1 DEF Unsent
  <2>. QED BY <1>1, <1>2, <1>13, <2>2 DEF Sent, Cat
<1>15. CASE label = "top"
  <2>1. Pending' = <<>>
    BY <1>4, <1>15 DEF Pending
  <2>2. Unsent' = sendQ
    <3>1. (sendQ \o <<>>) \o <<>> = sendQ
      BY <1>12, Empty
    <3>. QED BY <1>1, <1>2, <1>4, <2>1, <3>1 DEF Unsent
  <2>3. Sent' = Sent
    BY <1>1, <1>2, <1>13, <1>14, <2>2 DEF Sent, Cat
  <2>4. ToFrontend' = ToFrontend
    BY <2>3 DEF ToFrontend
  <2>5. OnLink(ToFrontend') = OnLink(ToFrontend)
    BY <2>4, Zenon
  <2>6. L!RequestsLost("node", j)
    BY <1>9, <1>10, <1>11, <2>5
       DEF L!RequestsLost, OnNode, OnLink, Up, Wired, Starts, Con
  <2>. QED BY <1>11, <2>6 DEF L!LinkNext, L!LinkFaults, OnNode
<1>16. CASE label = "run"
  <2>1. PICK x \in Nat : x = p + 1 /\ x # 0 /\ x = Head(execQ).first
    BY <1>5
  <2>2. job' = x
    BY <1>3, <1>16, <2>1
  <2>3. Pending' = <<x>>
    BY <1>4, <1>16, <2>2 DEF Pending
  <2>4. PICK b \in Seq(Nat), s \in Seq(Nat) : b = <<x>> /\ s = sendQ
    <3>1. <<x>> \in Seq(Nat)
      BY <2>1
    <3>. QED BY <1>12, <3>1
  <2>5. Unsent' = Cat(s, b)
    <3>1. s \o b \in Seq(Nat)
      BY Concats
    <3>2. (s \o b) \o <<>> = s \o b
      BY <3>1, Empty
    <3>3. Unsent' = (s \o b) \o <<>>
      BY <1>1, <1>2, <1>4, <2>3, <2>4 DEF Unsent
    <3>. QED BY <3>2, <3>3 DEF Cat
  <2>6. Sent' = Cat(a, Cat(s, b))
    BY <1>1, <1>2, <1>13, <2>5 DEF Sent, Cat
  <2>7. PICK c \in Seq(Nat) : c = Cat(a, s)
    BY CatAssociative, SMT
  <2>8. Cat(a, Cat(s, b)) = Cat(c, b)
    BY <2>7, CatAssociative, SMT
  <2>9. Sent = c /\ Sent' = Append(c, x)
    <3>1. Sent = c /\ Sent' = Cat(c, b)
      BY <1>14, <2>4, <2>6, <2>7, <2>8
    <3>2. c \o <<x>> = Append(c, x)
      OBVIOUS
    <3>. QED BY <2>4, <3>1, <3>2 DEF Cat
  <2>10. ToFrontend = AnswersOf(c) /\ ToFrontend' = AnswersOf(Append(c, x))
    BY <2>9 DEF ToFrontend, AnswersOf
  <2>11. ToFrontend' = Append(ToFrontend, Reply(x))
    BY <2>10, AnswersOfAppend
  <2>12. Reply(x) \in L!AnswersTo(Head(OnNode(ToNode)["node"]))
    <3>1. PICK m : m = Head(OnNode(ToNode)["node"])
      OBVIOUS
    <3>2. m = [type |-> "close", key |-> KeyOfRequest(x)]
      BY <1>8, <1>9, <2>1, <3>1
    <3>3. m.type = "close" /\ m.key = KeyOfRequest(x)
      BY <3>2
    <3>4. L!AnswersTo(m) = {L!CloseResult(KeyOfRequest(x))}
      BY <3>3 DEF L!AnswersTo
    <3>5. Reply(x) = L!CloseResult(KeyOfRequest(x))
      BY <2>1 DEF Reply, L!CloseResult
    <3>. QED BY <3>1, <3>4, <3>5
  <2>13. OnLink(ToFrontend') = [OnLink(ToFrontend) EXCEPT ![<<"node", OnNode(Starts)["node"]>>] =
                                  Append(OnLink(ToFrontend)[<<"node", OnNode(Starts)["node"]>>], Reply(x))]
    <3>1. PICK y, z : y = ToFrontend /\ z = ToFrontend'
      OBVIOUS
    <3>2. /\ OnLink(y)[<<"node", 1>>] = y
          /\ OnLink(z) = [OnLink(y) EXCEPT ![<<"node", 1>>] = z]
      BY OneLink
    <3>. QED BY <1>10, <2>11, <3>1, <3>2, Zenon
  <2>14. L!NodeSends("node", Reply(x))
    BY <2>13 DEF L!NodeSends, OnNode, OnLink, Starts
  <2>15. L!NodeReads("node", j, Head(OnNode(ToNode)["node"]))
    BY <1>9, <1>10, <1>11 DEF L!NodeReads, OnNode, Up, Wired
  <2>16. L!NodeAnswers("node")
    BY <1>10, <1>11, <2>12, <2>14, <2>15 DEF L!NodeAnswers, OnNode, Up, Wired, Starts, Con
  <2>. QED BY <2>16 DEF L!LinkNext
<1>. QED BY <1>15, <1>16


\* Threads move, and no packet does.
LEMMA Still ==
  ASSUME UNCHANGED <<outbound, writing, sendQ, job, popped, alive, open>>,
         peer'.con = peer.con, peer'.written = peer.written,
         pc'["exec"] = "run" <=> pc["exec"] = "run",
         pc'["main"] = "info" <=> pc["main"] = "info",
         pc'["main"] = "start" <=> pc["main"] = "start"
  PROVE  UNCHANGED L!linkVars
<1>1. Pending' = Pending
  BY DEF Pending
<1>2. Unsent' = Unsent
  BY <1>1 DEF Unsent
<1>3. Sent' = Sent
  BY <1>2 DEF Sent
<1>4. ToNode' = ToNode
  BY DEF ToNode
<1>. QED BY <1>3, <1>4, Unseen

LEMMA GotoStill ==
  ASSUME ClientInv, UNCHANGED <<outbound, writing, sendQ, job, popped, peer, alive, open>>,
         NEW t \in Threads, NEW label \in Labels \ {"start", "info", "run"}, Goto(t, label),
         pc[t] \notin {"start", "info", "run"}
  PROVE  UNCHANGED L!linkVars
<1>1. pc'[t] = label /\ \A u \in Threads \ {t} : pc'[u] = pc[u]
  BY Gotos DEF ClientInv
<1>2. "main" \in Threads /\ "exec" \in Threads
  BY DEF Threads, Loops
<1>. QED BY <1>1, <1>2, Still

LEMMA NotifyStill ==
  ASSUME ClientInv, UNCHANGED <<outbound, writing, sendQ, job, popped, peer, alive, open>>,
         NEW t \in Threads, NEW label \in Labels \ {"start", "info", "run"}, NEW woken \in SUBSET Loops,
         GotoAndNotify(t, label, woken),
         pc[t] \notin {"start", "info", "run"}
  PROVE  UNCHANGED L!linkVars
<1>1. \A u \in Threads :
        pc'[u] = IF u = t THEN label
                 ELSE IF u \in woken /\ pc[u] = "wait" THEN "lock" ELSE pc[u]
  BY DEF GotoAndNotify
<1>2. "main" \in Threads /\ "exec" \in Threads
  BY DEF Threads, Loops
<1>3. /\ pc'["exec"] = "run" <=> pc["exec"] = "run"
      /\ pc'["main"] = "info" <=> pc["main"] = "info"
      /\ pc'["main"] = "start" <=> pc["main"] = "start"
  BY <1>1, <1>2
<1>. QED BY <1>3, Still

LEMMA QuietSeen ==
  ASSUME ClientInv,
         \/ Interrupted
         \/ RecvTop \/ Receive \/ ReceiveNothing \/ Push \/ RecvOut
         \/ SendTop \/ PollNothing \/ SendWaits
         \/ ExecTop \/ PopNothing \/ ExecWaits
         \/ \E t \in Closers : ClearActive(t) \/ Notify(t)
         \/ PeerTakesUp \/ PeerBreaks \/ UNCHANGED vars
  PROVE  UNCHANGED L!linkVars
<1>1. CASE Interrupted
  <2>1. UNCHANGED <<outbound, writing, sendQ, job, popped, peer, alive, open>>
        /\ pc["main"] = "serve" /\ Goto("main", "flag")
    BY <1>1 DEF Interrupted, At, conVars, execVars, sendVars, peerVars
  <2>2. "main" \in Threads /\ "flag" \in Labels \ {"start", "info", "run"}
    BY DEF Threads, Labels
  <2>. QED BY <2>1, <2>2, GotoStill
<1>2. CASE RecvTop \/ Receive \/ ReceiveNothing \/ RecvOut
  <2>1. UNCHANGED <<outbound, writing, sendQ, job, popped, peer, alive, open>>
        /\ pc["recv"] \in {"top", "recv", "out"}
    BY <1>2 DEF RecvTop, Receive, Received, ReceiveNothing, RecvOut, At,
                conVars, execVars, sendVars, peerVars
  <2>2. PICK label \in {"recv", "push", "out", "flag", "done"} : Goto("recv", label)
    BY <1>2 DEF RecvTop, Receive, Received, ReceiveNothing, RecvOut
  <2>3. "recv" \in Threads /\ label \in Labels \ {"start", "info", "run"}
    BY DEF Threads, Labels
  <2>. QED BY <2>1, <2>2, <2>3, GotoStill
<1>3. CASE Push
  <2>1. UNCHANGED <<outbound, writing, sendQ, job, popped, peer, alive, open>> /\ pc["recv"] = "push"
        /\ GotoAndNotify("recv", "top", {"exec"})
    BY <1>3 DEF Push, At, conVars, sendVars, peerVars
  <2>2. "recv" \in Threads /\ "top" \in Labels \ {"start", "info", "run"} /\ {"exec"} \in SUBSET Loops
    BY DEF Threads, Labels, Loops
  <2>. QED BY <2>1, <2>2, NotifyStill
<1>4. CASE SendTop \/ PollNothing \/ SendWaits
  <2>1. UNCHANGED <<outbound, writing, sendQ, job, popped, peer, alive, open>>
        /\ pc["send"] \in {"top", "lock", "checked"}
    BY <1>4 DEF SendTop, PollNothing, SendWaits, At, conVars, execVars, sendVars, peerVars
  <2>2. PICK label \in {"top", "lock", "checked", "wait", "done"} : Goto("send", label)
    BY <1>4 DEF SendTop, PollNothing, SendWaits
  <2>3. "send" \in Threads /\ label \in Labels \ {"start", "info", "run"}
    BY DEF Threads, Loops, Labels
  <2>. QED BY <2>1, <2>2, <2>3, GotoStill
<1>5. CASE ExecTop \/ PopNothing \/ ExecWaits
  <2>1. UNCHANGED <<outbound, writing, sendQ, job, popped, peer, alive, open>>
        /\ pc["exec"] \in {"top", "lock", "checked"}
    BY <1>5 DEF ExecTop, PopNothing, ExecWaits, At, conVars, execVars, sendVars, peerVars
  <2>2. PICK label \in {"top", "lock", "checked", "wait", "done"} : Goto("exec", label)
    BY <1>5 DEF ExecTop, PopNothing, ExecWaits
  <2>3. "exec" \in Threads /\ label \in Labels \ {"start", "info", "run"}
    BY DEF Threads, Loops, Labels
  <2>. QED BY <2>1, <2>2, <2>3, GotoStill
<1>6. ASSUME NEW t \in Closers, ClearActive(t)
      PROVE  UNCHANGED L!linkVars
  <2>1. UNCHANGED <<outbound, writing, sendQ, job, popped, peer, alive, open>>
        /\ pc[t] = "flag" /\ Goto(t, "end")
    BY <1>6 DEF ClearActive, At, execVars, sendVars, peerVars
  <2>2. t \in Threads /\ "end" \in Labels \ {"start", "info", "run"}
    BY DEF Threads, Closers, Labels
  <2>. QED BY <2>1, <2>2, GotoStill
<1>7. ASSUME NEW t \in Closers, Notify(t)
      PROVE  UNCHANGED L!linkVars
  <2>1. UNCHANGED <<outbound, writing, sendQ, job, popped, peer, alive, open>>
        /\ pc[t] = "notify" /\ GotoAndNotify(t, "done", Loops)
    BY <1>7 DEF Notify, NotifyLoops, At, conVars, execVars, sendVars, peerVars
  <2>2. t \in Threads /\ "done" \in Labels \ {"start", "info", "run"} /\ Loops \in SUBSET Loops
    BY DEF Threads, Closers, Labels
  <2>. QED BY <2>1, <2>2, NotifyStill
<1>8. CASE PeerTakesUp \/ PeerBreaks
  <2>1. UNCHANGED <<outbound, writing, sendQ, job, popped, pc, alive, open>>
    BY <1>8 DEF PeerTakesUp, PeerBreaks, conVars, execVars, sendVars
  <2>2. peer'.con = peer.con /\ peer'.written = peer.written
    BY <1>8 DEF PeerTakesUp, PeerBreaks, ClientInv, ClientTypeOK, Peer
  <2>. QED BY <2>1, <2>2, Still
<1>9. CASE UNCHANGED vars
  <2>1. UNCHANGED <<outbound, writing, sendQ, job, popped, peer, pc, alive, open>>
    BY <1>9 DEF vars, conVars, execVars, sendVars, peerVars
  <2>. QED BY <2>1, Still
<1>. QED BY <1>1, <1>2, <1>3, <1>4, <1>5, <1>6, <1>7, <1>8, <1>9

\* An answer moves from one of the node's queues to the next.
LEMMA SendingSeen ==
  ASSUME ClientInv, SendNodeInfo \/ Poll \/ SendBytes \/ Run
  PROVE  UNCHANGED L!linkVars
<1>1. UNCHANGED <<popped, peer, alive, open>> /\ alive
  BY DEF SendNodeInfo, Poll, Polled, SendBytes, Run, At, conVars, execVars, peerVars
<1>2. ToNode' = ToNode
  BY <1>1 DEF ToNode
<1>3. /\ outbound \in Seq(Nat) /\ writing \in Seq(Nat) /\ sendQ \in Seq(Nat)
      /\ Pending \in Seq(Nat) /\ Unsent \in Seq(Nat) /\ job \in Nat
  BY SentType, ClientNumbers DEF ClientInv
<1>4. CASE SendNodeInfo
  <2>1. /\ UNCHANGED <<outbound, writing, job>> /\ sendQ' = Append(sendQ, 0)
        /\ pc["main"] = "info" /\ GotoAndNotify("main", "serve", {"send"})
    BY <1>4 DEF SendNodeInfo, SendPacket, Sends, At, execVars, peerVars
  <2>2. pc'["main"] = "serve" /\ pc'["exec"] = pc["exec"] /\ pc["exec"] # "run" /\ sendQ = <<>>
    BY <2>1, Notifies DEF ClientInv, Peering, Threads, Loops, Labels
  <2>3. Pending = <<>> /\ Pending' = <<>>
    BY <2>2 DEF Pending
  <2>4. Unsent = <<0>> /\ Unsent' = <<0>>
    <3>1. Append(<<>>, 0) = <<0>>
      OBVIOUS
    <3>2. <<0>> \in Seq(Nat) /\ <<>> \in Seq(Nat)
      OBVIOUS
    <3>3. (<<>> \o <<>>) \o <<0>> = <<0>> /\ (<<0>> \o <<>>) \o <<>> = <<0>>
      BY <3>2, Empty
    <3>. QED BY <2>1, <2>2, <2>3, <3>1, <3>3 DEF Unsent
  <2>5. Sent' = Sent
    BY <1>1, <2>1, <2>4 DEF Sent
  <2>. QED BY <1>1, <1>2, <2>1, <2>2, <2>5, Unseen
<1>5. CASE Run
  <2>1. /\ UNCHANGED <<outbound, writing>> /\ sendQ' = Append(sendQ, job)
        /\ pc["exec"] = "run" /\ GotoAndNotify("exec", "top", {"send"})
    BY <1>5 DEF Run, SendPacket, Sends, At, peerVars
  <2>2. pc'["main"] = pc["main"] /\ pc'["exec"] = "top"
    BY <2>1, Notifies DEF ClientInv, Threads, Loops, Labels
  <2>3. Pending = <<job>> /\ Pending' = <<>>
    BY <2>1, <2>2 DEF Pending
  <2>4. PICK a \in Seq(Nat) : a = sendQ \o <<job>>
    BY <1>3, <2>3, Concats
  <2>5. sendQ' \o Pending' = sendQ \o Pending
    <3>1. Append(sendQ, job) = a
      BY <1>3, <2>4
    <3>2. a \o <<>> = a
      BY Empty
    <3>. QED BY <2>1, <2>3, <2>4, <3>1, <3>2
  <2>6. Unsent' = Unsent
    BY <2>2, <2>5 DEF Unsent
  <2>7. Sent' = Sent
    BY <1>1, <2>1, <2>6 DEF Sent
  <2>. QED BY <1>1, <1>2, <2>2, <2>7, Unseen
<1>6. CASE Poll
  <2>1. /\ UNCHANGED <<outbound, job>> /\ writing' = <<Head(sendQ)>> /\ sendQ' = Tail(sendQ)
        /\ sendQ # <<>> /\ open /\ pc["send"] = "lock" /\ Goto("send", "write")
    BY <1>6 DEF Poll, Polled, At, execVars, peerVars
  <2>2. pc'["main"] = pc["main"] /\ pc'["exec"] = pc["exec"] /\ writing = <<>>
    BY <2>1, Gotos DEF ClientInv, Threading, Threads, Loops, Labels
  <2>3. PICK x \in Seq(Nat), s \in Seq(Nat) : x = <<Head(sendQ)>> /\ s = Tail(sendQ) /\ sendQ = Cat(x, s)
    <3>1. Head(sendQ) \in Nat /\ Tail(sendQ) \in Seq(Nat) /\ sendQ = <<Head(sendQ)>> \o Tail(sendQ)
      BY <1>3, <2>1, HeadThenTail
    <3>2. <<Head(sendQ)>> \in Seq(Nat)
      BY <3>1
    <3>. QED BY <3>1, <3>2, Zenon DEF Cat
  <2>4. PICK i \in Seq(Nat) : i = IF pc["main"] = "info" THEN <<0>> ELSE <<>>
    <3>1. <<0>> \in Seq(Nat) /\ <<>> \in Seq(Nat)
      OBVIOUS
    <3>. QED BY <3>1
  <2>5. PICK b \in Seq(Nat), o \in Seq(Nat) : b = Pending /\ o = outbound
    BY <1>3
  <2>6. Pending' = b
    BY <2>1, <2>2, <2>5 DEF Pending
  <2>7. Unsent = Cat(Cat(Cat(x, s), b), i) /\ Unsent' = Cat(Cat(s, b), i)
    BY <2>1, <2>2, <2>3, <2>4, <2>5, <2>6 DEF Unsent, Cat
  <2>8. Sent = Cat(Cat(o, <<>>), Cat(Cat(Cat(x, s), b), i)) /\ Sent' = Cat(Cat(o, x), Cat(Cat(s, b), i))
    BY <1>1, <2>1, <2>2, <2>3, <2>5, <2>7 DEF Sent, Cat
  <2>9. PICK v \in Seq(Nat) : v = Cat(Cat(s, b), i)
    BY CatAssociative, SMT
  <2>10. Cat(Cat(Cat(x, s), b), i) = Cat(x, v)
    BY <2>9, SetApart
  <2>11. Cat(o, <<>>) = o
    BY Empty DEF Cat
  <2>12. Cat(o, Cat(x, v)) = Cat(Cat(o, x), v)
    BY CatAssociative, SMT
  <2>13. Sent' = Sent
    BY <2>8, <2>9, <2>10, <2>11, <2>12, Zenon
  <2>. QED BY <1>1, <1>2, <2>2, <2>13, Unseen
<1>7. CASE SendBytes
  <2>1. /\ UNCHANGED <<sendQ, job>> /\ writing' = <<>> /\ outbound' = outbound \o writing
        /\ Goto("send", "top")
    BY <1>7 DEF SendBytes, execVars
  <2>2. pc'["main"] = pc["main"] /\ pc'["exec"] = pc["exec"]
    BY <2>1, Gotos DEF ClientInv, Threads, Loops, Labels
  <2>3. Unsent' = Unsent
    BY <2>1, <2>2 DEF Unsent, Pending
  <2>4. (outbound \o writing) \o <<>> = outbound \o writing
    BY <1>3, Concats, Empty
  <2>5. Sent' = Sent
    BY <1>1, <2>1, <2>3, <2>4 DEF Sent
  <2>. QED BY <1>1, <1>2, <2>2, <2>5, Unseen
<1>. QED BY <1>4, <1>5, <1>6, <1>7

\* Every step is one of NodeLink's, or moves nothing it sees.
LEMMA StepSeen ==
  ASSUME ClientInv, FlowInv, [Next]_vars
  PROVE  [L!LinkNext]_(L!linkVars)
<1>1. CASE Connect
  BY <1>1, ConnectSeen
<1>2. CASE MainReturns \/ RecvThrows \/ SendThrows \/ PollClosed
  <2>1. alive /\ Dies
    BY <1>2 DEF MainReturns, RecvThrows, SendThrows, PollClosed, At
  <2>2. pc["main"] # "start"
    BY <1>2 DEF MainReturns, RecvThrows, SendThrows, PollClosed, At, ClientInv, Peering
  <2>. QED BY <2>1, <2>2, DiesSeen
<1>3. CASE SendNodeInfo \/ Interrupted
  BY <1>3, SendingSeen, QuietSeen
<1>4. CASE RecvStep
  BY <1>4, QuietSeen DEF RecvStep
<1>5. CASE SendStep
  BY <1>2, <1>5, QuietSeen, SendingSeen DEF SendStep
<1>6. CASE ExecStep
  BY <1>6, QuietSeen, SendingSeen, PopSeen DEF ExecStep
<1>7. CASE \E t \in Closers : CloseStep(t)
  BY <1>7, QuietSeen, EndConnectionSeen DEF CloseStep
<1>8. CASE PeerReads \/ PeerTakesUp \/ PeerWrites \/ PeerBreaks \/ UNCHANGED vars
  BY <1>8, PeerReadsSeen, PeerWritesSeen, QuietSeen
<1>. QED BY <1>1, <1>2, <1>3, <1>4, <1>5, <1>6, <1>7, <1>8 DEF Next

LEMMA InitSeen ==
  ASSUME Init
  PROVE  L!LinkInit
<1>1. /\ outbound = <<>> /\ writing = <<>> /\ ~open /\ pc["main"] = "start" /\ ~peer.con
  BY DEF Init, Threads
<1>2. <<>> \o <<>> = <<>>
  BY Empty
<1>3. Sent = <<>>
  BY <1>1, <1>2 DEF Sent
<1>4. ToFrontend = <<>> /\ ToNode = <<>>
  BY <1>1, <1>3 DEF ToFrontend, ToNode
<1>5. Up = FALSE /\ Wired = FALSE /\ Starts = 0 /\ Con = 0
  BY <1>1 DEF Up, Wired, Starts, Con
<1>6. /\ OnNode(ToNode) = OnNode(<<>>) /\ OnLink(ToFrontend) = OnLink(<<>>)
      /\ OnNode(Up) = OnNode(FALSE) /\ OnNode(Wired) = OnNode(FALSE)
      /\ OnNode(Starts) = OnNode(0) /\ OnNode(Con) = OnNode(0)
  BY <1>4, <1>5, Zenon
<1>7. L!Links = {"node"} \X {1}
  <2>1. 1..1 = {1}
    OBVIOUS
  <2>. QED BY <2>1, Zenon DEF L!Links
<1>. QED BY <1>6, <1>7, Zenon DEF L!LinkInit, OnNode, OnLink, Up, Wired, Starts, Con

\* For all interleavings of the two threads' loops, the receiver, main, the
\* two ways to close and the frontend's selector, and for any number of
\* requests, any buffers and with signals or without: the node answers each
\* request it handles once, in order, drops what it does not handle from the
\* front, and on its end drops what it has not sent, as NodeLink says.
THEOREM ClientImplementsLink == Spec => KeepsLinkPromise
<1>1. Init => L!LinkInit
  BY InitSeen
<1>2. ClientInv /\ FlowInv /\ [Next]_vars => [L!LinkNext]_(L!linkVars)
  BY StepSeen
<1>. QED BY <1>1, <1>2, ClientInvariant, FlowInvariant, PTL DEF Spec, KeepsLinkPromise, L!LinkSpec
=============================================================================
