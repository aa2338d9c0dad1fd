-------------------------- MODULE MpscQueueProofs ---------------------------
(***************************************************************************)
(* The linked queue for any set of nodes and any finite set of threads: it *)
(* implements MpscFifo, its counter is never too low, and pop finds        *)
(* nothing only for the reason NullExplained gives.  The cells from tail_  *)
(* to head_ are a chain: the inductive invariant says so, the first part   *)
(* shows what happens to a chain and to the pointers that make it.         *)
(***************************************************************************)
EXTENDS MpscQueue, SeqFacts, FiniteSetTheorems

Cells == Nodes \cup {Stub}

Newest(c) == c[Len(c)]

\* x is right before y.
Adjacent(c, x, y) == \E k \in 1..Len(c) - 1 : c[k] = x /\ c[k + 1] = y

\* o is c without the stub.
Without(c, o) ==
    \/ Stub \notin Range(c) /\ o = c
    \/ \E k \in 1..Len(c) :
          /\ c[k] = Stub /\ Len(o) = Len(c) - 1
          /\ \A j \in 1..Len(o) : o[j] = IF j < k THEN c[j] ELSE c[j + 1]

-----------------------------------------------------------------------------
(* Chains of cells                                                         *)

\* The ends of a chain.
LEMMA EndFacts ==
    ASSUME NEW S, NEW c \in Seq(S), c # <<>>
    PROVE  /\ Len(c) \in Nat /\ Len(c) >= 1 /\ Head(c) = c[1] /\ Newest(c) \in S
           /\ Head(c) \in Range(c) /\ Newest(c) \in Range(c)
           /\ Tail(c) \in Seq(S) /\ Len(Tail(c)) = Len(c) - 1
           /\ \A k \in 1..Len(c) - 1 : Tail(c)[k] = c[k + 1]
<1>1. Len(c) \in Nat /\ Len(c) >= 1 /\ Head(c) = c[1] BY EmptyLen, LenFacts
<1>2. Head(c) \in Range(c) /\ Newest(c) \in Range(c) /\ Newest(c) \in S
    BY <1>1, RangeDef DEF Newest
<1>3. /\ Tail(c) \in Seq(S) /\ Len(Tail(c)) = Len(c) - 1
      /\ \A k \in 1..Len(c) - 1 : Tail(c)[k] = c[k + 1]
    BY Zenon, <1>1, TailIndex
<1> QED BY Zenon, <1>1, <1>2, <1>3

\* In a chain without repetition a cell has at most one predecessor and one
\* successor.
LEMMA AdjacentFacts ==
    ASSUME NEW S, NEW c \in Seq(S), IsInjective(c), c # <<>>
    PROVE  /\ \A x, y : Adjacent(c, x, y) =>
                 x \in Range(c) /\ y \in Range(c) /\ x # y /\ x # Newest(c) /\ y # Head(c)
           /\ \A x, y, z : Adjacent(c, x, y) /\ Adjacent(c, x, z) => y = z
           /\ \A x, y, z : Adjacent(c, x, z) /\ Adjacent(c, y, z) => x = y
<1>1. Len(c) \in Nat /\ Len(c) >= 1 /\ Head(c) = c[1] BY Zenon, EndFacts
<1>2. \A j, k \in 1..Len(c) : c[j] = c[k] => j = k BY Zenon, RangeDef
<1>3. \A k \in 1..Len(c) : c[k] \in Range(c) BY RangeDef
<1>4. ASSUME NEW x, NEW y, Adjacent(c, x, y)
      PROVE  x \in Range(c) /\ y \in Range(c) /\ x # y /\ x # Newest(c) /\ y # Head(c)
    <2>1. PICK k \in 1..Len(c) - 1 : c[k] = x /\ c[k + 1] = y BY Zenon, <1>4 DEF Adjacent
    <2>2. k \in 1..Len(c) /\ k + 1 \in 1..Len(c) /\ 1 \in 1..Len(c) /\ Len(c) \in 1..Len(c)
          /\ k # k + 1 /\ k # Len(c) /\ k + 1 # 1
        BY <1>1
    <2> QED BY Zenon, <1>1, <1>2, <1>3, <2>1, <2>2 DEF Newest
<1>5. ASSUME NEW x, NEW y, NEW z, Adjacent(c, x, y), Adjacent(c, x, z) PROVE y = z
    <2>1. PICK j \in 1..Len(c) - 1 : c[j] = x /\ c[j + 1] = y BY Zenon, <1>5 DEF Adjacent
    <2>2. PICK k \in 1..Len(c) - 1 : c[k] = x /\ c[k + 1] = z BY Zenon, <1>5 DEF Adjacent
    <2>3. j \in 1..Len(c) /\ k \in 1..Len(c) BY <1>1
    <2> QED BY Zenon, <1>2, <2>1, <2>2, <2>3
<1>6. ASSUME NEW x, NEW y, NEW z, Adjacent(c, x, z), Adjacent(c, y, z) PROVE x = y
    <2>1. PICK j \in 1..Len(c) - 1 : c[j] = x /\ c[j + 1] = z BY Zenon, <1>6 DEF Adjacent
    <2>2. PICK k \in 1..Len(c) - 1 : c[k] = y /\ c[k + 1] = z BY Zenon, <1>6 DEF Adjacent
    <2>3. j + 1 \in 1..Len(c) /\ k + 1 \in 1..Len(c) BY <1>1
    <2>4. j + 1 = k + 1 BY Zenon, <1>2, <2>1, <2>2, <2>3
    <2> QED BY <2>1, <2>2, <2>4
<1> QED BY Zenon, <1>4, <1>5, <1>6

\* A cell behind the newest one.
LEMMA ChainAppend ==
    ASSUME NEW S, NEW c \in Seq(S), c # <<>>, NEW e \in S
    PROVE  /\ Append(c, e) # <<>> /\ Head(Append(c, e)) = Head(c) /\ Newest(Append(c, e)) = e
           /\ \A x, y : Adjacent(Append(c, e), x, y) <=>
                 Adjacent(c, x, y) \/ (x = Newest(c) /\ y = e)
<1> DEFINE r == Append(c, e)
<1>1. Len(c) \in Nat /\ Len(c) >= 1 /\ Head(c) = c[1] BY Zenon, EndFacts
<1>2. /\ r \in Seq(S) /\ Len(r) = Len(c) + 1 /\ r[Len(c) + 1] = e
      /\ \A k \in 1..Len(c) : r[k] = c[k]
    BY AppendIndex
<1> HIDE DEF r
<1>3. r # <<>> BY <1>1, <1>2, EmptyLen
<1>4. Head(r) = c[1] BY <1>1, <1>2, <1>3, EndFacts
<1>5. Newest(r) = e BY Zenon, <1>2 DEF Newest
<1>6. ASSUME NEW x, NEW y, Adjacent(r, x, y)
      PROVE  Adjacent(c, x, y) \/ (x = Newest(c) /\ y = e)
    <2>1. PICK k \in 1..Len(r) - 1 : r[k] = x /\ r[k + 1] = y BY Zenon, <1>6 DEF Adjacent
    <2>2. CASE k = Len(c) BY <1>1, <1>2, <2>1, <2>2 DEF Newest
    <2>3. CASE k # Len(c)
        <3>1. k \in 1..Len(c) - 1 /\ k \in 1..Len(c) /\ k + 1 \in 1..Len(c) BY <1>1, <1>2, <2>3
        <3> QED BY Zenon, <1>2, <2>1, <3>1 DEF Adjacent
    <2> QED BY Zenon, <2>2, <2>3
<1>7. ASSUME NEW x, NEW y, Adjacent(c, x, y) PROVE Adjacent(r, x, y)
    <2>1. PICK k \in 1..Len(c) - 1 : c[k] = x /\ c[k + 1] = y BY Zenon, <1>7 DEF Adjacent
    <2>2. k \in 1..Len(r) - 1 /\ k \in 1..Len(c) /\ k + 1 \in 1..Len(c) BY <1>1, <1>2
    <2> QED BY Zenon, <1>2, <2>1, <2>2 DEF Adjacent
<1>8. Adjacent(r, Newest(c), e)
    <2>1. Len(c) \in 1..Len(r) - 1 /\ Len(c) \in 1..Len(c) BY <1>1, <1>2
    <2> QED BY Zenon, <1>2, <2>1 DEF Adjacent, Newest
<1>9. /\ r # <<>> /\ Head(r) = Head(c) /\ Newest(r) = e
      /\ \A x, y : Adjacent(r, x, y) <=> Adjacent(c, x, y) \/ (x = Newest(c) /\ y = e)
    BY Zenon, <1>1, <1>3, <1>4, <1>5, <1>6, <1>7, <1>8
<1> QED BY Zenon, <1>9 DEF r

\* The oldest cell taken away.
LEMMA ChainTail ==
    ASSUME NEW S, NEW c \in Seq(S), c # <<>>, IsInjective(c), Head(c) # Newest(c)
    PROVE  /\ Tail(c) # <<>> /\ Newest(Tail(c)) = Newest(c)
           /\ Adjacent(c, Head(c), Head(Tail(c)))
           /\ \A x, y : Adjacent(Tail(c), x, y) <=> Adjacent(c, x, y) /\ x # Head(c)
<1> DEFINE r == Tail(c)
<1>1. /\ Len(c) \in Nat /\ Len(c) >= 1 /\ Head(c) = c[1]
      /\ r \in Seq(S) /\ Len(r) = Len(c) - 1 /\ \A k \in 1..Len(c) - 1 : r[k] = c[k + 1]
    BY Zenon, EndFacts
<1>2. \A j, k \in 1..Len(c) : c[j] = c[k] => j = k BY Zenon, RangeDef
<1> HIDE DEF r
<1>3. Len(c) >= 2 BY <1>1 DEF Newest
<1>4. r # <<>> BY <1>1, <1>3, EmptyLen
<1>5. Head(r) = c[2] /\ Adjacent(c, Head(c), Head(r))
    <2>1. Head(r) = r[1] BY Zenon, <1>1, <1>4, EndFacts
    <2>2. 1 \in 1..Len(c) - 1 /\ 1 + 1 = 2 BY <1>1, <1>3
    <2>3. r[1] = c[1 + 1] BY Zenon, <1>1, <2>2
    <2> QED BY Zenon, <1>1, <2>1, <2>2, <2>3 DEF Adjacent
<1>6. Newest(r) = Newest(c)
    <2>1. Len(r) \in 1..Len(c) - 1 /\ Len(r) + 1 = Len(c) BY <1>1, <1>3
    <2> QED BY Zenon, <1>1, <2>1 DEF Newest
<1>7. ASSUME NEW x, NEW y, Adjacent(r, x, y) PROVE Adjacent(c, x, y) /\ x # Head(c)
    <2>1. PICK k \in 1..Len(r) - 1 : r[k] = x /\ r[k + 1] = y BY Zenon, <1>7 DEF Adjacent
    <2>2. k \in 1..Len(c) - 1 /\ k + 1 \in 1..Len(c) - 1 /\ k + 1 \in 1..Len(c) /\ 1 \in 1..Len(c)
          /\ k + 1 # 1
        BY <1>1
    <2>3. c[k + 1] = x /\ c[(k + 1) + 1] = y BY Zenon, <1>1, <2>1, <2>2
    <2> QED BY Zenon, <1>1, <1>2, <2>2, <2>3 DEF Adjacent
<1>8. ASSUME NEW x, NEW y, Adjacent(c, x, y), x # Head(c) PROVE Adjacent(r, x, y)
    <2>1. PICK k \in 1..Len(c) - 1 : c[k] = x /\ c[k + 1] = y BY Zenon, <1>8 DEF Adjacent
    <2>2. k # 1 BY Zenon, <1>1, <1>8, <2>1
    <2> DEFINE j == k - 1
    <2>3. j \in 1..Len(r) - 1 /\ j \in 1..Len(c) - 1 /\ j + 1 \in 1..Len(c) - 1 /\ j + 1 = k
        BY <1>1, <2>2
    <2> HIDE DEF j
    <2>4. r[j] = c[k] /\ r[j + 1] = c[k + 1] BY Zenon, <1>1, <2>3
    <2> QED BY Zenon, <2>1, <2>3, <2>4 DEF Adjacent
<1> QED BY Zenon, <1>4, <1>5, <1>6, <1>7, <1>8 DEF r

-----------------------------------------------------------------------------
(* The nodes of a chain                                                    *)

\* What is left of a chain without the stub is a sequence of nodes; it is empty
\* only for a stub alone, and starts with the oldest cell if that is a node.
LEMMA WithoutFacts ==
    ASSUME NEW c \in Seq(Cells), c # <<>>, IsInjective(c), NEW o \in Seq(Nodes), Without(c, o)
    PROVE  /\ Range(o) = Range(c) \ {Stub}
           /\ o = <<>> => Head(c) = Stub /\ Newest(c) = Stub
           /\ Head(c) # Stub => o # <<>> /\ Head(o) = Head(c)
           /\ Head(c) = Stub => o = Tail(c)
<1>1. /\ Len(c) \in Nat /\ Len(c) >= 1 /\ Head(c) = c[1] /\ Len(o) \in Nat
      /\ Tail(c) \in Seq(Cells) /\ Len(Tail(c)) = Len(c) - 1
      /\ \A k \in 1..Len(c) - 1 : Tail(c)[k] = c[k + 1]
    BY Zenon, EndFacts, LenFacts
<1>2. \A j, k \in 1..Len(c) : c[j] = c[k] => j = k BY Zenon, RangeDef
<1>3. Range(c) = {c[k] : k \in 1..Len(c)} /\ Range(o) = {o[k] : k \in 1..Len(o)} BY Zenon, RangeDef
<1>4. CASE Stub \notin Range(c) /\ o = c
    <2>1. Head(c) \in Range(c) BY Zenon, EndFacts
    <2> QED BY Zenon, <1>4, <2>1
<1>5. ASSUME NEW k \in 1..Len(c), c[k] = Stub, Len(o) = Len(c) - 1,
             \A j \in 1..Len(o) : o[j] = IF j < k THEN c[j] ELSE c[j + 1]
      PROVE  /\ Range(o) = Range(c) \ {Stub}
             /\ o = <<>> => Head(c) = Stub /\ Newest(c) = Stub
             /\ Head(c) # Stub => o # <<>> /\ Head(o) = Head(c)
             /\ Head(c) = Stub => o = Tail(c)
    <2>1. ASSUME NEW x \in Range(o) PROVE x \in Range(c) \ {Stub}
        <3>1. PICK j \in 1..Len(o) : x = o[j] BY Zenon, <1>3
        <3>2. j \in 1..Len(c) /\ j + 1 \in 1..Len(c) BY <1>1, <1>5
        <3>3. CASE j < k
            <4>1. x = c[j] /\ j # k BY <1>1, <1>5, <3>1, <3>3
            <4> QED BY Zenon, <1>2, <1>3, <1>5, <3>2, <4>1
        <3>4. CASE ~(j < k)
            <4>1. x = c[j + 1] /\ j + 1 # k BY <1>1, <1>5, <3>1, <3>4
            <4> QED BY Zenon, <1>2, <1>3, <1>5, <3>2, <4>1
        <3> QED BY Zenon, <3>3, <3>4
    <2>2. ASSUME NEW x \in Range(c) \ {Stub} PROVE x \in Range(o)
        <3>1. PICK j \in 1..Len(c) : x = c[j] BY Zenon, <1>3
        <3>2. j # k BY Zenon, <1>5, <3>1
        <3>3. CASE j < k
            <4>1. j \in 1..Len(o) /\ o[j] = x BY <1>1, <1>5, <3>1, <3>3
            <4> QED BY Zenon, <1>3, <4>1
        <3>4. CASE j > k
            <4> DEFINE i == j - 1
            <4>1. i \in 1..Len(o) /\ ~(i < k) /\ i + 1 = j BY <1>1, <1>5, <3>4
            <4> HIDE DEF i
            <4>2. o[i] = x BY Zenon, <1>5, <3>1, <4>1
            <4> QED BY Zenon, <1>3, <4>1, <4>2
        <3> QED BY <1>1, <3>2, <3>3, <3>4
    <2>3. ASSUME o = <<>> PROVE Head(c) = Stub /\ Newest(c) = Stub
        <3>1. Len(o) = 0 BY Zenon, <2>3, EmptyLen
        <3>2. Len(c) = 1
            <4>1. Len(c) \in Nat /\ 0 = Len(c) - 1 BY Zenon, <1>1, <1>5, <3>1
            <4> QED BY <4>1
        <3>3. k = 1 BY <3>2
        <3> QED BY Zenon, <1>1, <1>5, <3>2, <3>3 DEF Newest
    <2>4. ASSUME Head(c) # Stub PROVE o # <<>> /\ Head(o) = Head(c)
        <3>1. k # 1 BY Zenon, <1>1, <1>5, <2>4
        <3>2. 1 \in 1..Len(o) /\ 1 < k BY <1>1, <1>5, <3>1
        <3>3. o[1] = c[1] BY Zenon, <1>5, <3>2
        <3>4. o # <<>> BY <3>2, EmptyLen
        <3>5. Head(o) = o[1] BY Zenon, <3>4, EndFacts
        <3> QED BY Zenon, <1>1, <3>3, <3>4, <3>5
    <2>5. ASSUME Head(c) = Stub PROVE o = Tail(c)
        <3>1. k = 1
            <4>1. 1 \in 1..Len(c) BY <1>1
            <4> QED BY Zenon, <1>1, <1>2, <1>5, <2>5, <4>1
        <3>2. \A j \in 1..Len(o) : o[j] = Tail(c)[j] BY <1>1, <1>5, <3>1
        <3>3. o \in Seq(Cells) BY Zenon, WiderSeq DEF Cells
        <3> QED BY Zenon, <1>1, <1>5, <3>2, <3>3, SameSeq
    <2> QED BY Zenon, <2>1, <2>2, <2>3, <2>4, <2>5
<1> QED BY Zenon, <1>4, <1>5 DEF Without

\* A node behind the newest cell.
LEMMA WithoutAppend ==
    ASSUME NEW c \in Seq(Cells), NEW o \in Seq(Nodes), Without(c, o), NEW n \in Nodes
    PROVE  Without(Append(c, n), Append(o, n))
<1> DEFINE d == Append(c, n)
           q == Append(o, n)
<1>0. Len(c) \in Nat /\ Len(o) \in Nat /\ n \in Cells /\ n # Stub
    BY Zenon, LenFacts, MpscAssumption DEF Cells
<1>1. /\ Len(d) = Len(c) + 1 /\ d[Len(c) + 1] = n /\ \A k \in 1..Len(c) : d[k] = c[k]
      /\ Range(d) = Range(c) \cup {n}
    BY <1>0, AppendIndex, AppendFacts
<1>2. Len(q) = Len(o) + 1 /\ q[Len(o) + 1] = n /\ \A k \in 1..Len(o) : q[k] = o[k]
    BY AppendIndex
<1>3. CASE Stub \notin Range(c) /\ o = c BY Zenon, <1>0, <1>1, <1>3 DEF Without
<1> HIDE DEF d, q
<1>4. ASSUME NEW k \in 1..Len(c), c[k] = Stub, Len(o) = Len(c) - 1,
             \A j \in 1..Len(o) : o[j] = IF j < k THEN c[j] ELSE c[j + 1]
      PROVE  Without(d, q)
    <2>1. k \in 1..Len(d) /\ d[k] = Stub /\ Len(q) = Len(d) - 1 BY <1>0, <1>1, <1>2, <1>4
    <2>2. ASSUME NEW j \in 1..Len(q) PROVE q[j] = IF j < k THEN d[j] ELSE d[j + 1]
        <3>1. CASE j = Len(q)
            <4>1. ~(j < k) /\ j = Len(o) + 1 /\ j + 1 = Len(c) + 1 BY <1>0, <1>2, <1>4, <3>1
            <4> QED BY Zenon, <1>1, <1>2, <4>1
        <3>2. CASE j # Len(q)
            <4>1. j \in 1..Len(o) /\ j \in 1..Len(c) /\ j + 1 \in 1..Len(c)
                BY <1>0, <1>2, <1>4, <3>2
            <4>2. q[j] = o[j] /\ d[j] = c[j] /\ d[j + 1] = c[j + 1] BY Zenon, <1>1, <1>2, <4>1
            <4> QED BY Zenon, <1>4, <4>1, <4>2
        <3> QED BY Zenon, <3>1, <3>2
    <2> QED BY Zenon, <2>1, <2>2 DEF Without
<1>5. Without(d, q) BY Zenon, <1>3, <1>4 DEF Without, d, q
<1> QED BY Zenon, <1>5 DEF d, q

\* The stub behind a chain of nodes.
LEMMA WithoutStub ==
    ASSUME NEW c \in Seq(Cells), NEW o \in Seq(Nodes), Without(c, o), Stub \notin Range(c)
    PROVE  Without(Append(c, Stub), o)
<1> DEFINE d == Append(c, Stub)
           k == Len(c) + 1
<1>1. \A j \in 1..Len(c) : c[j] # Stub BY RangeDef
<1>2. o = c BY Zenon, <1>1 DEF Without
<1>3. Stub \in Cells /\ Len(c) \in Nat BY Zenon, LenFacts DEF Cells
<1>4. Len(d) = k /\ d[k] = Stub /\ \A j \in 1..Len(c) : d[j] = c[j]
    BY <1>3, AppendIndex
<1> HIDE DEF d
<1>5. k \in 1..Len(d) /\ Len(o) = Len(d) - 1 /\ \A j \in 1..Len(o) : j < k /\ o[j] = d[j]
    BY <1>2, <1>3, <1>4
<1>6. Without(d, o) BY Zenon, <1>4, <1>5 DEF Without
<1> QED BY Zenon, <1>6 DEF d

\* The oldest cell taken away: the stub, or the first of the nodes.
LEMMA WithoutTail ==
    ASSUME NEW c \in Seq(Cells), c # <<>>, IsInjective(c), NEW o \in Seq(Nodes), Without(c, o)
    PROVE  /\ Head(c) = Stub => Without(Tail(c), o)
           /\ Head(c) # Stub => Without(Tail(c), Tail(o))
<1> DEFINE d == Tail(c)
           q == Tail(o)
<1>1. Range(d) = Range(c) \ {Head(c)} BY Zenon, TailFacts
<1>2. Head(c) = Stub => o = d BY Zenon, WithoutFacts
<1>3. Head(c) = Stub => Without(d, o) BY Zenon, <1>1, <1>2 DEF Without
<1>4. ASSUME Head(c) # Stub PROVE Without(d, q)
    <2>0. o # <<>> BY Zenon, <1>4, WithoutFacts
    <2>1. /\ Len(c) \in Nat /\ Len(c) >= 1 /\ Head(c) = c[1]
          /\ Len(d) = Len(c) - 1 /\ \A k \in 1..Len(c) - 1 : d[k] = c[k + 1]
        BY Zenon, EndFacts
    <2>2. /\ Len(o) \in Nat /\ Len(o) >= 1
          /\ Len(q) = Len(o) - 1 /\ \A k \in 1..Len(o) - 1 : q[k] = o[k + 1]
        BY Zenon, <2>0, EndFacts
    <2>3. CASE Stub \notin Range(c) /\ o = c BY Zenon, <1>1, <2>3 DEF Without
    <2> HIDE DEF d, q
    <2>4. ASSUME NEW k \in 1..Len(c), c[k] = Stub, Len(o) = Len(c) - 1,
                 \A j \in 1..Len(o) : o[j] = IF j < k THEN c[j] ELSE c[j + 1]
          PROVE  Without(d, q)
        <3> DEFINE i == k - 1
        <3>1. k # 1 BY Zenon, <1>4, <2>1, <2>4
        <3>2. i \in 1..Len(d) /\ i \in 1..Len(c) - 1 /\ i + 1 = k /\ Len(q) = Len(d) - 1
            BY <2>1, <2>2, <2>4, <3>1
        <3> HIDE DEF i
        <3>3. d[i] = Stub BY Zenon, <2>1, <2>4, <3>2
        <3>4. ASSUME NEW j \in 1..Len(q) PROVE q[j] = IF j < i THEN d[j] ELSE d[j + 1]
            <4>1. /\ j + 1 \in 1..Len(o) /\ j \in 1..Len(o) - 1
                  /\ j \in 1..Len(c) - 1 /\ j + 1 \in 1..Len(c) - 1
                  /\ (j < i <=> j + 1 < k)
                BY <2>1, <2>2, <2>4, <3>2
            <4>2. q[j] = o[j + 1] /\ d[j] = c[j + 1] /\ d[j + 1] = c[(j + 1) + 1]
                BY Zenon, <2>1, <2>2, <4>1
            <4> QED BY Zenon, <2>4, <4>1, <4>2
        <3> QED BY Zenon, <3>2, <3>3, <3>4 DEF Without
    <2>5. Without(d, q) BY Zenon, <2>3, <2>4 DEF Without
    <2> QED BY Zenon, <2>5 DEF d, q
<1> QED BY Zenon, <1>3, <1>4 DEF d, q

\* Taking the first of the queued nodes.
LEMMA UnlinkHead ==
    ASSUME NEW S, NEW s \in Seq(S), s # <<>>, IsInjective(s)
    PROVE  Unlink(s, Head(s)) = Tail(s)
<1>1. Len(s) \in Nat /\ Len(s) >= 1 /\ Head(s) = s[1] BY Zenon, EndFacts
<1>2. 1 \in 1..Len(s) /\ \A j, k \in 1..Len(s) : s[j] = s[k] => j = k BY <1>1, RangeDef
<1>3. (CHOOSE k \in 1..Len(s) : s[k] = Head(s)) = 1 BY Zenon, <1>1, <1>2
<1>4. Unlink(s, Head(s)) = SubSeq(s, 1, 1 - 1) \o SubSeq(s, 1 + 1, Len(s))
    BY Zenon, <1>1, <1>2, <1>3 DEF Unlink
<1>5. SubSeq(s, 1, 1 - 1) = <<>> BY SubSeqIndex
<1>6. SubSeq(s, 1 + 1, Len(s)) = Tail(s) BY <1>1
<1>7. <<>> \o Tail(s) = Tail(s) BY Zenon, EndFacts, ConcatEmpty
<1> QED BY Zenon, <1>4, <1>5, <1>6, <1>7

-----------------------------------------------------------------------------
(* The invariant: the cells from tail_ to head_ form a chain               *)

Linkers == {t \in Threads : pc[t] \in {"link", "stubLink"}}

\* The cell a thread is about to link behind prev.
Target(t) == IF pc[t] = "stubLink" THEN Stub ELSE node[t]

\* The chain has the queued nodes in their order, and the stub somewhere or not.
Shape(c) ==
    /\ c \in Seq(Cells) /\ c # <<>> /\ IsInjective(c)
    /\ Head(c) = tail /\ Newest(c) = head /\ Without(c, order) /\ IsInjective(order)

\* A next pointer leads to the next cell, or is null and about to be set by
\* exactly one thread.
Pointers(c) ==
    /\ next[head] = Null
    /\ \A x, y \in Cells : Adjacent(c, x, y) =>
          \/ next[x] = y
          \/ next[x] = Null /\ \E t \in Linkers : prev[t] = x /\ Target(t) = y
    /\ \A t \in Linkers : Adjacent(c, prev[t], Target(t)) /\ next[prev[t]] = Null
    /\ \A t, u \in Linkers : Target(t) = Target(u) => t = u

\* Only the holder of the mutex pops; its node is the oldest cell, and the stub
\* is not in the chain when it is about to be pushed.
Popper(c) ==
    /\ \A t \in Threads : pc[t] \in {"idle", "exchange", "link"} <=> mtx # t
    /\ \A t \in Threads :
          pc[t] \in {"second", "compare", "stub", "stubLink", "third"} => node[t] = tail /\ tail # Stub
    /\ \A t \in Threads : pc[t] \in {"second", "stub"} => Stub \notin Range(c)

\* A node is in the chain or in the hands of a thread.
Owners(c) ==
    /\ \A n \in Nodes : owner[n] = Queued <=> n \in Range(c)
    /\ \A t \in Threads :
          pc[t] = "exchange" => node[t] \in Nodes /\ owner[node[t]] = t /\ next[node[t]] = Null

List(c) == Shape(c) /\ Pointers(c) /\ Popper(c) /\ Owners(c)

\* The threads whose node is counted and not in the queue.
Counted == {t \in Threads : pc[t] \in {"exchange", "count"}}

IInv ==
    /\ TypeOK
    /\ size = Len(order) + Cardinality(Counted)
    /\ \E c \in Seq(Cells) : List(c)

-----------------------------------------------------------------------------
(* What a step does to the pointers                                        *)

\* A step of a thread that links nothing, before and after it.
LEMMA SameLinkers ==
    ASSUME NEW t \in Threads, t \notin Linkers, pc'[t] \notin {"link", "stubLink"}, prev' = prev,
           \A u \in Threads \ {t} : pc'[u] = pc[u] /\ node'[u] = node[u]
    PROVE  /\ Linkers' = Linkers
           /\ \A u \in Linkers : Target(u)' = Target(u) /\ prev'[u] = prev[u]
<1>1. Linkers' = Linkers BY Zenon DEF Linkers
<1>2. ASSUME NEW u \in Linkers PROVE Target(u)' = Target(u)
    <2>1. u \in Threads \ {t} BY Zenon DEF Linkers
    <2> QED BY Zenon, <2>1 DEF Target
<1> QED BY Zenon, <1>1, <1>2

\* The pointers depend on the chain, on next and on the threads that link.
LEMMA PointersKept ==
    ASSUME NEW c \in Seq(Cells), Shape(c), Pointers(c), head' = head,
           \A x \in Range(c) : next'[x] = next[x], Linkers' = Linkers,
           \A u \in Linkers : Target(u)' = Target(u) /\ prev'[u] = prev[u]
    PROVE  Pointers(c)'
<1>1. /\ \A x, y : Adjacent(c, x, y) => x \in Range(c)
      /\ head \in Range(c)
    BY Zenon, AdjacentFacts, EndFacts DEF Shape
<1>2. next'[head'] = Null BY Zenon, <1>1 DEF Pointers
<1>3. ASSUME NEW x \in Cells, NEW y \in Cells, Adjacent(c, x, y)
      PROVE  \/ next'[x] = y
             \/ next'[x] = Null /\ \E u \in Linkers' : prev'[u] = x /\ Target(u)' = y
    <2>1. next'[x] = next[x] BY Zenon, <1>1, <1>3
    <2> QED BY <1>3, <2>1 DEF Pointers
<1>4. ASSUME NEW u \in Linkers'
      PROVE  Adjacent(c, prev'[u], Target(u)') /\ next'[prev'[u]] = Null
    BY <1>1 DEF Pointers
<1>5. \A u, v \in Linkers' : Target(u)' = Target(v)' => u = v BY DEF Pointers
<1> QED BY Zenon, <1>2, <1>3, <1>4, <1>5 DEF Pointers

\* head_.exchange puts a cell at the end and leaves one link to be set.
LEMMA PointersExchange ==
    ASSUME TypeOK, NEW c \in Seq(Cells), Shape(c), Pointers(c), NEW e \in Cells, e \notin Range(c),
           NEW t \in Threads, t \notin Linkers, NEW l \in {"link", "stubLink"},
           pc' = [pc EXCEPT ![t] = l], prev' = [prev EXCEPT ![t] = head], node' = node,
           head' = e, Target(t)' = e, next'[e] = Null, \A x \in Cells \ {e} : next'[x] = next[x]
    PROVE  Pointers(Append(c, e))'
<1>1. /\ \A x, y : Adjacent(c, x, y) => x \in Range(c) /\ y \in Range(c)
      /\ head \in Range(c) /\ Newest(c) = head
    BY Zenon, AdjacentFacts, EndFacts DEF Shape
<1>2. \A x, y : Adjacent(Append(c, e), x, y) <=> Adjacent(c, x, y) \/ (x = head /\ y = e)
    BY <1>1, ChainAppend DEF Shape
<1>3. pc'[t] = l /\ prev'[t] = head
      /\ \A u \in Threads \ {t} : pc'[u] = pc[u] /\ prev'[u] = prev[u]
    BY Zenon DEF TypeOK
<1>4. Linkers' = Linkers \cup {t} BY Zenon, <1>3 DEF Linkers
<1>5. \A u \in Linkers : u \in Threads \ {t} /\ Target(u)' = Target(u) /\ prev'[u] = prev[u]
    BY Zenon, <1>3 DEF Linkers, Target
<1>6. \A x \in Range(c) : x \in Cells \ {e} /\ next'[x] = next[x] BY Zenon, RangeDef
<1> HIDE DEF Adjacent, Linkers, Target
<1>7. ASSUME NEW x \in Cells, NEW y \in Cells, Adjacent(Append(c, e), x, y)
      PROVE  \/ next'[x] = y
             \/ next'[x] = Null /\ \E u \in Linkers' : prev'[u] = x /\ Target(u)' = y
    <2>1. CASE Adjacent(c, x, y)
        <3>1. next'[x] = next[x] BY Zenon, <1>1, <1>6, <2>1
        <3> QED BY <1>4, <1>5, <2>1, <3>1 DEF Pointers
    <2>2. CASE x = head /\ y = e
        <3>1. next'[x] = Null BY Zenon, <1>1, <1>6, <2>2 DEF Pointers
        <3> QED BY Zenon, <1>3, <1>4, <2>2, <3>1
    <2> QED BY Zenon, <1>2, <1>7, <2>1, <2>2
<1>8. ASSUME NEW u \in Linkers'
      PROVE  Adjacent(Append(c, e), prev'[u], Target(u)') /\ next'[prev'[u]] = Null
    <2>1. CASE u = t BY Zenon, <1>1, <1>2, <1>3, <1>6, <2>1 DEF Pointers
    <2>2. CASE u \in Linkers
        <3>1. Adjacent(c, prev[u], Target(u)) /\ next[prev[u]] = Null BY Zenon, <2>2 DEF Pointers
        <3> QED BY <1>1, <1>2, <1>5, <1>6, <2>2, <3>1
    <2> QED BY Zenon, <1>4, <2>1, <2>2
<1>9. ASSUME NEW u \in Linkers', NEW v \in Linkers', Target(u)' = Target(v)' PROVE u = v
    <2>1. \A w \in Linkers : Target(w)' = Target(w) /\ Target(w) \in Range(c)
        BY Zenon, <1>1, <1>5 DEF Pointers
    <2> QED BY <1>4, <1>9, <2>1 DEF Pointers
<1> QED BY Zenon, <1>7, <1>8, <1>9 DEF Pointers

\* The store to prev->next completes one link.
LEMMA PointersLink ==
    ASSUME TypeOK, NEW c \in Seq(Cells), Shape(c), Pointers(c), NEW t \in Linkers,
           NEW l, l \notin {"link", "stubLink"}, pc' = [pc EXCEPT ![t] = l],
           UNCHANGED <<prev, node, head>>, next' = [next EXCEPT ![prev[t]] = Target(t)]
    PROVE  Pointers(c)' /\ prev[t] \in Range(c)
<1>1. /\ \A x, y : Adjacent(c, x, y) => x \in Range(c) /\ x # head
      /\ \A x, y, z : Adjacent(c, x, y) /\ Adjacent(c, x, z) => y = z
    BY Zenon, AdjacentFacts DEF Shape
<1>2. t \in Threads /\ Adjacent(c, prev[t], Target(t)) BY Zenon DEF Pointers, Linkers
<1>3. pc'[t] = l /\ \A u \in Threads \ {t} : pc'[u] = pc[u] BY Zenon, <1>2 DEF TypeOK
<1>4. Linkers' = Linkers \ {t} /\ \A u \in Linkers \ {t} : Target(u)' = Target(u)
    BY Zenon, <1>3 DEF Linkers, Target
<1>5. \A x \in Cells \ {prev[t]} : next'[x] = next[x] BY Zenon DEF TypeOK, Cells
<1>6. prev[t] \in Range(c) /\ prev[t] \in Cells /\ next'[prev[t]] = Target(t)
    <2>1. prev[t] \in Range(c) /\ prev[t] \in Cells BY Zenon, <1>1, <1>2, RangeDef
    <2> QED BY Zenon, <2>1 DEF TypeOK, Cells
<1>7. head \in Cells /\ next'[head'] = Null BY <1>1, <1>2, <1>5 DEF Pointers, TypeOK, Cells
<1>8. ASSUME NEW x \in Cells, NEW y \in Cells, Adjacent(c, x, y)
      PROVE  \/ next'[x] = y
             \/ next'[x] = Null /\ \E u \in Linkers' : prev'[u] = x /\ Target(u)' = y
    <2>1. CASE x = prev[t] BY Zenon, <1>1, <1>2, <1>6, <1>8, <2>1
    <2>2. CASE x # prev[t]
        <3>1. next'[x] = next[x] BY Zenon, <1>5, <2>2
        <3>2. CASE next[x] = y BY Zenon, <3>1, <3>2
        <3>3. CASE next[x] # y
            <4>1. next[x] = Null /\ \E u \in Linkers : prev[u] = x /\ Target(u) = y
                BY Zenon, <1>8, <3>3 DEF Pointers
            <4> QED BY Zenon, <1>4, <2>2, <3>1, <4>1
        <3> QED BY Zenon, <3>2, <3>3
    <2> QED BY Zenon, <2>1, <2>2
<1>9. ASSUME NEW u \in Linkers'
      PROVE  Adjacent(c, prev'[u], Target(u)') /\ next'[prev'[u]] = Null
    <2>1. u \in Linkers \ {t} /\ Adjacent(c, prev[u], Target(u)) /\ next[prev[u]] = Null
        BY Zenon, <1>4 DEF Pointers
    <2>2. prev[u] # prev[t] BY Zenon, <1>1, <1>2, <2>1 DEF Pointers
    <2>3. prev[u] \in Cells BY Zenon, <1>1, <2>1, RangeDef
    <2> QED BY Zenon, <1>4, <1>5, <2>1, <2>2, <2>3
<1>10. \A u, v \in Linkers' : Target(u)' = Target(v)' => u = v BY <1>4 DEF Pointers
<1> QED BY Zenon, <1>6, <1>7, <1>8, <1>9, <1>10 DEF Pointers

\* A pop that finds next set leaves the oldest cell behind.
LEMMA PointersAdvance ==
    ASSUME TypeOK, NEW c \in Seq(Cells), Shape(c), Pointers(c), next[tail] # Null,
           UNCHANGED <<head, next>>, Linkers' = Linkers,
           \A u \in Linkers : Target(u)' = Target(u) /\ prev'[u] = prev[u]
    PROVE  /\ Pointers(Tail(c))'
           /\ Head(c) # Newest(c) /\ Tail(c) # <<>> /\ Newest(Tail(c)) = head
           /\ Head(Tail(c)) = next[tail] /\ next[tail] \in Cells /\ next[tail] # tail
<1>1. Head(c) # Newest(c) BY Zenon DEF Shape, Pointers
<1>2. /\ Tail(c) # <<>> /\ Newest(Tail(c)) = head
      /\ Adjacent(c, tail, Head(Tail(c)))
      /\ \A x, y : Adjacent(Tail(c), x, y) <=> Adjacent(c, x, y) /\ x # tail
    BY Zenon, <1>1, ChainTail DEF Shape
<1>3. \A x, y : Adjacent(c, x, y) => x \in Cells /\ y \in Cells /\ x # y
    BY AdjacentFacts, RangeDef DEF Shape
<1>4. Head(Tail(c)) = next[tail] BY Zenon, <1>2, <1>3 DEF Pointers
<1>5. ASSUME NEW x \in Cells, NEW y \in Cells, Adjacent(Tail(c), x, y)
      PROVE  \/ next'[x] = y
             \/ next'[x] = Null /\ \E u \in Linkers' : prev'[u] = x /\ Target(u)' = y
    BY <1>2, <1>5 DEF Pointers
<1>6. ASSUME NEW u \in Linkers'
      PROVE  Adjacent(Tail(c), prev'[u], Target(u)') /\ next'[prev'[u]] = Null
    BY <1>2 DEF Pointers
<1>7. \A u, v \in Linkers' : Target(u)' = Target(v)' => u = v BY DEF Pointers
<1>8. Pointers(Tail(c))' BY Zenon, <1>5, <1>6, <1>7 DEF Pointers
<1> QED BY Zenon, <1>1, <1>2, <1>3, <1>4, <1>8

\* Owners change with the exchange and with a pop only.
LEMMA OwnersKept ==
    ASSUME NEW c \in Seq(Cells), Owners(c), owner' = owner,
           \A u \in Threads : pc'[u] = "exchange" => pc[u] = "exchange" /\ node'[u] = node[u],
           \A n \in Nodes \ Range(c) : next'[n] = next[n]
    PROVE  Owners(c)'
<1>1. ASSUME NEW u \in Threads, pc'[u] = "exchange"
      PROVE  node'[u] \in Nodes /\ owner'[node'[u]] = u /\ next'[node'[u]] = Null
    <2>1. node[u] \in Nodes /\ owner[node[u]] = u /\ next[node[u]] = Null /\ node'[u] = node[u]
        BY Zenon, <1>1 DEF Owners
    <2>2. node[u] \notin Range(c) BY <2>1, MpscAssumption DEF Owners
    <2> QED BY <2>1, <2>2
<1> QED BY Zenon, <1>1 DEF Owners

-----------------------------------------------------------------------------
(* push                                                                    *)

\* The counter is raised, the node is prepared and not in the chain.
LEMMA PushCountInv ==
    ASSUME IInv, NEW t \in Threads, NEW n \in Nodes, PushCount(t, n)
    PROVE  IInv'
<1>0. TypeOK /\ pc[t] = "idle" /\ owner[n] = t /\ size' = size + 1
      /\ next' = [next EXCEPT ![n] = Null] /\ node' = [node EXCEPT ![t] = n]
      /\ pc' = [pc EXCEPT ![t] = "exchange"]
      /\ UNCHANGED <<head, tail, prev, mtx, owner, order>>
    BY Zenon DEF IInv, PushCount, Goto
<1>1. PICK c \in Seq(Cells) : List(c) BY Zenon DEF IInv
<1>2. /\ pc'[t] = "exchange" /\ node'[t] = n /\ next'[n] = Null
      /\ \A u \in Threads \ {t} : pc'[u] = pc[u] /\ node'[u] = node[u]
      /\ \A x \in Cells \ {n} : next'[x] = next[x]
    BY Zenon, <1>0 DEF TypeOK, Cells
<1>3. n \notin Range(c) BY Zenon, <1>0, <1>1, MpscAssumption DEF List, Owners
<1>4. TypeOK'
    <2>1. size' \in Nat BY <1>0 DEF TypeOK
    <2>2. next' \in [Nodes \cup {Stub} -> Nodes \cup {Stub, Null}] /\ node' \in [Threads -> Nodes \cup {Null}]
        BY Zenon, <1>0 DEF TypeOK
    <2>3. pc' \in [Threads -> {"idle", "exchange", "link", "load", "second",
                              "compare", "stub", "stubLink", "third", "count"}]
        BY Zenon, <1>0 DEF TypeOK
    <2> QED BY Zenon, <1>0, <2>1, <2>2, <2>3 DEF TypeOK
<1>5. size' = Len(order') + Cardinality(Counted')
    <2>1. Counted' = Counted \cup {t} /\ t \notin Counted BY Zenon, <1>0, <1>2 DEF Counted
    <2>2. IsFiniteSet(Counted) BY Zenon, MpscAssumption, FS_Subset DEF Counted
    <2>3. Cardinality(Counted') = Cardinality(Counted) + 1 BY Zenon, <2>1, <2>2, FS_AddElement
    <2>4. Cardinality(Counted) \in Nat /\ Len(order) \in Nat
        BY Zenon, <1>0, <2>2, FS_CardinalityType, LenFacts DEF TypeOK
    <2> QED BY <1>0, <2>3, <2>4 DEF IInv
<1>6. Shape(c)' BY Zenon, <1>0, <1>1 DEF List, Shape
<1>7. Pointers(c)'
    <2>1. t \notin Linkers BY Zenon, <1>0 DEF Linkers
    <2>2. Linkers' = Linkers /\ \A u \in Linkers : Target(u)' = Target(u) /\ prev'[u] = prev[u]
        BY Zenon, <1>0, <1>2, <2>1, SameLinkers
    <2>3. \A x \in Range(c) : next'[x] = next[x] BY Zenon, <1>2, <1>3, RangeDef
    <2> QED BY Zenon, <1>0, <1>1, <2>2, <2>3, PointersKept DEF List
<1>8. Popper(c)' BY Zenon, <1>0, <1>1, <1>2 DEF List, Popper
<1>9. Owners(c)'
    <2>1. ASSUME NEW u \in Threads, pc'[u] = "exchange"
          PROVE  node'[u] \in Nodes /\ owner'[node'[u]] = u /\ next'[node'[u]] = Null
        <3>1. CASE u = t BY Zenon, <1>0, <1>2, <3>1
        <3>2. CASE u # t
            <4>1. node[u] \in Nodes /\ owner[node[u]] = u /\ next[node[u]] = Null
                BY Zenon, <1>1, <1>2, <2>1, <3>2 DEF List, Owners
            <4> QED BY Zenon, <1>0, <1>2, <3>2, <4>1 DEF Cells
        <3> QED BY Zenon, <3>1, <3>2
    <2> QED BY Zenon, <1>0, <1>1, <2>1 DEF List, Owners
<1> QED BY Zenon, <1>4, <1>5, <1>6, <1>7, <1>8, <1>9 DEF IInv, List

\* The node is behind the others from the exchange on.
LEMMA PushExchangeInv ==
    ASSUME IInv, NEW t \in Threads, PushExchange(t)
    PROVE  IInv' /\ node[t] \in Nodes /\ owner[node[t]] = t
<1>1. PICK c \in Seq(Cells) : List(c) BY Zenon DEF IInv
<1>2. PICK n \in Nodes : n = node[t] /\ owner[n] = t /\ next[n] = Null
    BY Zenon, <1>1 DEF List, Owners, PushExchange
<1>0. TypeOK /\ pc[t] = "exchange" /\ prev' = [prev EXCEPT ![t] = head] /\ head' = n
      /\ owner' = [owner EXCEPT ![n] = Queued] /\ order' = Append(order, n)
      /\ pc' = [pc EXCEPT ![t] = "link"] /\ UNCHANGED <<tail, next, size, node, mtx>>
    BY Zenon, <1>2 DEF IInv, PushExchange, Goto
<1>3. /\ pc'[t] = "link" /\ \A u \in Threads \ {t} : pc'[u] = pc[u]
      /\ owner'[n] = Queued /\ \A m \in Nodes \ {n} : owner'[m] = owner[m]
    BY Zenon, <1>0, <1>2 DEF TypeOK
<1>4. n \notin Range(c) /\ n \in Cells /\ n # Stub
    BY Zenon, <1>1, <1>2, MpscAssumption DEF List, Owners, Cells
<1>5. /\ c # <<>> /\ IsInjective(c) /\ Head(c) = tail /\ Without(c, order) /\ IsInjective(order)
      /\ order \in Seq(Nodes)
    BY Zenon, <1>0, <1>1 DEF List, Shape, TypeOK
<1>6. /\ Append(c, n) \in Seq(Cells) /\ Range(Append(c, n)) = Range(c) \cup {n}
      /\ IsInjective(Append(c, n))
    BY <1>4, <1>5, AppendFacts
<1>7. /\ Append(order, n) \in Seq(Nodes) /\ IsInjective(Append(order, n))
      /\ Len(Append(order, n)) = Len(order) + 1 /\ Len(order) \in Nat
    <2>1. Range(order) = Range(c) \ {Stub} BY Zenon, <1>5, WithoutFacts
    <2>2. n \notin Range(order) BY Zenon, <1>4, <2>1
    <2> QED BY Zenon, <1>2, <1>5, <2>2, AppendFacts, AppendIndex, LenFacts
<1>8. TypeOK'
    <2>1. head' \in Nodes \cup {Stub} /\ order' \in Seq(Nodes) BY Zenon, <1>0, <1>2, <1>7
    <2>2. prev' \in [Threads -> Nodes \cup {Stub, Null}] /\ owner' \in [Nodes -> Threads \cup {Queued}]
        BY Zenon, <1>0 DEF TypeOK
    <2>3. pc' \in [Threads -> {"idle", "exchange", "link", "load", "second",
                              "compare", "stub", "stubLink", "third", "count"}]
        BY Zenon, <1>0 DEF TypeOK
    <2> QED BY Zenon, <1>0, <2>1, <2>2, <2>3 DEF TypeOK
<1>9. size' = Len(order') + Cardinality(Counted')
    <2>1. Counted' = Counted \ {t} /\ t \in Counted BY Zenon, <1>0, <1>3 DEF Counted
    <2>2. IsFiniteSet(Counted) BY Zenon, MpscAssumption, FS_Subset DEF Counted
    <2>3. Cardinality(Counted') = Cardinality(Counted) - 1 BY Zenon, <2>1, <2>2, FS_RemoveElement
    <2>4. Cardinality(Counted) \in Nat BY Zenon, <2>2, FS_CardinalityType
    <2> QED BY <1>0, <1>7, <2>3, <2>4 DEF IInv
<1>10. Shape(Append(c, n))'
    <2>1. /\ Append(c, n) # <<>> /\ Head(Append(c, n)) = Head(c) /\ Newest(Append(c, n)) = n
        BY Zenon, <1>4, <1>5, ChainAppend
    <2>2. Without(Append(c, n), Append(order, n)) BY Zenon, <1>2, <1>5, WithoutAppend
    <2> QED BY Zenon, <1>0, <1>5, <1>6, <1>7, <2>1, <2>2 DEF Shape
<1>11. Pointers(Append(c, n))'
    <2>1. t \notin Linkers BY Zenon, <1>0 DEF Linkers
    <2>2. Target(t)' = n BY Zenon, <1>0, <1>2, <1>3 DEF Target
    <2> QED BY Zenon, <1>0, <1>1, <1>2, <1>4, <2>1, <2>2, PointersExchange DEF List
<1>12. Popper(Append(c, n))'
    <2>1. Stub \notin Range(c) => Stub \notin Range(Append(c, n)) BY Zenon, <1>4, <1>6
    <2> QED BY Zenon, <1>0, <1>1, <1>3, <2>1 DEF List, Popper
<1>13. Owners(Append(c, n))'
    <2>1. \A m \in Nodes : owner'[m] = Queued <=> m \in Range(Append(c, n))
        BY Zenon, <1>1, <1>3, <1>6 DEF List, Owners
    <2>2. ASSUME NEW u \in Threads, pc'[u] = "exchange"
          PROVE  node'[u] \in Nodes /\ owner'[node'[u]] = u /\ next'[node'[u]] = Null
        <3>1. u # t BY Zenon, <1>3, <2>2
        <3>2. node[u] \in Nodes /\ owner[node[u]] = u /\ next[node[u]] = Null
            BY Zenon, <1>1, <1>3, <2>2, <3>1 DEF List, Owners
        <3> QED BY Zenon, <1>0, <1>2, <1>3, <3>1, <3>2
    <2> QED BY Zenon, <2>1, <2>2 DEF Owners
<1> QED BY Zenon, <1>2, <1>6, <1>8, <1>9, <1>10, <1>11, <1>12, <1>13 DEF IInv, List

\* The link of the pushed node is stored.
LEMMA PushLinkInv ==
    ASSUME IInv, NEW t \in Threads, PushLink(t)
    PROVE  IInv'
<1>0. TypeOK /\ pc[t] = "link" /\ next' = [next EXCEPT ![prev[t]] = node[t]]
      /\ pc' = [pc EXCEPT ![t] = "idle"]
      /\ UNCHANGED <<head, tail, size, node, prev, mtx, owner, order>>
    BY Zenon DEF IInv, PushLink, Goto
<1>1. PICK c \in Seq(Cells) : List(c) BY Zenon DEF IInv
<1>2. pc'[t] = "idle" /\ \A u \in Threads \ {t} : pc'[u] = pc[u] BY Zenon, <1>0 DEF TypeOK
<1>3. t \in Linkers /\ Target(t) = node[t] BY Zenon, <1>0 DEF Linkers, Target
<1>4. Pointers(c)' /\ prev[t] \in Range(c)
    BY Zenon, <1>0, <1>1, <1>3, PointersLink DEF List
<1>5. node[t] \in Cells
    <2>1. Adjacent(c, prev[t], node[t]) BY Zenon, <1>1, <1>3 DEF List, Pointers
    <2>2. node[t] \in Range(c) BY Zenon, <1>1, <2>1, AdjacentFacts DEF List, Shape
    <2> QED BY Zenon, <2>2, RangeDef
<1>6. TypeOK'
    <2>1. next' \in [Nodes \cup {Stub} -> Nodes \cup {Stub, Null}]
        BY Zenon, <1>0, <1>5 DEF TypeOK, Cells
    <2>2. pc' \in [Threads -> {"idle", "exchange", "link", "load", "second",
                              "compare", "stub", "stubLink", "third", "count"}]
        BY Zenon, <1>0 DEF TypeOK
    <2> QED BY Zenon, <1>0, <2>1, <2>2 DEF TypeOK
<1>7. size' = Len(order') + Cardinality(Counted')
    <2>1. Counted' = Counted BY Zenon, <1>0, <1>2 DEF Counted
    <2> QED BY Zenon, <1>0, <2>1 DEF IInv
<1>8. Shape(c)' BY Zenon, <1>0, <1>1 DEF List, Shape
<1>9. Popper(c)' BY Zenon, <1>0, <1>1, <1>2 DEF List, Popper
<1>10. Owners(c)' BY <1>0, <1>1, <1>2, <1>4, OwnersKept DEF List
<1> QED BY Zenon, <1>4, <1>6, <1>7, <1>8, <1>9, <1>10 DEF IInv, List

-----------------------------------------------------------------------------
(* pop                                                                     *)

\* Poppers of a step in which the holder of the mutex goes on.
LEMMA PopperGoesOn ==
    ASSUME NEW c, Popper(c), NEW d, NEW t \in Threads, mtx' = t, mtx \in {t, Null},
           pc'[t] \notin {"idle", "exchange", "link"}, \A u \in Threads \ {t} : pc'[u] = pc[u],
           pc'[t] \in {"second", "compare", "stub", "stubLink", "third"} =>
               node'[t] = tail' /\ tail' # Stub,
           pc'[t] \in {"second", "stub"} => Stub \notin Range(d)
    PROVE  Popper(d)'
<1>1. \A u \in Threads \ {t} : mtx # u BY Zenon, MpscAssumption
<1>2. \A u \in Threads \ {t} : pc'[u] \in {"idle", "exchange", "link"} /\ mtx' # u
    BY Zenon, <1>1 DEF Popper
<1>3. \A u \in Threads : pc'[u] \in {"idle", "exchange", "link"} <=> mtx' # u BY Zenon, <1>2
<1>4. \A u \in Threads : u # t =>
        pc'[u] \notin {"second", "compare", "stub", "stubLink", "third"}
    BY <1>2
<1> QED BY Zenon, <1>3, <1>4 DEF Popper

\* A step of the popper that only looks.
LEMMA LookInv ==
    ASSUME IInv, NEW t \in Threads, NEW c \in Seq(Cells), List(c),
           NEW l \in {"idle", "load", "second", "compare", "stub", "third"},
           pc[t] \notin {"exchange", "link", "stubLink", "count"}, pc' = [pc EXCEPT ![t] = l],
           UNCHANGED <<listVars, size, prev, owner, order>>, mtx' \in Threads \cup {Null},
           NEW n \in Nodes \cup {Null}, node' = node \/ node' = [node EXCEPT ![t] = n],
           Popper(c)'
    PROVE  IInv'
<1>0. TypeOK /\ UNCHANGED <<head, tail, next>> BY Zenon DEF IInv, listVars
<1>1. /\ pc'[t] = l /\ \A u \in Threads \ {t} : pc'[u] = pc[u]
      /\ \A u \in Threads \ {t} : node'[u] = node[u]
    BY Zenon, <1>0 DEF TypeOK
<1>2. TypeOK'
    <2>1. node' \in [Threads -> Nodes \cup {Null}] BY Zenon, <1>0 DEF TypeOK
    <2>2. pc' \in [Threads -> {"idle", "exchange", "link", "load", "second",
                              "compare", "stub", "stubLink", "third", "count"}]
        BY Zenon, <1>0 DEF TypeOK
    <2> QED BY Zenon, <1>0, <2>1, <2>2 DEF TypeOK
<1>3. size' = Len(order') + Cardinality(Counted')
    <2>1. Counted' = Counted BY Zenon, <1>1 DEF Counted
    <2> QED BY Zenon, <2>1 DEF IInv
<1>4. Shape(c)' BY Zenon, <1>0 DEF List, Shape
<1>5. Pointers(c)'
    <2>1. t \notin Linkers BY Zenon DEF Linkers
    <2>2. Linkers' = Linkers /\ \A u \in Linkers : Target(u)' = Target(u) /\ prev'[u] = prev[u]
        BY Zenon, <1>0, <1>1, <2>1, SameLinkers
    <2> QED BY Zenon, <1>0, <2>2, PointersKept DEF List
<1>6. Owners(c)' BY Zenon, <1>1, <1>0, OwnersKept DEF List
<1> QED BY Zenon, <1>2, <1>3, <1>4, <1>5, <1>6 DEF IInv, List

\* The lock of mtx_.
LEMMA PopLockInv ==
    ASSUME IInv, NEW t \in Threads, PopLock(t)
    PROVE  IInv'
<1>0. TypeOK /\ pc[t] = "idle" /\ mtx = Null /\ mtx' = t /\ pc' = [pc EXCEPT ![t] = "load"]
      /\ node' = node /\ UNCHANGED <<listVars, size, prev, owner, order>>
    BY Zenon DEF IInv, PopLock, Goto
<1>1. PICK c \in Seq(Cells) : List(c) BY Zenon DEF IInv
<1>2. pc'[t] = "load" /\ \A u \in Threads \ {t} : pc'[u] = pc[u] BY Zenon, <1>0 DEF TypeOK
<1>3. Popper(c)' BY Zenon, <1>0, <1>1, <1>2, PopperGoesOn DEF List
<1> QED BY Zenon, <1>0, <1>1, <1>3, LookInv

\* The comparison with head_: only a chain of one node has the popper push the
\* stub, so the stub is not in the chain then.
LEMMA PopCompareInv ==
    ASSUME IInv, NEW t \in Threads, PopCompare(t)
    PROVE  IInv'
<1> DEFINE l == IF node[t] = head THEN "stub" ELSE "load"
<1>0. TypeOK /\ pc[t] = "compare" /\ pc' = [pc EXCEPT ![t] = l]
      /\ node' = node /\ UNCHANGED <<listVars, size, prev, owner, order>> /\ mtx' = mtx
      /\ UNCHANGED <<head, tail, next>>
    BY Zenon DEF IInv, PopCompare, Goto, listVars
<1>1. PICK c \in Seq(Cells) : List(c) BY Zenon DEF IInv
<1>2. mtx = t /\ node[t] = tail /\ tail # Stub BY Zenon, <1>0, <1>1 DEF List, Popper
<1>3. ASSUME node[t] = head PROVE Stub \notin Range(c)
    <2>1. c \in Seq(Cells) /\ Len(c) \in Nat /\ Len(c) >= 1 /\ c[1] = tail /\ c[Len(c)] = tail
        BY Zenon, <1>1, <1>2, <1>3, EndFacts DEF List, Shape, Newest
    <2>2. \A j, k \in 1..Len(c) : c[j] = c[k] => j = k BY Zenon, <1>1, RangeDef DEF List, Shape
    <2>3. Len(c) = 1
        <3>1. 1 \in 1..Len(c) /\ Len(c) \in 1..Len(c) BY <2>1
        <3> QED BY Zenon, <2>1, <2>2, <3>1
    <2>4. Range(c) = {c[k] : k \in 1..Len(c)} BY Zenon, RangeDef
    <2> QED BY <1>2, <2>1, <2>3, <2>4
<1>4. CASE node[t] = head
    <2>1. pc' = [pc EXCEPT ![t] = "stub"] BY Zenon, <1>0, <1>4
    <2>2. pc'[t] = "stub" /\ \A u \in Threads \ {t} : pc'[u] = pc[u] BY Zenon, <1>0, <2>1 DEF TypeOK
    <2>3. Popper(c) /\ Stub \notin Range(c) BY Zenon, <1>1, <1>3, <1>4 DEF List
    <2>4. Popper(c)' BY Zenon, <1>0, <1>2, <2>2, <2>3, PopperGoesOn
    <2> QED BY Zenon, <1>0, <1>1, <1>2, <2>1, <2>4, LookInv
<1>5. CASE node[t] # head
    <2>1. pc' = [pc EXCEPT ![t] = "load"] BY Zenon, <1>0, <1>5
    <2>2. pc'[t] = "load" /\ \A u \in Threads \ {t} : pc'[u] = pc[u] BY Zenon, <1>0, <2>1 DEF TypeOK
    <2>3. Popper(c) BY Zenon, <1>1 DEF List
    <2>4. Popper(c)' BY Zenon, <1>0, <1>2, <2>2, <2>3, PopperGoesOn
    <2> QED BY Zenon, <1>0, <1>1, <1>2, <2>1, <2>4, LookInv
<1> QED BY Zenon, <1>4, <1>5

\* The popper leaves with the oldest node.
LEMMA TakeInv ==
    ASSUME IInv, NEW t \in Threads, mtx = t, pc[t] \in {"load", "second", "third"},
           tail # Stub, next[tail] # Null, Take(t, tail),
           UNCHANGED <<head, next, size, node, prev, mtx>>
    PROVE  /\ IInv'
           /\ order # <<>> /\ owner' = [owner EXCEPT ![Head(order)] = t] /\ order' = Tail(order)
<1>0. TypeOK /\ order \in Seq(Nodes) BY Zenon DEF IInv, TypeOK
<1>1. PICK c \in Seq(Cells) : List(c) BY Zenon DEF IInv
<1>2. /\ c # <<>> /\ IsInjective(c) /\ Head(c) = tail /\ Without(c, order) /\ IsInjective(order)
    BY Zenon, <1>1 DEF List, Shape
<1>3. order # <<>> /\ Head(order) = tail BY Zenon, <1>0, <1>2, WithoutFacts
<1>4. PICK m \in Nodes : m = tail BY Zenon, <1>0, <1>3, HeadInRange
<1>5. /\ tail' = next[m] /\ owner' = [owner EXCEPT ![m] = t]
      /\ order' = Tail(order) /\ pc' = [pc EXCEPT ![t] = "count"]
    <2>1. Unlink(order, Head(order)) = Tail(order) BY Zenon, <1>0, <1>2, <1>3, UnlinkHead
    <2> QED BY Zenon, <1>3, <1>4, <2>1 DEF Take, Goto
<1>6. /\ pc'[t] = "count" /\ \A u \in Threads \ {t} : pc'[u] = pc[u]
      /\ owner'[m] = t /\ \A n \in Nodes \ {m} : owner'[n] = owner[n]
    BY Zenon, <1>0, <1>5 DEF TypeOK
<1>7. /\ Pointers(Tail(c))' /\ Tail(c) # <<>> /\ Newest(Tail(c)) = head
      /\ Head(Tail(c)) = next[tail] /\ next[tail] \in Cells
    <2>1. t \notin Linkers BY Zenon DEF Linkers
    <2>2. Linkers' = Linkers /\ \A u \in Linkers : Target(u)' = Target(u) /\ prev'[u] = prev[u]
        BY Zenon, <1>6, <2>1, SameLinkers
    <2> QED BY Zenon, <1>0, <1>1, <2>2, PointersAdvance DEF List
<1>8. /\ Tail(c) \in Seq(Cells) /\ Range(Tail(c)) = Range(c) \ {m} /\ IsInjective(Tail(c))
    BY Zenon, <1>2, <1>4, TailFacts
<1>9. /\ Tail(order) \in Seq(Nodes) /\ IsInjective(Tail(order))
      /\ Len(Tail(order)) = Len(order) - 1 /\ Len(order) \in Nat
    BY Zenon, <1>0, <1>2, <1>3, TailFacts, EndFacts
<1>10. TypeOK'
    <2>1. tail' \in Nodes \cup {Stub} /\ order' \in Seq(Nodes) BY Zenon, <1>4, <1>5, <1>7, <1>9 DEF Cells
    <2>2. owner' \in [Nodes -> Threads \cup {Queued}] BY Zenon, <1>0, <1>5 DEF TypeOK
    <2>3. pc' \in [Threads -> {"idle", "exchange", "link", "load", "second",
                              "compare", "stub", "stubLink", "third", "count"}]
        BY Zenon, <1>0, <1>5 DEF TypeOK
    <2> QED BY Zenon, <1>0, <2>1, <2>2, <2>3 DEF TypeOK
<1>11. size' = Len(order') + Cardinality(Counted')
    <2>1. Counted' = Counted \cup {t} /\ t \notin Counted BY Zenon, <1>6 DEF Counted
    <2>2. IsFiniteSet(Counted) BY Zenon, MpscAssumption, FS_Subset DEF Counted
    <2>3. Cardinality(Counted') = Cardinality(Counted) + 1 BY Zenon, <2>1, <2>2, FS_AddElement
    <2>4. Cardinality(Counted) \in Nat BY Zenon, <2>2, FS_CardinalityType
    <2> QED BY <1>5, <1>9, <2>3, <2>4 DEF IInv
<1>12. Shape(Tail(c))'
    <2>1. Without(Tail(c), Tail(order)) BY Zenon, <1>0, <1>2, WithoutTail
    <2> QED BY Zenon, <1>4, <1>5, <1>7, <1>8, <1>9, <2>1 DEF Shape
<1>13. Popper(Tail(c))'
    <2>1. Popper(c) BY Zenon, <1>1 DEF List
    <2> QED BY Zenon, <1>6, <2>1, PopperGoesOn
<1>14. Owners(Tail(c))'
    <2>1. \A n \in Nodes : owner'[n] = Queued <=> n \in Range(Tail(c))
        BY <1>1, <1>6, <1>8, MpscAssumption DEF List, Owners
    <2>2. ASSUME NEW u \in Threads, pc'[u] = "exchange"
          PROVE  node'[u] \in Nodes /\ owner'[node'[u]] = u /\ next'[node'[u]] = Null
        <3>1. u # t BY Zenon, <1>6, <2>2
        <3>2. node[u] \in Nodes /\ owner[node[u]] = u /\ next[node[u]] = Null
            BY Zenon, <1>1, <1>6, <2>2, <3>1 DEF List, Owners
        <3>3. m \in Range(c) BY Zenon, <1>2, <1>4, EndFacts
        <3>4. owner[m] = Queued BY Zenon, <1>1, <3>3 DEF List, Owners
        <3> QED BY Zenon, <1>6, <3>2, <3>4, MpscAssumption
    <2> QED BY Zenon, <2>1, <2>2 DEF Owners
<1>15. IInv' BY Zenon, <1>8, <1>10, <1>11, <1>7, <1>12, <1>13, <1>14 DEF IInv, List
<1> QED BY Zenon, <1>3, <1>4, <1>5, <1>15

\* The popper moves tail_ past the stub.
LEMMA SkipInv ==
    ASSUME IInv, NEW t \in Threads, pc[t] = "load", tail = Stub, next[Stub] # Null,
           tail' = next[Stub], node' = [node EXCEPT ![t] = next[Stub]],
           pc' = [pc EXCEPT ![t] = "second"],
           UNCHANGED <<head, next, size, prev, mtx, owner, order>>
    PROVE  IInv'
<1>0. TypeOK /\ order \in Seq(Nodes) BY Zenon DEF IInv, TypeOK
<1>1. PICK c \in Seq(Cells) : List(c) BY Zenon DEF IInv
<1>2. /\ c # <<>> /\ IsInjective(c) /\ Head(c) = Stub /\ Without(c, order) /\ IsInjective(order)
    BY Zenon, <1>1 DEF List, Shape
<1>3. /\ pc'[t] = "second" /\ node'[t] = next[Stub]
      /\ \A u \in Threads \ {t} : pc'[u] = pc[u] /\ node'[u] = node[u]
    BY Zenon, <1>0 DEF TypeOK
<1>4. /\ Pointers(Tail(c))' /\ Tail(c) # <<>> /\ Newest(Tail(c)) = head
      /\ Head(Tail(c)) = next[Stub] /\ next[Stub] \in Nodes /\ next[Stub] # Stub
    <2>1. t \notin Linkers BY Zenon DEF Linkers
    <2>2. Linkers' = Linkers /\ \A u \in Linkers : Target(u)' = Target(u) /\ prev'[u] = prev[u]
        BY Zenon, <1>0, <1>3, <2>1, SameLinkers
    <2>3. /\ Pointers(Tail(c))' /\ Tail(c) # <<>> /\ Newest(Tail(c)) = head
          /\ Head(Tail(c)) = next[tail] /\ next[tail] \in Cells /\ next[tail] # tail
        BY Zenon, <1>0, <1>1, <2>2, PointersAdvance DEF List
    <2> QED BY Zenon, <2>3 DEF Cells
<1>5. /\ Tail(c) \in Seq(Cells) /\ Range(Tail(c)) = Range(c) \ {Stub} /\ IsInjective(Tail(c))
    BY Zenon, <1>2, TailFacts
<1>6. TypeOK'
    <2>1. tail' \in Nodes \cup {Stub} BY Zenon, <1>4
    <2>2. node' \in [Threads -> Nodes \cup {Null}] BY Zenon, <1>0, <1>4 DEF TypeOK
    <2>3. pc' \in [Threads -> {"idle", "exchange", "link", "load", "second",
                              "compare", "stub", "stubLink", "third", "count"}]
        BY Zenon, <1>0 DEF TypeOK
    <2> QED BY Zenon, <1>0, <2>1, <2>2, <2>3 DEF TypeOK
<1>7. size' = Len(order') + Cardinality(Counted')
    <2>1. Counted' = Counted BY Zenon, <1>3 DEF Counted
    <2> QED BY Zenon, <2>1 DEF IInv
<1>8. Shape(Tail(c))'
    <2>1. Without(Tail(c), order) BY Zenon, <1>0, <1>2, WithoutTail
    <2> QED BY Zenon, <1>2, <1>4, <1>5, <2>1 DEF Shape
<1>9. Popper(Tail(c))'
    <2>1. Popper(c) /\ mtx = t BY Zenon, <1>1 DEF List, Popper
    <2> QED BY Zenon, <1>0, <1>3, <1>4, <1>5, <2>1, PopperGoesOn
<1>10. Owners(Tail(c))'
    <2>1. \A n \in Nodes : n \in Range(Tail(c)) <=> n \in Range(c) BY Zenon, <1>5, MpscAssumption
    <2>2. Owners(Tail(c)) BY Zenon, <1>1, <2>1 DEF List, Owners
    <2>3. \A u \in Threads : pc'[u] = "exchange" => pc[u] = "exchange" /\ node'[u] = node[u] BY Zenon, <1>3
    <2> QED BY Zenon, <1>5, <2>2, <2>3, OwnersKept
<1> QED BY Zenon, <1>4, <1>5, <1>6, <1>7, <1>8, <1>9, <1>10 DEF IInv, List

\* The first load of pop.
LEMMA PopLoadInv ==
    ASSUME IInv, NEW t \in Threads, PopLoad(t)
    PROVE  /\ IInv'
           /\ \/ UNCHANGED <<owner, order>>
              \/ /\ order # <<>> /\ owner' = [owner EXCEPT ![Head(order)] = t]
                 /\ order' = Tail(order)
<1>0. TypeOK /\ pc[t] = "load" /\ UNCHANGED <<head, next, size, prev>> BY Zenon DEF IInv, PopLoad
<1>1. PICK c \in Seq(Cells) : List(c) BY Zenon DEF IInv
<1>2. mtx = t /\ Popper(c) BY Zenon, <1>0, <1>1 DEF List, Popper
<1>3. CASE /\ mtx' = Null /\ pc' = [pc EXCEPT ![t] = "idle"]
           /\ UNCHANGED <<tail, node, owner, order>>
    <2>1. pc'[t] = "idle" /\ \A u \in Threads \ {t} : pc'[u] = pc[u] BY Zenon, <1>0, <1>3 DEF TypeOK
    <2>2. \A u \in Threads : mtx' # u BY Zenon, <1>3, MpscAssumption
    <2>3. \A u \in Threads : pc'[u] \in {"idle", "exchange", "link"}
        BY Zenon, <1>2, <2>1 DEF Popper
    <2>4. Popper(c)' BY Zenon, <2>2, <2>3 DEF Popper
    <2> QED BY Zenon, <1>0, <1>1, <1>3, <2>4, LookInv DEF listVars
<1>4. CASE /\ tail = Stub /\ next[Stub] # Null /\ tail' = next[Stub]
           /\ node' = [node EXCEPT ![t] = next[Stub]]
           /\ pc' = [pc EXCEPT ![t] = "second"] /\ UNCHANGED <<mtx, owner, order>>
    BY Zenon, <1>0, <1>4, SkipInv
<1>5. CASE tail # Stub /\ next[tail] # Null /\ Take(t, tail) /\ UNCHANGED <<node, mtx>>
    BY Zenon, <1>0, <1>2, <1>5, TakeInv
<1>6. CASE /\ tail # Stub /\ node' = [node EXCEPT ![t] = tail]
           /\ pc' = [pc EXCEPT ![t] = "compare"] /\ UNCHANGED <<tail, mtx, owner, order>>
    <2>1. PICK m \in Nodes : m = tail BY Zenon, <1>0, <1>6 DEF TypeOK
    <2>2. node' = [node EXCEPT ![t] = m] /\ node'[t] = tail' /\ tail' # Stub
        BY Zenon, <1>0, <1>6, <2>1 DEF TypeOK
    <2>3. pc'[t] = "compare" /\ \A u \in Threads \ {t} : pc'[u] = pc[u] BY Zenon, <1>0, <1>6 DEF TypeOK
    <2>4. Popper(c)' BY Zenon, <1>2, <1>6, <2>2, <2>3, PopperGoesOn
    <2> QED BY Zenon, <1>0, <1>1, <1>2, <1>6, <2>1, <2>2, <2>4, LookInv DEF listVars
<1> QED BY Zenon, <1>3, <1>4, <1>5, <1>6 DEF PopLoad, Goto

\* The load behind the stub.
LEMMA PopSecondInv ==
    ASSUME IInv, NEW t \in Threads, PopSecond(t)
    PROVE  /\ IInv'
           /\ \/ UNCHANGED <<owner, order>>
              \/ /\ order # <<>> /\ owner' = [owner EXCEPT ![Head(order)] = t]
                 /\ order' = Tail(order)
<1>0. TypeOK /\ pc[t] = "second" /\ UNCHANGED <<head, next, size, node, prev, mtx>>
    BY Zenon DEF IInv, PopSecond
<1>1. PICK c \in Seq(Cells) : List(c) BY Zenon DEF IInv
<1>2. mtx = t /\ Popper(c) /\ node[t] = tail /\ tail # Stub BY Zenon, <1>0, <1>1 DEF List, Popper
<1>3. CASE next[node[t]] # Null /\ Take(t, node[t]) BY Zenon, <1>0, <1>2, <1>3, TakeInv
<1>4. CASE pc' = [pc EXCEPT ![t] = "compare"] /\ UNCHANGED <<tail, owner, order>>
    <2>1. pc'[t] = "compare" /\ \A u \in Threads \ {t} : pc'[u] = pc[u] BY Zenon, <1>0, <1>4 DEF TypeOK
    <2>2. Popper(c)' BY Zenon, <1>0, <1>2, <1>4, <2>1, PopperGoesOn
    <2> QED BY Zenon, <1>0, <1>1, <1>2, <1>4, <2>2, LookInv DEF listVars
<1> QED BY Zenon, <1>3, <1>4 DEF PopSecond, Goto

\* The load after the stub was pushed.
LEMMA PopThirdInv ==
    ASSUME IInv, NEW t \in Threads, PopThird(t)
    PROVE  /\ IInv'
           /\ \/ UNCHANGED <<owner, order>>
              \/ /\ order # <<>> /\ owner' = [owner EXCEPT ![Head(order)] = t]
                 /\ order' = Tail(order)
<1>0. TypeOK /\ pc[t] = "third" /\ UNCHANGED <<head, next, size, node, prev, mtx>>
    BY Zenon DEF IInv, PopThird
<1>1. PICK c \in Seq(Cells) : List(c) BY Zenon DEF IInv
<1>2. mtx = t /\ Popper(c) /\ node[t] = tail /\ tail # Stub BY Zenon, <1>0, <1>1 DEF List, Popper
<1>3. CASE next[node[t]] # Null /\ Take(t, node[t]) BY Zenon, <1>0, <1>2, <1>3, TakeInv
<1>4. CASE pc' = [pc EXCEPT ![t] = "load"] /\ UNCHANGED <<tail, owner, order>>
    <2>1. pc'[t] = "load" /\ \A u \in Threads \ {t} : pc'[u] = pc[u] BY Zenon, <1>0, <1>4 DEF TypeOK
    <2>2. Popper(c)' BY Zenon, <1>0, <1>2, <1>4, <2>1, PopperGoesOn
    <2> QED BY Zenon, <1>0, <1>1, <1>2, <1>4, <2>2, LookInv DEF listVars
<1> QED BY Zenon, <1>3, <1>4 DEF PopThird, Goto

\* The stub is pushed behind the last node.
LEMMA StubExchangeInv ==
    ASSUME IInv, NEW t \in Threads, StubExchange(t)
    PROVE  IInv'
<1>0. TypeOK /\ pc[t] = "stub" /\ next' = [next EXCEPT ![Stub] = Null]
      /\ prev' = [prev EXCEPT ![t] = head] /\ head' = Stub
      /\ pc' = [pc EXCEPT ![t] = "stubLink"] /\ UNCHANGED <<tail, size, node, mtx, owner, order>>
    BY Zenon DEF IInv, StubExchange, Goto
<1>1. PICK c \in Seq(Cells) : List(c) BY Zenon DEF IInv
<1>2. mtx = t /\ Popper(c) /\ node[t] = tail /\ tail # Stub /\ Stub \notin Range(c)
    BY Zenon, <1>0, <1>1 DEF List, Popper
<1>3. /\ pc'[t] = "stubLink" /\ \A u \in Threads \ {t} : pc'[u] = pc[u]
      /\ Stub \in Cells /\ next'[Stub] = Null /\ \A x \in Cells \ {Stub} : next'[x] = next[x]
    BY Zenon, <1>0 DEF TypeOK, Cells
<1>4. /\ c # <<>> /\ IsInjective(c) /\ Head(c) = tail /\ Without(c, order) /\ IsInjective(order)
      /\ order \in Seq(Nodes)
    BY Zenon, <1>0, <1>1 DEF List, Shape, TypeOK
<1>5. /\ Append(c, Stub) \in Seq(Cells) /\ Range(Append(c, Stub)) = Range(c) \cup {Stub}
      /\ IsInjective(Append(c, Stub))
    BY <1>2, <1>3, <1>4, AppendFacts
<1>6. TypeOK'
    <2>1. head' \in Nodes \cup {Stub} BY Zenon, <1>0
    <2>2. next' \in [Nodes \cup {Stub} -> Nodes \cup {Stub, Null}] BY Zenon, <1>0 DEF TypeOK
    <2>3. prev' \in [Threads -> Nodes \cup {Stub, Null}] BY Zenon, <1>0 DEF TypeOK
    <2>4. pc' \in [Threads -> {"idle", "exchange", "link", "load", "second",
                              "compare", "stub", "stubLink", "third", "count"}]
        BY Zenon, <1>0 DEF TypeOK
    <2> QED BY Zenon, <1>0, <2>1, <2>2, <2>3, <2>4 DEF TypeOK
<1>7. size' = Len(order') + Cardinality(Counted')
    <2>1. Counted' = Counted BY Zenon, <1>0, <1>3 DEF Counted
    <2> QED BY Zenon, <1>0, <2>1 DEF IInv
<1>8. Shape(Append(c, Stub))'
    <2>1. /\ Append(c, Stub) # <<>> /\ Head(Append(c, Stub)) = Head(c)
          /\ Newest(Append(c, Stub)) = Stub
        BY Zenon, <1>3, <1>4, ChainAppend
    <2>2. Without(Append(c, Stub), order) BY Zenon, <1>2, <1>4, WithoutStub
    <2> QED BY Zenon, <1>0, <1>4, <1>5, <2>1, <2>2 DEF Shape
<1>9. Pointers(Append(c, Stub))'
    <2>1. t \notin Linkers BY Zenon, <1>0 DEF Linkers
    <2>2. Target(t)' = Stub BY Zenon, <1>3 DEF Target
    <2> QED BY Zenon, <1>0, <1>1, <1>2, <1>3, <2>1, <2>2, PointersExchange DEF List
<1>10. Popper(Append(c, Stub))' BY Zenon, <1>0, <1>2, <1>3, PopperGoesOn
<1>11. Owners(Append(c, Stub))'
    <2>1. \A n \in Nodes : n \in Range(Append(c, Stub)) <=> n \in Range(c) BY Zenon, <1>5, MpscAssumption
    <2>2. Owners(Append(c, Stub)) BY Zenon, <1>1, <2>1 DEF List, Owners
    <2>3. \A u \in Threads : pc'[u] = "exchange" => pc[u] = "exchange" /\ node'[u] = node[u]
        BY Zenon, <1>0, <1>3
    <2>4. \A n \in Nodes : next'[n] = next[n] BY Zenon, <1>3, MpscAssumption DEF Cells
    <2> QED BY Zenon, <1>0, <1>5, <2>2, <2>3, <2>4, OwnersKept
<1> QED BY Zenon, <1>5, <1>6, <1>7, <1>8, <1>9, <1>10, <1>11 DEF IInv, List

\* The link of the stub is stored.
LEMMA StubLinkInv ==
    ASSUME IInv, NEW t \in Threads, StubLink(t)
    PROVE  IInv'
<1>0. TypeOK /\ pc[t] = "stubLink" /\ next' = [next EXCEPT ![prev[t]] = Stub]
      /\ pc' = [pc EXCEPT ![t] = "third"]
      /\ UNCHANGED <<head, tail, size, node, prev, mtx, owner, order>>
    BY Zenon DEF IInv, StubLink, Goto
<1>1. PICK c \in Seq(Cells) : List(c) BY Zenon DEF IInv
<1>2. pc'[t] = "third" /\ \A u \in Threads \ {t} : pc'[u] = pc[u] BY Zenon, <1>0 DEF TypeOK
<1>3. t \in Linkers /\ Target(t) = Stub BY Zenon, <1>0 DEF Linkers, Target
<1>4. Pointers(c)' /\ prev[t] \in Range(c)
    BY Zenon, <1>0, <1>1, <1>3, PointersLink DEF List
<1>5. TypeOK'
    <2>1. next' \in [Nodes \cup {Stub} -> Nodes \cup {Stub, Null}] BY Zenon, <1>0 DEF TypeOK
    <2>2. pc' \in [Threads -> {"idle", "exchange", "link", "load", "second",
                              "compare", "stub", "stubLink", "third", "count"}]
        BY Zenon, <1>0 DEF TypeOK
    <2> QED BY Zenon, <1>0, <2>1, <2>2 DEF TypeOK
<1>6. size' = Len(order') + Cardinality(Counted')
    <2>1. Counted' = Counted BY Zenon, <1>0, <1>2 DEF Counted
    <2> QED BY Zenon, <1>0, <2>1 DEF IInv
<1>7. Shape(c)' BY Zenon, <1>0, <1>1 DEF List, Shape
<1>8. Popper(c)'
    <2>1. mtx = t /\ Popper(c) /\ node[t] = tail /\ tail # Stub BY Zenon, <1>0, <1>1 DEF List, Popper
    <2> QED BY Zenon, <1>0, <1>2, <2>1, PopperGoesOn
<1>9. Owners(c)'
    <2>1. \A n \in Nodes \ Range(c) : next'[n] = next[n] BY Zenon, <1>0, <1>4 DEF TypeOK
    <2>2. \A u \in Threads : pc'[u] = "exchange" => pc[u] = "exchange" /\ node'[u] = node[u]
        BY Zenon, <1>0, <1>2
    <2> QED BY Zenon, <1>0, <1>1, <2>1, <2>2, OwnersKept DEF List
<1> QED BY Zenon, <1>4, <1>5, <1>6, <1>7, <1>8, <1>9 DEF IInv, List

\* The counter is lowered for a node that is out.
LEMMA PopCountInv ==
    ASSUME IInv, NEW t \in Threads, PopCount(t)
    PROVE  IInv'
<1>0. TypeOK /\ pc[t] = "count" /\ size' = size - 1 /\ mtx' = Null
      /\ pc' = [pc EXCEPT ![t] = "idle"]
      /\ UNCHANGED <<head, tail, next, node, prev, owner, order>>
    BY Zenon DEF IInv, PopCount, Goto, listVars
<1>1. PICK c \in Seq(Cells) : List(c) BY Zenon DEF IInv
<1>2. pc'[t] = "idle" /\ \A u \in Threads \ {t} : pc'[u] = pc[u] BY Zenon, <1>0 DEF TypeOK
<1>3. size' = Len(order') + Cardinality(Counted') /\ size' \in Nat
    <2>1. Counted' = Counted \ {t} /\ t \in Counted BY Zenon, <1>0, <1>2 DEF Counted
    <2>2. IsFiniteSet(Counted) BY Zenon, MpscAssumption, FS_Subset DEF Counted
    <2>3. Cardinality(Counted') = Cardinality(Counted) - 1 /\ IsFiniteSet(Counted')
        BY Zenon, <2>1, <2>2, FS_RemoveElement
    <2>4. Cardinality(Counted) \in Nat /\ Cardinality(Counted') \in Nat /\ Len(order) \in Nat
        BY Zenon, <1>0, <2>2, <2>3, FS_CardinalityType, LenFacts DEF TypeOK
    <2> QED BY <1>0, <2>3, <2>4 DEF IInv
<1>4. TypeOK'
    <2>1. pc' \in [Threads -> {"idle", "exchange", "link", "load", "second",
                              "compare", "stub", "stubLink", "third", "count"}]
        BY Zenon, <1>0 DEF TypeOK
    <2> QED BY Zenon, <1>0, <1>3, <2>1 DEF TypeOK
<1>5. Shape(c)' BY Zenon, <1>0, <1>1 DEF List, Shape
<1>6. Pointers(c)'
    <2>1. t \notin Linkers BY Zenon, <1>0 DEF Linkers
    <2>2. Linkers' = Linkers /\ \A u \in Linkers : Target(u)' = Target(u) /\ prev'[u] = prev[u]
        BY Zenon, <1>0, <1>2, <2>1, SameLinkers
    <2> QED BY Zenon, <1>0, <1>1, <2>2, PointersKept DEF List
<1>7. Popper(c)'
    <2>1. mtx = t BY Zenon, <1>0, <1>1 DEF List, Popper
    <2>2. \A u \in Threads : mtx' # u BY Zenon, <1>0, MpscAssumption
    <2>3. \A u \in Threads : pc'[u] \in {"idle", "exchange", "link"}
        BY Zenon, <1>1, <1>2, <2>1 DEF List, Popper
    <2> QED BY Zenon, <2>2, <2>3 DEF Popper
<1>8. Owners(c)' BY Zenon, <1>0, <1>1, <1>2, OwnersKept DEF List
<1> QED BY Zenon, <1>3, <1>4, <1>5, <1>6, <1>7, <1>8 DEF IInv, List

-----------------------------------------------------------------------------
\* An empty list is a chain of the stub alone.
LEMMA InitInv == Init => IInv
<1> SUFFICES ASSUME Init PROVE IInv BY Zenon
<1> DEFINE c == <<Stub>>
<1>1. TypeOK
    <2>1. order \in Seq(Nodes) BY Zenon, EmptyLen DEF Init
    <2>2. pc \in [Threads -> {"idle", "exchange", "link", "load", "second",
                             "compare", "stub", "stubLink", "third", "count"}]
        BY Zenon DEF Init
    <2>3. next \in [Nodes \cup {Stub} -> Nodes \cup {Stub, Null}] BY Zenon DEF Init
    <2>4. node \in [Threads -> Nodes \cup {Null}] /\ prev \in [Threads -> Nodes \cup {Stub, Null}]
        BY Zenon DEF Init
    <2>5. owner \in [Nodes -> Threads \cup {Queued}] BY Zenon DEF Init
    <2> QED BY Zenon, <2>1, <2>2, <2>3, <2>4, <2>5 DEF Init, TypeOK
<1>2. size = Len(order) + Cardinality(Counted)
    <2>1. Counted = {} BY Zenon DEF Init, Counted
    <2> QED BY <2>1, FS_EmptySet DEF Init
<1>3. /\ c \in Seq(Cells) /\ Range(c) = {Stub} /\ IsInjective(c) /\ c # <<>>
      /\ Len(c) = 1 /\ c[1] = Stub /\ Head(c) = Stub
    <2>1. c \in Seq(Cells) /\ Range(c) = {Stub} /\ IsInjective(c) BY Zenon, SingletonFacts DEF Cells
    <2>2. Len(c) = 1 /\ c[1] = Stub /\ c # <<>> /\ Head(c) = Stub OBVIOUS
    <2> QED BY Zenon, <2>1, <2>2
<1> HIDE DEF c
<1>4. Shape(c)
    <2>1. order = <<>> /\ Len(order) = 0 /\ IsInjective(order) BY Zenon, EmptyFacts DEF Init
    <2>2. Without(c, order) BY <1>3, <2>1 DEF Without
    <2> QED BY Zenon, <1>3, <2>1, <2>2 DEF Shape, Newest, Init
<1>5. Pointers(c)
    <2>1. Linkers = {} BY Zenon DEF Init, Linkers
    <2>2. \A x, y : ~Adjacent(c, x, y) BY <1>3 DEF Adjacent
    <2>3. next[head] = Null BY Zenon DEF Init
    <2> QED BY Zenon, <2>1, <2>2, <2>3 DEF Pointers
<1>6. Popper(c) BY Zenon, MpscAssumption DEF Popper, Init
<1>7. Owners(c)
    <2>1. \A n \in Nodes : owner[n] # Queued /\ n \notin Range(c) BY Zenon, <1>3, MpscAssumption DEF Init
    <2> QED BY Zenon, <2>1 DEF Owners, Init
<1> QED BY Zenon, <1>1, <1>2, <1>3, <1>4, <1>5, <1>6, <1>7 DEF IInv, List

-----------------------------------------------------------------------------
\* A step of the list is a push or a pop of MpscFifo, or leaves its state alone.
LEMMA StepSimulation ==
    ASSUME IInv, Next
    PROVE  IInv' /\ (Fifo!Next \/ UNCHANGED <<owner, order>>)
<1>1. PICK t \in Threads : Step(t) BY Zenon DEF Next
<1>2. ASSUME NEW n \in Nodes, PushCount(t, n) PROVE IInv' /\ UNCHANGED <<owner, order>>
    <2>1. UNCHANGED <<owner, order>> BY Zenon, <1>2 DEF PushCount
    <2> QED BY Zenon, <1>2, <2>1, PushCountInv
<1>3. CASE PushExchange(t)
    <2>1. IInv' /\ node[t] \in Nodes /\ owner[node[t]] = t BY Zenon, <1>3, PushExchangeInv
    <2>2. Fifo!Push(t, node[t]) BY Zenon, <1>3, <2>1 DEF PushExchange, Fifo!Push
    <2> QED BY Zenon, <2>1, <2>2 DEF Fifo!Next
<1>4. CASE PushLink(t) BY Zenon, <1>4, PushLinkInv DEF PushLink
<1>5. CASE PopLock(t) BY Zenon, <1>5, PopLockInv DEF PopLock
<1>6. CASE PopCompare(t) BY Zenon, <1>6, PopCompareInv DEF PopCompare
<1>7. CASE StubExchange(t) BY Zenon, <1>7, StubExchangeInv DEF StubExchange
<1>8. CASE StubLink(t) BY Zenon, <1>8, StubLinkInv DEF StubLink
<1>9. CASE PopCount(t) BY Zenon, <1>9, PopCountInv DEF PopCount
<1>10. CASE PopLoad(t) \/ PopSecond(t) \/ PopThird(t)
    <2>1. /\ IInv'
          /\ \/ UNCHANGED <<owner, order>>
             \/ /\ order # <<>> /\ owner' = [owner EXCEPT ![Head(order)] = t]
                /\ order' = Tail(order)
        BY Zenon, <1>10, PopLoadInv, PopSecondInv, PopThirdInv
    <2> QED BY Zenon, <2>1 DEF Fifo!Next, Fifo!Pop
<1> QED BY Zenon, <1>1, <1>2, <1>3, <1>4, <1>5, <1>6, <1>7, <1>8, <1>9, <1>10
    DEF Step, PushStep, PopStep

\* The cells of mpsc_queue form a chain from tail_ to head_ in which at most the
\* links of pushes under way are missing, and the counter agrees with it.
THEOREM QueueInvariance == Spec => []IInv
<1>1. IInv /\ [Next]_vars => IInv'
    <2> SUFFICES ASSUME IInv, [Next]_vars PROVE IInv' BY Zenon
    <2>1. CASE UNCHANGED vars
        <3>1. UNCHANGED <<head, tail, next, size, pc, node, prev, mtx, owner, order>>
            BY Zenon, <2>1 DEF vars, listVars, threadVars
        <3>2. TypeOK' BY Zenon, <3>1 DEF IInv, TypeOK
        <3>3. size' = Len(order') + Cardinality(Counted') BY Zenon, <3>1 DEF IInv, Counted
        <3>4. PICK c \in Seq(Cells) : List(c) BY Zenon DEF IInv
        <3>5. Linkers' = Linkers /\ \A u : Target(u)' = Target(u) BY Zenon, <3>1 DEF Linkers, Target
        <3>6. Pointers(c)' BY Zenon, <3>1, <3>4, <3>5, PointersKept DEF List
        <3>7. Shape(c)' /\ Popper(c)' /\ Owners(c)'
            BY Zenon, <3>1, <3>4 DEF List, Shape, Popper, Owners
        <3> QED BY Zenon, <3>2, <3>3, <3>6, <3>7 DEF IInv, List
    <2> QED BY Zenon, <2>1, StepSimulation
<1> QED BY <1>1, InitInv, PTL DEF Spec

\* For every set of nodes and threads, push and pop of queue.cpp implement the
\* first-in first-out queue: the exchange of head_ is the push, and pop takes the
\* oldest node, whatever links are still missing.
THEOREM QueueIsFifo == Spec => ImplementsFifo
<1>1. Init => Fifo!Init BY Zenon DEF Init, Fifo!Init
<1>2. IInv /\ [Next]_vars => [Fifo!Next]_(Fifo!vars)
    BY Zenon, StepSimulation DEF vars, Fifo!vars
<1> QED BY <1>1, <1>2, QueueInvariance, PTL DEF Spec, ImplementsFifo, Fifo!Spec

\* size_ is never less than the number of queued nodes, and a queue without nodes
\* has both ends at the stub, as ~mpsc_queue asserts.
THEOREM QueueCounted == Spec => []SizeCounts
<1>1. IInv => SizeCounts
    <2> SUFFICES ASSUME IInv PROVE SizeCounts BY Zenon
    <2>1. PICK c \in Seq(Cells) : List(c) BY Zenon DEF IInv
    <2>2. order \in Seq(Nodes) BY Zenon DEF IInv, TypeOK
    <2>3. order = <<>> => head = Stub /\ tail = Stub
        BY Zenon, <2>1, <2>2, WithoutFacts DEF List, Shape
    <2> QED BY Zenon, <2>3 DEF IInv, SizeCounts, Counted
<1> QED BY <1>1, QueueInvariance, PTL

\* What pop's NULL means.  queue.h:30 says that the queue "was empty at some point
\* after calling this function"; the code gives up also before a node whose link
\* is missing, whatever was pushed completely behind that node.
NullExplained ==
    [][\A t \in Threads : mtx = t /\ mtx' # t /\ pc[t] # "count" =>
            order = <<>> \/ \E u \in Threads : pc[u] = "link" /\ node[u] = Head(order)]_vars

\* pop gives up only on an empty queue or before a node whose link is missing.
THEOREM NullIsExplained == Spec => NullExplained
<1> DEFINE A == \A t \in Threads : mtx = t /\ mtx' # t /\ pc[t] # "count" =>
                  order = <<>> \/ \E u \in Threads : pc[u] = "link" /\ node[u] = Head(order)
<1>1. IInv /\ [Next]_vars => [A]_vars
    <2> SUFFICES ASSUME IInv, Next, NEW t \in Threads, mtx = t, mtx' # t, pc[t] # "count", order # <<>>
                 PROVE  \E u \in Threads : pc[u] = "link" /\ node[u] = Head(order)
        BY Zenon
    <2>1. PICK c \in Seq(Cells) : List(c) BY Zenon DEF IInv
    <2>2. order \in Seq(Nodes) BY Zenon DEF IInv, TypeOK
    <2>3. PICK w \in Threads : Step(w) BY Zenon DEF Next
    <2>4. tail = Stub /\ next[Stub] = Null
        <3>1. w = t
            <4>1. CASE PopLock(w) BY Zenon, <4>1, MpscAssumption DEF PopLock
            <4>2. CASE PopStep(w)
                <5>1. pc[w] \notin {"idle", "exchange", "link"}
                    BY Zenon, <4>2 DEF PopStep, PopLoad, PopSecond, PopCompare, StubExchange, StubLink,
                        PopThird, PopCount
                <5> QED BY Zenon, <2>1, <5>1 DEF List, Popper
            <4>3. CASE PushStep(w) \/ \E n \in Nodes : PushCount(w, n)
                BY Zenon, <4>3 DEF PushStep, PushExchange, PushLink, PushCount
            <4> QED BY Zenon, <2>3, <4>1, <4>2, <4>3 DEF Step
        <3>2. PopLoad(t)
            BY Zenon, <2>3, <3>1 DEF Step, PopStep, PushStep, PopLock, PushCount, PushExchange, PushLink,
                PopSecond, PopCompare, StubExchange, StubLink, PopThird, PopCount
        <3> QED BY Zenon, <3>2 DEF PopLoad
    <2>5. c # <<>> /\ IsInjective(c) /\ Head(c) = Stub /\ Without(c, order) /\ Newest(c) = head
        BY Zenon, <2>1, <2>4 DEF List, Shape
    <2>6. order = Tail(c) BY Zenon, <2>2, <2>5, WithoutFacts
    <2>7. Head(c) # Newest(c)
        <3>1. Len(c) \in Nat /\ Len(c) >= 1 /\ Head(c) = c[1] /\ Len(Tail(c)) = Len(c) - 1
            BY Zenon, <2>5, EndFacts
        <3>2. Len(order) \in Nat /\ Len(order) # 0 BY Zenon, <2>2, EmptyLen, LenFacts
        <3>3. 1 \in 1..Len(c) /\ Len(c) \in 1..Len(c) /\ 1 # Len(c) BY <2>6, <3>1, <3>2
        <3>4. \A j, k \in 1..Len(c) : c[j] = c[k] => j = k BY Zenon, <2>5, RangeDef
        <3> QED BY Zenon, <3>1, <3>3, <3>4 DEF Newest
    <2>8. Adjacent(c, Stub, Head(order)) BY Zenon, <2>5, <2>6, <2>7, ChainTail
    <2>9. Head(order) \in Nodes /\ Stub \in Cells /\ Head(order) \in Cells /\ Head(order) # Stub
          /\ Head(order) # Null
        BY Zenon, <2>2, HeadInRange, MpscAssumption DEF Cells
    <2>10. PICK u \in Linkers : Target(u) = Head(order)
        BY Zenon, <2>1, <2>4, <2>8, <2>9 DEF List, Pointers
    <2> QED BY Zenon, <2>9, <2>10 DEF Linkers, Target
<1> QED BY <1>1, QueueInvariance, PTL DEF Spec, NullExplained
=============================================================================
