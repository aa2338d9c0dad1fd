------------------------------ MODULE SeqFacts ------------------------------
(***************************************************************************)
(* What Append, Tail, PushFront, Unlink and \o do to the elements of a     *)
(* sequence without repetitions.  The intrusive lists and queues of the    *)
(* runtime are modelled by such sequences.                                 *)
(***************************************************************************)
EXTENDS Lists, Integers, TLAPS

\* A sequence is a function on its indices.
LEMMA LenFacts ==
    ASSUME NEW S, NEW s \in Seq(S)
    PROVE  Len(s) \in Nat /\ DOMAIN s = 1..Len(s) /\ s \in [1..Len(s) -> S]
OBVIOUS

\* An element of a sequence.
LEMMA ElementFacts ==
    ASSUME NEW S, NEW s \in Seq(S), NEW i \in 1..Len(s)
    PROVE  s[i] \in S
OBVIOUS

\* The empty sequence is the one of length 0.
LEMMA EmptyLen ==
    ASSUME NEW S
    PROVE  <<>> \in Seq(S) /\ Len(<<>>) = 0 /\ \A s \in Seq(S) : s # <<>> => Len(s) \in Nat \ {0}
OBVIOUS

\* A sequence over a set is one over a larger set.
LEMMA WiderSeq ==
    ASSUME NEW S, NEW T, S \subseteq T, NEW s \in Seq(S)
    PROVE  s \in Seq(T)
<1>1. Len(s) \in Nat /\ s \in [1..Len(s) -> T] BY LenFacts
<1> QED BY <1>1

\* Sequences with the same elements at the same places.
LEMMA SameSeq ==
    ASSUME NEW S, NEW s \in Seq(S), NEW t \in Seq(S), Len(s) = Len(t),
           \A i \in 1..Len(s) : s[i] = t[i]
    PROVE  s = t
OBVIOUS

\* Append leaves what is there and puts the new element last.
LEMMA AppendIndex ==
    ASSUME NEW S, NEW s \in Seq(S), NEW e \in S
    PROVE  /\ Append(s, e) \in Seq(S) /\ Append(s, e) # <<>>
           /\ Len(Append(s, e)) = Len(s) + 1 /\ Append(s, e)[Len(s) + 1] = e
           /\ \A i \in 1..Len(s) : Append(s, e)[i] = s[i]
OBVIOUS

\* Taking the first element moves the others one place down.
LEMMA TailIndex ==
    ASSUME NEW S, NEW s \in Seq(S), s # <<>>
    PROVE  /\ Head(s) \in S /\ Tail(s) \in Seq(S) /\ Len(Tail(s)) = Len(s) - 1
           /\ \A i \in 1..Len(Tail(s)) : Tail(s)[i] = s[i + 1]
OBVIOUS

\* The part of a sequence between two places.
LEMMA SubSeqIndex ==
    ASSUME NEW S, NEW s, NEW m \in Int, NEW n \in Int, \A i \in m..n : s[i] \in S
    PROVE  /\ SubSeq(s, m, n) \in Seq(S)
           /\ Len(SubSeq(s, m, n)) = IF m <= n THEN n - m + 1 ELSE 0
           /\ \A i \in 1..n - m + 1 : SubSeq(s, m, n)[i] = s[m + i - 1]
OBVIOUS

\* Concatenation keeps the order of both parts.
LEMMA ConcatIndex ==
    ASSUME NEW S, NEW s \in Seq(S), NEW t \in Seq(S)
    PROVE  /\ s \o t \in Seq(S) /\ Len(s \o t) = Len(s) + Len(t)
           /\ \A i \in 1..Len(s) + Len(t) :
                (s \o t)[i] = IF i <= Len(s) THEN s[i] ELSE t[i - Len(s)]
OBVIOUS

\* The empty sequence adds nothing.
LEMMA ConcatEmpty ==
    ASSUME NEW S, NEW s \in Seq(S)
    PROVE  s \o <<>> = s /\ <<>> \o s = s
OBVIOUS

\* Concatenations may be grouped either way.
LEMMA ConcatAssoc ==
    ASSUME NEW S, NEW s \in Seq(S), NEW t \in Seq(S), NEW u \in Seq(S)
    PROVE  (s \o t) \o u = s \o (t \o u)
OBVIOUS

\* Appending is concatenating one element.
LEMMA AppendConcat ==
    ASSUME NEW S, NEW s \in Seq(S), NEW e \in S
    PROVE  Append(s, e) = s \o <<e>>
OBVIOUS

\* The elements of a sequence, by index.
LEMMA RangeDef ==
    ASSUME NEW S, NEW s \in Seq(S)
    PROVE  /\ Range(s) = {s[i] : i \in 1..Len(s)}
           /\ Range(s) \subseteq S
           /\ IsInjective(s) <=> \A i, j \in 1..Len(s) : s[i] = s[j] => i = j
BY DEF Range, IsInjective

\* The empty sequence.
LEMMA EmptyFacts == Range(<<>>) = {} /\ IsInjective(<<>>)
BY DEF Range, IsInjective

\* A sequence of one element.
LEMMA SingletonFacts ==
    ASSUME NEW S, NEW e \in S
    PROVE  <<e>> \in Seq(S) /\ Range(<<e>>) = {e} /\ IsInjective(<<e>>)
BY DEF Range, IsInjective

\* A sequence is empty when it has no elements.
LEMMA EmptyRange ==
    ASSUME NEW S, NEW s \in Seq(S)
    PROVE  s = <<>> <=> Range(s) = {}
<1>1. ASSUME s # <<>> PROVE s[1] \in Range(s)
    BY <1>1, RangeDef, EmptyLen
<1> QED BY <1>1, EmptyFacts

\* The first element.
LEMMA HeadInRange ==
    ASSUME NEW S, NEW s \in Seq(S), s # <<>>
    PROVE  Head(s) \in Range(s) /\ Head(s) \in S
<1>1. Len(s) \in Nat \ {0} BY EmptyLen
<1>2. Head(s) = s[1] OBVIOUS
<1> QED BY <1>1, <1>2, RangeDef

\* Appending a new element (add_awaiter, emplace_back).
LEMMA AppendFacts ==
    ASSUME NEW S, NEW s \in Seq(S), NEW e \in S
    PROVE  /\ Append(s, e) \in Seq(S)
           /\ Range(Append(s, e)) = Range(s) \cup {e}
           /\ IsInjective(s) /\ e \notin Range(s) => IsInjective(Append(s, e))
<1> DEFINE r == Append(s, e)
<1>1. /\ r \in Seq(S) /\ Len(r) = Len(s) + 1
      /\ \A i \in 1..Len(s) : r[i] = s[i]
      /\ r[Len(s) + 1] = e
    BY AppendIndex
<1>2. Len(s) \in Nat BY LenFacts
<1> HIDE DEF r
<1>3. Range(r) = Range(s) \cup {e}
    <2>1. Range(r) = {r[i] : i \in 1..Len(s)+1} /\ Range(s) = {s[i] : i \in 1..Len(s)}
        BY <1>1, RangeDef
    <2> QED BY <2>1, <1>1, <1>2
<1>4. ASSUME IsInjective(s), e \notin Range(s) PROVE IsInjective(r)
    <2>1. \A i, j \in 1..Len(s) : s[i] = s[j] => i = j
        BY <1>4, RangeDef
    <2>2. \A i \in 1..Len(s) : s[i] # e
        BY <1>4, RangeDef
    <2>3. ASSUME NEW i \in 1..Len(r), NEW j \in 1..Len(r), r[i] = r[j] PROVE i = j
        BY <2>1, <2>2, <2>3, <1>1, <1>2
    <2> QED BY <2>3, <1>1, RangeDef
<1> QED BY <1>1, <1>3, <1>4 DEF r

\* Taking the first element away (pop_front).
LEMMA TailFacts ==
    ASSUME NEW S, NEW s \in Seq(S), s # <<>>, IsInjective(s)
    PROVE  /\ Tail(s) \in Seq(S)
           /\ Range(Tail(s)) = Range(s) \ {Head(s)}
           /\ IsInjective(Tail(s))
<1> DEFINE r == Tail(s)
<1>1. /\ r \in Seq(S) /\ Len(r) = Len(s) - 1
      /\ \A i \in 1..Len(r) : r[i] = s[i + 1]
    BY TailIndex
<1>2. Len(s) \in Nat \ {0} BY EmptyLen
<1>3. Head(s) = s[1] OBVIOUS
<1>4. \A i, j \in 1..Len(s) : s[i] = s[j] => i = j BY RangeDef
<1> HIDE DEF r
<1>5. Range(r) = Range(s) \ {Head(s)}
    <2>1. Range(r) = {r[i] : i \in 1..Len(r)} /\ Range(s) = {s[i] : i \in 1..Len(s)}
        BY <1>1, RangeDef
    <2>2. ASSUME NEW x \in Range(r) PROVE x \in Range(s) \ {Head(s)}
        <3>1. PICK i \in 1..Len(r) : x = r[i] BY <2>1
        <3>2. i + 1 \in 1..Len(s) /\ x = s[i + 1] /\ i + 1 # 1 BY <3>1, <1>1, <1>2
        <3> QED BY <3>2, <2>1, <1>2, <1>3, <1>4
    <2>3. ASSUME NEW x \in Range(s) \ {Head(s)} PROVE x \in Range(r)
        <3>1. PICK i \in 1..Len(s) : x = s[i] BY <2>1
        <3>2. i # 1 BY <3>1, <1>3
        <3>3. i - 1 \in 1..Len(r) /\ r[i - 1] = s[i] BY <3>1, <3>2, <1>1, <1>2
        <3> QED BY <3>1, <3>3, <2>1
    <2> QED BY <2>2, <2>3
<1>6. IsInjective(r)
    <2>1. ASSUME NEW i \in 1..Len(r), NEW j \in 1..Len(r), r[i] = r[j] PROVE i = j
        BY <2>1, <1>1, <1>2, <1>4
    <2> QED BY <2>1, <1>1, RangeDef
<1> QED BY <1>1, <1>5, <1>6 DEF r

\* Linking two lists (notify_all moves one behind the other).
LEMMA ConcatFacts ==
    ASSUME NEW S, NEW s \in Seq(S), NEW t \in Seq(S)
    PROVE  /\ s \o t \in Seq(S)
           /\ Range(s \o t) = Range(s) \cup Range(t)
           /\ IsInjective(s) /\ IsInjective(t) /\ Range(s) \cap Range(t) = {}
                => IsInjective(s \o t)
<1> DEFINE r == s \o t
<1>1. /\ r \in Seq(S) /\ Len(r) = Len(s) + Len(t)
      /\ \A i \in 1..Len(s) + Len(t) :
            r[i] = IF i <= Len(s) THEN s[i] ELSE t[i - Len(s)]
    BY ConcatIndex
<1>2. Len(s) \in Nat /\ Len(t) \in Nat BY LenFacts
<1> HIDE DEF r
<1>3. Range(r) = Range(s) \cup Range(t)
    <2>1. /\ Range(r) = {r[i] : i \in 1..Len(r)} /\ Range(s) = {s[i] : i \in 1..Len(s)}
          /\ Range(t) = {t[i] : i \in 1..Len(t)}
        BY <1>1, RangeDef
    <2>2. ASSUME NEW i \in 1..Len(r) PROVE r[i] \in Range(s) \cup Range(t)
        <3>1. CASE i <= Len(s)
            <4>1. i \in 1..Len(s) /\ r[i] = s[i] BY <1>1, <1>2, <3>1
            <4> QED BY <2>1, <4>1
        <3>2. CASE i > Len(s)
            <4>1. i - Len(s) \in 1..Len(t) /\ r[i] = t[i - Len(s)] BY <1>1, <1>2, <3>2
            <4> QED BY <2>1, <4>1
        <3> QED BY <1>1, <1>2, <3>1, <3>2
    <2>3. ASSUME NEW i \in 1..Len(s) PROVE s[i] \in Range(r)
        <3>1. i \in 1..Len(r) /\ r[i] = s[i] BY <1>1, <1>2
        <3> QED BY <2>1, <3>1
    <2>4. ASSUME NEW i \in 1..Len(t) PROVE t[i] \in Range(r)
        <3>1. PICK k \in 1..Len(r) : k = i + Len(s) BY <1>1, <1>2
        <3>2. ~(k <= Len(s)) /\ k - Len(s) = i BY <1>2, <3>1
        <3>3. r[k] = t[i] BY <1>1, <3>1, <3>2
        <3> QED BY <2>1, <3>3
    <2> QED BY <2>1, <2>2, <2>3, <2>4
<1>4. ASSUME IsInjective(s), IsInjective(t), Range(s) \cap Range(t) = {}
      PROVE  IsInjective(r)
    <2>1. /\ \A i, j \in 1..Len(s) : s[i] = s[j] => i = j
          /\ \A i, j \in 1..Len(t) : t[i] = t[j] => i = j
        BY <1>4, RangeDef
    <2>2. ASSUME NEW i \in 1..Len(s), NEW j \in 1..Len(t) PROVE s[i] # t[j]
        <3>1. s[i] \in Range(s) BY RangeDef
        <3>2. t[j] \in Range(t) BY RangeDef
        <3> QED BY <3>1, <3>2, <1>4
    <2>3. ASSUME NEW i \in 1..Len(r), NEW j \in 1..Len(r), r[i] = r[j] PROVE i = j
        <3>1. CASE i <= Len(s) /\ j <= Len(s)
            <4>1. i \in 1..Len(s) /\ j \in 1..Len(s) BY <3>1, <1>1, <1>2
            <4>2. r[i] = s[i] /\ r[j] = s[j] BY <3>1, <1>1, <1>2
            <4> QED BY <4>1, <4>2, <2>1, <2>3
        <3>2. CASE i <= Len(s) /\ j > Len(s)
            <4>1. i \in 1..Len(s) /\ j - Len(s) \in 1..Len(t) BY <3>2, <1>1, <1>2
            <4>2. r[i] = s[i] /\ r[j] = t[j - Len(s)] BY <3>2, <1>1, <1>2
            <4>3. s[i] # t[j - Len(s)] BY <4>1, <2>2
            <4> QED BY <4>2, <4>3, <2>3
        <3>3. CASE i > Len(s) /\ j <= Len(s)
            <4>1. j \in 1..Len(s) /\ i - Len(s) \in 1..Len(t) BY <3>3, <1>1, <1>2
            <4>2. r[j] = s[j] /\ r[i] = t[i - Len(s)] BY <3>3, <1>1, <1>2
            <4>3. s[j] # t[i - Len(s)] BY <4>1, <2>2
            <4> QED BY <4>2, <4>3, <2>3
        <3>4. CASE i > Len(s) /\ j > Len(s)
            <4>1. i - Len(s) \in 1..Len(t) /\ j - Len(s) \in 1..Len(t)
                BY <3>4, <1>1, <1>2
            <4>2. r[i] = t[i - Len(s)] /\ r[j] = t[j - Len(s)]
                BY <3>4, <1>1, <1>2
            <4>3. i - Len(s) = j - Len(s) BY <4>1, <4>2, <2>1, <2>3, Zenon
            <4> QED BY <4>3, <1>1, <1>2
        <3> QED BY <3>1, <3>2, <3>3, <3>4, <1>1, <1>2
    <2>4. \A i, j \in 1..Len(r) : r[i] = r[j] => i = j BY <2>3
    <2> QED BY <2>4, <1>1, RangeDef, Zenon
<1> QED BY <1>1, <1>3, <1>4 DEF r

\* Putting a new element in front (register_callback).
LEMMA PushFrontFacts ==
    ASSUME NEW S, NEW s \in Seq(S), NEW e \in S
    PROVE  /\ PushFront(e, s) \in Seq(S)
           /\ Range(PushFront(e, s)) = Range(s) \cup {e}
           /\ IsInjective(s) /\ e \notin Range(s) => IsInjective(PushFront(e, s))
<1>1. <<e>> \in Seq(S) /\ Range(<<e>>) = {e} /\ IsInjective(<<e>>)
    BY SingletonFacts
<1>2. PushFront(e, s) = <<e>> \o s BY DEF PushFront
<1>3. /\ <<e>> \o s \in Seq(S)
      /\ Range(<<e>> \o s) = Range(<<e>>) \cup Range(s)
      /\ IsInjective(<<e>>) /\ IsInjective(s) /\ Range(<<e>>) \cap Range(s) = {}
            => IsInjective(<<e>> \o s)
    BY <1>1, ConcatFacts, Zenon
<1> QED BY <1>1, <1>2, <1>3

\* Unlinking an element from the middle of a list (remove_awaiter,
\* deregister_callback); an element that is not linked changes nothing.
LEMMA UnlinkFacts ==
    ASSUME NEW S, NEW s \in Seq(S), NEW e, IsInjective(s)
    PROVE  /\ Unlink(s, e) \in Seq(S)
           /\ Range(Unlink(s, e)) = Range(s) \ {e}
           /\ IsInjective(Unlink(s, e))
<1>1. Range(s) = {s[i] : i \in 1..Len(s)} BY RangeDef
<1>2. \A i, j \in 1..Len(s) : s[i] = s[j] => i = j BY RangeDef
<1>3. Len(s) \in Nat BY LenFacts
<1>4. CASE e \notin Range(s)
    <2>1. Unlink(s, e) = s BY <1>4, <1>1 DEF Unlink
    <2> QED BY <2>1, <1>4
<1>5. CASE e \in Range(s)
    <2>1. PICK k \in 1..Len(s) : s[k] = e BY <1>5, <1>1
    <2>2. (CHOOSE i \in 1..Len(s) : s[i] = e) = k BY <2>1, <1>2
    <2> DEFINE a == SubSeq(s, 1, k - 1)
               b == SubSeq(s, k + 1, Len(s))
    <2>5. /\ a \in Seq(S) /\ Len(a) = k - 1
          /\ \A i \in 1..k - 1 : a[i] = s[i]
        <3>1. \A i \in 1..k - 1 : s[i] \in S BY <1>3, ElementFacts
        <3> QED BY <3>1, <1>3, SubSeqIndex
    <2>6. /\ b \in Seq(S) /\ Len(b) = Len(s) - k
          /\ \A i \in 1..Len(s) - k : b[i] = s[k + i]
        <3>1. \A i \in k + 1..Len(s) : s[i] \in S BY <1>3, ElementFacts
        <3> QED BY <3>1, <1>3, SubSeqIndex
    <2>7. Unlink(s, e) = a \o b BY <2>1, <2>2, Zenon DEF Unlink
    <2> HIDE DEF a, b
    <2>8. IsInjective(a) /\ Range(a) = {s[i] : i \in 1..k - 1}
        <3>1. Range(a) = {a[i] : i \in 1..k - 1} BY <2>5, RangeDef
        <3>2. ASSUME NEW i \in 1..Len(a), NEW j \in 1..Len(a), a[i] = a[j]
              PROVE  i = j
            <4>1. i \in 1..Len(s) /\ j \in 1..Len(s) /\ s[i] = s[j]
                BY <2>5, <3>2, <1>3
            <4> QED BY <4>1, <1>2
        <3>3. IsInjective(a) BY <3>2, <2>5, RangeDef
        <3> QED BY <3>1, <3>3, <2>5
    <2>9. IsInjective(b) /\ Range(b) = {s[i] : i \in k + 1..Len(s)}
        <3>1. Range(b) = {b[i] : i \in 1..Len(s) - k} BY <2>6, RangeDef
        <3>2. ASSUME NEW i \in 1..Len(b), NEW j \in 1..Len(b), b[i] = b[j]
              PROVE  i = j
            <4>1. k + i \in 1..Len(s) /\ k + j \in 1..Len(s) /\ s[k + i] = s[k + j]
                BY <2>6, <3>2, <1>3
            <4>2. k + i = k + j BY <4>1, <1>2
            <4> QED BY <4>2, <2>6, <1>3
        <3>3. IsInjective(b) BY <3>2, <2>6, RangeDef
        <3>4. ASSUME NEW i \in k + 1..Len(s) PROVE s[i] \in Range(b)
            <4>1. i - k \in 1..Len(s) - k /\ b[i - k] = s[i] BY <2>6, <1>3
            <4> QED BY <4>1, <3>1
        <3>5. ASSUME NEW i \in 1..Len(s) - k
              PROVE  b[i] \in {s[j] : j \in k + 1..Len(s)}
            <4>1. k + i \in k + 1..Len(s) /\ b[i] = s[k + i] BY <2>6, <1>3
            <4> QED BY <4>1
        <3> QED BY <3>1, <3>3, <3>4, <3>5
    <2>10. Range(a) \cap Range(b) = {} BY <2>8, <2>9, <1>2, <1>3
    <2>11. Range(a) \cup Range(b) = Range(s) \ {e}
        BY <2>1, <2>8, <2>9, <1>1, <1>2, <1>3
    <2>12. /\ a \o b \in Seq(S)
           /\ Range(a \o b) = Range(a) \cup Range(b)
           /\ IsInjective(a) /\ IsInjective(b) /\ Range(a) \cap Range(b) = {}
                => IsInjective(a \o b)
        BY <2>5, <2>6, ConcatFacts
    <2> QED BY <2>7, <2>8, <2>9, <2>10, <2>11, <2>12, Zenon
<1> QED BY <1>4, <1>5
=============================================================================
