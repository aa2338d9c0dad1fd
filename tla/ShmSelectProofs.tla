-------------------------- MODULE ShmSelectProofs ---------------------------
(***************************************************************************)
(* SentInOrder and WaitersTracked of ShmSelect for any number of messages  *)
(* and restarts, any sizes of messages and of the rings; then, at the end, *)
(* the ring under each direction of a channel, as the instance R of        *)
(* ShmRing: its counters are right and it implements ShmFifo.              *)
(***************************************************************************)
EXTENDS ShmSelect, SeqFacts

Ascending(s) == \A j, k \in 1..Len(s) : j < k => s[j] < s[k]

\* Appending a number larger than all others.
LEMMA AscendingAppend ==
    ASSUME NEW s \in Seq(Nat), NEW e \in Nat, Ascending(s), \A x \in Range(s) : x < e
    PROVE  Ascending(Append(s, e))
<1> DEFINE r == Append(s, e)
<1>1. /\ Len(s) \in Nat /\ Len(r) = Len(s) + 1 /\ r[Len(s) + 1] = e
      /\ \A k \in 1..Len(s) : r[k] = s[k]
    BY AppendIndex, LenFacts
<1>2. \A k \in 1..Len(s) : s[k] < e BY RangeDef
<1> HIDE DEF r
<1>3. ASSUME NEW j \in 1..Len(r), NEW k \in 1..Len(r), j < k PROVE r[j] < r[k]
    <2>1. j \in 1..Len(s) BY <1>1, <1>3
    <2>2. CASE k \in 1..Len(s) BY Zenon, <1>1, <1>3, <2>1, <2>2 DEF Ascending
    <2>3. CASE k = Len(s) + 1 BY Zenon, <1>1, <1>2, <2>1, <2>3
    <2> QED BY <1>1, <2>2, <2>3
<1> QED BY Zenon, <1>3 DEF Ascending, r

\* What comes first in an ascending sequence is less than what follows.
LEMMA AscendingParts ==
    ASSUME NEW s \in Seq(Nat), NEW t \in Seq(Nat), Ascending(s \o t)
    PROVE  Ascending(s) /\ \A x \in Range(s), y \in Range(t) : x < y
<1> DEFINE r == s \o t
<1>1. /\ Len(r) = Len(s) + Len(t) /\ Len(s) \in Nat /\ Len(t) \in Nat
      /\ \A k \in 1..Len(s) + Len(t) : r[k] = IF k <= Len(s) THEN s[k] ELSE t[k - Len(s)]
    BY Zenon, ConcatIndex, LenFacts
<1>2. \A j, k \in 1..Len(r) : j < k => r[j] < r[k] BY Zenon DEF Ascending
<1> HIDE DEF r
<1>3. Ascending(s)
    <2>1. \A k \in 1..Len(s) : k \in 1..Len(r) /\ r[k] = s[k] BY <1>1
    <2> QED BY Zenon, <1>2, <2>1 DEF Ascending
<1>4. ASSUME NEW j \in 1..Len(s), NEW k \in 1..Len(t) PROVE s[j] < t[k]
    <2>1. j \in 1..Len(r) /\ Len(s) + k \in 1..Len(r) /\ j < Len(s) + k BY <1>1
    <2>2. r[j] = s[j] BY <1>1, <2>1
    <2>3. r[Len(s) + k] = t[(Len(s) + k) - Len(s)]
        <3>1. Len(s) + k \in 1..Len(s) + Len(t) /\ ~(Len(s) + k <= Len(s)) BY <1>1
        <3> QED BY Zenon, <1>1, <3>1
    <2>4. (Len(s) + k) - Len(s) = k BY <1>1
    <2> QED BY Zenon, <1>2, <2>1, <2>2, <2>3, <2>4
<1>5. /\ Range(s) = {s[k] : k \in 1..Len(s)} /\ Range(t) = {t[k] : k \in 1..Len(t)}
    BY Zenon, RangeDef
<1> QED BY Zenon, <1>3, <1>4, <1>5

\* The front of a sequence moves to the end of the one before it.
LEMMA MoveFront ==
    ASSUME NEW S, NEW s \in Seq(S), NEW t \in Seq(S), t # <<>>
    PROVE  Append(s, Head(t)) \o Tail(t) = s \o t
<1> DEFINE a == Append(s, Head(t))
           b == Tail(t)
<1>1. /\ Head(t) \in S /\ Head(t) = t[1] /\ b \in Seq(S) /\ Len(b) = Len(t) - 1
      /\ \A k \in 1..Len(b) : b[k] = t[k + 1]
    BY TailIndex
<1>2. Len(s) \in Nat /\ Len(t) \in Nat \ {0} BY Zenon, LenFacts, EmptyLen
<1>3. /\ a \in Seq(S) /\ Len(a) = Len(s) + 1 /\ a[Len(s) + 1] = t[1]
      /\ \A k \in 1..Len(s) : a[k] = s[k]
    BY <1>1, AppendIndex
<1> HIDE DEF a, b
<1>4. /\ s \o t \in Seq(S) /\ Len(s \o t) = Len(s) + Len(t)
      /\ \A k \in 1..Len(s) + Len(t) : (s \o t)[k] = IF k <= Len(s) THEN s[k] ELSE t[k - Len(s)]
    BY Zenon, ConcatIndex
<1>5. /\ a \o b \in Seq(S) /\ Len(a \o b) = Len(a) + Len(b)
      /\ \A k \in 1..Len(a) + Len(b) : (a \o b)[k] = IF k <= Len(a) THEN a[k] ELSE b[k - Len(a)]
    BY Zenon, <1>1, <1>3, ConcatIndex
<1>6. ASSUME NEW k \in 1..Len(s \o t) PROVE (a \o b)[k] = (s \o t)[k]
    <2>1. CASE k <= Len(s) BY <1>1, <1>2, <1>3, <1>4, <1>5, <2>1
    <2>2. CASE k = Len(s) + 1 BY <1>1, <1>2, <1>3, <1>4, <1>5, <2>2
    <2>3. CASE k > Len(s) + 1
        <3>1. k - Len(a) \in 1..Len(b) /\ (k - Len(a)) + 1 = k - Len(s)
            BY <1>1, <1>2, <1>3, <1>4, <2>3
        <3>2. (a \o b)[k] = b[k - Len(a)] BY <1>1, <1>2, <1>3, <1>4, <1>5, <2>3
        <3>3. (s \o t)[k] = t[k - Len(s)] BY <1>2, <1>4, <2>3
        <3>4. b[k - Len(a)] = t[(k - Len(a)) + 1] BY Zenon, <1>1, <3>1
        <3> QED BY Zenon, <3>1, <3>2, <3>3, <3>4
    <2>4. k <= Len(s) \/ k = Len(s) + 1 \/ k > Len(s) + 1 BY <1>2, <1>4
    <2> QED BY Zenon, <2>1, <2>2, <2>3, <2>4
<1>7. Len(a \o b) = Len(s \o t) BY <1>1, <1>2, <1>3, <1>4, <1>5
<1>8. a \o b = s \o t BY Zenon, <1>4, <1>5, <1>6, <1>7, SameSeq
<1> QED BY Zenon, <1>8 DEF a, b

\* The front of two sequences is the front of the first.
LEMMA FrontOfTwo ==
    ASSUME NEW S, NEW s \in Seq(S), NEW t \in Seq(S), s # <<>>
    PROVE  s \o t # <<>> /\ Head(s \o t) = Head(s) /\ Tail(s \o t) = Tail(s) \o t
<1> DEFINE r == s \o t
<1>1. /\ r \in Seq(S) /\ Len(r) = Len(s) + Len(t)
      /\ \A k \in 1..Len(s) + Len(t) : r[k] = IF k <= Len(s) THEN s[k] ELSE t[k - Len(s)]
    BY Zenon, ConcatIndex
<1>2. Len(s) \in Nat \ {0} /\ Len(t) \in Nat BY Zenon, LenFacts, EmptyLen
<1>3. r # <<>> BY <1>1, <1>2
<1>4. Head(r) = r[1] /\ Head(s) = s[1] BY <1>1, <1>3, TailIndex
<1>5. r[1] = s[1] BY <1>1, <1>2
<1>6. /\ Tail(s) \in Seq(S) /\ Len(Tail(s)) = Len(s) - 1
      /\ \A k \in 1..Len(Tail(s)) : Tail(s)[k] = s[k + 1]
    BY Zenon, TailIndex
<1>7. /\ Tail(r) \in Seq(S) /\ Len(Tail(r)) = Len(r) - 1
      /\ \A k \in 1..Len(Tail(r)) : Tail(r)[k] = r[k + 1]
    BY Zenon, <1>1, <1>3, TailIndex
<1>8. /\ Tail(s) \o t \in Seq(S) /\ Len(Tail(s) \o t) = Len(Tail(s)) + Len(t)
      /\ \A k \in 1..Len(Tail(s)) + Len(t) :
            (Tail(s) \o t)[k] = IF k <= Len(Tail(s)) THEN Tail(s)[k] ELSE t[k - Len(Tail(s))]
    BY Zenon, <1>6, ConcatIndex
<1> HIDE DEF r
<1>9. ASSUME NEW k \in 1..Len(Tail(r)) PROVE Tail(r)[k] = (Tail(s) \o t)[k]
    <2>1. CASE k <= Len(s) - 1 BY <1>1, <1>2, <1>6, <1>7, <1>8, <2>1
    <2>2. CASE k > Len(s) - 1
        <3>1. k - Len(Tail(s)) = (k + 1) - Len(s) BY <1>2, <1>6, <1>7
        <3> QED BY <1>1, <1>2, <1>6, <1>7, <1>8, <2>2, <3>1
    <2> QED BY <1>1, <1>2, <1>7, <2>1, <2>2
<1>10. Len(Tail(r)) = Len(Tail(s) \o t) BY <1>1, <1>2, <1>6, <1>7, <1>8
<1>11. Tail(r) = Tail(s) \o t BY Zenon, <1>7, <1>8, <1>9, <1>10, SameSeq
<1> QED BY Zenon, <1>3, <1>4, <1>5, <1>11 DEF r

\* Appending to the second of two sequences is appending to both together.
LEMMA AppendToSecond ==
    ASSUME NEW S, NEW s \in Seq(S), NEW t \in Seq(S), NEW e \in S
    PROVE  s \o Append(t, e) = Append(s \o t, e)
<1>1. Append(t, e) = t \o <<e>> /\ Append(s \o t, e) = (s \o t) \o <<e>>
    BY Zenon, AppendConcat, ConcatIndex
<1>2. <<e>> \in Seq(S) BY Zenon, SingletonFacts
<1> QED BY <1>1, <1>2, ConcatAssoc

-----------------------------------------------------------------------------
\* What a process has sent and not lost, in the order of the ring.
Pipe(p) == ring[p] \o sq[p]
Stream(p) == got[p] \o Pipe(p)

Numbers == 1..Messages

\* The service answers what it has read, so what it sends is what it has read.
IInv ==
    /\ ring \in [Procs -> Seq(Numbers)] /\ sq \in [Procs -> Seq(Numbers)]
    /\ got \in [Procs -> Seq(Numbers)] /\ lost \in [Procs -> SUBSET Numbers]
    /\ sent \in 0..Messages
    /\ \A p \in Procs : Ascending(Stream(p))
    /\ Range(Stream("gate")) = (1..sent) \ lost["gate"] /\ lost["gate"] \subseteq 1..sent
    /\ Range(Stream("service")) \subseteq Range(got["gate"])

\* The types of the sequences.
LEMMA StreamTypes ==
    ASSUME IInv, NEW p \in Procs
    PROVE  /\ ring[p] \in Seq(Numbers) /\ sq[p] \in Seq(Numbers) /\ got[p] \in Seq(Numbers)
           /\ Pipe(p) \in Seq(Numbers) /\ Stream(p) \in Seq(Numbers)
           /\ Range(Stream(p)) = Range(got[p]) \cup Range(Pipe(p))
           /\ Range(Pipe(p)) = Range(ring[p]) \cup Range(sq[p])
<1>1. ring[p] \in Seq(Numbers) /\ sq[p] \in Seq(Numbers) /\ got[p] \in Seq(Numbers) BY Zenon DEF IInv
<1>2. Pipe(p) \in Seq(Numbers) /\ Range(Pipe(p)) = Range(ring[p]) \cup Range(sq[p])
    BY <1>1, ConcatFacts DEF Pipe
<1>3. Stream(p) \in Seq(Numbers) /\ Range(Stream(p)) = Range(got[p]) \cup Range(Pipe(p))
    BY <1>1, <1>2, ConcatFacts DEF Stream
<1> QED BY Zenon, <1>1, <1>2, <1>3

\* Sequences of message numbers are sequences of numbers.
LEMMA NumbersAreNat ==
    ASSUME NEW s \in Seq(Numbers)
    PROVE  s \in Seq(Nat)
<1>1. Numbers \subseteq Nat BY ShmSelectAssumption DEF Numbers
<1> QED BY Zenon, <1>1, WiderSeq

\* Write puts a message behind all that are under way, in the ring or the queue.
LEMMA WriteFacts ==
    ASSUME NEW p \in Procs, NEW m \in Numbers, NEW base \in [Procs -> Seq(Numbers)],
           sq \in [Procs -> Seq(Numbers)], Write(p, m, base)
    PROVE  /\ ring' \in [Procs -> Seq(Numbers)] /\ sq' \in [Procs -> Seq(Numbers)]
           /\ Pipe(p)' = Append(base[p] \o sq[p], m)
           /\ \A q \in Procs \ {p} : ring'[q] = base[q] /\ sq'[q] = sq[q]
<1>0. base[p] \in Seq(Numbers) /\ sq[p] \in Seq(Numbers) BY Zenon
<1>1. CASE sq[p] = <<>> /\ ring' = [base EXCEPT ![p] = Append(@, m)] /\ sq' = sq
    <2>1. Append(base[p], m) \in Seq(Numbers) BY <1>0
    <2>2. ring'[p] = Append(base[p], m) /\ sq'[p] = <<>> BY Zenon, <1>1
    <2>3. Append(base[p], m) \o <<>> = Append(base[p], m) /\ base[p] \o <<>> = base[p]
        BY Zenon, <1>0, <2>1, ConcatEmpty
    <2>4. Pipe(p)' = Append(base[p] \o sq[p], m) BY Zenon, <1>1, <2>2, <2>3 DEF Pipe
    <2> QED BY Zenon, <1>1, <2>1, <2>4
<1>2. CASE ring' = base /\ sq' = [sq EXCEPT ![p] = Append(@, m)]
    <2>1. Append(sq[p], m) \in Seq(Numbers) BY <1>0
    <2>2. ring'[p] = base[p] /\ sq'[p] = Append(sq[p], m) BY Zenon, <1>2
    <2>3. base[p] \o Append(sq[p], m) = Append(base[p] \o sq[p], m) BY <1>0, AppendToSecond
    <2>4. Pipe(p)' = Append(base[p] \o sq[p], m) BY Zenon, <2>2, <2>3 DEF Pipe
    <2> QED BY Zenon, <1>2, <2>1, <2>4
<1> QED BY Zenon, <1>1, <1>2 DEF Write

\* A message behind all that are under way is behind the whole stream.
LEMMA StreamAppend ==
    ASSUME IInv, NEW p \in Procs, NEW m \in Numbers
    PROVE  got[p] \o Append(Pipe(p), m) = Append(Stream(p), m)
<1>1. got[p] \in Seq(Numbers) /\ Pipe(p) \in Seq(Numbers) BY Zenon, StreamTypes
<1>2. got[p] \o Append(Pipe(p), m) = Append(got[p] \o Pipe(p), m)
    <2> DEFINE g == got[p]
               u == Pipe(p)
    <2>1. g \in Seq(Numbers) /\ u \in Seq(Numbers) BY Zenon, <1>1
    <2> HIDE DEF g, u
    <2>2. g \o Append(u, m) = Append(g \o u, m) BY <2>1, AppendToSecond
    <2> QED BY Zenon, <2>2 DEF g, u
<1> QED BY Zenon, <1>2 DEF Stream

\* A stream is what was received, then the ring, then the queue.
LEMMA StreamParts ==
    ASSUME IInv, NEW p \in Procs
    PROVE  Stream(p) = (got[p] \o ring[p]) \o sq[p]
<1> DEFINE g == got[p]
           r == ring[p]
           u == sq[p]
<1>1. g \in Seq(Numbers) /\ r \in Seq(Numbers) /\ u \in Seq(Numbers) BY Zenon, StreamTypes
<1>2. Stream(p) = g \o (r \o u) BY Zenon DEF Stream, Pipe
<1> HIDE DEF g, r, u
<1>3. (g \o r) \o u = g \o (r \o u) BY <1>1, ConcatAssoc
<1> QED BY Zenon, <1>2, <1>3 DEF g, r, u

\* The gate sends the next number.
LEMMA SendNextInv ==
    ASSUME IInv, SendNext
    PROVE  IInv'
<1> DEFINE n == sent + 1
<1>0. n \in Numbers /\ sent' = n /\ n \in 0..Messages /\ sent \in Nat /\ n \in Nat
    BY ShmSelectAssumption DEF IInv, SendNext, Numbers
<1>1. Write("gate", n, ring) /\ UNCHANGED <<got, lost>> BY Zenon DEF SendNext
<1>2. "gate" \in Procs /\ "service" \in Procs /\ "service" # "gate" BY Zenon DEF Procs
<1>3. /\ ring' \in [Procs -> Seq(Numbers)] /\ sq' \in [Procs -> Seq(Numbers)]
      /\ Pipe("gate")' = Append(Pipe("gate"), n)
      /\ ring'["service"] = ring["service"] /\ sq'["service"] = sq["service"]
    <2>1. ring \in [Procs -> Seq(Numbers)] /\ sq \in [Procs -> Seq(Numbers)] BY Zenon DEF IInv
    <2> HIDE DEF n
    <2>2. /\ ring' \in [Procs -> Seq(Numbers)] /\ sq' \in [Procs -> Seq(Numbers)]
          /\ Pipe("gate")' = Append(ring["gate"] \o sq["gate"], n)
          /\ \A q \in Procs \ {"gate"} : ring'[q] = ring[q] /\ sq'[q] = sq[q]
        BY Zenon, <1>0, <1>1, <1>2, <2>1, WriteFacts
    <2> QED BY Zenon, <1>2, <2>2 DEF Pipe
<1>a. /\ got["gate"] \in Seq(Numbers) /\ Pipe("gate") \in Seq(Numbers)
      /\ Stream("gate") \in Seq(Numbers) /\ Stream("gate") \in Seq(Nat)
    BY Zenon, <1>2, StreamTypes, NumbersAreNat
<1> HIDE DEF n
<1>4. Stream("service")' = Stream("service") BY Zenon, <1>1, <1>3 DEF Stream, Pipe
<1>5. Stream("gate")' = Append(Stream("gate"), n)
    <2>1. got["gate"] \o Append(Pipe("gate"), n) = Append(Stream("gate"), n)
        BY Zenon, <1>0, <1>2, StreamAppend
    <2> QED BY Zenon, <1>1, <1>3, <2>1 DEF Stream
<1>6. Range(Stream("gate")) \subseteq 1..sent BY Zenon DEF IInv
<1>7. \A x \in Range(Stream("gate")) : x < n BY <1>0, <1>6 DEF n
<1>8. Ascending(Stream("gate")')
    <2>1. Ascending(Stream("gate")) BY Zenon, <1>2 DEF IInv
    <2> QED BY Zenon, <1>0, <1>5, <1>7, <1>a, <2>1, AscendingAppend
<1>9. Range(Stream("gate")') = Range(Stream("gate")) \cup {n}
    <2>1. Range(Append(Stream("gate"), n)) = Range(Stream("gate")) \cup {n}
        BY <1>0, <1>a, AppendFacts
    <2> QED BY Zenon, <1>5, <2>1
<1>10. 1..n = (1..sent) \cup {n} /\ n \notin 1..sent BY <1>0 DEF n
<1>11. Range(Stream("gate")') = (1..sent') \ lost'["gate"] /\ lost'["gate"] \subseteq 1..sent'
    BY Zenon, <1>0, <1>1, <1>9, <1>10 DEF IInv
<1>12. \A p \in Procs : Ascending(Stream(p)') BY Zenon, <1>4, <1>8 DEF IInv, Procs
<1> QED BY Zenon, <1>0, <1>1, <1>3, <1>4, <1>11, <1>12 DEF IInv

\* A step that moves messages on changes no stream.
LEMMA SameStreams ==
    ASSUME IInv, ring' \in [Procs -> Seq(Numbers)], sq' \in [Procs -> Seq(Numbers)],
           got' \in [Procs -> Seq(Numbers)],
           \A p \in Procs : Stream(p)' = Stream(p), got'["gate"] = got["gate"],
           UNCHANGED <<sent, lost>>
    PROVE  IInv'
BY Zenon DEF IInv, Procs

\* auto_write and channel_write move the front of the send queue to the ring.
LEMMA RunWriterInv ==
    ASSUME IInv, NEW p \in Procs, RunWriter(p)
    PROVE  IInv'
<1>0. /\ UNCHANGED <<got, sent, lost>> /\ got \in [Procs -> Seq(Numbers)]
      /\ ring \in [Procs -> Seq(Numbers)] /\ sq \in [Procs -> Seq(Numbers)]
    BY Zenon DEF RunWriter, IInv
<1>1. CASE UNCHANGED <<ring, sq>>
    <2>1. \A q \in Procs : Stream(q)' = Stream(q) BY Zenon, <1>0, <1>1 DEF Stream, Pipe
    <2> QED BY Zenon, <1>0, <1>1, <2>1, SameStreams
<1>2. CASE /\ sq[p] # <<>> /\ ring' = [ring EXCEPT ![p] = Append(@, Head(sq[p]))]
           /\ sq' = [sq EXCEPT ![p] = Tail(@)]
    <2>1. ring[p] \in Seq(Numbers) /\ sq[p] \in Seq(Numbers) BY Zenon, <1>0
    <2>2. Head(sq[p]) \in Numbers /\ Tail(sq[p]) \in Seq(Numbers)
        BY Zenon, <1>2, <2>1, TailIndex
    <2>3. Append(ring[p], Head(sq[p])) \in Seq(Numbers) BY Zenon, <2>1, <2>2, AppendIndex
    <2>4. Append(ring[p], Head(sq[p])) \o Tail(sq[p]) = ring[p] \o sq[p]
        BY Zenon, <1>2, <2>1, MoveFront
    <2>5. ring'[p] = Append(ring[p], Head(sq[p])) /\ sq'[p] = Tail(sq[p]) BY Zenon, <1>0, <1>2
    <2>6. \A q \in Procs : q # p => ring'[q] = ring[q] /\ sq'[q] = sq[q] BY Zenon, <1>0, <1>2
    <2>7. Pipe(p)' = Pipe(p) BY Zenon, <2>4, <2>5 DEF Pipe
    <2>8. \A q \in Procs : Stream(q)' = Stream(q) BY Zenon, <1>0, <2>6, <2>7 DEF Stream, Pipe
    <2>9. ring' \in [Procs -> Seq(Numbers)] /\ sq' \in [Procs -> Seq(Numbers)]
        BY Zenon, <1>0, <1>2, <2>2, <2>3
    <2> QED BY Zenon, <1>0, <2>8, <2>9, SameStreams
<1> QED BY Zenon, <1>1, <1>2 DEF RunWriter

\* Reading the front of a ring leaves the stream as it is.
LEMMA ReadFacts ==
    ASSUME IInv, NEW p \in Procs, ring[p] # <<>>
    PROVE  /\ Head(ring[p]) \in Numbers /\ Tail(ring[p]) \in Seq(Numbers)
           /\ Append(got[p], Head(ring[p])) \in Seq(Numbers)
           /\ Append(got[p], Head(ring[p])) \o (Tail(ring[p]) \o sq[p]) = Stream(p)
           /\ Head(ring[p]) \in Range(Pipe(p))
<1>1. /\ ring[p] \in Seq(Numbers) /\ sq[p] \in Seq(Numbers) /\ got[p] \in Seq(Numbers)
      /\ Pipe(p) \in Seq(Numbers) /\ Range(Pipe(p)) = Range(ring[p]) \cup Range(sq[p])
    BY Zenon, StreamTypes
<1>2. Head(ring[p]) \in Numbers /\ Tail(ring[p]) \in Seq(Numbers) /\ Head(ring[p]) \in Range(ring[p])
    BY Zenon, <1>1, TailIndex, HeadInRange
<1>3. Append(got[p], Head(ring[p])) \in Seq(Numbers) BY Zenon, <1>1, <1>2, AppendIndex
<1>4. Pipe(p) # <<>> /\ Head(Pipe(p)) = Head(ring[p]) /\ Tail(Pipe(p)) = Tail(ring[p]) \o sq[p]
    BY Zenon, <1>1, FrontOfTwo DEF Pipe
<1>5. Append(got[p], Head(Pipe(p))) \o Tail(Pipe(p)) = got[p] \o Pipe(p)
    BY Zenon, <1>1, <1>4, MoveFront
<1> QED BY Zenon, <1>1, <1>2, <1>3, <1>4, <1>5 DEF Stream

\* The gate reads an answer.
LEMMA AutoReadInv ==
    ASSUME IInv, AutoRead
    PROVE  IInv'
<1> DEFINE p == "service"
<1>0. /\ UNCHANGED <<sq, sent, lost>> /\ ring[p] # <<>> /\ p \in Procs
      /\ ring' = [ring EXCEPT ![p] = Tail(ring[p])]
      /\ got' = [got EXCEPT ![p] = Append(got[p], Head(ring[p]))]
      /\ ring \in [Procs -> Seq(Numbers)] /\ sq \in [Procs -> Seq(Numbers)]
      /\ got \in [Procs -> Seq(Numbers)]
    BY Zenon DEF AutoRead, IInv, Procs
<1>1. /\ Tail(ring[p]) \in Seq(Numbers) /\ Append(got[p], Head(ring[p])) \in Seq(Numbers)
      /\ Append(got[p], Head(ring[p])) \o (Tail(ring[p]) \o sq[p]) = Stream(p)
    BY Zenon, <1>0, ReadFacts
<1>2. /\ ring' \in [Procs -> Seq(Numbers)] /\ got' \in [Procs -> Seq(Numbers)]
      /\ sq' \in [Procs -> Seq(Numbers)]
    BY Zenon, <1>0, <1>1
<1>3. ring'[p] = Tail(ring[p]) /\ got'[p] = Append(got[p], Head(ring[p])) BY Zenon, <1>0
<1>4. Stream(p)' = Stream(p) BY Zenon, <1>0, <1>1, <1>3 DEF Stream, Pipe
<1>5. ring'["gate"] = ring["gate"] /\ got'["gate"] = got["gate"] BY Zenon, <1>0 DEF Procs
<1>6. Stream("gate")' = Stream("gate") BY Zenon, <1>0, <1>5 DEF Stream, Pipe
<1>7. \A q \in Procs : Stream(q)' = Stream(q) BY Zenon, <1>4, <1>6 DEF Procs
<1> QED BY Zenon, <1>0, <1>2, <1>5, <1>7, SameStreams

\* The service reads a message and answers it.
LEMMA ChannelReadInv ==
    ASSUME IInv, ChannelRead
    PROVE  IInv'
<1> DEFINE m == Head(ring["gate"])
           base == [ring EXCEPT !["gate"] = Tail(@)]
<1>0. /\ UNCHANGED <<sent, lost>> /\ ring["gate"] # <<>>
      /\ got' = [got EXCEPT !["gate"] = Append(@, m)] /\ Write("service", m, base)
      /\ ring \in [Procs -> Seq(Numbers)] /\ sq \in [Procs -> Seq(Numbers)]
      /\ got \in [Procs -> Seq(Numbers)]
    BY Zenon DEF ChannelRead, IInv
<1>1. "gate" \in Procs /\ "service" \in Procs /\ "gate" # "service" BY Zenon DEF Procs
<1>2. /\ m \in Numbers /\ Tail(ring["gate"]) \in Seq(Numbers)
      /\ Append(got["gate"], m) \in Seq(Numbers) /\ m \in Range(Pipe("gate"))
      /\ Append(got["gate"], m) \o (Tail(ring["gate"]) \o sq["gate"]) = Stream("gate")
    BY Zenon, <1>0, <1>1, ReadFacts
<1>3. /\ base \in [Procs -> Seq(Numbers)] /\ base["service"] = ring["service"]
      /\ base["gate"] = Tail(ring["gate"])
    BY Zenon, <1>0, <1>1, <1>2
<1> HIDE DEF m, base
<1>4. /\ ring' \in [Procs -> Seq(Numbers)] /\ sq' \in [Procs -> Seq(Numbers)]
      /\ Pipe("service")' = Append(base["service"] \o sq["service"], m)
      /\ \A q \in Procs \ {"service"} : ring'[q] = base[q] /\ sq'[q] = sq[q]
    BY Zenon, <1>0, <1>1, <1>2, <1>3, WriteFacts
<1>5. got'["gate"] = Append(got["gate"], m) /\ got'["service"] = got["service"]
      /\ got' \in [Procs -> Seq(Numbers)]
    BY Zenon, <1>0, <1>1, <1>2
<1>6. Stream("gate")' = Stream("gate")
    BY Zenon, <1>1, <1>2, <1>3, <1>4, <1>5 DEF Stream, Pipe
<1>7. Stream("service")' = Append(Stream("service"), m)
    <2>1. got["service"] \o Append(Pipe("service"), m) = Append(Stream("service"), m)
        BY Zenon, <1>1, <1>2, StreamAppend
    <2>2. Pipe("service")' = Append(Pipe("service"), m) BY Zenon, <1>3, <1>4 DEF Pipe
    <2> QED BY Zenon, <1>5, <2>1, <2>2 DEF Stream
<1>8. \A x \in Range(got["gate"]) : x < m
    <2>1. /\ got["gate"] \in Seq(Nat) /\ Pipe("gate") \in Seq(Nat)
        BY Zenon, <1>1, StreamTypes, NumbersAreNat
    <2>2. Ascending(got["gate"] \o Pipe("gate")) BY Zenon, <1>1 DEF IInv, Stream
    <2>3. \A x \in Range(got["gate"]), y \in Range(Pipe("gate")) : x < y
        BY Zenon, <2>1, <2>2, AscendingParts
    <2> QED BY Zenon, <1>2, <2>3
<1>9. /\ Stream("service") \in Seq(Numbers) /\ Stream("service") \in Seq(Nat)
      /\ got["gate"] \in Seq(Numbers)
    BY Zenon, <1>1, StreamTypes, NumbersAreNat
<1>10. Ascending(Stream("service")')
    <2>1. \A x \in Range(Stream("service")) : x < m BY Zenon, <1>8 DEF IInv
    <2>2. m \in Nat BY <1>2, ShmSelectAssumption DEF Numbers
    <2>3. Ascending(Stream("service")) BY Zenon, <1>1 DEF IInv
    <2>4. Ascending(Append(Stream("service"), m)) BY Zenon, <1>9, <2>1, <2>2, <2>3, AscendingAppend
    <2> QED BY Zenon, <1>7, <2>4
<1>11. Range(Stream("service")') \subseteq Range(got'["gate"])
    <2>1. Range(Append(Stream("service"), m)) = Range(Stream("service")) \cup {m}
        BY <1>2, <1>9, AppendFacts
    <2>2. Range(Append(got["gate"], m)) = Range(got["gate"]) \cup {m}
        BY <1>2, <1>9, AppendFacts
    <2> QED BY Zenon, <1>5, <1>7, <2>1, <2>2 DEF IInv
<1>12. \A p \in Procs : Ascending(Stream(p)') BY Zenon, <1>6, <1>10 DEF IInv, Procs
<1> QED BY Zenon, <1>0, <1>4, <1>5, <1>6, <1>11, <1>12 DEF IInv

\* A process is killed: its send queue is lost, what is before it stays.
LEMMA RestartInv ==
    ASSUME IInv, NEW p \in Procs, Restart(p)
    PROVE  IInv'
<1>0. /\ UNCHANGED <<ring, sent, got>>
      /\ lost' = [lost EXCEPT ![p] = lost[p] \cup Range(sq[p])] /\ sq' = [sq EXCEPT ![p] = <<>>]
      /\ ring \in [Procs -> Seq(Numbers)] /\ sq \in [Procs -> Seq(Numbers)]
      /\ got \in [Procs -> Seq(Numbers)] /\ lost \in [Procs -> SUBSET Numbers]
    BY Zenon DEF Restart, IInv
<1>1. /\ ring[p] \in Seq(Numbers) /\ sq[p] \in Seq(Numbers) /\ got[p] \in Seq(Numbers)
      /\ Range(Stream(p)) = Range(got[p]) \cup Range(Pipe(p))
      /\ Range(Pipe(p)) = Range(ring[p]) \cup Range(sq[p])
    BY Zenon, StreamTypes
<1>2. Range(sq[p]) \subseteq Numbers BY Zenon, <1>1, RangeDef
<1>3. sq' \in [Procs -> Seq(Numbers)] /\ lost' \in [Procs -> SUBSET Numbers]
    BY Zenon, <1>0, <1>2, EmptyLen
<1>4. sq'[p] = <<>> /\ \A q \in Procs : q # p => sq'[q] = sq[q] /\ lost'[q] = lost[q] BY Zenon, <1>0
<1>5. \A q \in Procs : q # p => Stream(q)' = Stream(q) BY Zenon, <1>0, <1>4 DEF Stream, Pipe
<1>6. Stream(p)' = got[p] \o ring[p]
    <2>1. ring[p] \o <<>> = ring[p] BY Zenon, <1>1, ConcatEmpty
    <2> QED BY Zenon, <1>0, <1>4, <2>1 DEF Stream, Pipe
<1>7. /\ got[p] \o ring[p] \in Seq(Numbers)
      /\ Range(got[p] \o ring[p]) = Range(got[p]) \cup Range(ring[p])
    BY <1>1, ConcatFacts
<1>8. Stream(p) = (got[p] \o ring[p]) \o sq[p] BY Zenon, StreamParts
<1>9. /\ Ascending(got[p] \o ring[p])
      /\ \A x \in Range(got[p] \o ring[p]), y \in Range(sq[p]) : x < y
    <2>1. got[p] \o ring[p] \in Seq(Nat) /\ sq[p] \in Seq(Nat) BY Zenon, <1>1, <1>7, NumbersAreNat
    <2>2. Ascending((got[p] \o ring[p]) \o sq[p]) BY Zenon, <1>8 DEF IInv
    <2> QED BY Zenon, <2>1, <2>2, AscendingParts
<1>10. Range(Stream(p)') = Range(Stream(p)) \ Range(sq[p])
    <2>1. ASSUME NEW x \in Range(got[p] \o ring[p]), x \in Range(sq[p]) PROVE FALSE
        <3>1. x < x /\ x \in Nat BY <1>2, <1>9, <2>1, ShmSelectAssumption DEF Numbers
        <3> QED BY <3>1
    <2> QED BY Zenon, <1>1, <1>6, <1>7, <2>1
<1>11. \A q \in Procs : Ascending(Stream(q)') BY Zenon, <1>5, <1>6, <1>9 DEF IInv
<1>12. Range(Stream("gate")') = (1..sent) \ lost'["gate"] /\ lost'["gate"] \subseteq 1..sent
    <2>1. CASE p = "gate"
        <3>1. lost'["gate"] = lost["gate"] \cup Range(sq["gate"]) BY Zenon, <1>0, <2>1
        <3>2. Range(sq["gate"]) \subseteq 1..sent BY Zenon, <1>1, <2>1 DEF IInv
        <3> QED BY Zenon, <1>10, <2>1, <3>1, <3>2 DEF IInv
    <2>2. CASE p # "gate" BY Zenon, <1>4, <1>5, <2>2 DEF IInv, Procs
    <2> QED BY Zenon, <2>1, <2>2
<1>13. Range(Stream("service")') \subseteq Range(got["gate"])
    <2>1. CASE p = "service" BY Zenon, <1>10, <2>1 DEF IInv
    <2>2. CASE p # "service" BY Zenon, <1>5, <2>2 DEF IInv, Procs
    <2> QED BY Zenon, <2>1, <2>2
<1> QED BY Zenon, <1>0, <1>3, <1>11, <1>12, <1>13 DEF IInv

-----------------------------------------------------------------------------
\* The streams of ShmSelect stay in order, whatever the polling threads do.
THEOREM StreamInvariance == Spec => []IInv
<1>1. Init => IInv
    <2> SUFFICES ASSUME Init PROVE IInv BY Zenon
    <2>1. /\ ring \in [Procs -> Seq(Numbers)] /\ sq \in [Procs -> Seq(Numbers)]
          /\ got \in [Procs -> Seq(Numbers)] /\ lost \in [Procs -> SUBSET Numbers]
        BY Zenon, EmptyLen DEF Init
    <2>2. \A p \in Procs : ring[p] = <<>> /\ sq[p] = <<>> /\ got[p] = <<>> /\ lost[p] = {}
        BY Zenon DEF Init
    <2>3. <<>> \in Seq(Nat) /\ <<>> \o <<>> = <<>> BY Zenon, EmptyLen, ConcatEmpty
    <2>4. \A p \in Procs : Stream(p) = <<>> BY Zenon, <2>2, <2>3 DEF Stream, Pipe
    <2>5. Ascending(<<>>) /\ Range(<<>>) = {} BY EmptyFacts DEF Ascending
    <2>6. sent = 0 /\ sent \in 0..Messages /\ 1..0 = {} BY ShmSelectAssumption DEF Init
    <2> QED BY Zenon, <2>1, <2>2, <2>4, <2>5, <2>6 DEF IInv, Procs
<1>2. IInv /\ [Next]_vars => IInv'
    <2> SUFFICES ASSUME IInv, [Next]_vars PROVE IInv' BY Zenon
    <2>1. CASE UNCHANGED <<ring, sq, got, lost, sent>>
        BY Zenon, <2>1 DEF IInv, Stream, Pipe
    <2>2. CASE SendNext BY Zenon, <2>2, SendNextInv
    <2>3. ASSUME NEW p \in Procs, SchedulerStep(p) PROVE IInv'
        <3>1. CASE Resume(p) \/ ReadWait(p) BY Zenon, <2>1, <3>1 DEF Resume, ReadWait
        <3> QED BY Zenon, <2>3, <3>1, RunWriterInv, AutoReadInv, ChannelReadInv DEF SchedulerStep
    <2>4. ASSUME NEW p \in Procs, SelectStep(p) PROVE IInv'
        BY Zenon, <2>1, <2>4 DEF SelectStep, Top, Scan, Poll, Place
    <2>5. CASE UNCHANGED vars BY Zenon, <2>1, <2>5 DEF vars
    <2> QED BY Zenon, <2>2, <2>3, <2>4, <2>5, RestartInv DEF Next
<1> QED BY <1>1, <1>2, PTL DEF Spec

\* For every number of messages and restarts and every size of the rings, write,
\* the coroutine that empties the send queue and the restarts of a process keep
\* messages in the order they were sent and lose none but a dead sender's queue.
THEOREM StreamsInOrder == Spec => []SentInOrder
<1>1. IInv => SentInOrder
    <2> SUFFICES ASSUME IInv, NEW p \in Procs
                 PROVE  /\ \A k \in 1..Len((got[p] \o ring[p]) \o sq[p]) - 1 :
                             ((got[p] \o ring[p]) \o sq[p])[k] < ((got[p] \o ring[p]) \o sq[p])[k + 1]
                        /\ p = "gate" => Range((got[p] \o ring[p]) \o sq[p]) = (1..sent) \ lost[p]
        BY Zenon DEF SentInOrder
    <2> DEFINE s == Stream(p)
    <2>1. s = (got[p] \o ring[p]) \o sq[p] BY Zenon, StreamParts
    <2>2. s \in Seq(Numbers) /\ Len(s) \in Nat BY Zenon, StreamTypes, LenFacts
    <2>3. \A j, k \in 1..Len(s) : j < k => s[j] < s[k] BY Zenon DEF IInv, Ascending
    <2>4. p = "gate" => Range(s) = (1..sent) \ lost[p] BY Zenon DEF IInv
    <2> HIDE DEF s
    <2>5. \A k \in 1..Len(s) - 1 : s[k] < s[k + 1]
        <3> TAKE k \in 1..Len(s) - 1
        <3>1. k \in 1..Len(s) /\ k + 1 \in 1..Len(s) /\ k < k + 1 BY <2>2
        <3> QED BY Zenon, <2>3, <3>1
    <2> QED BY Zenon, <2>1, <2>4, <2>5
<1> QED BY <1>1, StreamInvariance, PTL

-----------------------------------------------------------------------------
(* Who waits for a ring.                                                   *)

Entries == [who : Who, size : Prefix..Size]

Names(s) == {s[k].who : k \in 1..Len(s)}
Distinct(s) == \A j, k \in 1..Len(s) : s[j].who = s[k].who => j = k

\* The coroutines that are suspended and not for a condition variable.
Waiting(p) == Who \ ({sched[p]} \cup (IF wpc[p] = "cv" THEN {"writer"} ELSE {}))

\* Each coroutine of W has one entry in one of the queues q, t and l of the
\* polling thread, or one wake-up in d, and nobody else has any.
Tickets(q, t, l, d, W) ==
    /\ q \in Seq(Entries) /\ t \in Seq(Entries) /\ l \in Seq(Entries) /\ d \in Seq(Who)
    /\ Distinct(q) /\ Distinct(t) /\ Distinct(l) /\ IsInjective(d)
    /\ Names(q) \cap Names(t) = {} /\ Names(q) \cap Names(l) = {} /\ Names(t) \cap Names(l) = {}
    /\ (Names(q) \cup Names(t) \cup Names(l)) \cap Range(d) = {}
    /\ Names(q) \cup Names(t) \cup Names(l) \cup Range(d) = W

\* The indices of a scan: no gap so far, or write_index is behind i.
Bounded(s, a, b) == a \in 1..Len(s) + 1 /\ b \in 1..Len(s) + 1 /\ (b < a \/ b = Len(s) + 1)

Tracked(p) ==
    /\ Tickets(queue[p], temp[p], Live(p), posted[p], Waiting(p))
    /\ sched[p] = "writer" => wpc[p] = "run"
    /\ sched[p] = "reader" => rpc[p] = "run"
    /\ spc[p] # "place" => temp[p] = <<>>
    /\ spc[p] = "scan" => Bounded(select[p], i[p], wi[p])
    /\ spc[p] = "asleep" => queue[p] = <<>>

WInv ==
    /\ queue \in [Procs -> Seq(Entries)] /\ temp \in [Procs -> Seq(Entries)]
    /\ select \in [Procs -> Seq(Entries)] /\ posted \in [Procs -> Seq(Who)]
    /\ wpc \in [Procs -> {"run", "cv", "wait"}] /\ rpc \in [Procs -> {"run", "wait"}]
    /\ sched \in [Procs -> Who \cup {"idle"}]
    /\ spc \in [Procs -> {"top", "asleep", "scan", "place"}]
    /\ i \in [Procs -> Nat] /\ wi \in [Procs -> Nat] /\ restarts \in 0..MaxRestarts
    /\ \A p \in Procs : Tracked(p)

\* Entries are told apart by who waits.
LEMMA NamesAppend ==
    ASSUME NEW s \in Seq(Entries), NEW e \in Entries
    PROVE  /\ Append(s, e) \in Seq(Entries) /\ Names(Append(s, e)) = Names(s) \cup {e.who}
           /\ Distinct(s) /\ e.who \notin Names(s) => Distinct(Append(s, e))
<1> DEFINE r == Append(s, e)
<1>1. /\ r \in Seq(Entries) /\ Len(r) = Len(s) + 1 /\ Len(s) \in Nat
      /\ r[Len(s) + 1] = e /\ \A k \in 1..Len(s) : r[k] = s[k]
    BY AppendIndex, LenFacts
<1> HIDE DEF r
<1>2. 1..Len(r) = (1..Len(s)) \cup {Len(s) + 1} BY <1>1
<1>3. Names(r) = Names(s) \cup {e.who} BY <1>1, <1>2 DEF Names
<1>4. ASSUME Distinct(s), e.who \notin Names(s) PROVE Distinct(r)
    BY ZenonT(30), <1>1, <1>2, <1>4 DEF Distinct, Names
<1> QED BY Zenon, <1>1, <1>3, <1>4 DEF r

\* The first entry is taken out.
LEMMA NamesTail ==
    ASSUME NEW s \in Seq(Entries), s # <<>>, Distinct(s)
    PROVE  /\ Tail(s) \in Seq(Entries) /\ Head(s) \in Entries
           /\ Names(Tail(s)) = Names(s) \ {Head(s).who} /\ Distinct(Tail(s))
           /\ Head(s).who \in Names(s)
<1> DEFINE r == Tail(s)
<1>1. /\ r \in Seq(Entries) /\ Head(s) \in Entries /\ Len(r) = Len(s) - 1 /\ Len(s) \in Nat \ {0}
      /\ \A k \in 1..Len(r) : r[k] = s[k + 1]
    BY Zenon, TailIndex, EmptyLen
<1>2. Head(s) = s[1] OBVIOUS
<1> HIDE DEF r
<1>3. \A k \in 1..Len(r) : k + 1 \in 1..Len(s) /\ k + 1 # 1 BY <1>1
<1>4. \A k \in 1..Len(s) : k = 1 \/ (k - 1 \in 1..Len(r) /\ r[k - 1] = s[k]) BY <1>1
<1>5. 1 \in 1..Len(s) BY <1>1
<1>6. Names(r) = Names(s) \ {s[1].who}
    <2>1. ASSUME NEW k \in 1..Len(r) PROVE r[k].who \in Names(s) \ {s[1].who}
        <3>1. k + 1 \in 1..Len(s) /\ k + 1 # 1 /\ r[k] = s[k + 1] BY Zenon, <1>1, <1>3
        <3> QED BY Zenon, <1>5, <3>1 DEF Names, Distinct
    <2>2. ASSUME NEW k \in 1..Len(s), s[k].who # s[1].who PROVE s[k].who \in Names(r)
        <3>1. k - 1 \in 1..Len(r) /\ r[k - 1] = s[k] BY Zenon, <1>4, <2>2
        <3> QED BY Zenon, <3>1 DEF Names
    <2> QED BY Zenon, <2>1, <2>2 DEF Names
<1>7. Distinct(r)
    <2>1. ASSUME NEW j \in 1..Len(r), NEW k \in 1..Len(r), r[j].who = r[k].who PROVE j = k
        <3>1. j + 1 = k + 1 BY ZenonT(30), <1>1, <1>3, <2>1 DEF Distinct
        <3> QED BY <1>1, <3>1
    <2> QED BY Zenon, <2>1 DEF Distinct
<1> QED BY Zenon, <1>1, <1>2, <1>5, <1>6, <1>7 DEF r, Names

\* No entries.
LEMMA NamesEmpty == <<>> \in Seq(Entries) /\ Names(<<>>) = {} /\ Distinct(<<>>)
<1>1. <<>> \in Seq(Entries) /\ Len(<<>>) = 0 /\ 1..0 = {} BY EmptyLen
<1> QED BY Zenon, <1>1 DEF Names, Distinct

\* Two queues one behind the other.
LEMMA NamesConcat ==
    ASSUME NEW s \in Seq(Entries), NEW t \in Seq(Entries)
    PROVE  /\ s \o t \in Seq(Entries) /\ Names(s \o t) = Names(s) \cup Names(t)
           /\ Distinct(s) /\ Distinct(t) /\ Names(s) \cap Names(t) = {} => Distinct(s \o t)
<1> DEFINE r == s \o t
<1>1. /\ r \in Seq(Entries) /\ Len(r) = Len(s) + Len(t) /\ Len(s) \in Nat /\ Len(t) \in Nat
      /\ \A k \in 1..Len(s) + Len(t) : r[k] = IF k <= Len(s) THEN s[k] ELSE t[k - Len(s)]
    BY Zenon, ConcatIndex, LenFacts
<1> HIDE DEF r
<1>2. \A k \in 1..Len(s) : k \in 1..Len(r) /\ r[k] = s[k] BY <1>1
<1>3. \A k \in 1..Len(t) : Len(s) + k \in 1..Len(r) /\ r[Len(s) + k] = t[k]
    <2> TAKE k \in 1..Len(t)
    <2>1. /\ Len(s) + k \in 1..Len(s) + Len(t) /\ ~(Len(s) + k <= Len(s))
          /\ (Len(s) + k) - Len(s) = k
        BY <1>1
    <2> QED BY Zenon, <1>1, <2>1
<1>4. \A k \in 1..Len(r) : \/ k \in 1..Len(s) /\ r[k] = s[k]
                           \/ k - Len(s) \in 1..Len(t) /\ r[k] = t[k - Len(s)]
    BY <1>1
<1>5. Names(r) = Names(s) \cup Names(t)
    <2>1. ASSUME NEW k \in 1..Len(r) PROVE r[k].who \in Names(s) \cup Names(t)
        BY Zenon, <1>4 DEF Names
    <2>2. ASSUME NEW k \in 1..Len(s) PROVE s[k].who \in Names(r) BY Zenon, <1>2 DEF Names
    <2>3. ASSUME NEW k \in 1..Len(t) PROVE t[k].who \in Names(r) BY Zenon, <1>3 DEF Names
    <2> QED BY Zenon, <2>1, <2>2, <2>3 DEF Names
<1>6. ASSUME Distinct(s), Distinct(t), Names(s) \cap Names(t) = {} PROVE Distinct(r)
    <2>1. ASSUME NEW j \in 1..Len(r), NEW k \in 1..Len(r), r[j].who = r[k].who PROVE j = k
        <3>1. \/ j \in 1..Len(s) /\ k \in 1..Len(s) /\ s[j].who = s[k].who
              \/ /\ j - Len(s) \in 1..Len(t) /\ k - Len(s) \in 1..Len(t)
                 /\ t[j - Len(s)].who = t[k - Len(s)].who
            <4>1. \A x \in 1..Len(s) : s[x].who \in Names(s) BY Zenon DEF Names
            <4>2. \A x \in 1..Len(t) : t[x].who \in Names(t) BY Zenon DEF Names
            <4> QED BY Zenon, <1>4, <1>6, <2>1, <4>1, <4>2
        <3>2. j = k \/ j - Len(s) = k - Len(s) BY Zenon, <1>6, <3>1 DEF Distinct
        <3> QED BY <1>1, <3>2
    <2> QED BY Zenon, <2>1 DEF Distinct
<1> QED BY Zenon, <1>1, <1>5, <1>6 DEF r

\* The indices before m and those from n on.
Kept(s, m, n) == (1..m - 1) \cup (n..Len(s))

\* What is left of a queue when the entries between are taken out.
LEMMA NamesLeft ==
    ASSUME NEW s \in Seq(Entries), NEW m \in 1..Len(s) + 1, NEW n \in 1..Len(s) + 1, m <= n
    PROVE  /\ SubSeq(s, 1, m - 1) \o SubSeq(s, n, Len(s)) \in Seq(Entries)
           /\ Names(SubSeq(s, 1, m - 1) \o SubSeq(s, n, Len(s))) = {s[k].who : k \in Kept(s, m, n)}
           /\ Distinct(SubSeq(s, 1, m - 1) \o SubSeq(s, n, Len(s)))
                <=> \A j, k \in Kept(s, m, n) : s[j].who = s[k].who => j = k
<1>0. PICK K : K = Kept(s, m, n) /\ K = (1..m - 1) \cup (n..Len(s)) BY Zenon DEF Kept
<1> DEFINE a == SubSeq(s, 1, m - 1)
           b == SubSeq(s, n, Len(s))
           r == a \o b
<1>1. Len(s) \in Nat /\ \A k \in 1..Len(s) : s[k] \in Entries BY Zenon, LenFacts, ElementFacts
<1>2. m \in Nat /\ n \in Nat /\ m - 1 \in Int BY <1>1
<1>3. /\ a \in Seq(Entries) /\ Len(a) = m - 1 /\ \A k \in 1..m - 1 : a[k] = s[k]
    <2>1. \A k \in 1..m - 1 : s[k] \in Entries BY <1>1
    <2>2. /\ a \in Seq(Entries) /\ Len(a) = IF 1 <= m - 1 THEN (m - 1) - 1 + 1 ELSE 0
          /\ \A k \in 1..(m - 1) - 1 + 1 : a[k] = s[1 + k - 1]
        BY <1>2, <2>1, SubSeqIndex
    <2> HIDE DEF a
    <2> QED BY <1>1, <2>2
<1>4. /\ b \in Seq(Entries) /\ Len(b) = Len(s) + 1 - n
      /\ \A k \in 1..Len(s) + 1 - n : b[k] = s[k + n - 1]
    <2>1. \A k \in n..Len(s) : s[k] \in Entries BY <1>1
    <2>2. /\ b \in Seq(Entries) /\ Len(b) = IF n <= Len(s) THEN Len(s) - n + 1 ELSE 0
          /\ \A k \in 1..Len(s) - n + 1 : b[k] = s[n + k - 1]
        BY <1>1, <1>2, <2>1, SubSeqIndex
    <2> HIDE DEF b
    <2> QED BY <1>1, <2>2
<1> HIDE DEF a, b
<1>5. /\ r \in Seq(Entries) /\ Len(r) = Len(a) + Len(b)
      /\ \A k \in 1..Len(a) + Len(b) : r[k] = IF k <= Len(a) THEN a[k] ELSE b[k - Len(a)]
    BY Zenon, <1>3, <1>4, ConcatIndex
<1> HIDE DEF r
<1>6. \A k \in 1..Len(r) : IF k < m THEN k \in K /\ r[k] = s[k]
                           ELSE k - m + n \in K /\ r[k] = s[k - m + n]
    BY SMTT(30), <1>0, <1>1, <1>3, <1>4, <1>5
<1>7. \A k \in K : IF k < m THEN k \in 1..Len(r) /\ r[k] = s[k]
                   ELSE k - n + m \in 1..Len(r) /\ r[k - n + m] = s[k] /\ k >= n
    BY SMTT(30), <1>0, <1>1, <1>3, <1>4, <1>5
<1>8. Names(r) = {s[k].who : k \in K}
    <2>1. ASSUME NEW k \in 1..Len(r) PROVE r[k].who \in {s[x].who : x \in K}
        BY Zenon, <1>6
    <2>2. ASSUME NEW k \in K PROVE s[k].who \in Names(r) BY Zenon, <1>7 DEF Names
    <2> QED BY Zenon, <2>1, <2>2 DEF Names
<1>9. ASSUME Distinct(r), NEW j \in K, NEW k \in K, s[j].who = s[k].who PROVE j = k
    <2>1. PICK x \in 1..Len(r), y \in 1..Len(r) :
            /\ r[x] = s[j] /\ r[y] = s[k]
            /\ x = IF j < m THEN j ELSE j - n + m
            /\ y = IF k < m THEN k ELSE k - n + m
        BY Zenon, <1>7
    <2>2. x = y BY Zenon, <1>9, <2>1 DEF Distinct
    <2>3. (j < m \/ j >= n) /\ (k < m \/ k >= n) /\ j \in Nat /\ k \in Nat BY <1>0, <1>1
    <2> QED BY <1>2, <2>1, <2>2, <2>3
<1>10. ASSUME \A j, k \in K : s[j].who = s[k].who => j = k,
              NEW j \in 1..Len(r), NEW k \in 1..Len(r), r[j].who = r[k].who
       PROVE  j = k
    <2>1. PICK x \in K, y \in K :
            /\ r[j] = s[x] /\ r[k] = s[y]
            /\ x = IF j < m THEN j ELSE j - m + n
            /\ y = IF k < m THEN k ELSE k - m + n
        BY Zenon, <1>6
    <2>2. x = y BY Zenon, <1>10, <2>1
    <2> QED BY <1>2, <2>1, <2>2
<1>11. Distinct(r) <=> \A j, k \in K : s[j].who = s[k].who => j = k
    BY Zenon, <1>9, <1>10 DEF Distinct
<1> QED BY Zenon, <1>0, <1>5, <1>8, <1>11 DEF a, b, r

-----------------------------------------------------------------------------
(* How a ticket moves.                                                     *)

\* A coroutine queues itself.
LEMMA TicketQueue ==
    ASSUME NEW q, NEW t, NEW l, NEW d, NEW W, Tickets(q, t, l, d, W),
           NEW e \in Entries, e.who \notin W
    PROVE  Tickets(Append(q, e), t, l, d, W \cup {e.who})
<1>1. /\ Append(q, e) \in Seq(Entries) /\ Names(Append(q, e)) = Names(q) \cup {e.who}
      /\ Distinct(q) /\ e.who \notin Names(q) => Distinct(Append(q, e))
    BY Zenon, NamesAppend DEF Tickets
<1> QED BY Zenon, <1>1 DEF Tickets

\* A coroutine that waited elsewhere gets a wake-up.
LEMMA TicketPost ==
    ASSUME NEW q, NEW t, NEW l, NEW d, NEW W, Tickets(q, t, l, d, W),
           NEW w \in Who, w \notin W
    PROVE  Tickets(q, t, l, Append(d, w), W \cup {w})
<1>1. /\ Append(d, w) \in Seq(Who) /\ Range(Append(d, w)) = Range(d) \cup {w}
      /\ IsInjective(d) /\ w \notin Range(d) => IsInjective(Append(d, w))
    BY Zenon, AppendFacts DEF Tickets
<1> QED BY Zenon, <1>1 DEF Tickets

\* The scheduler uses a wake-up.
LEMMA TicketResume ==
    ASSUME NEW q, NEW t, NEW l, NEW d, NEW W, Tickets(q, t, l, d, W), d # <<>>
    PROVE  Tickets(q, t, l, Tail(d), W \ {Head(d)}) /\ Head(d) \in Who
<1>1. /\ Tail(d) \in Seq(Who) /\ Range(Tail(d)) = Range(d) \ {Head(d)} /\ IsInjective(Tail(d))
      /\ Head(d) \in Range(d) /\ Head(d) \in Who
    BY Zenon, TailFacts, HeadInRange DEF Tickets
<1> QED BY Zenon, <1>1 DEF Tickets

\* The polling thread takes the queue over.
LEMMA TicketTake ==
    ASSUME NEW q, NEW l, NEW d, NEW W, Tickets(q, <<>>, l, d, W)
    PROVE  Tickets(<<>>, q, l, d, W)
BY Zenon, NamesEmpty DEF Tickets

\* Entries of select_ are moved down, none of them is lost.
LEMMA TicketKeep ==
    ASSUME NEW q, NEW t, NEW l, NEW d, NEW W, Tickets(q, t, l, d, W),
           NEW k \in Seq(Entries), Distinct(k), Names(k) = Names(l)
    PROVE  Tickets(q, t, k, d, W)
BY Zenon DEF Tickets

\* An entry of select_ becomes a wake-up.
LEMMA TicketWake ==
    ASSUME NEW q, NEW t, NEW l, NEW d, NEW W, Tickets(q, t, l, d, W),
           NEW w \in Names(l), NEW k \in Seq(Entries), Distinct(k), Names(k) = Names(l) \ {w},
           w \in Who
    PROVE  Tickets(q, t, k, Append(d, w), W)
<1>1. /\ Append(d, w) \in Seq(Who) /\ Range(Append(d, w)) = Range(d) \cup {w}
      /\ IsInjective(d) /\ w \notin Range(d) => IsInjective(Append(d, w))
    BY Zenon, AppendFacts DEF Tickets
<1> QED BY Zenon, <1>1 DEF Tickets

\* A new entry is kept, or becomes a wake-up at once.
LEMMA TicketPlace ==
    ASSUME NEW q, NEW t, NEW l, NEW d, NEW W, Tickets(q, t, l, d, W), t # <<>>
    PROVE  /\ Tickets(q, Tail(t), Append(l, Head(t)), d, W)
           /\ Tickets(q, Tail(t), l, Append(d, Head(t).who), W)
           /\ Head(t) \in Entries
<1>1. /\ Tail(t) \in Seq(Entries) /\ Head(t) \in Entries
      /\ Names(Tail(t)) = Names(t) \ {Head(t).who} /\ Distinct(Tail(t))
      /\ Head(t).who \in Names(t)
    BY Zenon, NamesTail DEF Tickets
<1>2. Head(t).who \in Who BY Zenon, <1>1 DEF Entries
<1>3. /\ Append(l, Head(t)) \in Seq(Entries)
      /\ Names(Append(l, Head(t))) = Names(l) \cup {Head(t).who}
      /\ Distinct(l) /\ Head(t).who \notin Names(l) => Distinct(Append(l, Head(t)))
    BY Zenon, <1>1, NamesAppend DEF Tickets
<1>4. /\ Append(d, Head(t).who) \in Seq(Who)
      /\ Range(Append(d, Head(t).who)) = Range(d) \cup {Head(t).who}
      /\ IsInjective(d) /\ Head(t).who \notin Range(d) => IsInjective(Append(d, Head(t).who))
    BY Zenon, <1>2, AppendFacts DEF Tickets
<1>5. Tickets(q, Tail(t), Append(l, Head(t)), d, W) BY Zenon, <1>1, <1>3 DEF Tickets
<1>6. Tickets(q, Tail(t), l, Append(d, Head(t).who), W) BY Zenon, <1>1, <1>4 DEF Tickets
<1> QED BY Zenon, <1>1, <1>5, <1>6

-----------------------------------------------------------------------------
(* The steps.                                                              *)

\* What a process owns.
Own(p) == <<queue[p], temp[p], select[p], posted[p], wpc[p], rpc[p], sched[p], spc[p], i[p], wi[p]>>

\* A process is tracked as long as nothing of it changes.
LEMMA OwnKept ==
    ASSUME NEW p, Tracked(p), Own(p)' = Own(p)
    PROVE  Tracked(p)'
<1>1. /\ queue'[p] = queue[p] /\ temp'[p] = temp[p] /\ select'[p] = select[p]
      /\ posted'[p] = posted[p] /\ wpc'[p] = wpc[p] /\ rpc'[p] = rpc[p] /\ sched'[p] = sched[p]
      /\ spc'[p] = spc[p] /\ i'[p] = i[p] /\ wi'[p] = wi[p]
    BY Zenon DEF Own
<1>2. Live(p)' = Live(p) /\ Waiting(p)' = Waiting(p) BY Zenon, <1>1 DEF Live, Waiting
<1> QED BY Zenon, <1>1, <1>2 DEF Tracked

\* write posts the coroutine that waits for a message to send.
LEMMA WriteTracked ==
    ASSUME WInv, NEW p \in Procs, NEW m, NEW base, Write(p, m, base),
           UNCHANGED <<rpc, sched, queue, thread, restarts>>
    PROVE  WInv'
<1>1. /\ UNCHANGED <<rpc, sched, queue, select, temp, spc, i, wi, restarts>>
      /\ posted \in [Procs -> Seq(Who)] /\ wpc \in [Procs -> {"run", "cv", "wait"}]
      /\ Tracked(p)
    BY Zenon DEF WInv, thread
<1>2. CASE UNCHANGED <<posted, wpc>>
    <2>1. \A q \in Procs : Own(q)' = Own(q) BY Zenon, <1>1, <1>2 DEF Own
    <2> QED BY Zenon, <1>1, <1>2, <2>1, OwnKept DEF WInv
<1>3. CASE /\ wpc[p] = "cv" /\ wpc' = [wpc EXCEPT ![p] = "run"]
           /\ posted' = [posted EXCEPT ![p] = Append(@, "writer")]
    <2>1. wpc' \in [Procs -> {"run", "cv", "wait"}] /\ wpc'[p] = "run" BY Zenon, <1>1, <1>3
    <2>2. posted'[p] = Append(posted[p], "writer") BY Zenon, <1>1, <1>3
    <2>3. "writer" \in Who /\ "writer" \notin Waiting(p) BY Zenon, <1>3 DEF Who, Waiting
    <2>4. Waiting(p)' = Waiting(p) \cup {"writer"}
        BY Zenon, <1>1, <1>3, <2>1 DEF Waiting, Who, Tracked
    <2>5. Tickets(queue[p], temp[p], Live(p), posted'[p], Waiting(p)')
        <3>1. Tickets(queue[p], temp[p], Live(p), posted[p], Waiting(p)) BY Zenon, <1>1 DEF Tracked
        <3>2. Tickets(queue[p], temp[p], Live(p), Append(posted[p], "writer"),
                      Waiting(p) \cup {"writer"})
            BY Zenon, <2>3, <3>1, TicketPost
        <3> QED BY Zenon, <2>2, <2>4, <3>2
    <2>6. Live(p)' = Live(p) BY Zenon, <1>1 DEF Live
    <2>7. Tracked(p)' BY Zenon, <1>1, <2>1, <2>5, <2>6 DEF Tracked
    <2>8. ASSUME NEW q \in Procs, q # p PROVE Tracked(q)'
        <3>1. Own(q)' = Own(q) BY Zenon, <1>1, <1>3, <2>8 DEF Own
        <3> QED BY Zenon, <3>1, OwnKept DEF WInv
    <2>9. posted' \in [Procs -> Seq(Who)]
        <3>1. posted'[p] \in Seq(Who) BY Zenon, <2>5 DEF Tickets
        <3> QED BY Zenon, <1>1, <1>3, <2>2, <3>1
    <2> QED BY Zenon, <1>1, <2>1, <2>7, <2>8, <2>9 DEF WInv
<1>4. wpc' = [wpc EXCEPT ![p] = @] => wpc' = wpc BY Zenon, <1>1
<1> QED BY Zenon, <1>1, <1>2, <1>3, <1>4 DEF Write

\* The scheduler resumes a coroutine.
LEMMA ResumeTracked ==
    ASSUME WInv, NEW p \in Procs, Resume(p)
    PROVE  WInv'
<1> DEFINE w == Head(posted[p])
<1>1. /\ sched[p] = "idle" /\ posted[p] # <<>> /\ sched' = [sched EXCEPT ![p] = w]
      /\ posted' = [posted EXCEPT ![p] = Tail(posted[p])]
      /\ wpc' = IF w = "writer" THEN [wpc EXCEPT ![p] = "run"] ELSE wpc
      /\ rpc' = IF w = "reader" THEN [rpc EXCEPT ![p] = "run"] ELSE rpc
      /\ UNCHANGED <<queue, select, temp, spc, i, wi, restarts>>
    BY Zenon DEF Resume, thread
<1>2. /\ posted \in [Procs -> Seq(Who)] /\ wpc \in [Procs -> {"run", "cv", "wait"}]
      /\ rpc \in [Procs -> {"run", "wait"}] /\ sched \in [Procs -> Who \cup {"idle"}]
      /\ Tracked(p)
    BY Zenon DEF WInv
<1>3. /\ Tickets(queue[p], temp[p], Live(p), Tail(posted[p]), Waiting(p) \ {w}) /\ w \in Who
    BY Zenon, <1>1, <1>2, TicketResume DEF Tracked
<1> HIDE DEF w
<1>4. /\ sched' \in [Procs -> Who \cup {"idle"}] /\ wpc' \in [Procs -> {"run", "cv", "wait"}]
      /\ rpc' \in [Procs -> {"run", "wait"}] /\ sched'[p] = w /\ posted'[p] = Tail(posted[p])
      /\ w = "writer" => wpc'[p] = "run"
      /\ w # "writer" => wpc'[p] = wpc[p]
      /\ w = "reader" => rpc'[p] = "run"
      /\ posted' \in [Procs -> Seq(Who)]
    <2>1. Tail(posted[p]) \in Seq(Who) BY Zenon, <1>3 DEF Tickets
    <2> QED BY Zenon, <1>1, <1>2, <1>3, <2>1
<1>5. Waiting(p)' = Waiting(p) \ {w} BY Zenon, <1>1, <1>2, <1>3, <1>4 DEF Waiting, Who
<1>6. Live(p)' = Live(p) BY Zenon, <1>1 DEF Live
<1>7. Tracked(p)' BY Zenon, <1>1, <1>2, <1>3, <1>4, <1>5, <1>6 DEF Tracked
<1>8. ASSUME NEW q \in Procs, q # p PROVE Tracked(q)'
    <2>1. /\ posted'[q] = posted[q] /\ sched'[q] = sched[q] /\ wpc'[q] = wpc[q]
          /\ rpc'[q] = rpc[q]
        BY Zenon, <1>1, <1>2, <1>8
    <2>2. Own(q)' = Own(q) BY Zenon, <1>1, <2>1 DEF Own
    <2> QED BY Zenon, <2>2, OwnKept DEF WInv
<1> QED BY Zenon, <1>1, <1>4, <1>7, <1>8 DEF WInv

\* shm_channel_select::wait: a coroutine that runs queues itself and is suspended.
LEMMA WaitTracked ==
    ASSUME WInv, NEW p \in Procs, NEW who \in Who, NEW size \in Prefix..Size,
           sched[p] = who, Wait(p, who, size), who = "writer" => wpc[p] # "cv",
           wpc' \in [Procs -> {"run", "cv", "wait"}], rpc' \in [Procs -> {"run", "wait"}],
           wpc'[p] = "cv" <=> wpc[p] = "cv",
           \A q \in Procs \ {p} : wpc'[q] = wpc[q] /\ rpc'[q] = rpc[q],
           UNCHANGED <<posted, select, temp, i, wi, restarts>>
    PROVE  WInv'
<1> DEFINE e == Entry(who, size)
<1>1. /\ queue' = [queue EXCEPT ![p] = Append(queue[p], e)]
      /\ spc' = [spc EXCEPT ![p] = IF spc[p] = "asleep" THEN "top" ELSE spc[p]]
      /\ sched' = [sched EXCEPT ![p] = "idle"]
    BY Zenon DEF Wait
<1>2. /\ queue \in [Procs -> Seq(Entries)] /\ Tracked(p)
      /\ sched \in [Procs -> Who \cup {"idle"}]
      /\ spc \in [Procs -> {"top", "asleep", "scan", "place"}]
    BY Zenon DEF WInv
<1>3. e \in Entries /\ e.who = who BY Zenon DEF Entry, Entries
<1>4. who \notin Waiting(p) BY Zenon DEF Waiting
<1> HIDE DEF e
<1>5. Tickets(Append(queue[p], e), temp[p], Live(p), posted[p], Waiting(p) \cup {who})
    <2>1. Tickets(queue[p], temp[p], Live(p), posted[p], Waiting(p)) BY Zenon, <1>2 DEF Tracked
    <2>2. Tickets(Append(queue[p], e), temp[p], Live(p), posted[p], Waiting(p) \cup {e.who})
        BY Zenon, <1>3, <1>4, <2>1, TicketQueue
    <2> QED BY Zenon, <1>3, <2>2
<1>6. /\ queue'[p] = Append(queue[p], e) /\ sched'[p] = "idle"
      /\ spc'[p] = IF spc[p] = "asleep" THEN "top" ELSE spc[p]
    BY Zenon, <1>1, <1>2
<1>7. /\ queue' \in [Procs -> Seq(Entries)] /\ sched' \in [Procs -> Who \cup {"idle"}]
      /\ spc' \in [Procs -> {"top", "asleep", "scan", "place"}]
    <2>1. Append(queue[p], e) \in Seq(Entries) BY Zenon, <1>5 DEF Tickets
    <2> QED BY Zenon, <1>1, <1>2, <2>1
<1>8. Waiting(p)' = Waiting(p) \cup {who} BY Zenon, <1>6 DEF Waiting, Who
<1>9. Live(p)' = Live(p) BY Zenon, <1>6 DEF Live
<1>10. Tracked(p)' BY Zenon, <1>2, <1>5, <1>6, <1>8, <1>9 DEF Tracked, Who
<1>11. ASSUME NEW q \in Procs, q # p PROVE Tracked(q)'
    <2>1. queue'[q] = queue[q] /\ sched'[q] = sched[q] /\ spc'[q] = spc[q]
          /\ wpc'[q] = wpc[q] /\ rpc'[q] = rpc[q]
        BY Zenon, <1>1, <1>2, <1>11
    <2>2. Own(q)' = Own(q) BY Zenon, <2>1 DEF Own
    <2> QED BY Zenon, <2>2, OwnKept DEF WInv
<1> QED BY Zenon, <1>7, <1>10, <1>11 DEF WInv

\* The coroutine that empties the send queue.
LEMMA RunWriterTracked ==
    ASSUME IInv, WInv, NEW p \in Procs, RunWriter(p)
    PROVE  WInv'
<1>1. /\ sched[p] = "writer" /\ UNCHANGED <<rpc, posted, select, temp, i, wi, restarts>>
      /\ Tracked(p) /\ wpc \in [Procs -> {"run", "cv", "wait"}] /\ wpc[p] = "run"
      /\ rpc \in [Procs -> {"run", "wait"}] /\ sched \in [Procs -> Who \cup {"idle"}]
    BY Zenon DEF RunWriter, WInv, Tracked
<1>2. CASE /\ wpc' = [wpc EXCEPT ![p] = "cv"] /\ sched' = [sched EXCEPT ![p] = "idle"]
           /\ UNCHANGED <<queue, spc>>
    <2>1. /\ wpc' \in [Procs -> {"run", "cv", "wait"}] /\ sched' \in [Procs -> Who \cup {"idle"}]
          /\ wpc'[p] = "cv" /\ sched'[p] = "idle"
        BY Zenon, <1>1, <1>2
    <2>2. Waiting(p)' = Waiting(p) BY Zenon, <1>1, <2>1 DEF Waiting, Who
    <2>3. Live(p)' = Live(p) BY Zenon, <1>1, <1>2 DEF Live
    <2>4. Tracked(p)' BY Zenon, <1>1, <1>2, <2>1, <2>2, <2>3 DEF Tracked
    <2>5. ASSUME NEW q \in Procs, q # p PROVE Tracked(q)'
        <3>1. wpc'[q] = wpc[q] /\ sched'[q] = sched[q] BY Zenon, <1>1, <1>2, <2>5
        <3>2. Own(q)' = Own(q) BY Zenon, <1>1, <1>2, <3>1 DEF Own
        <3> QED BY Zenon, <3>2, OwnKept DEF WInv
    <2> QED BY Zenon, <1>1, <1>2, <2>1, <2>4, <2>5 DEF WInv
<1>3. CASE UNCHANGED <<wpc, sched, queue, spc>>
    <2>1. \A q \in Procs : Own(q)' = Own(q) BY Zenon, <1>1, <1>3 DEF Own
    <2> QED BY Zenon, <1>1, <1>3, <2>1, OwnKept DEF WInv
<1>4. CASE /\ sq[p] # <<>> /\ wpc' = [wpc EXCEPT ![p] = "wait"]
           /\ Wait(p, "writer", Cost[p][Head(sq[p])])
    <2>1. Head(sq[p]) \in Numbers
        <3>1. sq[p] \in Seq(Numbers) BY Zenon DEF IInv
        <3> QED BY Zenon, <1>4, <3>1, TailIndex
    <2>2. Cost[p][Head(sq[p])] \in Prefix..Size
        BY Zenon, <2>1, ShmSelectAssumption DEF Procs, Numbers
    <2>3. /\ wpc' \in [Procs -> {"run", "cv", "wait"}] /\ wpc'[p] = "wait"
          /\ \A q \in Procs \ {p} : wpc'[q] = wpc[q]
        BY Zenon, <1>1, <1>4
    <2>4. "writer" \in Who /\ wpc[p] # "cv" /\ (wpc'[p] = "cv" <=> wpc[p] = "cv") BY Zenon, <1>1, <2>3 DEF Who
    <2> QED BY Zenon, <1>1, <1>4, <2>2, <2>3, <2>4, WaitTracked
<1> QED BY Zenon, <1>1, <1>2, <1>3, <1>4 DEF RunWriter

\* The coroutine that reads finds nothing; its process runs the reader.
LEMMA ReadWaitTracked ==
    ASSUME WInv, NEW p \in Procs, ReadWait(p)
    PROVE  WInv'
<1>1. /\ sched[p] = "reader" /\ UNCHANGED <<wpc, posted, select, temp, i, wi, restarts>>
      /\ rpc' = [rpc EXCEPT ![p] = "wait"] /\ Wait(p, "reader", Prefix)
      /\ wpc \in [Procs -> {"run", "cv", "wait"}] /\ rpc \in [Procs -> {"run", "wait"}]
      /\ queue \in [Procs -> Seq(Entries)] /\ Tracked(p)
      /\ sched \in [Procs -> Who \cup {"idle"}]
      /\ spc \in [Procs -> {"top", "asleep", "scan", "place"}]
    BY Zenon DEF ReadWait, WInv
<1>2. Prefix \in Prefix..Size BY ShmSelectAssumption
<1>3. rpc' \in [Procs -> {"run", "wait"}] /\ \A q \in Procs \ {p} : rpc'[q] = rpc[q] BY Zenon, <1>1
<1>4. "reader" \in Who /\ "reader" # "writer" BY Zenon DEF Who
<1> QED BY Zenon, <1>1, <1>2, <1>3, <1>4, WaitTracked

\* What is left of select_ in a scan: what was kept, and what is not looked at.
Edge(a, b) == IF b < a THEN b ELSE a
Rest(s, a, b) == SubSeq(s, 1, Edge(a, b) - 1) \o SubSeq(s, a, Len(s))

\* By index.
LEMMA RestFacts ==
    ASSUME NEW s \in Seq(Entries), NEW a, NEW b, Bounded(s, a, b)
    PROVE  /\ Rest(s, a, b) \in Seq(Entries)
           /\ Names(Rest(s, a, b)) = {s[k].who : k \in Kept(s, Edge(a, b), a)}
           /\ Distinct(Rest(s, a, b))
                <=> \A j, k \in Kept(s, Edge(a, b), a) : s[j].who = s[k].who => j = k
           /\ Kept(s, Edge(a, b), a) \subseteq 1..Len(s)
<1>1. Len(s) \in Nat BY Zenon, LenFacts
<1>2. a \in 1..Len(s) + 1 /\ Edge(a, b) \in 1..Len(s) + 1 /\ Edge(a, b) <= a
    BY <1>1 DEF Bounded, Edge
<1>3. Kept(s, Edge(a, b), a) \subseteq 1..Len(s) BY <1>1, <1>2 DEF Kept
<1> QED BY Zenon, <1>2, <1>3, NamesLeft DEF Rest

\* A scan finds an entry ready: there is a gap from here on, if there was none.
LEMMA ScanWakes ==
    ASSUME NEW s \in Seq(Entries), NEW a \in 1..Len(s), NEW b, Bounded(s, a, b),
           Distinct(Rest(s, a, b)), NEW c, c = IF b = Len(s) + 1 THEN a ELSE b
    PROVE  /\ Bounded(s, a + 1, c) /\ Rest(s, a + 1, c) \in Seq(Entries)
           /\ Distinct(Rest(s, a + 1, c))
           /\ Names(Rest(s, a + 1, c)) = Names(Rest(s, a, b)) \ {s[a].who}
           /\ s[a].who \in Names(Rest(s, a, b)) /\ s[a].who \in Who
<1>1. Len(s) \in Nat /\ s[a] \in Entries BY Zenon, LenFacts, ElementFacts
<1>2. Bounded(s, a + 1, c) BY <1>1 DEF Bounded
<1>3. Edge(a + 1, c) = Edge(a, b) /\ Edge(a, b) <= a /\ Edge(a, b) \in Nat BY <1>1 DEF Bounded, Edge
<1>4. PICK K : K = Kept(s, Edge(a, b), a) BY Zenon
<1>5. PICK J : J = Kept(s, Edge(a + 1, c), a + 1) BY Zenon
<1>6. a \in K /\ J = K \ {a} BY <1>1, <1>3, <1>4, <1>5 DEF Kept
<1>7. /\ Names(Rest(s, a, b)) = {s[k].who : k \in K}
      /\ \A j, k \in K : s[j].who = s[k].who => j = k
    BY Zenon, <1>4, RestFacts
<1>8. /\ Rest(s, a + 1, c) \in Seq(Entries) /\ Names(Rest(s, a + 1, c)) = {s[k].who : k \in J}
      /\ Distinct(Rest(s, a + 1, c)) <=> \A j, k \in J : s[j].who = s[k].who => j = k
    BY Zenon, <1>2, <1>5, RestFacts
<1>9. Distinct(Rest(s, a + 1, c)) BY Zenon, <1>6, <1>7, <1>8
<1>10. Names(Rest(s, a + 1, c)) = Names(Rest(s, a, b)) \ {s[a].who}
    <2>1. ASSUME NEW k \in J PROVE s[k].who # s[a].who BY Zenon, <1>6, <1>7
    <2>2. ASSUME NEW k \in K, k # a PROVE k \in J BY Zenon, <1>6, <2>2
    <2> QED BY <1>6, <1>7, <1>8, <2>1, <2>2
<1>11. s[a].who \in Names(Rest(s, a, b)) BY Zenon, <1>6, <1>7
<1>12. s[a].who \in Who BY Zenon, <1>1 DEF Entries
<1> QED BY Zenon, <1>2, <1>8, <1>9, <1>10, <1>11, <1>12

\* A scan keeps an entry: it fills the gap, which moves on.
LEMMA ScanFills ==
    ASSUME NEW s \in Seq(Entries), NEW a \in 1..Len(s), NEW b, Bounded(s, a, b), b <= Len(s),
           Distinct(Rest(s, a, b)), NEW r \in Seq(Entries), Len(r) = Len(s), r[b] = s[a],
           \A k \in 1..Len(s) : k # b => r[k] = s[k]
    PROVE  /\ Bounded(r, a + 1, b + 1) /\ Rest(r, a + 1, b + 1) \in Seq(Entries)
           /\ Distinct(Rest(r, a + 1, b + 1)) /\ Names(Rest(r, a + 1, b + 1)) = Names(Rest(s, a, b))
<1>1. Len(s) \in Nat BY Zenon, LenFacts
<1>2. PICK K : K = Kept(s, Edge(a, b), a) BY Zenon
<1>3. /\ Names(Rest(s, a, b)) = {s[k].who : k \in K} /\ K \subseteq 1..Len(s)
      /\ \A j, k \in K : s[j].who = s[k].who => j = k
    BY Zenon, <1>2, RestFacts
<1>4. Bounded(r, a + 1, b + 1) BY <1>1 DEF Bounded
<1>5. PICK J : J = Kept(r, Edge(a + 1, b + 1), a + 1) BY Zenon
<1>6. /\ Rest(r, a + 1, b + 1) \in Seq(Entries)
      /\ Names(Rest(r, a + 1, b + 1)) = {r[k].who : k \in J}
      /\ Distinct(Rest(r, a + 1, b + 1)) <=> \A j, k \in J : r[j].who = r[k].who => j = k
    BY Zenon, <1>4, <1>5, RestFacts
<1>7. b < a /\ b \in 1..Len(s) /\ Edge(a, b) = b /\ Edge(a + 1, b + 1) = b + 1
    BY <1>1 DEF Bounded, Edge
<1>8. J = (K \ {a}) \cup {b} /\ a \in K /\ b \notin K BY <1>1, <1>2, <1>5, <1>7 DEF Kept
<1>9. \A k \in K : r[k] = s[k] BY Zenon, <1>3, <1>8
<1>10. {r[k].who : k \in J} = {s[k].who : k \in K} BY Zenon, <1>8, <1>9
<1>11. ASSUME NEW j \in J, NEW k \in J, r[j].who = r[k].who PROVE j = k
    <2>1. PICK x \in K : r[j].who = s[x].who /\ x = IF j = b THEN a ELSE j BY Zenon, <1>8, <1>9
    <2>2. PICK y \in K : r[k].who = s[y].who /\ y = IF k = b THEN a ELSE k BY Zenon, <1>8, <1>9
    <2>3. x = y BY ZenonT(30), <1>3, <1>11, <2>1, <2>2
    <2> QED BY <1>8, <2>1, <2>2, <2>3
<1> QED BY Zenon, <1>3, <1>4, <1>6, <1>10, <1>11

\* Without a gap nothing moves.
LEMMA ScanPasses ==
    ASSUME NEW s \in Seq(Entries), NEW a \in 1..Len(s), NEW b, b = Len(s) + 1
    PROVE  Bounded(s, a + 1, b) /\ Kept(s, Edge(a + 1, b), a + 1) = Kept(s, Edge(a, b), a)
<1>1. Len(s) \in Nat BY Zenon, LenFacts
<1>2. Edge(a, b) = a /\ Edge(a + 1, b) = a + 1 BY <1>1 DEF Edge
<1> QED BY <1>1, <1>2 DEF Kept, Bounded

\* A scan begins with everything and ends with what it has kept.
LEMMA ScanEnds ==
    ASSUME NEW s \in Seq(Entries)
    PROVE  /\ Bounded(s, 1, Len(s) + 1) /\ Rest(s, 1, Len(s) + 1) \in Seq(Entries)
           /\ Distinct(s) => Distinct(Rest(s, 1, Len(s) + 1))
           /\ Names(Rest(s, 1, Len(s) + 1)) = Names(s)
           /\ \A a, b : Bounded(s, a, b) /\ a > Len(s)
                => SubSeq(s, 1, b - 1) = Rest(s, a, b) /\ Rest(s, a, b) \in Seq(Entries)
<1>1. Len(s) \in Nat BY Zenon, LenFacts
<1>2. Bounded(s, 1, Len(s) + 1) BY <1>1 DEF Bounded
<1>3. Edge(1, Len(s) + 1) = 1 BY <1>1 DEF Edge
<1>4. Kept(s, Edge(1, Len(s) + 1), 1) = 1..Len(s) BY <1>1, <1>3 DEF Kept
<1>5. /\ Rest(s, 1, Len(s) + 1) \in Seq(Entries)
      /\ Names(Rest(s, 1, Len(s) + 1)) = {s[k].who : k \in 1..Len(s)}
      /\ Distinct(Rest(s, 1, Len(s) + 1)) <=> \A j, k \in 1..Len(s) : s[j].who = s[k].who => j = k
    BY Zenon, <1>2, <1>4, RestFacts
<1>6. ASSUME NEW a, NEW b, Bounded(s, a, b), a > Len(s)
      PROVE  SubSeq(s, 1, b - 1) = Rest(s, a, b) /\ Rest(s, a, b) \in Seq(Entries)
    <2>1. a = Len(s) + 1 /\ Edge(a, b) = b /\ b \in 1..Len(s) + 1
        BY <1>1, <1>6 DEF Bounded, Edge
    <2>2. SubSeq(s, a, Len(s)) = <<>> BY <1>1, <2>1
    <2>3. SubSeq(s, 1, b - 1) \in Seq(Entries)
        <3>1. \A k \in 1..b - 1 : s[k] \in Entries
            <4>1. \A k \in 1..b - 1 : k \in 1..Len(s) BY <1>1, <2>1
            <4> QED BY Zenon, <4>1, ElementFacts
        <3>2. 1 \in Int /\ b - 1 \in Int BY <1>1, <2>1
        <3> QED BY Zenon, <3>1, <3>2, SubSeqIndex
    <2>4. SubSeq(s, 1, b - 1) \o <<>> = SubSeq(s, 1, b - 1) BY Zenon, <2>3, ConcatEmpty
    <2> QED BY Zenon, <2>1, <2>2, <2>3, <2>4 DEF Rest
<1> QED BY Zenon, <1>2, <1>5, <1>6 DEF Names, Distinct

\* A step of the polling thread of p that leaves every coroutine where it is.
LEMMA SelectTracked ==
    ASSUME WInv, NEW p \in Procs, UNCHANGED <<wpc, rpc, sched, restarts>>,
           queue' \in [Procs -> Seq(Entries)], temp' \in [Procs -> Seq(Entries)],
           select' \in [Procs -> Seq(Entries)], posted' \in [Procs -> Seq(Who)],
           spc' \in [Procs -> {"top", "asleep", "scan", "place"}],
           i' \in [Procs -> Nat], wi' \in [Procs -> Nat],
           \A q \in Procs \ {p} :
                /\ queue'[q] = queue[q] /\ temp'[q] = temp[q] /\ select'[q] = select[q]
                /\ posted'[q] = posted[q] /\ spc'[q] = spc[q] /\ i'[q] = i[q] /\ wi'[q] = wi[q],
           Tickets(queue'[p], temp'[p], Live(p)', posted'[p], Waiting(p)),
           spc'[p] # "place" => temp'[p] = <<>>,
           spc'[p] = "scan" => Bounded(select'[p], i'[p], wi'[p]),
           spc'[p] = "asleep" => queue'[p] = <<>>
    PROVE  WInv'
<1>1. Waiting(p)' = Waiting(p) BY Zenon DEF Waiting
<1>2. Tracked(p)' BY Zenon, <1>1 DEF Tracked, WInv
<1>3. ASSUME NEW q \in Procs, q # p PROVE Tracked(q)'
    <2>1. Own(q)' = Own(q) BY Zenon, <1>3 DEF Own
    <2> QED BY Zenon, <2>1, OwnKept DEF WInv
<1> QED BY Zenon, <1>2, <1>3 DEF WInv

\* The types the steps of the polling thread start from.
LEMMA SelectTypes ==
    ASSUME WInv, NEW p \in Procs
    PROVE  /\ queue \in [Procs -> Seq(Entries)] /\ temp \in [Procs -> Seq(Entries)]
           /\ select \in [Procs -> Seq(Entries)] /\ posted \in [Procs -> Seq(Who)]
           /\ spc \in [Procs -> {"top", "asleep", "scan", "place"}]
           /\ i \in [Procs -> Nat] /\ wi \in [Procs -> Nat]
           /\ Tickets(queue[p], temp[p], Live(p), posted[p], Waiting(p))
           /\ spc[p] # "place" => temp[p] = <<>>
           /\ spc[p] = "scan" => Bounded(select[p], i[p], wi[p])
           /\ spc[p] # "scan" => Live(p) = select[p]
           /\ spc[p] = "scan" => Live(p) = Rest(select[p], i[p], wi[p])
           /\ select[p] \in Seq(Entries) /\ Len(select[p]) \in Nat
           /\ <<>> \in Seq(Entries)
<1>1. Tracked(p) /\ select[p] \in Seq(Entries) BY Zenon DEF WInv
<1>2. Len(select[p]) \in Nat /\ <<>> \in Seq(Entries) BY Zenon, <1>1, LenFacts, EmptyLen
<1>3. /\ spc[p] # "scan" => Live(p) = select[p]
      /\ spc[p] = "scan" => Live(p) = Rest(select[p], i[p], wi[p])
    BY Zenon DEF Live, Rest, Edge
<1> QED BY Zenon, <1>1, <1>2, <1>3 DEF WInv, Tracked

\* The head of the loop.
LEMMA TopTracked ==
    ASSUME WInv, NEW p \in Procs, Top(p)
    PROVE  WInv'
<1>1. /\ spc[p] = "top" /\ UNCHANGED <<wpc, rpc, sched, restarts, posted, select>>
    BY Zenon DEF Top, coro
<1>2. /\ queue \in [Procs -> Seq(Entries)] /\ temp \in [Procs -> Seq(Entries)]
      /\ select \in [Procs -> Seq(Entries)] /\ posted \in [Procs -> Seq(Who)]
      /\ spc \in [Procs -> {"top", "asleep", "scan", "place"}]
      /\ i \in [Procs -> Nat] /\ wi \in [Procs -> Nat]
      /\ Tickets(queue[p], <<>>, select[p], posted[p], Waiting(p)) /\ temp[p] = <<>>
      /\ select[p] \in Seq(Entries) /\ Len(select[p]) \in Nat /\ <<>> \in Seq(Entries)
    BY Zenon, <1>1, SelectTypes
<1>3. CASE /\ queue[p] = <<>> /\ spc' = [spc EXCEPT ![p] = "asleep"]
           /\ UNCHANGED <<queue, temp, i, wi>>
    <2>1. /\ spc' \in [Procs -> {"top", "asleep", "scan", "place"}] /\ spc'[p] = "asleep"
          /\ \A q \in Procs \ {p} : spc'[q] = spc[q]
        BY Zenon, <1>2, <1>3
    <2>2. Live(p)' = select[p] BY Zenon, <1>1, <2>1 DEF Live
    <2> QED BY Zenon, <1>1, <1>2, <1>3, <2>1, <2>2, SelectTracked
<1>4. CASE /\ temp' = [temp EXCEPT ![p] = queue[p]] /\ queue' = [queue EXCEPT ![p] = <<>>]
           /\ spc' = [spc EXCEPT ![p] = "place"] /\ UNCHANGED <<i, wi>>
    <2>1. /\ spc' \in [Procs -> {"top", "asleep", "scan", "place"}] /\ spc'[p] = "place"
          /\ queue' \in [Procs -> Seq(Entries)] /\ temp' \in [Procs -> Seq(Entries)]
          /\ queue'[p] = <<>> /\ temp'[p] = queue[p]
          /\ \A q \in Procs \ {p} : spc'[q] = spc[q] /\ queue'[q] = queue[q] /\ temp'[q] = temp[q]
        BY Zenon, <1>2, <1>4
    <2>2. Live(p)' = select[p] BY Zenon, <1>1, <2>1 DEF Live
    <2>3. Tickets(<<>>, queue[p], select[p], posted[p], Waiting(p)) BY Zenon, <1>2, TicketTake
    <2>4. Tickets(queue'[p], temp'[p], Live(p)', posted'[p], Waiting(p))
        BY Zenon, <1>1, <2>1, <2>2, <2>3
    <2>5. spc'[p] # "scan" /\ spc'[p] # "asleep" BY Zenon, <2>1
    <2> QED BY Zenon, <1>1, <1>2, <1>4, <2>1, <2>4, <2>5, SelectTracked
<1>5. CASE /\ i' = [i EXCEPT ![p] = 1] /\ wi' = [wi EXCEPT ![p] = Len(select[p]) + 1]
           /\ spc' = [spc EXCEPT ![p] = "scan"] /\ UNCHANGED <<queue, temp>>
    <2>1. 1 \in Nat /\ Len(select[p]) + 1 \in Nat BY <1>2
    <2>2. /\ spc' \in [Procs -> {"top", "asleep", "scan", "place"}] /\ spc'[p] = "scan"
          /\ i' \in [Procs -> Nat] /\ wi' \in [Procs -> Nat]
          /\ i'[p] = 1 /\ wi'[p] = Len(select[p]) + 1
          /\ \A q \in Procs \ {p} : spc'[q] = spc[q] /\ i'[q] = i[q] /\ wi'[q] = wi[q]
        BY Zenon, <1>2, <1>5, <2>1
    <2>3. Live(p)' = Rest(select[p], 1, Len(select[p]) + 1)
        BY Zenon, <1>1, <2>2 DEF Live, Rest, Edge
    <2>4. Tickets(queue[p], <<>>, Rest(select[p], 1, Len(select[p]) + 1), posted[p], Waiting(p))
        <3>1. Distinct(select[p]) BY Zenon, <1>2 DEF Tickets
        <3> QED BY Zenon, <1>2, <3>1, ScanEnds, TicketKeep
    <2>5. Bounded(select[p], 1, Len(select[p]) + 1) BY Zenon, <1>2, ScanEnds
    <2>6. Tickets(queue'[p], temp'[p], Live(p)', posted'[p], Waiting(p))
        BY Zenon, <1>1, <1>2, <1>5, <2>3, <2>4
    <2>7. Bounded(select'[p], i'[p], wi'[p]) /\ temp'[p] = <<>> /\ spc'[p] # "asleep"
        BY Zenon, <1>1, <1>2, <1>5, <2>2, <2>5
    <2> QED BY Zenon, <1>1, <1>2, <1>5, <2>2, <2>6, <2>7, SelectTracked
<1> QED BY Zenon, <1>3, <1>4, <1>5 DEF Top

\* One entry of select_.
LEMMA ScanTracked ==
    ASSUME WInv, NEW p \in Procs, Scan(p)
    PROVE  WInv'
<1>1. PICK s \in Seq(Entries), a \in Nat, b \in Nat : s = select[p] /\ a = i[p] /\ b = wi[p]
    BY Zenon DEF WInv
<1>2. /\ spc[p] = "scan" /\ a <= Len(s) /\ i' = [i EXCEPT ![p] = a + 1]
      /\ UNCHANGED <<wpc, rpc, sched, restarts, queue, temp, spc>>
    BY Zenon, <1>1 DEF Scan
<1>3. /\ queue \in [Procs -> Seq(Entries)] /\ temp \in [Procs -> Seq(Entries)]
      /\ select \in [Procs -> Seq(Entries)] /\ posted \in [Procs -> Seq(Who)]
      /\ spc \in [Procs -> {"top", "asleep", "scan", "place"}]
      /\ i \in [Procs -> Nat] /\ wi \in [Procs -> Nat]
      /\ Tickets(queue[p], temp[p], Rest(s, a, b), posted[p], Waiting(p)) /\ temp[p] = <<>>
      /\ Bounded(s, a, b) /\ Len(s) \in Nat
    BY Zenon, <1>1, <1>2, SelectTypes
<1>4. Distinct(Rest(s, a, b)) BY Zenon, <1>3 DEF Tickets
<1>5. a \in 1..Len(s) /\ a + 1 \in Nat BY <1>2, <1>3 DEF Bounded
<1>6. i' \in [Procs -> Nat] /\ i'[p] = a + 1 /\ \A q \in Procs \ {p} : i'[q] = i[q]
    BY Zenon, <1>2, <1>3, <1>5
<1>7. Live(p)' = Rest(select'[p], a + 1, wi'[p]) BY Zenon, <1>2, <1>6 DEF Live, Rest, Edge
<1>8. ASSUME select' = select, SetResult(p, s[a]),
             wi' = [wi EXCEPT ![p] = IF wi[p] = Len(s) + 1 THEN a ELSE wi[p]]
      PROVE  WInv'
    <2>1. PICK c \in Nat : c = (IF b = Len(s) + 1 THEN a ELSE b) BY Zenon
    <2>2. /\ wi' \in [Procs -> Nat] /\ wi'[p] = c /\ \A q \in Procs \ {p} : wi'[q] = wi[q]
        BY Zenon, <1>1, <1>3, <1>8, <2>1
    <2>3. /\ Bounded(s, a + 1, c) /\ Rest(s, a + 1, c) \in Seq(Entries)
          /\ Distinct(Rest(s, a + 1, c))
          /\ Names(Rest(s, a + 1, c)) = Names(Rest(s, a, b)) \ {s[a].who}
          /\ s[a].who \in Names(Rest(s, a, b)) /\ s[a].who \in Who
        BY Zenon, <1>3, <1>4, <1>5, <2>1, ScanWakes
    <2>4. posted' = [posted EXCEPT ![p] = Append(posted[p], s[a].who)] BY Zenon, <1>8 DEF SetResult
    <2>5. Tickets(queue[p], temp[p], Rest(s, a + 1, c), Append(posted[p], s[a].who), Waiting(p))
        BY Zenon, <1>3, <2>3, TicketWake
    <2>6. /\ posted' \in [Procs -> Seq(Who)] /\ posted'[p] = Append(posted[p], s[a].who)
          /\ \A q \in Procs \ {p} : posted'[q] = posted[q]
        <3>1. Append(posted[p], s[a].who) \in Seq(Who) BY Zenon, <2>5 DEF Tickets
        <3> QED BY Zenon, <1>3, <2>4, <3>1
    <2>7. Live(p)' = Rest(s, a + 1, c) BY Zenon, <1>1, <1>7, <1>8, <2>2
    <2>8. Tickets(queue'[p], temp'[p], Live(p)', posted'[p], Waiting(p))
        BY Zenon, <1>2, <2>5, <2>6, <2>7
    <2>9. Bounded(select'[p], i'[p], wi'[p]) /\ temp'[p] = <<>>
        BY Zenon, <1>1, <1>2, <1>3, <1>6, <1>8, <2>2, <2>3
    <2> QED BY Zenon, <1>2, <1>3, <1>6, <1>8, <2>2, <2>6, <2>8, <2>9, SelectTracked
<1>9. ASSUME b <= Len(s), select' = [select EXCEPT ![p][b] = s[a]], posted' = posted,
             wi' = [wi EXCEPT ![p] = b + 1]
      PROVE  WInv'
    <2>1. b \in 1..Len(s) /\ b + 1 \in Nat BY <1>3, <1>9 DEF Bounded
    <2>2. PICK r : r = [s EXCEPT ![b] = s[a]] BY Zenon
    <2>3. /\ r \in Seq(Entries) /\ Len(r) = Len(s) /\ r[b] = s[a]
          /\ \A k \in 1..Len(s) : k # b => r[k] = s[k]
        <3>1. DOMAIN s = 1..Len(s) /\ s \in [1..Len(s) -> Entries] /\ s[a] \in Entries
            BY Zenon, <1>5, LenFacts, ElementFacts
        <3>2. /\ r \in [1..Len(s) -> Entries] /\ r[b] = s[a]
              /\ \A k \in 1..Len(s) : k # b => r[k] = s[k]
            BY Zenon, <2>1, <2>2, <3>1
        <3>3. Len(s) \in Nat BY Zenon, LenFacts
        <3>4. r \in Seq(Entries) /\ Len(r) = Len(s) BY <3>2, <3>3
        <3> QED BY Zenon, <3>2, <3>4
    <2>4. /\ wi' \in [Procs -> Nat] /\ wi'[p] = b + 1 /\ \A q \in Procs \ {p} : wi'[q] = wi[q]
        BY Zenon, <1>3, <1>9, <2>1
    <2>5. /\ select' \in [Procs -> Seq(Entries)] /\ select'[p] = r
          /\ \A q \in Procs \ {p} : select'[q] = select[q]
        BY Zenon, <1>1, <1>3, <1>9, <2>2, <2>3
    <2>6. /\ Bounded(r, a + 1, b + 1) /\ Rest(r, a + 1, b + 1) \in Seq(Entries)
          /\ Distinct(Rest(r, a + 1, b + 1))
          /\ Names(Rest(r, a + 1, b + 1)) = Names(Rest(s, a, b))
        <3>1. Bounded(s, a, b) /\ b <= Len(s) BY Zenon, <1>3, <1>9
        <3> QED BY ZenonT(30), <1>4, <1>5, <2>3, <3>1, ScanFills
    <2>7. Tickets(queue[p], temp[p], Rest(r, a + 1, b + 1), posted[p], Waiting(p))
        BY Zenon, <1>3, <2>6, TicketKeep
    <2>8. Live(p)' = Rest(r, a + 1, b + 1) BY Zenon, <1>7, <2>4, <2>5
    <2>9. Tickets(queue'[p], temp'[p], Live(p)', posted'[p], Waiting(p))
        BY Zenon, <1>2, <1>9, <2>7, <2>8
    <2>10. Bounded(select'[p], i'[p], wi'[p]) /\ temp'[p] = <<>>
        BY Zenon, <1>2, <1>3, <1>6, <2>4, <2>5, <2>6
    <2> QED BY Zenon, <1>2, <1>3, <1>6, <1>9, <2>4, <2>5, <2>9, <2>10, SelectTracked
<1>10. ASSUME ~(b <= Len(s)), select' = select, posted' = posted, wi' = wi
       PROVE  WInv'
    <2>1. b = Len(s) + 1 BY <1>3, <1>10 DEF Bounded
    <2>2. Bounded(s, a + 1, b) /\ Kept(s, Edge(a + 1, b), a + 1) = Kept(s, Edge(a, b), a)
        BY Zenon, <1>5, <2>1, ScanPasses
    <2>3. /\ Names(Rest(s, a, b)) = {s[k].who : k \in Kept(s, Edge(a, b), a)}
          /\ \A j, k \in Kept(s, Edge(a, b), a) : s[j].who = s[k].who => j = k
        BY Zenon, <1>3, <1>4, RestFacts
    <2>4. /\ Rest(s, a + 1, b) \in Seq(Entries)
          /\ Names(Rest(s, a + 1, b)) = {s[k].who : k \in Kept(s, Edge(a + 1, b), a + 1)}
          /\ Distinct(Rest(s, a + 1, b))
               <=> \A j, k \in Kept(s, Edge(a + 1, b), a + 1) : s[j].who = s[k].who => j = k
        BY Zenon, <2>2, RestFacts
    <2>5. Distinct(Rest(s, a + 1, b)) /\ Names(Rest(s, a + 1, b)) = Names(Rest(s, a, b))
        BY Zenon, <2>2, <2>3, <2>4
    <2>6. Tickets(queue[p], temp[p], Rest(s, a + 1, b), posted[p], Waiting(p))
        BY Zenon, <1>3, <2>4, <2>5, TicketKeep
    <2>7. Live(p)' = Rest(s, a + 1, b) BY Zenon, <1>1, <1>7, <1>10
    <2>8. Tickets(queue'[p], temp'[p], Live(p)', posted'[p], Waiting(p))
        BY Zenon, <1>2, <1>10, <2>6, <2>7
    <2>9. Bounded(select'[p], i'[p], wi'[p]) /\ temp'[p] = <<>>
        BY Zenon, <1>1, <1>2, <1>3, <1>6, <1>10, <2>2
    <2> QED BY Zenon, <1>2, <1>3, <1>6, <1>10, <2>8, <2>9, SelectTracked
<1>11. wi' = [wi EXCEPT ![p] = wi[p]] => wi' = wi BY Zenon, <1>3
<1> QED BY Zenon, <1>1, <1>8, <1>9, <1>10, <1>11 DEF Scan

\* The end of a scan.
LEMMA PollTracked ==
    ASSUME WInv, NEW p \in Procs, Poll(p)
    PROVE  WInv'
<1>1. PICK s \in Seq(Entries), a \in Nat, b \in Nat : s = select[p] /\ a = i[p] /\ b = wi[p]
    BY Zenon DEF WInv
<1>2. /\ spc[p] = "scan" /\ a > Len(s)
      /\ select' = [select EXCEPT ![p] = SubSeq(s, 1, b - 1)]
      /\ temp' = [temp EXCEPT ![p] = queue[p]] /\ queue' = [queue EXCEPT ![p] = <<>>]
      /\ spc' = [spc EXCEPT ![p] = "place"]
      /\ i' = [i EXCEPT ![p] = 0] /\ wi' = [wi EXCEPT ![p] = 0]
      /\ UNCHANGED <<wpc, rpc, sched, posted, restarts>>
    BY Zenon, <1>1 DEF Poll, coro
<1>3. /\ queue \in [Procs -> Seq(Entries)] /\ temp \in [Procs -> Seq(Entries)]
      /\ select \in [Procs -> Seq(Entries)] /\ posted \in [Procs -> Seq(Who)]
      /\ spc \in [Procs -> {"top", "asleep", "scan", "place"}]
      /\ i \in [Procs -> Nat] /\ wi \in [Procs -> Nat]
      /\ Tickets(queue[p], temp[p], Rest(s, a, b), posted[p], Waiting(p)) /\ temp[p] = <<>>
      /\ Bounded(s, a, b) /\ <<>> \in Seq(Entries)
    BY Zenon, <1>1, <1>2, SelectTypes
<1>4. SubSeq(s, 1, b - 1) = Rest(s, a, b) /\ Rest(s, a, b) \in Seq(Entries)
    BY Zenon, <1>2, <1>3, ScanEnds
<1>5. Tickets(<<>>, queue[p], Rest(s, a, b), posted[p], Waiting(p))
    BY Zenon, <1>3, TicketTake
<1>6. /\ queue' \in [Procs -> Seq(Entries)] /\ temp' \in [Procs -> Seq(Entries)]
      /\ select' \in [Procs -> Seq(Entries)]
      /\ queue'[p] = <<>> /\ temp'[p] = queue[p] /\ select'[p] = Rest(s, a, b)
      /\ \A q \in Procs \ {p} :
            queue'[q] = queue[q] /\ temp'[q] = temp[q] /\ select'[q] = select[q]
    BY Zenon, <1>2, <1>3, <1>4
<1>7. 0 \in Nat BY SMT
<1>8. /\ spc' \in [Procs -> {"top", "asleep", "scan", "place"}] /\ spc'[p] = "place"
      /\ i' \in [Procs -> Nat] /\ wi' \in [Procs -> Nat]
      /\ \A q \in Procs \ {p} : spc'[q] = spc[q] /\ i'[q] = i[q] /\ wi'[q] = wi[q]
    BY Zenon, <1>2, <1>3, <1>7
<1>9. Live(p)' = Rest(s, a, b) BY Zenon, <1>6, <1>8 DEF Live
<1>10. Tickets(queue'[p], temp'[p], Live(p)', posted'[p], Waiting(p))
    BY Zenon, <1>2, <1>5, <1>6, <1>9
<1>11. spc'[p] # "scan" /\ spc'[p] # "asleep" BY Zenon, <1>8
<1> QED BY Zenon, <1>2, <1>3, <1>6, <1>8, <1>10, <1>11, SelectTracked

\* One new entry.
LEMMA PlaceTracked ==
    ASSUME WInv, NEW p \in Procs, Place(p)
    PROVE  WInv'
<1>1. /\ spc[p] = "place" /\ UNCHANGED <<wpc, rpc, sched, queue, i, wi, restarts>>
    BY Zenon DEF Place
<1>2. /\ queue \in [Procs -> Seq(Entries)] /\ temp \in [Procs -> Seq(Entries)]
      /\ select \in [Procs -> Seq(Entries)] /\ posted \in [Procs -> Seq(Who)]
      /\ spc \in [Procs -> {"top", "asleep", "scan", "place"}]
      /\ i \in [Procs -> Nat] /\ wi \in [Procs -> Nat]
      /\ Tickets(queue[p], temp[p], select[p], posted[p], Waiting(p))
    BY Zenon, <1>1, SelectTypes
<1>3. CASE /\ temp[p] = <<>> /\ spc' = [spc EXCEPT ![p] = "top"]
           /\ UNCHANGED <<temp, select, posted>>
    <2>1. /\ spc' \in [Procs -> {"top", "asleep", "scan", "place"}] /\ spc'[p] = "top"
          /\ \A q \in Procs \ {p} : spc'[q] = spc[q]
        BY Zenon, <1>2, <1>3
    <2>2. Live(p)' = select[p] BY Zenon, <1>3, <2>1 DEF Live
    <2>3. Tickets(queue'[p], temp'[p], Live(p)', posted'[p], Waiting(p))
        BY Zenon, <1>1, <1>2, <1>3, <2>2
    <2>4. spc'[p] # "scan" /\ spc'[p] # "asleep" BY Zenon, <2>1
    <2> QED BY Zenon, <1>1, <1>2, <1>3, <2>1, <2>3, <2>4, SelectTracked
<1>4. ASSUME temp[p] # <<>>, temp' = [temp EXCEPT ![p] = Tail(temp[p])], spc' = spc
      PROVE  /\ temp' \in [Procs -> Seq(Entries)] /\ temp'[p] = Tail(temp[p])
             /\ \A q \in Procs \ {p} : temp'[q] = temp[q]
             /\ Live(p)' = select'[p] /\ spc'[p] # "scan" /\ spc'[p] # "asleep"
             /\ spc'[p] = "place"
             /\ Tickets(queue[p], Tail(temp[p]), Append(select[p], Head(temp[p])), posted[p],
                        Waiting(p))
             /\ Tickets(queue[p], Tail(temp[p]), select[p],
                        Append(posted[p], Head(temp[p]).who), Waiting(p))
    <2>1. /\ Tickets(queue[p], Tail(temp[p]), Append(select[p], Head(temp[p])), posted[p],
                     Waiting(p))
          /\ Tickets(queue[p], Tail(temp[p]), select[p],
                     Append(posted[p], Head(temp[p]).who), Waiting(p))
        BY Zenon, <1>2, <1>4, TicketPlace
    <2>2. Tail(temp[p]) \in Seq(Entries) BY Zenon, <2>1 DEF Tickets
    <2>3. Live(p)' = select'[p] /\ spc'[p] # "scan" /\ spc'[p] # "asleep" /\ spc'[p] = "place"
        BY Zenon, <1>1, <1>4 DEF Live
    <2> QED BY Zenon, <1>2, <1>4, <2>1, <2>2, <2>3
<1>5. CASE /\ temp[p] # <<>> /\ temp' = [temp EXCEPT ![p] = Tail(temp[p])] /\ spc' = spc
           /\ SetResult(p, Head(temp[p])) /\ select' = select
    <2>1. PICK d : d = Append(posted[p], Head(temp[p]).who) BY Zenon
    <2>2. Tickets(queue[p], Tail(temp[p]), select[p], d, Waiting(p)) BY Zenon, <1>4, <1>5, <2>1
    <2>3. d \in Seq(Who) BY Zenon, <2>2 DEF Tickets
    <2>4. /\ posted' \in [Procs -> Seq(Who)] /\ posted'[p] = d
          /\ \A q \in Procs \ {p} : posted'[q] = posted[q]
        BY Zenon, <1>2, <1>5, <2>1, <2>3 DEF SetResult
    <2>5. Tickets(queue'[p], temp'[p], Live(p)', posted'[p], Waiting(p))
        BY Zenon, <1>1, <1>4, <1>5, <2>2, <2>4
    <2> QED BY Zenon, <1>1, <1>2, <1>4, <1>5, <2>4, <2>5, SelectTracked
<1>6. CASE /\ temp[p] # <<>> /\ temp' = [temp EXCEPT ![p] = Tail(temp[p])] /\ spc' = spc
           /\ select' = [select EXCEPT ![p] = Append(select[p], Head(temp[p]))]
           /\ posted' = posted
    <2>1. PICK l : l = Append(select[p], Head(temp[p])) BY Zenon
    <2>2. Tickets(queue[p], Tail(temp[p]), l, posted[p], Waiting(p)) BY Zenon, <1>4, <1>6, <2>1
    <2>3. l \in Seq(Entries) BY Zenon, <2>2 DEF Tickets
    <2>4. /\ select' \in [Procs -> Seq(Entries)] /\ select'[p] = l
          /\ \A q \in Procs \ {p} : select'[q] = select[q]
        BY Zenon, <1>2, <1>6, <2>1, <2>3
    <2>5. Tickets(queue'[p], temp'[p], Live(p)', posted'[p], Waiting(p))
        BY Zenon, <1>1, <1>4, <1>6, <2>2, <2>4
    <2> QED BY Zenon, <1>1, <1>2, <1>4, <1>6, <2>4, <2>5, SelectTracked
<1> QED BY Zenon, <1>3, <1>5, <1>6 DEF Place

\* A process begins: both coroutines are posted, nobody waits for a ring.
LEMMA FreshTickets == Tickets(<<>>, <<>>, <<>>, <<"writer", "reader">>, Who)
<1>1. <<"writer", "reader">> \in Seq(Who) BY DEF Who
<1>2. IsInjective(<<"writer", "reader">>) /\ Range(<<"writer", "reader">>) = Who
    <2>1. /\ Len(<<"writer", "reader">>) = 2 /\ <<"writer", "reader">>[1] = "writer"
          /\ <<"writer", "reader">>[2] = "reader"
        BY Zenon
    <2>2. 1..2 = {1, 2} BY SMT
    <2>3. Range(<<"writer", "reader">>) = {<<"writer", "reader">>[k] : k \in 1..2}
        BY Zenon, <1>1, <2>1, RangeDef
    <2>4. \A j, k \in 1..2 : <<"writer", "reader">>[j] = <<"writer", "reader">>[k] => j = k
        BY Zenon, <2>1, <2>2
    <2>5. IsInjective(<<"writer", "reader">>) BY Zenon, <1>1, <2>1, <2>4, RangeDef
    <2> QED BY Zenon, <2>1, <2>2, <2>3, <2>5 DEF Who
<1> QED BY Zenon, <1>1, <1>2, NamesEmpty DEF Tickets

\* A process is killed and started again.
LEMMA RestartTracked ==
    ASSUME WInv, NEW p \in Procs, Restart(p)
    PROVE  WInv'
<1>1. /\ restarts < MaxRestarts /\ restarts' = restarts + 1
      /\ wpc' = [wpc EXCEPT ![p] = "run"] /\ rpc' = [rpc EXCEPT ![p] = "run"]
      /\ sched' = [sched EXCEPT ![p] = "idle"]
      /\ posted' = [posted EXCEPT ![p] = <<"writer", "reader">>]
      /\ queue' = [queue EXCEPT ![p] = <<>>] /\ select' = [select EXCEPT ![p] = <<>>]
      /\ temp' = [temp EXCEPT ![p] = <<>>] /\ spc' = [spc EXCEPT ![p] = "top"]
      /\ i' = [i EXCEPT ![p] = 0] /\ wi' = [wi EXCEPT ![p] = 0]
    BY Zenon DEF Restart
<1>2. restarts' \in 0..MaxRestarts BY <1>1, ShmSelectAssumption DEF WInv
<1>3. Tickets(<<>>, <<>>, <<>>, <<"writer", "reader">>, Who) BY Zenon, FreshTickets
<1>4. <<>> \in Seq(Entries) /\ <<"writer", "reader">> \in Seq(Who) BY Zenon, <1>3 DEF Tickets
<1>5. 0 \in Nat BY SMT
<1>6. /\ queue' \in [Procs -> Seq(Entries)] /\ temp' \in [Procs -> Seq(Entries)]
      /\ select' \in [Procs -> Seq(Entries)] /\ posted' \in [Procs -> Seq(Who)]
      /\ queue'[p] = <<>> /\ temp'[p] = <<>> /\ select'[p] = <<>>
      /\ posted'[p] = <<"writer", "reader">>
    BY Zenon, <1>1, <1>4 DEF WInv
<1>7. /\ wpc' \in [Procs -> {"run", "cv", "wait"}] /\ rpc' \in [Procs -> {"run", "wait"}]
      /\ sched' \in [Procs -> Who \cup {"idle"}]
      /\ spc' \in [Procs -> {"top", "asleep", "scan", "place"}]
      /\ wpc'[p] = "run" /\ sched'[p] = "idle" /\ spc'[p] = "top"
    BY Zenon, <1>1 DEF WInv
<1>8. i' \in [Procs -> Nat] /\ wi' \in [Procs -> Nat] BY Zenon, <1>1, <1>5 DEF WInv
<1>9. Waiting(p)' = Who BY Zenon, <1>7 DEF Waiting, Who
<1>10. Live(p)' = <<>> BY Zenon, <1>6, <1>7 DEF Live
<1>11. Tracked(p)' BY Zenon, <1>3, <1>6, <1>7, <1>9, <1>10 DEF Tracked
<1>12. ASSUME NEW q \in Procs, q # p PROVE Tracked(q)'
    <2>1. /\ queue'[q] = queue[q] /\ temp'[q] = temp[q] /\ select'[q] = select[q]
          /\ posted'[q] = posted[q] /\ wpc'[q] = wpc[q] /\ rpc'[q] = rpc[q]
          /\ sched'[q] = sched[q] /\ spc'[q] = spc[q] /\ i'[q] = i[q] /\ wi'[q] = wi[q]
        BY Zenon, <1>1, <1>12 DEF WInv
    <2>2. Own(q)' = Own(q) BY Zenon, <2>1 DEF Own
    <2> QED BY Zenon, <2>2, OwnKept DEF WInv
<1> QED BY Zenon, <1>2, <1>6, <1>7, <1>8, <1>11, <1>12 DEF WInv

\* Both processes begin.
LEMMA FreshTracked ==
    ASSUME Init
    PROVE  WInv
<1>1. restarts \in 0..MaxRestarts BY ShmSelectAssumption DEF Init
<1>2. Tickets(<<>>, <<>>, <<>>, <<"writer", "reader">>, Who) BY Zenon, FreshTickets
<1>3. <<>> \in Seq(Entries) /\ <<"writer", "reader">> \in Seq(Who) BY Zenon, <1>2 DEF Tickets
<1>4. 0 \in Nat BY SMT
<1>5. /\ queue \in [Procs -> Seq(Entries)] /\ temp \in [Procs -> Seq(Entries)]
      /\ select \in [Procs -> Seq(Entries)] /\ posted \in [Procs -> Seq(Who)]
      /\ wpc \in [Procs -> {"run", "cv", "wait"}] /\ rpc \in [Procs -> {"run", "wait"}]
      /\ sched \in [Procs -> Who \cup {"idle"}]
      /\ spc \in [Procs -> {"top", "asleep", "scan", "place"}]
      /\ i \in [Procs -> Nat] /\ wi \in [Procs -> Nat]
    BY Zenon, <1>3, <1>4 DEF Init
<1>6. ASSUME NEW p \in Procs PROVE Tracked(p)
    <2>1. /\ queue[p] = <<>> /\ temp[p] = <<>> /\ select[p] = <<>>
          /\ posted[p] = <<"writer", "reader">>
          /\ wpc[p] = "run" /\ sched[p] = "idle" /\ spc[p] = "top"
        BY Zenon DEF Init
    <2>2. Waiting(p) = Who BY Zenon, <2>1 DEF Waiting, Who
    <2>3. Live(p) = <<>> BY Zenon, <2>1 DEF Live
    <2> QED BY Zenon, <1>2, <2>1, <2>2, <2>3 DEF Tracked
<1> QED BY Zenon, <1>1, <1>5, <1>6 DEF WInv

-----------------------------------------------------------------------------
\* The entries of one coroutine: one, or none.
LEMMA OneOrNone ==
    ASSUME NEW s \in Seq(Entries), Distinct(s), NEW who
    PROVE  /\ who \in Names(s) => \E j : {k \in DOMAIN s : s[k].who = who} = {j}
           /\ who \notin Names(s) => {k \in DOMAIN s : s[k].who = who} = {}
<1>1. DOMAIN s = 1..Len(s) BY Zenon, LenFacts
<1>2. ASSUME who \in Names(s) PROVE \E j : {k \in DOMAIN s : s[k].who = who} = {j}
    <2>1. PICK j \in 1..Len(s) : s[j].who = who BY Zenon, <1>2 DEF Names
    <2>2. {k \in DOMAIN s : s[k].who = who} = {j} BY Zenon, <1>1, <2>1 DEF Distinct
    <2> QED BY Zenon, <2>2
<1>3. ASSUME who \notin Names(s) PROVE {k \in DOMAIN s : s[k].who = who} = {}
    BY Zenon, <1>1, <1>3 DEF Names
<1> QED BY Zenon, <1>2, <1>3

\* The wake-ups of one coroutine: one, or none.
LEMMA OnePosted ==
    ASSUME NEW s \in Seq(Who), IsInjective(s), NEW who
    PROVE  /\ who \in Range(s) => \E j : {k \in DOMAIN s : s[k] = who} = {j}
           /\ who \notin Range(s) => {k \in DOMAIN s : s[k] = who} = {}
<1>1. /\ DOMAIN s = 1..Len(s) /\ Range(s) = {s[k] : k \in 1..Len(s)}
      /\ \A j, k \in 1..Len(s) : s[j] = s[k] => j = k
    BY LenFacts, RangeDef
<1>2. ASSUME who \in Range(s) PROVE \E j : {k \in DOMAIN s : s[k] = who} = {j}
    <2>1. PICK j \in 1..Len(s) : s[j] = who BY Zenon, <1>1, <1>2
    <2>2. {k \in DOMAIN s : s[k] = who} = {j} BY Zenon, <1>1, <2>1
    <2> QED BY Zenon, <2>2
<1>3. ASSUME who \notin Range(s) PROVE {k \in DOMAIN s : s[k] = who} = {} BY Zenon, <1>1, <1>3
<1> QED BY Zenon, <1>2, <1>3

\* Where a coroutine of p is found: in one place if it waits, in none otherwise.
LEMMA PlacesCounted ==
    ASSUME WInv, NEW p \in Procs, NEW who
    PROVE  /\ who \in Waiting(p) => InOnePlace(p, who)
           /\ who \notin Waiting(p) => Places(p, who) = {}
<1>1. PICK q, t, l, d, W : /\ q = queue[p] /\ t = temp[p] /\ l = Live(p) /\ d = posted[p]
                           /\ W = Waiting(p)
    BY Zenon
<1>2. Tickets(q, t, l, d, W) BY Zenon, <1>1 DEF WInv, Tracked
<1>3. /\ q \o t \in Seq(Entries) /\ Names(q \o t) = Names(q) \cup Names(t) /\ Distinct(q \o t)
    BY Zenon, <1>2, NamesConcat DEF Tickets
<1>4. Names(q \o t) \cap Names(l) = {} BY Zenon, <1>2, <1>3 DEF Tickets
<1>5. PICK s : s = (q \o t) \o l BY Zenon
<1>6. /\ s \in Seq(Entries) /\ Names(s) = Names(q) \cup Names(t) \cup Names(l) /\ Distinct(s)
    <2>1. l \in Seq(Entries) /\ Distinct(l) BY Zenon, <1>2 DEF Tickets
    <2> QED BY Zenon, <1>3, <1>4, <1>5, <2>1, NamesConcat
<1>7. PICK E, P : E = {k \in DOMAIN s : s[k].who = who} /\ P = {k \in DOMAIN d : d[k] = who}
    BY Zenon
<1>8. (who \in Names(s) => \E j : E = {j}) /\ (who \notin Names(s) => E = {})
    BY ZenonT(30), <1>6, <1>7, OneOrNone
<1>9. (who \in Range(d) => \E j : P = {j}) /\ (who \notin Range(d) => P = {})
    BY Zenon, <1>2, <1>7, OnePosted DEF Tickets
<1>10. Places(p, who) = {<<"entry", k>> : k \in E} \cup {<<"posted", k>> : k \in P}
    BY Zenon, <1>1, <1>5, <1>7 DEF Places
<1>11. Names(s) \cup Range(d) = W /\ Names(s) \cap Range(d) = {} BY Zenon, <1>2, <1>6 DEF Tickets
<1>12. CASE who \in Names(s)
    <2>1. PICK j : E = {j} BY Zenon, <1>8, <1>12
    <2>2. P = {} BY Zenon, <1>9, <1>11, <1>12
    <2>3. Places(p, who) = {<<"entry", j>>} BY Zenon, <1>10, <2>1, <2>2
    <2> QED BY Zenon, <1>1, <1>11, <1>12, <2>3 DEF InOnePlace
<1>13. CASE who \in Range(d)
    <2>1. PICK j : P = {j} BY Zenon, <1>9, <1>13
    <2>2. E = {} BY Zenon, <1>8, <1>11, <1>13
    <2>3. Places(p, who) = {<<"posted", j>>} BY Zenon, <1>10, <2>1, <2>2
    <2> QED BY Zenon, <1>1, <1>11, <1>13, <2>3 DEF InOnePlace
<1>14. CASE who \notin Names(s) /\ who \notin Range(d)
    <2>1. E = {} /\ P = {} BY Zenon, <1>8, <1>9, <1>14
    <2>2. Places(p, who) = {} BY Zenon, <1>10, <2>1
    <2> QED BY Zenon, <1>1, <1>11, <1>14, <2>2
<1> QED BY Zenon, <1>12, <1>13, <1>14

\* The types that WaitersTracked asks for.
LEMMA SelectTypeOK ==
    ASSUME IInv, WInv
    PROVE  TypeOK
<1>1. ASSUME NEW p \in Procs, NEW e \in Range(queue[p] \o select[p] \o temp[p])
      PROVE  e.who \in Who /\ e.size \in Prefix..Size
    <2>1. queue[p] \in Seq(Entries) /\ select[p] \in Seq(Entries) /\ temp[p] \in Seq(Entries)
        BY Zenon DEF WInv
    <2>2. /\ queue[p] \o select[p] \in Seq(Entries)
          /\ Range(queue[p] \o select[p]) = Range(queue[p]) \cup Range(select[p])
        BY <2>1, ConcatFacts
    <2>3. queue[p] \o select[p] \o temp[p] \in Seq(Entries) BY Zenon, <2>1, <2>2, ConcatFacts
    <2>4. e \in Entries BY Zenon, <1>1, <2>3, RangeDef
    <2> QED BY Zenon, <2>4 DEF Entries
<1>2. ring \in [Procs -> Seq(1..Messages)] /\ sq \in [Procs -> Seq(1..Messages)]
    BY Zenon DEF IInv, Numbers
<1> QED BY Zenon, <1>1, <1>2 DEF TypeOK, IInv, WInv

-----------------------------------------------------------------------------
\* The invariant of the coroutines that wait and of the polling threads.
THEOREM WaitersInvariance == Spec => [](IInv /\ WInv)
<1>1. Init => WInv BY Zenon, FreshTracked
<1>2. IInv /\ WInv /\ [Next]_vars => WInv'
    <2> SUFFICES ASSUME IInv, WInv, [Next]_vars PROVE WInv' BY Zenon
    <2>1. CASE UNCHANGED <<coro, queue, thread, restarts>>
        <3>1. UNCHANGED <<wpc, rpc, sched, posted, queue, select, temp, spc, i, wi, restarts>>
            BY Zenon, <2>1 DEF coro, thread
        <3>2. \A q \in Procs : Own(q)' = Own(q) BY Zenon, <3>1 DEF Own
        <3> QED BY Zenon, <3>1, <3>2, OwnKept DEF WInv
    <2>2. CASE SendNext
        <3>1. "gate" \in Procs BY Zenon DEF Procs
        <3> QED BY Zenon, <2>2, <3>1, WriteTracked DEF SendNext
    <2>3. ASSUME NEW p \in Procs, SchedulerStep(p) PROVE WInv'
        <3>1. CASE AutoRead BY Zenon, <2>1, <3>1 DEF AutoRead
        <3>2. CASE ChannelRead
            <4>1. "service" \in Procs BY Zenon DEF Procs
            <4> QED BY Zenon, <3>2, <4>1, WriteTracked DEF ChannelRead
        <3> QED BY Zenon, <2>3, <3>1, <3>2, ResumeTracked, RunWriterTracked, ReadWaitTracked
                DEF SchedulerStep
    <2>4. ASSUME NEW p \in Procs, SelectStep(p) PROVE WInv'
        BY Zenon, <2>4, TopTracked, ScanTracked, PollTracked, PlaceTracked DEF SelectStep
    <2>5. CASE UNCHANGED vars BY Zenon, <2>1, <2>5 DEF vars
    <2> QED BY Zenon, <2>2, <2>3, <2>4, <2>5, RestartTracked DEF Next
<1> QED BY <1>1, <1>2, StreamInvariance, PTL DEF Spec

\* For every number of messages and restarts and every size of the rings, wait,
\* the polling thread's run and the scheduler keep exactly one entry or wake-up
\* for each coroutine that waits for a ring and none for one that does not, and
\* the polling thread sleeps only when nobody is queued.
THEOREM WaitersAreTracked == Spec => []WaitersTracked
<1>1. IInv /\ WInv => WaitersTracked
    <2> SUFFICES ASSUME IInv, WInv PROVE WaitersTracked BY Zenon
    <2>1. ASSUME NEW p \in Procs
          PROVE  /\ wpc[p] = "wait" => InOnePlace(p, "writer")
                 /\ rpc[p] = "wait" => InOnePlace(p, "reader")
                 /\ sched[p] = "writer" \/ wpc[p] = "cv" => Places(p, "writer") = {}
                 /\ sched[p] = "reader" => Places(p, "reader") = {}
                 /\ spc[p] = "asleep" => queue[p] = <<>>
        <3>1. /\ "writer" \in Waiting(p) => InOnePlace(p, "writer")
              /\ "writer" \notin Waiting(p) => Places(p, "writer") = {}
              /\ "reader" \in Waiting(p) => InOnePlace(p, "reader")
              /\ "reader" \notin Waiting(p) => Places(p, "reader") = {}
            BY Zenon, PlacesCounted
        <3>2. /\ sched[p] = "writer" => wpc[p] = "run"
              /\ sched[p] = "reader" => rpc[p] = "run"
              /\ spc[p] = "asleep" => queue[p] = <<>>
            BY Zenon DEF WInv, Tracked
        <3> QED BY Zenon, <3>1, <3>2 DEF Waiting, Who
    <2> QED BY Zenon, <2>1, SelectTypeOK DEF WaitersTracked
<1> QED BY <1>1, WaitersInvariance, PTL
-----------------------------------------------------------------------------
(* The ring itself: ShmRing for any messages, any size and counters that   *)
(* wrap anywhere above the size, as long as no process dies inside a       *)
(* commit.  Its variables that have the name of one of ShmSelect's are     *)
(* renamed.                                                                *)

CONSTANTS Payloads, LenOf, CounterMod, BufSizes, None, Crashes

VARIABLES
    data, read, write, read_index, write_index, msg, rwpc, rrpc, size, len, buf, ret, chan, rgot

R == INSTANCE ShmRing WITH Messages <- Payloads, wpc <- rwpc, rpc <- rrpc, got <- rgot

\* What ShmRing assumes of its constants.
RingConstants ==
    /\ LenOf \in [Payloads -> Nat] /\ Prefix \in Nat \ {0}
    /\ \A m, n \in Payloads : LenOf[m] = 0 /\ LenOf[n] = 0 => m = n
    /\ Size \in Nat \ {0} /\ CounterMod \in Nat /\ Size < CounterMod
    /\ BufSizes \subseteq Nat /\ None \notin Payloads
    /\ Crashes \in {"outside commits", "anywhere"}

Ring == 0..Size - 1

-----------------------------------------------------------------------------
(* Arithmetic of the counters and the indices.                             *)

\* What % does to a sum that has wrapped twice at most.
LEMMA ModFacts ==
    ASSUME NEW m \in Nat \ {0}, NEW x \in 0..m + m + m - 1
    PROVE  x % m = IF x < m THEN x ELSE IF x < m + m THEN x - m ELSE x - m - m
<1>1. CASE x < m BY <1>1
<1>2. CASE x >= m /\ x < m + m BY <1>2
<1>3. CASE x >= m + m BY <1>3
<1> QED BY <1>1, <1>2, <1>3

\* A sum below twice the modulus wraps at most once.
LEMMA ModOnce ==
    ASSUME NEW m \in Nat \ {0}, NEW x \in 0..m + m - 1
    PROVE  x % m = IF x < m THEN x ELSE x - m
<1>1. x \in 0..m + m + m - 1 OBVIOUS
<1>2. x % m = IF x < m THEN x ELSE IF x < m + m THEN x - m ELSE x - m - m
    BY Zenon, <1>1, ModFacts
<1> QED BY <1>2

\* What the assumptions say of the sizes.
LEMMA Sizes ==
    ASSUME RingConstants
    PROVE  Size \in Nat \ {0} /\ CounterMod \in Nat \ {0} /\ Size < CounterMod
<1>1. Size \in Nat \ {0} /\ CounterMod \in Nat /\ Size < CounterMod
    BY Zenon DEF RingConstants
<1> QED BY <1>1

\* The difference of two counters, although write may have wrapped and read not.
LEMMA Difference ==
    ASSUME RingConstants, NEW r \in 0..CounterMod - 1, NEW w \in 0..CounterMod - 1
    PROVE  (w + CounterMod - r) % CounterMod = IF w >= r THEN w - r ELSE w + CounterMod - r
<1> DEFINE x == w + CounterMod - r
<1>1. CounterMod \in Nat \ {0} BY Zenon, Sizes
<1>2. x \in 0..CounterMod + CounterMod - 1 BY <1>1
<1>3. x % CounterMod = IF x < CounterMod THEN x ELSE x - CounterMod
    BY Zenon, <1>1, <1>2, ModOnce
<1> QED BY <1>1, <1>3

\* What is not readable is writable.
LEMMA WritableIs ==
    ASSUME RingConstants, read \in 0..CounterMod - 1, write \in 0..CounterMod - 1, R!readable <= Size
    PROVE  R!readable \in 0..Size /\ R!writable = Size - R!readable
<1>1. CounterMod \in Nat \ {0} /\ Size \in Nat /\ Size < CounterMod BY Zenon, Sizes
<1>2. R!readable = IF write >= read THEN write - read ELSE write + CounterMod - read
    BY Zenon, Difference DEF R!readable
<1> DEFINE x == Size + read + CounterMod - write
<1>3. x \in 0..CounterMod + CounterMod + CounterMod - 1 BY <1>1
<1>4. x % CounterMod = IF x < CounterMod THEN x
                       ELSE IF x < CounterMod + CounterMod THEN x - CounterMod
                       ELSE x - CounterMod - CounterMod
    BY Zenon, <1>1, <1>3, ModFacts
<1>5. R!writable = x % CounterMod BY Zenon DEF R!writable
<1>6. R!writable = IF x < CounterMod THEN x
                 ELSE IF x < CounterMod + CounterMod THEN x - CounterMod
                 ELSE x - CounterMod - CounterMod
    BY Zenon, <1>4, <1>5
<1> QED BY <1>1, <1>2, <1>6

\* write += n
LEMMA WriteMoves ==
    ASSUME RingConstants, NEW r \in 0..CounterMod - 1, NEW w \in 0..CounterMod - 1, NEW v, NEW n \in Nat,
           v = (w + n) % CounterMod,
           ((w + CounterMod - r) % CounterMod) + n <= Size
    PROVE  /\ v \in 0..CounterMod - 1
           /\ (v + CounterMod - r) % CounterMod = ((w + CounterMod - r) % CounterMod) + n
<1>1. CounterMod \in Nat \ {0} /\ Size \in Nat /\ Size < CounterMod BY Zenon, Sizes
<1> DEFINE d == (w + CounterMod - r) % CounterMod
<1>2. d = IF w >= r THEN w - r ELSE w + CounterMod - r BY Zenon, Difference
<1>3. d + n <= Size BY Zenon
<1> HIDE DEF d
<1> DEFINE x == w + n
<1>4. x = w + n /\ x \in 0..CounterMod + CounterMod - 1 BY <1>1, <1>2, <1>3
<1>5. v = x % CounterMod BY Zenon
<1> HIDE DEF x
<1>6. v = IF x < CounterMod THEN x ELSE x - CounterMod BY Zenon, <1>1, <1>4, <1>5, ModOnce
<1>7. v \in 0..CounterMod - 1 BY <1>1, <1>4, <1>6
<1>8. (v + CounterMod - r) % CounterMod = IF v >= r THEN v - r ELSE v + CounterMod - r
    BY Zenon, <1>7, Difference
<1>9. (IF v >= r THEN v - r ELSE v + CounterMod - r) = d + n
    BY <1>1, <1>2, <1>3, <1>4, <1>6, <1>7
<1> QED BY Zenon, <1>7, <1>8, <1>9 DEF d

\* read += n
LEMMA ReadMoves ==
    ASSUME RingConstants, NEW r \in 0..CounterMod - 1, NEW w \in 0..CounterMod - 1, NEW v, NEW n \in Nat,
           v = (r + n) % CounterMod,
           n <= (w + CounterMod - r) % CounterMod
    PROVE  /\ v \in 0..CounterMod - 1
           /\ (w + CounterMod - v) % CounterMod = ((w + CounterMod - r) % CounterMod) - n
<1>1. CounterMod \in Nat \ {0} BY Zenon, Sizes
<1> DEFINE d == (w + CounterMod - r) % CounterMod
<1>2. d = IF w >= r THEN w - r ELSE w + CounterMod - r BY Zenon, Difference
<1>3. n <= d BY Zenon
<1> HIDE DEF d
<1> DEFINE x == r + n
<1>4. x = r + n /\ x \in 0..CounterMod + CounterMod - 1 BY <1>1, <1>2, <1>3
<1>5. v = x % CounterMod BY Zenon
<1> HIDE DEF x
<1>6. v = IF x < CounterMod THEN x ELSE x - CounterMod BY Zenon, <1>1, <1>4, <1>5, ModOnce
<1>7. v \in 0..CounterMod - 1 BY <1>1, <1>4, <1>6
<1>8. (w + CounterMod - v) % CounterMod = IF w >= v THEN w - v ELSE w + CounterMod - v
    BY Zenon, <1>7, Difference
<1>9. (IF w >= v THEN w - v ELSE w + CounterMod - v) = d - n
    BY <1>1, <1>2, <1>3, <1>4, <1>6, <1>7
<1> QED BY Zenon, <1>7, <1>8, <1>9 DEF d

\* The three ways the code goes round the ring agree.
LEMMA OffsetFacts ==
    ASSUME RingConstants, NEW o \in Ring, NEW x \in 0..Size
    PROVE  /\ R!AtOffset(o, x) \in Ring /\ R!Advance(o, x) = R!AtOffset(o, x)
           /\ R!AtOffset(o, 0) = o
           /\ \A y \in 0..Size - x : R!AtOffset(R!AtOffset(o, x), y) = R!AtOffset(o, x + y)
           /\ \A k \in 1..Size - x : R!Cell(R!AtOffset(o, x), k) = R!AtOffset(o, x + k - 1)
<1>1. Size \in Nat \ {0} BY Zenon, Sizes
<1>2. R!AtOffset(o, x) \in Ring BY <1>1 DEF R!AtOffset, Ring
<1>3. R!Advance(o, x) = R!AtOffset(o, x) BY <1>1 DEF R!AtOffset, R!Advance, Ring
<1>4. R!AtOffset(o, 0) = o BY <1>1 DEF R!AtOffset, Ring
<1>5. ASSUME NEW y \in 0..Size - x PROVE R!AtOffset(R!AtOffset(o, x), y) = R!AtOffset(o, x + y)
    BY <1>1 DEF R!AtOffset, Ring
<1>6. ASSUME NEW k \in 1..Size - x PROVE R!Cell(R!AtOffset(o, x), k) = R!AtOffset(o, x + k - 1)
    BY <1>1 DEF R!AtOffset, R!Cell, Ring
<1> QED BY Zenon, <1>2, <1>3, <1>4, <1>5, <1>6

\* Different offsets are different cells.
LEMMA OffsetInjective ==
    ASSUME RingConstants, NEW o \in Ring, NEW x \in Ring, NEW y \in Ring, R!AtOffset(o, x) = R!AtOffset(o, y)
    PROVE  x = y
BY Sizes DEF R!AtOffset, Ring

-----------------------------------------------------------------------------
(* The bytes.                                                              *)

\* The bytes of a message, prefix included.
LEMMA BytesFacts ==
    ASSUME RingConstants
    PROVE  /\ \A n : /\ R!PrefixBytes(n) \in Seq({n} \X (1..Prefix)) /\ Len(R!PrefixBytes(n)) = Prefix
                     /\ \A k \in 1..Prefix : R!PrefixBytes(n)[k] = <<n, k>>
           /\ \A m \in Payloads :
                 /\ R!PayloadBytes(m) \in Seq({m} \X (1..LenOf[m])) /\ Len(R!PayloadBytes(m)) = LenOf[m]
                 /\ \A k \in 1..LenOf[m] : R!PayloadBytes(m)[k] = <<m, k>>
<1>1. Prefix \in Nat /\ \A m \in Payloads : LenOf[m] \in Nat
    BY Zenon DEF RingConstants
<1>2. ASSUME NEW n
      PROVE  /\ R!PrefixBytes(n) \in Seq({n} \X (1..Prefix)) /\ Len(R!PrefixBytes(n)) = Prefix
             /\ \A k \in 1..Prefix : R!PrefixBytes(n)[k] = <<n, k>>
    BY <1>1 DEF R!PrefixBytes
<1>3. ASSUME NEW m \in Payloads
      PROVE  /\ R!PayloadBytes(m) \in Seq({m} \X (1..LenOf[m])) /\ Len(R!PayloadBytes(m)) = LenOf[m]
             /\ \A k \in 1..LenOf[m] : R!PayloadBytes(m)[k] = <<m, k>>
    BY <1>1 DEF R!PayloadBytes
<1> QED BY Zenon, <1>2, <1>3

\* A copy to index i puts its bytes there and changes nothing else.
LEMMA StoredFacts ==
    ASSUME RingConstants, NEW o \in Ring, NEW S, NEW bytes \in Seq(S), Len(bytes) <= Size
    PROVE  /\ DOMAIN R!Stored(o, bytes) = Ring
           /\ \A k \in 1..Len(bytes) : R!Stored(o, bytes)[R!Cell(o, k)] = bytes[k]
           /\ \A c \in Ring : (\A k \in 1..Len(bytes) : R!Cell(o, k) # c)
                                 => R!Stored(o, bytes)[c] = data[c]
<1>1. Size \in Nat \ {0} /\ Len(bytes) \in Nat BY Sizes
<1>2. \A k \in 1..Len(bytes) : R!Cell(o, k) \in Ring BY <1>1 DEF R!Cell, Ring
<1>3. \A j, k \in 1..Len(bytes) : R!Cell(o, j) = R!Cell(o, k) => j = k BY <1>1 DEF R!Cell, Ring
<1>4. DOMAIN R!Stored(o, bytes) = Ring BY Zenon DEF R!Stored, Ring
<1>5. ASSUME NEW c \in Ring
      PROVE  R!Stored(o, bytes)[c] =
                IF \E k \in 1..Len(bytes) : R!Cell(o, k) = c
                THEN bytes[CHOOSE k \in 1..Len(bytes) : R!Cell(o, k) = c]
                ELSE data[c]
    BY Zenon DEF R!Stored, Ring
<1>6. ASSUME NEW k \in 1..Len(bytes) PROVE R!Stored(o, bytes)[R!Cell(o, k)] = bytes[k]
    <2> DEFINE j == CHOOSE j \in 1..Len(bytes) : R!Cell(o, j) = R!Cell(o, k)
    <2>1. j \in 1..Len(bytes) /\ R!Cell(o, j) = R!Cell(o, k) BY Zenon
    <2>2. j = k BY Zenon, <1>3, <2>1
    <2>3. R!Stored(o, bytes)[R!Cell(o, k)] = bytes[j] BY Zenon, <1>2, <1>5
    <2> QED BY Zenon, <2>2, <2>3
<1> QED BY Zenon, <1>4, <1>5, <1>6

\* A copy to the offset x of b leaves the bytes before x alone.
LEMMA StoreKeeps ==
    ASSUME RingConstants, NEW b \in Ring, NEW x \in 0..Size, NEW S, NEW bytes \in Seq(S),
           x + Len(bytes) <= Size, NEW z \in 0..x - 1
    PROVE  R!AtOffset(b, z) \in Ring /\ R!Stored(R!AtOffset(b, x), bytes)[R!AtOffset(b, z)] = data[R!AtOffset(b, z)]
<1>1. Size \in Nat \ {0} /\ Len(bytes) \in Nat BY Sizes
<1>2. R!AtOffset(b, x) \in Ring BY Zenon, OffsetFacts
<1>0. z \in 0..Size /\ z \in Ring /\ Len(bytes) <= Size BY <1>1 DEF Ring
<1>3. z \in Ring /\ R!AtOffset(b, z) \in Ring BY Zenon, <1>0, OffsetFacts
<1>4. ASSUME NEW k \in 1..Len(bytes), R!Cell(R!AtOffset(b, x), k) = R!AtOffset(b, z) PROVE FALSE
    <2>1. k \in 1..Size - x /\ x + k - 1 \in Ring BY <1>1 DEF Ring
    <2>2. R!AtOffset(b, x + k - 1) = R!AtOffset(b, z) BY Zenon, <1>4, <2>1, OffsetFacts
    <2>3. x + k - 1 = z BY Zenon, <1>3, <2>1, <2>2, OffsetInjective
    <2> QED BY <1>1, <2>3
<1>5. \A k \in 1..Len(bytes) : R!Cell(R!AtOffset(b, x), k) # R!AtOffset(b, z) BY Zenon, <1>4
<1>6. PICK o \in Ring, c \in Ring : o = R!AtOffset(b, x) /\ c = R!AtOffset(b, z) BY Zenon, <1>2, <1>3
<1>7. \A k \in 1..Len(bytes) : R!Cell(o, k) # c BY Zenon, <1>5, <1>6
<1>8. R!Stored(o, bytes)[c] = data[c]
    <2>1. Len(bytes) <= Size BY Zenon, <1>0
    <2>2. \A d \in Ring : (\A k \in 1..Len(bytes) : R!Cell(o, k) # d) => R!Stored(o, bytes)[d] = data[d]
        BY <2>1, StoredFacts
    <2> QED BY Zenon, <1>7, <2>2
<1> QED BY Zenon, <1>3, <1>6, <1>8

HoldsPrefix(o, m) == \A k \in 1..Prefix : data[R!Cell(o, k)] = <<LenOf[m], k>>
HoldsPayload(o, m) == \A k \in 1..LenOf[m] : data[R!Cell(R!AtOffset(o, Prefix), k)] = <<m, k>>

\* The space a message takes in the ring.
LEMMA NeedsFacts ==
    ASSUME RingConstants, NEW m \in Payloads
    PROVE  Prefix \in Nat \ {0} /\ LenOf[m] \in Nat /\ R!Needs(m) = Prefix + LenOf[m]
           /\ R!Needs(m) \in Nat \ {0}
<1>1. Prefix \in Nat \ {0} /\ LenOf[m] \in Nat BY Zenon DEF RingConstants
<1> QED BY <1>1 DEF R!Needs

\* A message stays as it is when the bytes up to x do.
LEMMA PrefixKept ==
    ASSUME RingConstants, NEW b \in Ring, NEW x \in 0..Size, NEW y \in Nat, NEW m \in Payloads,
           y + Prefix <= x, HoldsPrefix(R!AtOffset(b, y), m),
           \A z \in 0..x - 1 : data'[R!AtOffset(b, z)] = data[R!AtOffset(b, z)]
    PROVE  HoldsPrefix(R!AtOffset(b, y), m)'
<1>1. Size \in Nat \ {0} /\ Prefix \in Nat \ {0} BY Zenon, Sizes, NeedsFacts
<1>2. ASSUME NEW k \in 1..Prefix
      PROVE  data'[R!Cell(R!AtOffset(b, y), k)] = data[R!Cell(R!AtOffset(b, y), k)]
    <2>1. y \in 0..Size /\ k \in 1..Size - y /\ y + k - 1 \in 0..x - 1 BY <1>1
    <2>2. R!Cell(R!AtOffset(b, y), k) = R!AtOffset(b, y + k - 1) BY Zenon, <2>1, OffsetFacts
    <2> QED BY Zenon, <2>1, <2>2
<1> QED BY Zenon, <1>2 DEF HoldsPrefix

\* A payload outside the bytes written is left as it was.
LEMMA PayloadKept ==
    ASSUME RingConstants, NEW b \in Ring, NEW x \in 0..Size, NEW y \in Nat, NEW m \in Payloads,
           y + R!Needs(m) <= x, HoldsPayload(R!AtOffset(b, y), m),
           \A z \in 0..x - 1 : data'[R!AtOffset(b, z)] = data[R!AtOffset(b, z)]
    PROVE  HoldsPayload(R!AtOffset(b, y), m)'
<1>1. /\ Size \in Nat \ {0} /\ Prefix \in Nat \ {0} /\ LenOf[m] \in Nat
      /\ R!Needs(m) = Prefix + LenOf[m]
    BY Zenon, Sizes, NeedsFacts
<1>2. y \in 0..Size /\ Prefix \in 0..Size - y /\ y + Prefix \in 0..Size BY <1>1
<1>3. R!AtOffset(R!AtOffset(b, y), Prefix) = R!AtOffset(b, y + Prefix) BY Zenon, <1>2, OffsetFacts
<1>4. ASSUME NEW k \in 1..LenOf[m]
      PROVE  data'[R!Cell(R!AtOffset(b, y + Prefix), k)] = data[R!Cell(R!AtOffset(b, y + Prefix), k)]
    <2>1. k \in 1..Size - (y + Prefix) /\ y + Prefix + k - 1 \in 0..x - 1 BY <1>1
    <2>2. R!Cell(R!AtOffset(b, y + Prefix), k) = R!AtOffset(b, y + Prefix + k - 1)
        BY Zenon, <1>2, <2>1, OffsetFacts
    <2> QED BY Zenon, <2>1, <2>2
<1> QED BY Zenon, <1>3, <1>4 DEF HoldsPayload

-----------------------------------------------------------------------------
(* The inductive invariant.  The messages in the ring begin at the offsets *)
(* at[1], at[2], ... from b, the index that belongs to the counter read;   *)
(* what is being written begins at e, the index that belongs to write.     *)

Offsets(at) ==
    /\ Len(at) = Len(chan) + 1 /\ at[1] = 0
    /\ \A k \in 1..Len(chan) : at[k + 1] = at[k] + R!Needs(chan[k])
    /\ \A j, k \in 1..Len(at) : j <= k => at[j] <= at[k]
    /\ at[Len(chan) + 1] = R!readable
    /\ R!readable <= Size

Contents(b, at) ==
    \A k \in 1..Len(chan) : /\ HoldsPrefix(R!AtOffset(b, at[k]), chan[k])
                            /\ HoldsPayload(R!AtOffset(b, at[k]), chan[k])

\* try_read has decoded the length of the oldest message and copied it.
Reading(b) ==
    /\ read_index = IF rrpc = "count" THEN R!Advance(b, Prefix + len) ELSE b
    /\ rrpc # "idle" => chan # <<>> /\ len = LenOf[Head(chan)]
    /\ rrpc \in {"index", "count"} => buf = R!PayloadBytes(Head(chan))

\* try_write has room for its message and has copied it behind the others.
Writing(e) ==
    /\ write_index = IF rwpc = "count" THEN R!Advance(e, R!Needs(msg)) ELSE e
    /\ rwpc # "idle" => msg \in Payloads /\ R!readable + R!Needs(msg) <= Size
    /\ rwpc \in {"payload", "index", "count"} => HoldsPrefix(e, msg)
    /\ rwpc \in {"index", "count"} => HoldsPayload(e, msg)

Layout(b, at) ==
    Offsets(at) /\ Contents(b, at) /\ Reading(b) /\ Writing(R!AtOffset(b, R!readable))

RInv == R!TypeOK /\ \E b \in Ring, at \in Seq(Nat) : Layout(b, at)

-----------------------------------------------------------------------------
(* The steps of the writer.                                                *)

\* Where the message being written begins.
LEMMA LayoutFacts ==
    ASSUME RingConstants, R!TypeOK, NEW b \in Ring, NEW at \in Seq(Nat), Layout(b, at)
    PROVE  /\ R!readable \in 0..Size /\ R!writable = Size - R!readable
           /\ R!AtOffset(b, R!readable) \in Ring
           /\ chan \in Seq(Payloads) /\ Len(chan) \in Nat
           /\ \A k \in 1..Len(chan) : chan[k] \in Payloads /\ at[k] \in Nat
                                      /\ at[k] + R!Needs(chan[k]) <= R!readable
<1>1. R!readable <= Size /\ read \in 0..CounterMod - 1 /\ write \in 0..CounterMod - 1
    BY Zenon DEF Layout, Offsets, R!TypeOK
<1>2. R!readable \in 0..Size /\ R!writable = Size - R!readable BY Zenon, <1>1, WritableIs
<1>3. R!AtOffset(b, R!readable) \in Ring BY Zenon, <1>2, OffsetFacts
<1>4. chan \in Seq(Payloads) /\ Len(chan) \in Nat BY DEF R!TypeOK
<1>5. ASSUME NEW k \in 1..Len(chan)
      PROVE  chan[k] \in Payloads /\ at[k] \in Nat /\ at[k] + R!Needs(chan[k]) <= R!readable
    <2>1. chan[k] \in Payloads BY <1>4
    <2>2. k \in 1..Len(at) /\ k + 1 \in 1..Len(at) /\ Len(at) = Len(chan) + 1 /\ k + 1 <= Len(at)
          /\ Len(at) \in 1..Len(at)
        BY <1>4 DEF Layout, Offsets
    <2>3. at[k + 1] <= at[Len(at)] BY Zenon, <2>2 DEF Layout, Offsets
    <2>4. at[k + 1] = at[k] + R!Needs(chan[k]) /\ at[Len(at)] = R!readable
        BY Zenon, <2>2 DEF Layout, Offsets
    <2>5. at[k] \in Nat BY <2>2
    <2> QED BY Zenon, <2>1, <2>3, <2>4, <2>5
<1> QED BY Zenon, <1>2, <1>3, <1>4, <1>5

\* The counters and the bytes before what is written stay.
LEMMA Committed ==
    ASSUME RingConstants, R!TypeOK, NEW b \in Ring, NEW at \in Seq(Nat), Layout(b, at),
           UNCHANGED <<read, write, chan>>,
           \A z \in 0..R!readable - 1 : data'[R!AtOffset(b, z)] = data[R!AtOffset(b, z)]
    PROVE  R!readable' = R!readable /\ Offsets(at)' /\ Contents(b, at)'
<1>1. R!readable' = R!readable BY Zenon DEF R!readable
<1>2. Offsets(at)' BY Zenon, <1>1 DEF Layout, Offsets
<1>3. ASSUME NEW k \in 1..Len(chan)
      PROVE  HoldsPrefix(R!AtOffset(b, at[k]), chan[k])' /\ HoldsPayload(R!AtOffset(b, at[k]), chan[k])'
    <2> DEFINE y == at[k]
               m == chan[k]
    <2>1. HoldsPrefix(R!AtOffset(b, y), m) /\ HoldsPayload(R!AtOffset(b, y), m)
        BY Zenon DEF Layout, Contents
    <2>2. /\ R!readable \in 0..Size /\ y \in Nat /\ m \in Payloads /\ y + R!Needs(m) <= R!readable
        BY Zenon, LayoutFacts
    <2>3. chan' = chan BY Zenon
    <2>4. PICK u \in Nat, n \in Payloads, x \in 0..Size : u = y /\ n = m /\ x = R!readable
        BY Zenon, <2>2
    <2>5. u + R!Needs(n) <= x /\ u + Prefix <= x
        <3>1. u + R!Needs(n) <= x BY Zenon, <2>2, <2>4
        <3>2. Prefix \in Nat /\ LenOf[n] \in Nat /\ R!Needs(n) = Prefix + LenOf[n] BY Zenon, NeedsFacts
        <3> QED BY <3>1, <3>2
    <2>6. HoldsPrefix(R!AtOffset(b, u), n)' BY Zenon, <2>1, <2>4, <2>5, PrefixKept
    <2>7. HoldsPayload(R!AtOffset(b, u), n)' BY Zenon, <2>1, <2>4, <2>5, PayloadKept
    <2> QED BY Zenon, <2>3, <2>4, <2>6, <2>7
<1>4. Contents(b, at)' BY Zenon, <1>3 DEF Contents
<1> QED BY Zenon, <1>1, <1>2, <1>4

\* The writer finds room for a message, or does not.
LEMMA TryWriteInv == ASSUME RingConstants, RInv, NEW m \in Payloads, R!TryWrite(m) PROVE RInv'
<1>1. PICK b \in Ring, at \in Seq(Nat) : Layout(b, at) BY Zenon DEF RInv
<1>2. R!TypeOK /\ R!TypeOK' BY Zenon DEF RInv, R!TypeOK, R!TryWrite, R!shared, R!reader
<1>3. R!readable' = R!readable /\ Offsets(at)' /\ Contents(b, at)'
    BY Zenon, <1>1, <1>2, Committed DEF R!TryWrite, R!shared
<1>4. Reading(b)' BY Zenon, <1>1 DEF Layout, Reading, R!TryWrite, R!shared, R!reader
<1>5. R!readable + R!Needs(m) <= Size
    <2>1. R!readable \in 0..Size /\ R!writable = Size - R!readable BY Zenon, <1>1, <1>2, LayoutFacts
    <2> QED BY <2>1, NeedsFacts, Sizes DEF R!TryWrite
<1>6. Writing(R!AtOffset(b, R!readable))'
    BY Zenon, <1>1, <1>3, <1>5 DEF Layout, Writing, R!TryWrite, R!shared
<1> QED BY Zenon, <1>1, <1>2, <1>3, <1>4, <1>6 DEF RInv, Layout

\* The writer stores the length in front of the payload.
LEMMA StorePrefixInv == ASSUME RingConstants, RInv, R!StorePrefix PROVE RInv'
<1>1. PICK b \in Ring, at \in Seq(Nat) : Layout(b, at) BY Zenon DEF RInv
<1>2. R!TypeOK BY Zenon DEF RInv
<1>3. PICK x \in 0..Size, m \in Payloads : x = R!readable /\ m = msg /\ x + R!Needs(m) <= Size
    BY Zenon, <1>1, <1>2, LayoutFacts DEF Layout, Writing, R!StorePrefix
<1> DEFINE e == R!AtOffset(b, x)
           bytes == R!PrefixBytes(LenOf[m])
<1>4. /\ bytes \in Seq({LenOf[m]} \X (1..Prefix)) /\ Len(bytes) = Prefix
      /\ \A k \in 1..Prefix : bytes[k] = <<LenOf[m], k>>
    BY Zenon, BytesFacts
<1>5. e \in Ring /\ x + Len(bytes) <= Size /\ Len(bytes) <= Size
    <2>1. e \in Ring BY Zenon, OffsetFacts
    <2> QED BY <1>3, <1>4, <2>1, NeedsFacts, Sizes
<1>6. write_index = e /\ data' = R!Stored(e, bytes)
    BY Zenon, <1>1, <1>3 DEF Layout, Writing, R!StorePrefix
<1> HIDE DEF bytes
<1>7. \A z \in 0..x - 1 : data'[R!AtOffset(b, z)] = data[R!AtOffset(b, z)]
    BY ZenonT(30), <1>4, <1>5, <1>6, StoreKeeps
<1>8. R!readable' = x /\ Offsets(at)' /\ Contents(b, at)'
    BY Zenon, <1>1, <1>2, <1>3, <1>7, Committed DEF R!StorePrefix
<1> HIDE DEF e
<1>9. DOMAIN data' = Ring /\ \A k \in 1..Prefix : data'[R!Cell(e, k)] = <<LenOf[m], k>>
    <2>1. /\ DOMAIN R!Stored(e, bytes) = Ring
          /\ \A k \in 1..Len(bytes) : R!Stored(e, bytes)[R!Cell(e, k)] = bytes[k]
        BY <1>4, <1>5, StoredFacts
    <2> QED BY Zenon, <1>4, <1>6, <2>1
<1>10. R!TypeOK' BY Zenon, <1>2, <1>9 DEF R!TypeOK, R!StorePrefix, R!reader, Ring
<1>11. Reading(b)' BY Zenon, <1>1 DEF Layout, Reading, R!StorePrefix, R!reader
<1>12. HoldsPrefix(e, m)' BY Zenon, <1>9 DEF HoldsPrefix
<1>13. Writing(e)' BY Zenon, <1>3, <1>6, <1>8, <1>12 DEF Writing, R!StorePrefix
<1> QED BY Zenon, <1>1, <1>8, <1>10, <1>11, <1>13 DEF RInv, Layout, e

\* The writer copies the payload.
LEMMA StorePayloadInv == ASSUME RingConstants, RInv, R!StorePayload PROVE RInv'
<1>1. PICK b \in Ring, at \in Seq(Nat) : Layout(b, at) BY Zenon DEF RInv
<1>2. R!TypeOK BY Zenon DEF RInv
<1>3. PICK x \in 0..Size, m \in Payloads : x = R!readable /\ m = msg /\ x + R!Needs(m) <= Size
    BY Zenon, <1>1, <1>2, LayoutFacts DEF Layout, Writing, R!StorePayload
<1> DEFINE e == R!AtOffset(b, x)
           y == x + Prefix
           f == R!AtOffset(b, y)
           bytes == R!PayloadBytes(m)
<1>4. /\ bytes \in Seq({m} \X (1..LenOf[m])) /\ Len(bytes) = LenOf[m]
      /\ \A k \in 1..LenOf[m] : bytes[k] = <<m, k>>
    BY Zenon, BytesFacts
<1>5. /\ y \in 0..Size /\ Prefix \in 0..Size - x /\ x + Prefix <= y /\ LenOf[m] \in Nat
      /\ y + LenOf[m] <= Size /\ LenOf[m] <= Size
    BY SMTT(30), <1>3, NeedsFacts, Sizes
<1>6. e \in Ring /\ f \in Ring /\ R!AtOffset(e, Prefix) = f BY Zenon, <1>5, OffsetFacts
<1>7. HoldsPrefix(e, m) /\ write_index = e /\ data' = R!Stored(f, bytes)
    BY Zenon, <1>1, <1>3, <1>6 DEF Layout, Writing, R!StorePayload
<1> HIDE DEF bytes, y
<1>8. \A z \in 0..y - 1 : data'[R!AtOffset(b, z)] = data[R!AtOffset(b, z)]
    <2>1. PICK S : bytes \in Seq(S) BY Zenon, <1>4
    <2>2. y + Len(bytes) <= Size BY Zenon, <1>4, <1>5
    <2>3. ASSUME NEW z \in 0..y - 1 PROVE R!Stored(f, bytes)[R!AtOffset(b, z)] = data[R!AtOffset(b, z)]
        BY Zenon, <1>5, <2>1, <2>2, StoreKeeps
    <2> QED BY Zenon, <1>7, <2>3
<1>9. HoldsPrefix(e, m)' BY <1>5, <1>7, <1>8, PrefixKept
<1>10. \A z \in 0..x - 1 : data'[R!AtOffset(b, z)] = data[R!AtOffset(b, z)]
    <2>1. ASSUME NEW z \in 0..x - 1 PROVE z \in 0..y - 1 BY <1>5 DEF y
    <2> QED BY Zenon, <1>8, <2>1
<1>11. R!readable' = x /\ Offsets(at)' /\ Contents(b, at)'
    BY Zenon, <1>1, <1>2, <1>3, <1>10, Committed DEF R!StorePayload
<1> HIDE DEF e, f
<1>12. DOMAIN data' = Ring /\ \A k \in 1..LenOf[m] : data'[R!Cell(f, k)] = <<m, k>>
    <2>1. /\ DOMAIN R!Stored(f, bytes) = Ring
          /\ \A k \in 1..Len(bytes) : R!Stored(f, bytes)[R!Cell(f, k)] = bytes[k]
        BY <1>4, <1>5, <1>6, StoredFacts
    <2> QED BY Zenon, <1>4, <1>7, <2>1
<1>13. R!TypeOK' BY Zenon, <1>2, <1>12 DEF R!TypeOK, R!StorePayload, R!reader, Ring
<1>14. Reading(b)' BY Zenon, <1>1 DEF Layout, Reading, R!StorePayload, R!reader
<1>15. HoldsPayload(e, m)' BY Zenon, <1>6, <1>12 DEF HoldsPayload
<1>16. Writing(e)' BY Zenon, <1>3, <1>7, <1>9, <1>11, <1>15 DEF Writing, R!StorePayload
<1> QED BY Zenon, <1>1, <1>11, <1>13, <1>14, <1>16 DEF RInv, Layout, e

\* The writer moves write_index on.
LEMMA StoreIndexInv == ASSUME RingConstants, RInv, R!StoreIndex PROVE RInv'
<1>1. PICK b \in Ring, at \in Seq(Nat) : Layout(b, at) BY Zenon DEF RInv
<1>2. R!TypeOK BY Zenon DEF RInv
<1>3. PICK x \in 0..Size, m \in Payloads : x = R!readable /\ m = msg /\ x + R!Needs(m) <= Size
    BY Zenon, <1>1, <1>2, LayoutFacts DEF Layout, Writing, R!StoreIndex
<1>4. R!AtOffset(b, x) \in Ring /\ R!Needs(m) \in 0..Size
    BY <1>3, OffsetFacts, NeedsFacts, Sizes
<1>5. write_index = R!AtOffset(b, x) /\ write_index' = R!Advance(R!AtOffset(b, x), R!Needs(m))
    BY Zenon, <1>1, <1>3 DEF Layout, Writing, R!StoreIndex
<1>6. write_index' \in Ring BY Zenon, <1>4, <1>5, OffsetFacts
<1>7. R!TypeOK' BY Zenon, <1>2, <1>6 DEF R!TypeOK, R!StoreIndex, R!reader, Ring
<1>8. R!readable' = x /\ Offsets(at)' /\ Contents(b, at)'
    BY Zenon, <1>1, <1>2, <1>3, Committed DEF R!StoreIndex
<1>9. Reading(b)' BY Zenon, <1>1 DEF Layout, Reading, R!StoreIndex, R!reader
<1>10. HoldsPrefix(R!AtOffset(b, x), m)' /\ HoldsPayload(R!AtOffset(b, x), m)'
    BY Zenon, <1>1, <1>3 DEF Layout, Writing, R!StoreIndex, HoldsPrefix, HoldsPayload
<1>11. Writing(R!AtOffset(b, x))' BY Zenon, <1>3, <1>5, <1>8, <1>10 DEF Writing, R!StoreIndex
<1> QED BY Zenon, <1>1, <1>7, <1>8, <1>9, <1>11 DEF RInv, Layout

\* The counter shows the message: its offset is the next one.
LEMMA StoreCountInv == ASSUME RingConstants, RInv, R!StoreCount PROVE RInv' /\ msg \in Payloads
<1>1. PICK b \in Ring, at \in Seq(Nat) : Layout(b, at) BY Zenon DEF RInv
<1>2. R!TypeOK BY Zenon DEF RInv
<1>3. PICK x \in 0..Size, m \in Payloads : x = R!readable /\ m = msg /\ x + R!Needs(m) <= Size
    BY Zenon, <1>1, <1>2, LayoutFacts DEF Layout, Writing, R!StoreCount
<1>4. R!Needs(m) \in 0..Size /\ x + R!Needs(m) \in 0..Size /\ R!Needs(m) \in 0..Size - x
    BY <1>3, NeedsFacts, Sizes
<1>5. write' \in 0..CounterMod - 1 /\ R!readable' = x + R!Needs(m)
    <2>1. PICK r \in 0..CounterMod - 1, w \in 0..CounterMod - 1 :
             r = read /\ w = write
        BY Zenon, <1>2 DEF R!TypeOK
    <2>0. PICK v : v = write' BY Zenon
    <2>2. v = (w + R!Needs(m)) % CounterMod BY Zenon, <1>3, <2>0, <2>1 DEF R!StoreCount
    <2>3. x = (w + CounterMod - r) % CounterMod BY Zenon, <1>3, <2>1 DEF R!readable
    <2>4. R!readable' = (v + CounterMod - r) % CounterMod BY Zenon, <2>0, <2>1 DEF R!readable, R!StoreCount
    <2>5. v \in 0..CounterMod - 1 /\ (v + CounterMod - r) % CounterMod = x + R!Needs(m)
        BY SMTT(30), <1>3, <1>4, <2>2, <2>3, WriteMoves
    <2> QED BY Zenon, <2>0, <2>4, <2>5
<1>6. chan \in Seq(Payloads) /\ Len(chan) \in Nat /\ chan' = Append(chan, m)
    BY <1>2, <1>3 DEF R!TypeOK, R!StoreCount
<1>7. /\ chan' \in Seq(Payloads) /\ Len(chan') = Len(chan) + 1 /\ chan'[Len(chan) + 1] = m
      /\ \A k \in 1..Len(chan) : chan'[k] = chan[k]
    BY <1>6, AppendIndex
<1>8. R!TypeOK' BY Zenon, <1>2, <1>5, <1>7 DEF R!TypeOK, R!StoreCount, R!reader
<1> DEFINE new == Append(at, x + R!Needs(m))
<1>9. Len(at) = Len(chan) + 1 /\ at[1] = 0 /\ at[Len(at)] = x BY Zenon, <1>1, <1>3 DEF Layout, Offsets
<1>10. /\ new \in Seq(Nat) /\ Len(new) = Len(at) + 1 /\ new[Len(at) + 1] = x + R!Needs(m)
       /\ \A k \in 1..Len(at) : new[k] = at[k] /\ at[k] \in Nat
    BY <1>4, AppendIndex
<1> HIDE DEF new
<1>11. Offsets(new)'
    <2>1. Len(new) = Len(chan') + 1 /\ new[1] = 0 BY <1>6, <1>7, <1>9, <1>10
    <2>2. ASSUME NEW k \in 1..Len(chan') PROVE new[k + 1] = new[k] + R!Needs(chan'[k])
        <3>1. CASE k = Len(chan) + 1 BY Zenon, <1>6, <1>7, <1>9, <1>10, <3>1
        <3>2. CASE k # Len(chan) + 1
            <4>1. k \in 1..Len(chan) BY <1>6, <1>7, <3>2
            <4>2. at[k + 1] = at[k] + R!Needs(chan[k]) BY Zenon, <1>1, <4>1 DEF Layout, Offsets
            <4>3. k \in 1..Len(at) /\ k + 1 \in 1..Len(at) BY <1>6, <1>9, <4>1
            <4>4. new[k] = at[k] /\ new[k + 1] = at[k + 1] BY Zenon, <1>10, <4>3
            <4> QED BY Zenon, <1>7, <4>1, <4>2, <4>4
        <3> QED BY Zenon, <3>1, <3>2
    <2>3. ASSUME NEW j \in 1..Len(new), NEW k \in 1..Len(new), j <= k PROVE new[j] <= new[k]
        <3>1. \A o \in 1..Len(at) : at[o] <= x
            <4>1. ASSUME NEW o \in 1..Len(at) PROVE Len(at) \in 1..Len(at) /\ o <= Len(at)
                BY <1>6, <1>9
            <4> QED BY Zenon, <1>1, <1>9, <4>1 DEF Layout, Offsets
        <3>2. CASE k = Len(at) + 1
            <4>1. CASE j = k BY SMTT(30), <1>4, <1>10, <3>2, <4>1
            <4>2. CASE j # k
                <5>1. j \in 1..Len(at) BY SMTT(30), <1>6, <1>9, <1>10, <2>3, <3>2, <4>2
                <5>2. new[j] = at[j] /\ at[j] \in Nat /\ at[j] <= x BY Zenon, <1>10, <3>1, <5>1
                <5>3. new[k] = x + R!Needs(m) BY Zenon, <1>10, <3>2
                <5> QED BY SMTT(30), <1>4, <5>2, <5>3
            <4> QED BY Zenon, <4>1, <4>2
        <3>3. CASE k # Len(at) + 1
            <4>1. j \in 1..Len(at) /\ k \in 1..Len(at) BY SMTT(30), <1>6, <1>9, <1>10, <2>3, <3>3
            <4> QED BY Zenon, <1>1, <1>10, <2>3, <4>1 DEF Layout, Offsets
        <3> QED BY Zenon, <3>2, <3>3
    <2>4. new[Len(chan') + 1] = R!readable' BY Zenon, <1>5, <1>7, <1>9, <1>10
    <2>5. R!readable' <= Size BY <1>4, <1>5
    <2> QED BY Zenon, <2>1, <2>2, <2>3, <2>4, <2>5 DEF Offsets
<1>12. Contents(b, new)'
    <2>1. data' = data BY Zenon DEF R!StoreCount
    <2>2. ASSUME NEW k \in 1..Len(chan')
          PROVE  /\ HoldsPrefix(R!AtOffset(b, new[k]), chan'[k])
                 /\ HoldsPayload(R!AtOffset(b, new[k]), chan'[k])
        <3>1. CASE k = Len(chan) + 1
            <4>1. chan'[k] = m /\ new[k] = x BY Zenon, <1>6, <1>7, <1>9, <1>10, <3>1
            <4>2. HoldsPrefix(R!AtOffset(b, x), m) /\ HoldsPayload(R!AtOffset(b, x), m)
                BY Zenon, <1>1, <1>3 DEF Layout, Writing, R!StoreCount
            <4> QED BY Zenon, <4>1, <4>2
        <3>2. CASE k # Len(chan) + 1
            <4>1. k \in 1..Len(chan) BY <1>6, <1>7, <3>2
            <4>2. chan'[k] = chan[k] /\ new[k] = at[k] BY Zenon, <1>6, <1>7, <1>9, <1>10, <4>1
            <4> QED BY Zenon, <1>1, <4>1, <4>2 DEF Layout, Contents
        <3> QED BY Zenon, <3>1, <3>2
    <2> QED BY Zenon, <2>1, <2>2 DEF Contents, HoldsPrefix, HoldsPayload
<1>13. Reading(b)'
    <2>1. ASSUME chan # <<>> PROVE chan' # <<>> /\ Head(chan') = Head(chan)
        BY <1>6, <1>7, <2>1
    <2> QED BY Zenon, <1>1, <2>1 DEF Layout, Reading, R!StoreCount, R!reader
<1>14. Writing(R!AtOffset(b, x + R!Needs(m)))'
    <2>1. write_index = R!Advance(R!AtOffset(b, x), R!Needs(m))
        BY Zenon, <1>1, <1>3 DEF Layout, Writing, R!StoreCount
    <2>2. R!AtOffset(b, x) \in Ring BY Zenon, OffsetFacts
    <2>3. R!Advance(R!AtOffset(b, x), R!Needs(m)) = R!AtOffset(R!AtOffset(b, x), R!Needs(m))
        BY Zenon, <1>4, <2>2, OffsetFacts
    <2>4. R!AtOffset(R!AtOffset(b, x), R!Needs(m)) = R!AtOffset(b, x + R!Needs(m))
        BY Zenon, <1>4, OffsetFacts
    <2> QED BY Zenon, <2>1, <2>3, <2>4 DEF Writing, R!StoreCount
<1>15. Layout(b, new)' BY Zenon, <1>5, <1>11, <1>12, <1>13, <1>14 DEF Layout
<1> QED BY Zenon, <1>3, <1>8, <1>10, <1>15 DEF RInv

\* The writer dies and a new one opens the ring.
LEMMA WriterCrashInv ==
    ASSUME RingConstants, Crashes = "outside commits", RInv, R!WriterCrash PROVE RInv'
<1>1. PICK b \in Ring, at \in Seq(Nat) : Layout(b, at) BY Zenon DEF RInv
<1>2. R!TypeOK /\ R!TypeOK' BY Zenon DEF RInv, R!TypeOK, R!WriterCrash, R!shared, R!reader
<1>3. R!readable' = R!readable /\ Offsets(at)' /\ Contents(b, at)'
    BY Zenon, <1>1, <1>2, Committed DEF R!WriterCrash, R!shared
<1>4. Reading(b)' BY Zenon, <1>1 DEF Layout, Reading, R!WriterCrash, R!shared, R!reader
<1>5. Writing(R!AtOffset(b, R!readable))'
    BY Zenon, <1>1, <1>3 DEF Layout, Writing, R!WriterCrash, R!shared
<1> QED BY Zenon, <1>1, <1>2, <1>3, <1>4, <1>5 DEF RInv, Layout

-----------------------------------------------------------------------------
(* The steps of the reader.                                                *)

\* What is readable begins with the oldest message.
LEMMA Oldest ==
    ASSUME RingConstants, R!TypeOK, NEW b \in Ring, NEW at \in Seq(Nat), Layout(b, at), chan # <<>>
    PROVE  /\ Head(chan) \in Payloads /\ Head(chan) = chan[1] /\ 1 \in 1..Len(chan)
           /\ R!Needs(Head(chan)) <= R!readable /\ at[2] = R!Needs(Head(chan))
           /\ HoldsPrefix(b, Head(chan)) /\ HoldsPayload(b, Head(chan))
<1>1. /\ chan \in Seq(Payloads) /\ Len(chan) \in Nat
      /\ \A k \in 1..Len(chan) : chan[k] \in Payloads /\ at[k] \in Nat
                                 /\ at[k] + R!Needs(chan[k]) <= R!readable
    BY Zenon, LayoutFacts
<1>2. 1 \in 1..Len(chan) /\ Head(chan) = chan[1] BY <1>1, EmptyLen
<1>3. Head(chan) \in Payloads /\ at[1] = 0 BY Zenon, <1>1, <1>2 DEF Layout, Offsets
<1>4. R!Needs(Head(chan)) \in Nat BY Zenon, <1>3, NeedsFacts
<1>5. at[1 + 1] = at[1] + R!Needs(chan[1]) BY Zenon, <1>2 DEF Layout, Offsets
<1>6. R!Needs(Head(chan)) <= R!readable /\ at[2] = R!Needs(Head(chan))
    BY SMTT(30), <1>1, <1>2, <1>3, <1>4, <1>5
<1>7. R!AtOffset(b, 0) = b BY OffsetFacts, Sizes
<1>8. HoldsPrefix(R!AtOffset(b, 0), chan[1]) /\ HoldsPayload(R!AtOffset(b, 0), chan[1])
    BY Zenon, <1>2, <1>3 DEF Layout, Contents
<1> QED BY Zenon, <1>2, <1>3, <1>6, <1>7, <1>8

\* The reader looks for a message.
LEMMA TryReadInv == ASSUME RingConstants, RInv, NEW s \in BufSizes, R!TryRead(s) PROVE RInv'
<1>1. PICK b \in Ring, at \in Seq(Nat) : Layout(b, at) BY Zenon DEF RInv
<1>2. R!TypeOK BY Zenon DEF RInv
<1>3. chan # <<>>
    <2>1. ASSUME chan = <<>> PROVE at[1] = R!readable
        BY <1>1, <2>1 DEF Layout, Offsets
    <2>2. at[1] = 0 /\ R!readable >= Prefix /\ Prefix \in Nat \ {0}
        BY Zenon, <1>1 DEF RingConstants, Layout, Offsets, R!TryRead
    <2> QED BY <2>1, <2>2
<1> DEFINE m == Head(chan)
<1>4. m \in Payloads /\ HoldsPrefix(b, m) BY Zenon, <1>1, <1>2, <1>3, Oldest
<1> HIDE DEF m
<1>5. read_index = b BY Zenon, <1>1 DEF Layout, Reading, R!TryRead
<1>6. R!Loaded(read_index, Prefix) = R!PrefixBytes(LenOf[m])
    BY Zenon, <1>4, <1>5 DEF R!Loaded, R!PrefixBytes, HoldsPrefix
<1>7. ASSUME NEW n, R!PrefixBytes(LenOf[m]) = R!PrefixBytes(n) PROVE n = LenOf[m]
    <2>1. 1 \in 1..Prefix BY <1>4, NeedsFacts
    <2>2. R!PrefixBytes(LenOf[m])[1] = <<LenOf[m], 1>> /\ R!PrefixBytes(n)[1] = <<n, 1>>
        BY Zenon, <2>1, BytesFacts
    <2> QED BY <1>7, <2>2
<1>8. LenOf[m] \in R!Lengths BY Zenon, <1>4 DEF R!Lengths
<1>9. len' = LenOf[m]
    BY Zenon, <1>6, <1>7, <1>8 DEF R!TryRead, R!Decoded
<1>10. R!TypeOK' BY Zenon, <1>2, <1>4, <1>9 DEF RingConstants, R!TypeOK, R!TryRead, R!shared, R!writer
<1>11. R!readable' = R!readable /\ Offsets(at)' /\ Contents(b, at)'
    BY Zenon, <1>1, <1>2, Committed DEF R!TryRead, R!shared
<1>12. Reading(b)' BY Zenon, <1>3, <1>5, <1>9 DEF Reading, R!TryRead, R!shared, m
<1>13. Writing(R!AtOffset(b, R!readable))'
    BY Zenon, <1>1, <1>11 DEF Layout, Writing, R!TryRead, R!shared, R!writer, HoldsPrefix, HoldsPayload
<1> QED BY Zenon, <1>1, <1>10, <1>11, <1>12, <1>13 DEF RInv, Layout

\* The reader compares the length with its buffer.
LEMMA CheckLengthInv == ASSUME RingConstants, RInv, R!CheckLength PROVE RInv'
<1>1. PICK b \in Ring, at \in Seq(Nat) : Layout(b, at) BY Zenon DEF RInv
<1>2. R!TypeOK /\ R!TypeOK' BY DEF RInv, R!TypeOK, R!CheckLength, R!shared, R!writer
<1>3. R!readable' = R!readable /\ Offsets(at)' /\ Contents(b, at)'
    BY Zenon, <1>1, <1>2, Committed DEF R!CheckLength, R!shared
<1>4. Reading(b)' BY Zenon, <1>1 DEF Layout, Reading, R!CheckLength, R!shared
<1>5. Writing(R!AtOffset(b, R!readable))'
    BY Zenon, <1>1, <1>3 DEF Layout, Writing, R!CheckLength, R!shared, R!writer, HoldsPrefix, HoldsPayload
<1> QED BY Zenon, <1>1, <1>2, <1>3, <1>4, <1>5 DEF RInv, Layout

\* The reader copies the payload out.
LEMMA CopyPayloadInv == ASSUME RingConstants, RInv, R!CopyPayload PROVE RInv'
<1>1. PICK b \in Ring, at \in Seq(Nat) : Layout(b, at) BY Zenon DEF RInv
<1>2. R!TypeOK /\ R!TypeOK' BY Zenon DEF RInv, R!TypeOK, R!CopyPayload, R!shared, R!writer
<1>3. R!readable' = R!readable /\ Offsets(at)' /\ Contents(b, at)'
    BY Zenon, <1>1, <1>2, Committed DEF R!CopyPayload, R!shared
<1>4. chan # <<>> /\ read_index = b /\ len = LenOf[Head(chan)]
    BY Zenon, <1>1 DEF Layout, Reading, R!CopyPayload
<1>5. HoldsPayload(b, Head(chan)) BY Zenon, <1>1, <1>2, <1>4, Oldest
<1>6. buf' = R!PayloadBytes(Head(chan))
    BY Zenon, <1>4, <1>5 DEF R!CopyPayload, R!Loaded, R!PayloadBytes, HoldsPayload
<1>7. Reading(b)' BY Zenon, <1>4, <1>6 DEF Reading, R!CopyPayload, R!shared
<1>8. Writing(R!AtOffset(b, R!readable))'
    BY Zenon, <1>1, <1>3 DEF Layout, Writing, R!CopyPayload, R!shared, R!writer, HoldsPrefix, HoldsPayload
<1> QED BY Zenon, <1>1, <1>2, <1>3, <1>7, <1>8 DEF RInv, Layout

\* The reader moves read_index on.
LEMMA ReadIndexInv == ASSUME RingConstants, RInv, R!ReadIndex PROVE RInv'
<1>1. PICK b \in Ring, at \in Seq(Nat) : Layout(b, at) BY Zenon DEF RInv
<1>2. R!TypeOK BY Zenon DEF RInv
<1>3. /\ chan # <<>> /\ read_index = b /\ len = LenOf[Head(chan)]
      /\ buf = R!PayloadBytes(Head(chan))
    BY Zenon, <1>1 DEF Layout, Reading, R!ReadIndex
<1>4. Prefix + len \in 0..Size
    <2>1. Head(chan) \in Payloads /\ R!Needs(Head(chan)) <= R!readable BY Zenon, <1>1, <1>2, <1>3, Oldest
    <2>2. R!readable \in 0..Size BY Zenon, <1>1, <1>2, LayoutFacts
    <2>3. R!Needs(Head(chan)) = Prefix + len /\ R!Needs(Head(chan)) \in Nat
        BY Zenon, <1>3, <2>1, NeedsFacts
    <2> QED BY <2>1, <2>2, <2>3, Sizes
<1>5. read_index' \in Ring BY Zenon, <1>3, <1>4, OffsetFacts DEF R!ReadIndex
<1>6. R!TypeOK' BY Zenon, <1>2, <1>5 DEF R!TypeOK, R!ReadIndex, R!writer, Ring
<1>7. R!readable' = R!readable /\ Offsets(at)' /\ Contents(b, at)'
    BY Zenon, <1>1, <1>2, Committed DEF R!ReadIndex
<1>8. Reading(b)' BY Zenon, <1>3 DEF Reading, R!ReadIndex
<1>9. Writing(R!AtOffset(b, R!readable))'
    BY Zenon, <1>1, <1>7 DEF Layout, Writing, R!ReadIndex, R!writer, HoldsPrefix, HoldsPayload
<1> QED BY Zenon, <1>1, <1>6, <1>7, <1>8, <1>9 DEF RInv, Layout

\* The reader dies and a new one opens the ring.
LEMMA ReaderCrashInv ==
    ASSUME RingConstants, Crashes = "outside commits", RInv, R!ReaderCrash PROVE RInv'
<1>1. PICK b \in Ring, at \in Seq(Nat) : Layout(b, at) BY Zenon DEF RInv
<1>2. R!TypeOK /\ R!TypeOK' BY Zenon DEF RInv, R!TypeOK, R!ReaderCrash, R!shared, R!writer
<1>3. R!readable' = R!readable /\ Offsets(at)' /\ Contents(b, at)'
    BY Zenon, <1>1, <1>2, Committed DEF R!ReaderCrash, R!shared
<1>4. Reading(b)' BY Zenon, <1>1 DEF Layout, Reading, R!ReaderCrash, R!shared
<1>5. Writing(R!AtOffset(b, R!readable))'
    BY Zenon, <1>1, <1>3 DEF Layout, Writing, R!ReaderCrash, R!shared, R!writer, HoldsPrefix, HoldsPayload
<1> QED BY Zenon, <1>1, <1>2, <1>3, <1>4, <1>5 DEF RInv, Layout

\* The bytes of a message tell which one it is.
LEMMA MessageOf == ASSUME RingConstants, NEW m \in Payloads PROVE R!Message(R!PayloadBytes(m)) = m
<1>1. ASSUME NEW n \in Payloads, R!PayloadBytes(m) = R!PayloadBytes(n) PROVE n = m
    <2>1. LenOf[m] \in Nat /\ LenOf[n] \in Nat BY Zenon, NeedsFacts
    <2>2. LenOf[m] = LenOf[n] BY Zenon, <1>1, BytesFacts
    <2>3. CASE LenOf[m] = 0 BY Zenon, <2>2, <2>3 DEF RingConstants
    <2>4. CASE LenOf[m] # 0
        <3>1. 1 \in 1..LenOf[m] /\ 1 \in 1..LenOf[n] BY <2>1, <2>2, <2>4
        <3>2. R!PayloadBytes(m)[1] = <<m, 1>> /\ R!PayloadBytes(n)[1] = <<n, 1>>
            BY Zenon, <3>1, BytesFacts
        <3> QED BY <1>1, <3>2
    <2> QED BY Zenon, <2>3, <2>4
<1> DEFINE n == CHOOSE n \in Payloads : R!PayloadBytes(m) = R!PayloadBytes(n)
<1>2. n \in Payloads /\ R!PayloadBytes(m) = R!PayloadBytes(n) BY Zenon
<1>3. R!Message(R!PayloadBytes(m)) = n BY Zenon DEF R!Message
<1> QED BY Zenon, <1>1, <1>2, <1>3

\* The counter gives the room of the oldest message back: all offsets shrink by
\* its length.
LEMMA ReadCountInv ==
    ASSUME RingConstants, RInv, R!ReadCount
    PROVE  RInv' /\ chan # <<>> /\ rgot' = Head(chan) /\ chan' = Tail(chan)
<1>1. PICK b \in Ring, at \in Seq(Nat) : Layout(b, at) BY Zenon DEF RInv
<1>2. R!TypeOK BY Zenon DEF RInv
<1>3. /\ chan # <<>> /\ read_index = R!Advance(b, Prefix + len) /\ len = LenOf[Head(chan)]
      /\ buf = R!PayloadBytes(Head(chan))
    BY Zenon, <1>1 DEF Layout, Reading, R!ReadCount
<1>4. PICK x \in 0..Size, n \in Nat \ {0} : x = R!readable /\ n = R!Needs(Head(chan)) /\ n <= x
                                            /\ n = Prefix + len /\ n = at[2]
    <2>1. /\ Head(chan) \in Payloads /\ R!Needs(Head(chan)) <= R!readable
          /\ at[2] = R!Needs(Head(chan))
        BY Zenon, <1>1, <1>2, <1>3, Oldest
    <2>2. R!readable \in 0..Size BY Zenon, <1>1, <1>2, LayoutFacts
    <2>3. R!Needs(Head(chan)) = Prefix + len /\ R!Needs(Head(chan)) \in Nat \ {0}
        BY Zenon, <1>3, <2>1, NeedsFacts
    <2> QED BY Zenon, <2>1, <2>2, <2>3
<1>5. Head(chan) \in Payloads BY Zenon, <1>1, <1>2, <1>3, Oldest
<1>6. rgot' = Head(chan) /\ chan' = Tail(chan) BY Zenon, <1>3, <1>5, MessageOf DEF R!ReadCount
<1>7. chan \in Seq(Payloads) /\ Len(chan) \in Nat \ {0} BY Zenon, <1>2, <1>3, EmptyLen DEF R!TypeOK
<1>8. /\ chan' \in Seq(Payloads) /\ Len(chan') = Len(chan) - 1
      /\ \A k \in 1..Len(chan') : chan'[k] = chan[k + 1]
    BY Zenon, <1>3, <1>6, <1>7, TailIndex
<1>9. read' \in 0..CounterMod - 1 /\ R!readable' = x - n
    <2>1. PICK r \in 0..CounterMod - 1, w \in 0..CounterMod - 1 :
             r = read /\ w = write
        BY Zenon, <1>2 DEF R!TypeOK
    <2>0. PICK v : v = read' BY Zenon
    <2>2. v = (r + n) % CounterMod
        <3>1. v = (r + Prefix + len) % CounterMod BY Zenon, <2>0, <2>1 DEF R!ReadCount
        <3>2. Prefix \in Nat /\ len \in Nat BY Zenon, <1>2, <1>5, NeedsFacts DEF R!TypeOK
        <3>3. r + Prefix + len = r + n BY <1>4, <3>2
        <3> QED BY Zenon, <3>1, <3>3
    <2>3. x = (w + CounterMod - r) % CounterMod BY Zenon, <1>4, <2>1 DEF R!readable
    <2>4. R!readable' = (w + CounterMod - v) % CounterMod BY Zenon, <2>0, <2>1 DEF R!readable, R!ReadCount
    <2>5. n \in Nat /\ n <= (w + CounterMod - r) % CounterMod BY Zenon, <1>4, <2>3
    <2>6. /\ v \in 0..CounterMod - 1
          /\ (w + CounterMod - v) % CounterMod = ((w + CounterMod - r) % CounterMod) - n
        BY <2>2, <2>5, ReadMoves
    <2> QED BY Zenon, <2>0, <2>3, <2>4, <2>6
<1>10. R!TypeOK' BY Zenon, <1>2, <1>5, <1>6, <1>8, <1>9 DEF R!TypeOK, R!ReadCount, R!writer
<1>11. /\ Len(at) = Len(chan) + 1
       /\ \A k \in 1..Len(chan) : at[k + 1] = at[k] + R!Needs(chan[k])
       /\ \A j, k \in 1..Len(at) : j <= k => at[j] <= at[k]
       /\ at[Len(at)] = x
    BY Zenon, <1>1, <1>4 DEF Layout, Offsets
<1>12. PICK c \in Ring : c = R!AtOffset(b, n) /\ c = read_index
    <2>1. n \in 0..Size BY <1>4, Sizes
    <2> QED BY SMTT(30), <1>3, <1>4, <2>1, OffsetFacts
<1>13. \A k \in 1..Len(chan) : at[k + 1] \in Nat /\ at[k + 1] >= n
    <2>1. ASSUME NEW k \in 1..Len(chan)
          PROVE  k + 1 \in 1..Len(at) /\ 2 \in 1..Len(at) /\ 2 <= k + 1
        BY <1>7, <1>11
    <2> QED BY SMTT(30), <1>4, <1>11, <2>1
<1>14. PICK new \in Seq(Nat) :
          Len(new) = Len(chan) /\ \A k \in 1..Len(chan) : new[k] = at[k + 1] - n
    <2> DEFINE shifted == [k \in 1..Len(chan) |-> at[k + 1] - n]
    <2>1. \A k \in 1..Len(chan) : at[k + 1] - n \in Nat BY SMTT(30), <1>4, <1>13
    <2>2. shifted \in Seq(Nat) /\ Len(shifted) = Len(chan) BY <1>7, <2>1
    <2>3. \A k \in 1..Len(chan) : shifted[k] = at[k + 1] - n BY Zenon
    <2> QED BY Zenon, <2>2, <2>3
<1>15. Offsets(new)'
    <2>0. Len(new) = Len(chan') + 1 /\ 1 \in 1..Len(chan) BY <1>7, <1>8, <1>14
    <2>1. new[1] = 0
        <3>1. new[1] = at[1 + 1] - n BY Zenon, <1>14, <2>0
        <3>2. 1 + 1 = 2 /\ n - n = 0 OBVIOUS
        <3> QED BY Zenon, <1>4, <3>1, <3>2
    <2>2. ASSUME NEW k \in 1..Len(chan') PROVE new[k + 1] = new[k] + R!Needs(chan'[k])
        <3>1. k \in 1..Len(chan) /\ k + 1 \in 1..Len(chan) BY <1>7, <1>8
        <3>2. at[k + 1 + 1] = at[k + 1] + R!Needs(chan[k + 1]) BY Zenon, <1>11, <3>1
        <3>3. chan'[k] = chan[k + 1] /\ chan[k + 1] \in Payloads BY <1>7, <1>8, <3>1
        <3>4. R!Needs(chan[k + 1]) \in Nat BY Zenon, <3>3, NeedsFacts
        <3>5. new[k] = at[k + 1] - n /\ new[k + 1] = at[k + 1 + 1] - n BY Zenon, <1>14, <3>1
        <3>6. at[k + 1] \in Nat BY Zenon, <1>13, <3>1
        <3>7. PICK d \in Nat : d = at[k + 1] BY Zenon, <3>6
        <3>8. PICK y \in Nat : y = R!Needs(chan[k + 1]) BY Zenon, <3>4
        <3>9. (d + y) - n = (d - n) + y OBVIOUS
        <3> QED BY Zenon, <3>2, <3>3, <3>5, <3>7, <3>8, <3>9
    <2>3. ASSUME NEW j \in 1..Len(new), NEW k \in 1..Len(new), j <= k PROVE new[j] <= new[k]
        <3>1. j + 1 \in 1..Len(at) /\ k + 1 \in 1..Len(at) /\ j + 1 <= k + 1
            BY SMTT(30), <1>7, <1>11, <1>14, <2>3
        <3>2. at[j + 1] <= at[k + 1] BY Zenon, <1>11, <3>1
        <3>3. at[j + 1] \in Nat /\ at[k + 1] \in Nat BY Zenon, <1>13, <1>14
        <3>4. new[j] = at[j + 1] - n /\ new[k] = at[k + 1] - n BY Zenon, <1>14
        <3>5. \A d, y \in Nat : d <= y => d - n <= y - n OBVIOUS
        <3>6. at[j + 1] - n <= at[k + 1] - n BY Zenon, <3>2, <3>3, <3>5
        <3> QED BY Zenon, <3>4, <3>6
    <2>4. new[Len(chan') + 1] = R!readable'
        <3>1. Len(chan') + 1 = Len(chan) /\ Len(chan) \in 1..Len(chan) BY <1>7, <1>8
        <3>2. new[Len(chan)] = at[Len(chan) + 1] - n BY Zenon, <1>14, <3>1
        <3> QED BY Zenon, <1>9, <1>11, <3>1, <3>2
    <2>5. R!readable' <= Size BY <1>4, <1>9, Sizes
    <2> QED BY Zenon, <2>0, <2>1, <2>2, <2>3, <2>4, <2>5 DEF Offsets
<1>16. Contents(c, new)'
    <2>1. data' = data BY Zenon DEF R!ReadCount
    <2>2. ASSUME NEW k \in 1..Len(chan')
          PROVE  /\ HoldsPrefix(R!AtOffset(c, new[k]), chan'[k])
                 /\ HoldsPayload(R!AtOffset(c, new[k]), chan'[k])
        <3>1. k \in 1..Len(chan) /\ k + 1 \in 1..Len(chan) BY <1>7, <1>8
        <3>2. chan'[k] = chan[k + 1] /\ new[k] = at[k + 1] - n BY Zenon, <1>8, <1>14, <3>1
        <3>3. at[k + 1] \in Nat /\ at[k + 1] >= n /\ at[k + 1] <= x
            <4>1. k + 1 \in 1..Len(at) /\ Len(at) \in 1..Len(at) /\ k + 1 <= Len(at)
                BY <1>7, <1>11, <3>1
            <4> QED BY Zenon, <1>11, <1>13, <3>1, <4>1
        <3>4. PICK u \in 0..Size : u = new[k] /\ n + u = at[k + 1] /\ u \in 0..Size - n
            <4>1. \A d \in Nat : n <= d /\ d <= x => d - n \in 0..Size - n /\ n + (d - n) = d
                                                     /\ d - n \in 0..Size
                BY Sizes
            <4> QED BY Zenon, <3>2, <3>3, <4>1
        <3>5. n \in 0..Size BY <1>4, Sizes
        <3>6. R!AtOffset(R!AtOffset(b, n), u) = R!AtOffset(b, n + u) BY SMTT(30), <3>4, <3>5, OffsetFacts
        <3>7. /\ HoldsPrefix(R!AtOffset(b, at[k + 1]), chan[k + 1])
              /\ HoldsPayload(R!AtOffset(b, at[k + 1]), chan[k + 1])
            BY Zenon, <1>1, <3>1 DEF Layout, Contents
        <3> QED BY Zenon, <1>12, <3>2, <3>4, <3>6, <3>7
    <2> QED BY Zenon, <2>1, <2>2 DEF Contents, HoldsPrefix, HoldsPayload
<1>17. Reading(c)' BY Zenon, <1>12 DEF Reading, R!ReadCount
<1>18. R!AtOffset(c, x - n) = R!AtOffset(b, x)
    <2>1. n \in 0..Size /\ x - n \in 0..Size - n /\ n + (x - n) = x BY SMTT(30), <1>4, Sizes
    <2>2. R!AtOffset(R!AtOffset(b, n), x - n) = R!AtOffset(b, n + (x - n)) BY Zenon, <2>1, OffsetFacts
    <2> QED BY Zenon, <1>12, <2>1, <2>2
<1>19. Writing(R!AtOffset(c, x - n))'
    <2>1. PICK e : e = R!AtOffset(b, x) BY Zenon
    <2>2. Writing(e) BY Zenon, <1>1, <1>4, <2>1 DEF Layout
    <2>3. ASSUME rwpc # "idle" PROVE R!readable' + R!Needs(msg) <= Size
        <3>1. msg \in Payloads /\ x + R!Needs(msg) <= Size BY Zenon, <1>4, <2>2, <2>3 DEF Writing
        <3>2. R!Needs(msg) \in Nat BY Zenon, <3>1, NeedsFacts
        <3> QED BY SMTT(30), <1>4, <1>9, <3>1, <3>2, Sizes
    <2>4. Writing(e)'
        BY Zenon, <2>2, <2>3 DEF Writing, R!ReadCount, R!writer, HoldsPrefix, HoldsPayload
    <2> QED BY Zenon, <1>18, <2>1, <2>4
<1>20. Layout(c, new)' BY Zenon, <1>9, <1>15, <1>16, <1>17, <1>19 DEF Layout
<1> QED BY Zenon, <1>3, <1>6, <1>10, <1>14, <1>20 DEF RInv

-----------------------------------------------------------------------------
(* The theorems.                                                           *)

\* The ring is empty at the start.
LEMMA RingInit == ASSUME RingConstants, R!Init PROVE RInv
<1>1. Size \in Nat \ {0} /\ CounterMod \in Nat \ {0} BY Zenon, Sizes
<1>2. R!readable = 0
    <2>1. 0 \in 0..CounterMod - 1 BY <1>1
    <2>2. (0 + CounterMod - 0) % CounterMod
             = IF 0 >= 0 THEN 0 - 0 ELSE 0 + CounterMod - 0
        BY Zenon, <2>1, Difference
    <2> QED BY <2>2 DEF R!Init, R!readable
<1>3. R!TypeOK BY <1>1 DEF R!Init, R!TypeOK
<1>4. 0 \in Ring BY <1>1 DEF Ring
<1>5. <<0>> \in Seq(Nat) /\ Len(<<0>>) = 1 /\ <<0>>[1] = 0 OBVIOUS
<1>6. PICK at \in Seq(Nat) : Len(at) = 1 /\ at[1] = 0 BY Zenon, <1>5
<1>7. chan = <<>> /\ Len(chan) = 0 BY Zenon DEF R!Init
<1>8. Offsets(at) BY <1>1, <1>2, <1>6, <1>7 DEF Offsets
<1>9. Contents(0, at) BY <1>7 DEF Contents
<1>10. Reading(0) BY Zenon DEF R!Init, Reading
<1>11. 0 \in 0..Size BY <1>1
<1>12. R!AtOffset(0, R!readable) = 0 BY Zenon, <1>2, <1>4, <1>11, OffsetFacts
<1>13. Writing(0) BY Zenon DEF R!Init, Writing
<1> QED BY Zenon, <1>3, <1>4, <1>8, <1>9, <1>10, <1>12, <1>13 DEF RInv, Layout

\* Every step keeps the ring's invariant, and is a step of the abstract queue
\* or leaves it alone: storing write and storing read are where a message
\* enters and leaves.
LEMMA RingStep ==
    ASSUME RingConstants, Crashes = "outside commits", RInv, [R!Next]_(R!vars)
    PROVE  RInv' /\ [R!Fifo!Next]_(R!Fifo!vars)
<1>1. CASE R!StoreCount
    <2>1. RInv' /\ msg \in Payloads BY Zenon, <1>1, StoreCountInv
    <2>2. R!Fifo!Send(msg) BY Zenon, <1>1 DEF R!StoreCount, R!Fifo!Send
    <2> QED BY Zenon, <2>1, <2>2 DEF R!Fifo!Next
<1>2. CASE R!ReadCount
    <2>1. RInv' /\ chan # <<>> /\ rgot' = Head(chan) /\ chan' = Tail(chan)
        BY Zenon, <1>2, ReadCountInv
    <2> QED BY Zenon, <2>1 DEF R!Fifo!Next, R!Fifo!Receive
<1>3. ASSUME NEW m \in Payloads, R!TryWrite(m) PROVE RInv' /\ UNCHANGED <<chan, rgot>>
    BY Zenon, <1>3, TryWriteInv DEF R!TryWrite
<1>4. CASE R!StorePrefix BY Zenon, <1>4, StorePrefixInv DEF R!StorePrefix, R!Fifo!vars
<1>5. CASE R!StorePayload BY Zenon, <1>5, StorePayloadInv DEF R!StorePayload, R!Fifo!vars
<1>6. CASE R!StoreIndex BY Zenon, <1>6, StoreIndexInv DEF R!StoreIndex, R!Fifo!vars
<1>7. CASE R!WriterCrash BY Zenon, <1>7, WriterCrashInv DEF R!WriterCrash, R!Fifo!vars
<1>8. ASSUME NEW s \in BufSizes, R!TryRead(s) PROVE RInv' /\ UNCHANGED <<chan, rgot>>
    BY Zenon, <1>8, TryReadInv DEF R!TryRead
<1>9. CASE R!CheckLength BY Zenon, <1>9, CheckLengthInv DEF R!CheckLength, R!Fifo!vars
<1>10. CASE R!CopyPayload BY Zenon, <1>10, CopyPayloadInv DEF R!CopyPayload, R!Fifo!vars
<1>11. CASE R!ReadIndex BY Zenon, <1>11, ReadIndexInv DEF R!ReadIndex, R!Fifo!vars
<1>12. CASE R!ReaderCrash BY Zenon, <1>12, ReaderCrashInv DEF R!ReaderCrash, R!Fifo!vars
<1>13. CASE UNCHANGED R!vars
    <2>1. PICK b \in Ring, at \in Seq(Nat) : Layout(b, at) BY Zenon DEF RInv
    <2>2. R!TypeOK' BY Zenon, <1>13 DEF RInv, R!TypeOK, R!vars, R!shared, R!writer, R!reader
    <2>3. Layout(b, at)'
        BY Zenon, <1>13, <2>1 DEF Layout, Offsets, Contents, Reading, Writing, R!readable,
                           HoldsPrefix, HoldsPayload, R!vars, R!shared, R!writer, R!reader
    <2> QED BY Zenon, <1>13, <2>2, <2>3 DEF RInv, R!vars, R!Fifo!vars
<1> QED
    BY ZenonT(30), <1>1, <1>2, <1>3, <1>4, <1>5, <1>6, <1>7, <1>8, <1>9, <1>10, <1>11, <1>12, <1>13
    DEF R!Next, R!WriterStep, R!ReaderStep, R!Fifo!vars

\* The bytes between the two indices are always the messages that were written
\* and not read, one after the other, each with its length in front, whatever
\* the ring's size, the messages' lengths and the number of times the counters
\* have wrapped.
THEOREM RingInvariance ==
    ASSUME RingConstants, Crashes = "outside commits" PROVE R!Spec => []RInv
<1>1. R!Init => RInv BY Zenon, RingInit
<1>2. RInv /\ [R!Next]_(R!vars) => RInv' BY Zenon, RingStep
<1> QED BY <1>1, <1>2, PTL DEF R!Spec

\* With no commit under way the indexes are as far apart as the counters.
LEMMA Agree == ASSUME RingConstants, RInv PROVE R!CountersAgree
<1>1. R!TypeOK BY Zenon DEF RInv
<1>2. PICK b \in Ring, at \in Seq(Nat) : Layout(b, at) BY Zenon DEF RInv
<1>3. PICK x \in 0..Size : x = R!readable BY Zenon, <1>1, <1>2, LayoutFacts
<1>4. x <= Size BY Sizes
<1>5. ASSUME rwpc # "count", rrpc # "count" PROVE (read_index + x) % Size = write_index
    <2>1. read_index = b BY Zenon, <1>2, <1>5 DEF Layout, Reading
    <2>2. write_index = R!AtOffset(b, x) BY Zenon, <1>2, <1>3, <1>5 DEF Layout, Writing
    <2> DEFINE y == b + x
    <2>3. Size \in Nat \ {0} /\ y \in 0..Size + Size - 1 BY Sizes DEF Ring
    <2>4. R!AtOffset(b, x) = IF y < Size THEN y ELSE y - Size BY Sizes DEF R!AtOffset, Ring
    <2>5. y % Size = IF y < Size THEN y ELSE y - Size
        <3> HIDE DEF y
        <3> QED BY Zenon, <2>3, ModOnce
    <2> QED BY Zenon, <2>1, <2>2, <2>4, <2>5
<1> QED BY Zenon, <1>1, <1>3, <1>4, <1>5 DEF R!CountersAgree

\* Outside a commit of try_write or try_read the counters of shm_data and its
\* indices describe the same bytes, and never more than the ring holds.
THEOREM CountersCorrect ==
    ASSUME RingConstants, Crashes = "outside commits" PROVE R!Spec => []R!CountersAgree
<1>1. RInv => R!CountersAgree BY Zenon, Agree
<1> QED BY <1>1, RingInvariance, PTL

\* The ring implements a queue of whole messages: what try_write commits is
\* what try_read returns, once and in order, also over a restart of either
\* process outside a commit.
THEOREM RingImplementsFifo ==
    ASSUME RingConstants, Crashes = "outside commits" PROVE R!Spec => R!ImplementsFifo
<1>1. R!Init => R!Fifo!Init BY Zenon DEF R!Init, R!Fifo!Init
<1>2. RInv /\ [R!Next]_(R!vars) => [R!Fifo!Next]_(R!Fifo!vars) BY Zenon, RingStep
<1> QED BY <1>1, <1>2, RingInvariance, PTL DEF R!Spec, R!ImplementsFifo, R!Fifo!Spec
=============================================================================
