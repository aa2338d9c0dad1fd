------------------------- MODULE GateRoutingProofs --------------------------
(***************************************************************************)
(* Proofs about GateRouting, for any services, messages, links, wires and  *)
(* changes: a service gets the messages of another one in order.           *)
(***************************************************************************)
EXTENDS GateRouting, SeqFacts

-----------------------------------------------------------------------------
(* The sender's links *)

DownMsgs == [kind : {"registered"}] \cup [kind : {"answer"}, ok : BOOLEAN, svc : Snapshots]
            \cup [kind : {"brd"}, svc : Snapshots]

Tasks == [st : {"none", "asked", "unheard", "woken", "done"}, ok : BOOLEAN, svc : Snapshots, heard : SUBSET Services]

LinkTypes ==
    /\ nlink \in Nat /\ sock \in 0..nlink /\ phase \in {"down", "registering", "ready"}
    /\ (sock = 0) = (phase = "down")
    /\ view \in Snapshots /\ channel \in BOOLEAN /\ overtaken \subseteq Services
    /\ task \in [Links -> Tasks] /\ down \in [Links -> Seq(DownMsgs)]

Listener ==
    /\ alive \subseteq 1..nlink /\ open \subseteq alive /\ reg \subseteq alive /\ wants \subseteq reg
    /\ owner \in alive \cup {0}
    /\ subs \in Seq(Nat) /\ Range(subs) = wants /\ IsInjective(subs)

Outside ==
    /\ online \in [Services -> BOOLEAN] /\ life \in [Services -> {"new", "uploaded", "on", "off"}]
    /\ news \in Seq(Services \X BOOLEAN) /\ dead \subseteq 1..Addresses

\* What is left of a budget: each loss of the link or of the wire in use was
\* paid for.
Counts == [start : SUBSET Services, sends : Nat, links : Nat, wires : Nat, changes : Nat, outages : Nat]

Paid ==
    /\ left \in Counts
    /\ \E b \in Budgets :
          /\ nlink + left.links <= b.links + (IF sock # 0 /\ sock \in open THEN 1 ELSE 0)
          /\ nwire + left.wires <= b.wires + (IF rsock # 0 /\ rsock \in ropen THEN 1 ELSE 0)

-----------------------------------------------------------------------------
(* The messages *)

Msgs == 1..Len(dest)

\* The pairs that keep their order: same destination, same wire.
Before == {p \in Msgs \X Msgs : dest[p[1]] = dest[p[2]] /\ via[p[1]] = via[p[2]] => p[1] < p[2]}

Ordered(q, B) == \A i, j \in 1..Len(q) : i < j => <<q[i], q[j]>> \in B

MsgTypes ==
    /\ dest \in Seq(Services) /\ via \in Seq(Nat) /\ Len(via) = Len(dest)
    /\ known \in [Gates -> SUBSET Services]
    /\ out \in Seq(Msgs) /\ rq \in Seq(Msgs)
    /\ wire \in [Wires -> Seq(Msgs)]
    /\ chan \in [Services -> Seq(Msgs)] /\ parked \in [Gates -> [Services -> Seq(Msgs)]]
    /\ nwire \in Nat /\ rsock \in {0, nwire} /\ ropen \subseteq listening /\ listening \subseteq 1..nwire

\* What is where.
Places ==
    /\ \A m \in Msgs : via[m] <= nwire
    /\ \A m \in Range(out) : via[m] = 0
    /\ \A m \in Range(rq) : via[m] = 0 /\ dest[m] \in known["a"] /\ Home[dest[m]] = "b"
    /\ \A k \in Wires : \A m \in Range(wire[k]) : via[m] = k /\ dest[m] \in known["a"] /\ Home[dest[m]] = "b"
    /\ \A s \in Services :
          /\ \A m \in Range(parked["a"][s]) : via[m] = 0 /\ dest[m] = s
          /\ \A m \in Range(parked["b"][s]) : via[m] # 0 /\ dest[m] = s /\ s \in known["a"] /\ Home[s] = "b"
          /\ \A m \in Range(chan[s]) : (via[m] = 0 <=> Home[s] = "a") /\ dest[m] = s /\ s \in known["a"]
          /\ \A g \in Gates : s \in known[g] => parked[g][s] = <<>>
          /\ s \notin known[Home[s]] => chan[s] = <<>>
    /\ rsock # 0 => rq = <<>>

\* What "a" has not read yet comes after all the rest.
Behind(m) ==
    /\ \A s \in Services : \A x \in Range(chan[s]) \cup Range(parked["a"][s]) \cup Range(parked["b"][s]) : x < m
    /\ \A k \in Wires : \A x \in Range(wire[k]) : x < m
    /\ \A x \in Range(rq) : x < m

Order ==
    /\ \A i, j \in 1..Len(out) : i < j => out[i] < out[j]
    /\ \A m \in Range(out) : Behind(m)
    /\ Ordered(rq, Before) /\ \A k \in Wires : Ordered(wire[k], Before)
    /\ \A s \in Services : /\ Ordered(chan[s], Before)
                           /\ \A g \in Gates : Ordered(parked[g][s], Before)
    /\ \A s \in Services, k \in Wires : \A x \in Range(chan[s]) \cup Range(parked["b"][s]), y \in Range(wire[k]) :
          <<x, y>> \in Before

IInv == LinkTypes /\ Listener /\ Outside /\ Paid /\ MsgTypes /\ Places /\ Order

-----------------------------------------------------------------------------
(* Sequences in an order *)

\* Whatever order holds between the elements is enough.
LEMMA OrderedWeaken ==
    ASSUME NEW S, NEW s \in Seq(S), NEW B, NEW C, Ordered(s, B),
           \A x, y \in Range(s) : <<x, y>> \in B => <<x, y>> \in C
    PROVE  Ordered(s, C)
<1>1. \A i \in 1..Len(s) : s[i] \in Range(s) BY RangeDef
<1> QED BY Zenon, <1>1 DEF Ordered

\* A sequence put behind another one.
LEMMA OrderedConcat ==
    ASSUME NEW S, NEW s \in Seq(S), NEW t \in Seq(S), NEW B, Ordered(s, B), Ordered(t, B),
           \A x \in Range(s), y \in Range(t) : <<x, y>> \in B
    PROVE  s \o t \in Seq(S) /\ Range(s \o t) = Range(s) \cup Range(t) /\ Ordered(s \o t, B)
<1>1. PICK r \in Seq(S) : r = s \o t /\ Range(r) = Range(s) \cup Range(t) BY ConcatFacts, ZenonT(30)
<1>2. /\ Len(s) \in Nat /\ Len(t) \in Nat /\ Len(r) = Len(s) + Len(t)
      /\ \A i \in 1..Len(s) + Len(t) : r[i] = IF i <= Len(s) THEN s[i] ELSE t[i - Len(s)]
  BY <1>1, ConcatIndex
<1>3. ASSUME NEW i \in 1..Len(r), NEW j \in 1..Len(r), i < j PROVE <<r[i], r[j]>> \in B
  <2>1. CASE j <= Len(s)
    <3>1. i \in 1..Len(s) /\ j \in 1..Len(s) /\ r[i] = s[i] /\ r[j] = s[j] BY <1>2, <1>3, <2>1
    <3> QED BY Zenon, <1>3, <3>1 DEF Ordered
  <2>2. CASE i > Len(s)
    <3>0. i - Len(s) \in 1..Len(t) /\ j - Len(s) \in 1..Len(t) BY <1>2, <1>3, <2>2
    <3>1. PICK k \in 1..Len(t), l \in 1..Len(t) : k = i - Len(s) /\ l = j - Len(s) BY Zenon, <3>0
    <3>2. r[i] = t[k] /\ r[j] = t[l] /\ k < l BY <1>2, <1>3, <2>2, <3>1
    <3> QED BY Zenon, <3>2 DEF Ordered
  <2>3. CASE i <= Len(s) /\ j > Len(s)
    <3>1. PICK l \in 1..Len(t) : l = j - Len(s) BY <1>2, <1>3, <2>3
    <3>2. i \in 1..Len(s) /\ r[i] = s[i] /\ r[j] = t[l] BY <1>2, <1>3, <2>3, <3>1
    <3>3. s[i] \in Range(s) /\ t[l] \in Range(t) BY <3>2, RangeDef
    <3> QED BY Zenon, <3>2, <3>3
  <2> QED BY <1>2, <1>3, <2>1, <2>2, <2>3
<1>4. Ordered(r, B) BY Zenon, <1>3 DEF Ordered
<1> QED BY Zenon, <1>1, <1>4

\* A sequence of one element is in any order.
LEMMA OrderedOne ==
    ASSUME NEW S, NEW e \in S, NEW B
    PROVE  <<e>> \in Seq(S) /\ Range(<<e>>) = {e} /\ Ordered(<<e>>, B)
<1>1. Len(<<e>>) = 1 BY Zenon
<1>2. Ordered(<<e>>, B) BY <1>1 DEF Ordered
<1> QED BY Zenon, <1>2, SingletonFacts

\* One more element.
LEMMA OrderedAppend ==
    ASSUME NEW S, NEW s \in Seq(S), NEW e \in S, NEW B, Ordered(s, B), \A x \in Range(s) : <<x, e>> \in B
    PROVE  Append(s, e) \in Seq(S) /\ Range(Append(s, e)) = Range(s) \cup {e} /\ Ordered(Append(s, e), B)
<1>1. <<e>> \in Seq(S) /\ Range(<<e>>) = {e} /\ Ordered(<<e>>, B) BY Zenon, OrderedOne
<1>2. Append(s, e) = s \o <<e>> BY Zenon, AppendConcat
<1>3. PICK t \in Seq(S) : t = <<e>> BY Zenon, <1>1
<1>4. Range(t) = {e} /\ Ordered(t, B) BY Zenon, <1>1, <1>3
<1>5. \A x \in Range(s), y \in Range(t) : <<x, y>> \in B BY Zenon, <1>4
<1>6. s \o t \in Seq(S) /\ Range(s \o t) = Range(s) \cup Range(t) /\ Ordered(s \o t, B)
  BY Zenon, <1>4, <1>5, OrderedConcat
<1> QED BY Zenon, <1>2, <1>3, <1>4, <1>6

\* The first element comes before the others.
LEMMA OrderedTail ==
    ASSUME NEW S, NEW s \in Seq(S), s # <<>>, NEW B, Ordered(s, B)
    PROVE  /\ Head(s) \in S /\ Head(s) \in Range(s) /\ Tail(s) \in Seq(S) /\ Range(Tail(s)) \subseteq Range(s)
           /\ Range(s) = Range(Tail(s)) \cup {Head(s)}
           /\ Ordered(Tail(s), B) /\ \A y \in Range(Tail(s)) : <<Head(s), y>> \in B
<1>1. PICK t \in Seq(S) : t = Tail(s) BY Zenon, TailIndex
<1>2. /\ Len(s) \in Nat \ {0} /\ Len(t) = Len(s) - 1 /\ Head(s) = s[1]
      /\ \A i \in 1..Len(t) : t[i] = s[i + 1] /\ i + 1 \in 1..Len(s)
  BY <1>1, TailIndex
<1>3. Range(s) = {s[i] : i \in 1..Len(s)} /\ Range(t) = {t[i] : i \in 1..Len(t)} BY Zenon, RangeDef
<1>4. Range(t) \subseteq Range(s) BY Zenon, <1>2, <1>3
<1>5. Range(s) = Range(t) \cup {Head(s)}
  <2>1. ASSUME NEW i \in 1..Len(s), i # 1 PROVE s[i] \in Range(t)
    <3>1. PICK j \in 1..Len(t) : i = j + 1 BY <1>2, <2>1
    <3> QED BY Zenon, <1>2, <1>3, <3>1
  <2>2. s[1] \in Range(s) BY <1>2, <1>3
  <2> QED BY Zenon, <1>2, <1>3, <1>4, <2>1, <2>2
<1>6. Ordered(t, B)
  <2>1. ASSUME NEW i \in 1..Len(t), NEW j \in 1..Len(t), i < j PROVE <<t[i], t[j]>> \in B
    <3>1. i + 1 \in 1..Len(s) /\ j + 1 \in 1..Len(s) /\ i + 1 < j + 1 /\ t[i] = s[i + 1] /\ t[j] = s[j + 1]
      BY <1>2, <2>1
    <3> QED BY Zenon, <3>1 DEF Ordered
  <2> QED BY Zenon, <2>1 DEF Ordered
<1>7. \A y \in Range(t) : <<Head(s), y>> \in B
  <2>1. ASSUME NEW j \in 1..Len(t) PROVE <<s[1], t[j]>> \in B
    <3>1. 1 \in 1..Len(s) /\ j + 1 \in 1..Len(s) /\ 1 < j + 1 /\ t[j] = s[j + 1] BY <1>2
    <3> QED BY Zenon, <3>1 DEF Ordered
  <2> QED BY Zenon, <1>2, <1>3, <2>1
<1> QED BY Zenon, <1>1, <1>4, <1>5, <1>6, <1>7, HeadInRange

\* The first elements of a sequence.
LEMMA OrderedPrefix ==
    ASSUME NEW S, NEW s \in Seq(S), NEW n \in 0..Len(s), NEW B, Ordered(s, B)
    PROVE  SubSeq(s, 1, n) \in Seq(S) /\ Range(SubSeq(s, 1, n)) \subseteq Range(s) /\ Ordered(SubSeq(s, 1, n), B)
<1>0. n \in Nat /\ n <= Len(s) /\ Len(s) \in Nat BY LenFacts
<1>1. \A i \in 1..n : s[i] \in S /\ i \in 1..Len(s) BY <1>0, ElementFacts
<1>2. PICK t \in Seq(S) : t = SubSeq(s, 1, n) /\ Len(t) = n /\ \A i \in 1..n : t[i] = s[i]
  <2>1. PICK t : t = SubSeq(s, 1, n) BY Zenon
  <2>2. t \in Seq(S) /\ Len(t) = n /\ \A i \in 1..n : t[i] = s[i] BY <1>0, <1>1, <2>1
  <2> QED BY Zenon, <2>1, <2>2
<1>3. Range(s) = {s[i] : i \in 1..Len(s)} /\ Range(t) = {t[i] : i \in 1..Len(t)} BY Zenon, RangeDef
<1>4. Range(t) \subseteq Range(s) BY Zenon, <1>1, <1>2, <1>3
<1>5. Ordered(t, B) BY Zenon, <1>1, <1>2 DEF Ordered
<1> QED BY Zenon, <1>2, <1>4, <1>5

\* The empty sequence is in any order.
LEMMA OrderedEmpty == ASSUME NEW B PROVE Ordered(<<>>, B) /\ Range(<<>>) = {}
BY EmptyFacts DEF Ordered

-----------------------------------------------------------------------------
(* Steps of the messages *)

MInv == MsgTypes /\ Places /\ Order

\* What the order asks of two messages.
LEMMA BeforeDef ==
    ASSUME NEW x \in Msgs, NEW y \in Msgs
    PROVE  <<x, y>> \in Before <=> (dest[x] = dest[y] /\ via[x] = via[y] => x < y)
BY DEF Before

\* A message and its destination.
LEMMA MsgFacts ==
    ASSUME MsgTypes
    PROVE  /\ \A m \in Msgs : m \in Nat /\ dest[m] \in Services /\ via[m] \in Nat
           /\ DOMAIN via = Msgs /\ "a" \in Gates /\ "b" \in Gates
<1>1. Len(dest) \in Nat /\ Len(via) = Len(dest) /\ DOMAIN via = 1..Len(via) BY Zenon, LenFacts DEF MsgTypes
<1>2. \A m \in Msgs : m \in Nat /\ dest[m] \in Services /\ via[m] \in Nat
  BY <1>1, ElementFacts DEF MsgTypes, Msgs
<1> QED BY Zenon, <1>1, <1>2 DEF Msgs, Gates

\* The queues hold messages.
LEMMA QueueFacts ==
    ASSUME MsgTypes
    PROVE  /\ Range(out) \subseteq Msgs /\ Range(rq) \subseteq Msgs
           /\ \A k \in Wires : Range(wire[k]) \subseteq Msgs
           /\ \A s \in Services : /\ Range(chan[s]) \subseteq Msgs
                                  /\ \A g \in Gates : Range(parked[g][s]) \subseteq Msgs
<1>1. Range(out) \subseteq Msgs /\ Range(rq) \subseteq Msgs BY Zenon, RangeDef DEF MsgTypes
<1>2. ASSUME NEW k \in Wires PROVE Range(wire[k]) \subseteq Msgs
  <2>1. wire[k] \in Seq(Msgs) BY Zenon DEF MsgTypes
  <2> QED BY Zenon, <2>1, RangeDef
<1>3. ASSUME NEW s \in Services PROVE Range(chan[s]) \subseteq Msgs
  <2>1. chan[s] \in Seq(Msgs) BY Zenon DEF MsgTypes
  <2> QED BY Zenon, <2>1, RangeDef
<1>4. ASSUME NEW s \in Services, NEW g \in Gates PROVE Range(parked[g][s]) \subseteq Msgs
  <2>1. parked[g][s] \in Seq(Msgs) BY Zenon DEF MsgTypes
  <2> QED BY Zenon, <2>1, RangeDef
<1> QED BY Zenon, <1>1, <1>2, <1>3, <1>4

\* Steps that move no message.
LEMMA Unmoved ==
    ASSUME MInv, UNCHANGED <<dest, via, known, out, rq, wire, chan, parked, nwire, rsock, ropen, listening>>
    PROVE  MInv'
<1>1. MsgTypes' BY Zenon DEF MInv, MsgTypes, Msgs
<1>2. Places' BY DEF MInv, Places, Msgs
<1>3. Before' = Before BY Zenon DEF Before, Msgs
<1>4. Order' BY Zenon, <1>3 DEF MInv, Order, Behind
<1> QED BY Zenon, <1>1, <1>2, <1>4 DEF MInv

\* A wire is cut or given up: the last of what is on it is lost.
LEMMA Shortened ==
    ASSUME MInv, NEW k \in Wires, NEW q \in Seq(Msgs), Range(q) \subseteq Range(wire[k]), Ordered(q, Before),
           wire' = [wire EXCEPT ![k] = q], ropen' \subseteq listening', listening' \subseteq listening,
           UNCHANGED <<dest, via, known, out, rq, chan, parked, nwire, rsock>>
    PROVE  MInv'
<1>0. MsgTypes /\ Places /\ Order /\ Before' = Before BY Zenon DEF MInv, Before, Msgs
<1>1. \A j \in Wires : wire'[j] = IF j = k THEN q ELSE wire[j] BY Zenon, <1>0 DEF MsgTypes
<1>2. \A j \in Wires : /\ Range(wire'[j]) \subseteq Range(wire[j]) /\ Ordered(wire'[j], Before)
  BY Zenon, <1>0, <1>1 DEF Order
<1>3. MsgTypes'
  <2>1. wire' \in [Wires -> Seq(Msgs)] BY Zenon, <1>0 DEF MsgTypes
  <2> QED BY Zenon, <1>0, <2>1 DEF MsgTypes, Msgs
<1>4. Places' BY <1>0, <1>2 DEF Places, Msgs
<1>5. Order'
  <2>1. \A m \in Range(out') : Behind(m)' BY Zenon, <1>0, <1>2 DEF Order, Behind
  <2> QED BY Zenon, <1>0, <1>2, <2>1 DEF Order
<1> QED BY Zenon, <1>3, <1>4, <1>5 DEF MInv

\* A message is made: it comes after all the others.
LEMMA SendInv ==
    ASSUME MInv, NEW s \in Services,
           dest' = Append(dest, s), out' = Append(out, Len(dest) + 1), via' = Append(via, 0),
           UNCHANGED <<known, rq, wire, chan, parked, nwire, rsock, ropen, listening>>
    PROVE  MInv'
<1>0. MsgTypes /\ Places /\ Order BY Zenon DEF MInv
<1>1. PICK n \in Nat : n = Len(dest) + 1 /\ n \notin Msgs /\ \A m \in Msgs : m < n
  <2>1. PICK l \in Nat : l = Len(dest) BY Zenon, <1>0, LenFacts DEF MsgTypes
  <2>2. l + 1 \in Nat /\ l + 1 \notin 1..l /\ \A m \in 1..l : m < l + 1 OBVIOUS
  <2> QED BY Zenon, <2>1, <2>2 DEF Msgs
<1>2. /\ dest' \in Seq(Services) /\ via' \in Seq(Nat) /\ Len(via') = Len(dest')
      /\ Len(dest') = n /\ \A m \in Msgs : dest'[m] = dest[m] /\ via'[m] = via[m]
      /\ via'[n] = 0
  <2>1. Len(via) = Len(dest) /\ 0 \in Nat /\ dest \in Seq(Services) /\ via \in Seq(Nat) BY Zenon, <1>0 DEF MsgTypes
  <2>2. dest' \in Seq(Services) /\ Len(dest') = n /\ \A m \in Msgs : dest'[m] = dest[m]
    BY <1>1, <2>1, AppendIndex DEF Msgs
  <2>3. via' \in Seq(Nat) /\ Len(via') = n /\ via'[n] = 0 /\ \A m \in Msgs : via'[m] = via[m]
    BY <1>1, <2>1, AppendIndex DEF Msgs
  <2> QED BY Zenon, <2>2, <2>3
<1>3. Msgs' = Msgs \cup {n} /\ Msgs \subseteq Msgs' BY <1>1, <1>2 DEF Msgs
<1>4. \A x, y \in Msgs : <<x, y>> \in Before => <<x, y>> \in Before' BY Zenon, <1>2, <1>3, BeforeDef DEF Before
<1>5. out' \in Seq(Msgs') /\ Range(out') = Range(out) \cup {n}
  <2>1. out \in Seq(Msgs') BY Zenon, <1>0, <1>3, WiderSeq DEF MsgTypes
  <2>2. n \in Msgs' BY Zenon, <1>3
  <2> QED BY <1>1, <2>1, <2>2, AppendFacts
<1>6. MsgTypes'
  <2>1. \A q \in Seq(Msgs) : q \in Seq(Msgs') BY Zenon, <1>3, WiderSeq
  <2>2. rq' \in Seq(Msgs') BY Zenon, <1>0, <2>1 DEF MsgTypes
  <2>3. wire' \in [Wires -> Seq(Msgs')] BY Zenon, <1>0, <2>1 DEF MsgTypes
  <2>4. chan' \in [Services -> Seq(Msgs')] BY Zenon, <1>0, <2>1 DEF MsgTypes
  <2>5. parked' \in [Gates -> [Services -> Seq(Msgs')]] BY Zenon, <1>0, <2>1 DEF MsgTypes
  <2> QED BY Zenon, <1>0, <1>2, <1>5, <2>2, <2>3, <2>4, <2>5 DEF MsgTypes
<1>7. Places'
  <2>0. /\ nwire \in Nat /\ Range(out) \subseteq Msgs /\ Range(rq) \subseteq Msgs
        /\ \A k \in Wires : Range(wire[k]) \subseteq Msgs
    BY Zenon, <1>0, QueueFacts DEF MsgTypes
  <2>1. ASSUME NEW m \in Msgs' PROVE via'[m] <= nwire'
    <3>1. CASE m = n BY <1>2, <2>0, <3>1
    <3>2. CASE m \in Msgs BY Zenon, <1>0, <1>2, <3>2 DEF Places
    <3> QED BY Zenon, <1>3, <3>1, <3>2
  <2>2. \A m \in Range(out') : via'[m] = 0
    <3>1. \A m \in Range(out) : m \in Msgs /\ via[m] = 0 BY ZenonT(30), <1>0, <2>0 DEF Places
    <3>2. \A m \in Range(out) : via'[m] = 0 BY Zenon, <1>2, <3>1
    <3> QED BY Zenon, <1>2, <1>5, <3>2
  <2>3. \A m \in Range(rq') : via'[m] = 0 /\ dest'[m] \in known'["a"] /\ Home[dest'[m]] = "b"
    <3>1. \A m \in Range(rq) : m \in Msgs /\ via[m] = 0 /\ dest[m] \in known["a"] /\ Home[dest[m]] = "b"
      BY Zenon, <1>0, <2>0 DEF Places
    <3> QED BY Zenon, <1>2, <3>1
  <2>4. \A k \in Wires : \A m \in Range(wire'[k]) :
            via'[m] = k /\ dest'[m] \in known'["a"] /\ Home[dest'[m]] = "b"
    <3>1. \A k \in Wires : \A m \in Range(wire[k]) :
              m \in Msgs /\ via[m] = k /\ dest[m] \in known["a"] /\ Home[dest[m]] = "b"
      BY <1>0, <2>0 DEF Places
    <3>2. ASSUME NEW k \in Wires, NEW m \in Range(wire[k])
          PROVE  via'[m] = k /\ dest'[m] \in known["a"] /\ Home[dest'[m]] = "b"
      <4>1. m \in Msgs /\ via[m] = k /\ dest[m] \in known["a"] /\ Home[dest[m]] = "b" BY Zenon, <3>1
      <4> QED BY Zenon, <1>2, <4>1
    <3> QED BY Zenon, <3>2
  <2>5. ASSUME NEW t \in Services
        PROVE  /\ \A m \in Range(parked'["a"][t]) : via'[m] = 0 /\ dest'[m] = t
               /\ \A m \in Range(parked'["b"][t]) :
                     via'[m] # 0 /\ dest'[m] = t /\ t \in known'["a"] /\ Home[t] = "b"
    BY <1>0, <1>2, QueueFacts, MsgFacts DEF Places
  <2>6. ASSUME NEW t \in Services
        PROVE  /\ \A m \in Range(chan'[t]) : (via'[m] = 0 <=> Home[t] = "a") /\ dest'[m] = t /\ t \in known'["a"]
               /\ \A g \in Gates : t \in known'[g] => parked'[g][t] = <<>>
               /\ t \notin known'[Home[t]] => chan'[t] = <<>>
    BY <1>0, <1>2, QueueFacts, MsgFacts DEF Places
  <2>7. rsock' # 0 => rq' = <<>> BY Zenon, <1>0 DEF Places
  <2> QED BY Zenon, <2>1, <2>2, <2>3, <2>4, <2>5, <2>6, <2>7 DEF Places
<1>8. Order'
  <2>1. \A i, j \in 1..Len(out') : i < j => out'[i] < out'[j]
    <3>1. PICK l \in Nat : /\ l = Len(out) /\ Len(out') = l + 1 /\ out'[l + 1] = n
                           /\ \A i \in 1..l : out'[i] = out[i] /\ out[i] \in Msgs
      <4>1. out \in Seq(Nat) /\ out \in Seq(Msgs) /\ Len(out) \in Nat
        BY Zenon, <1>0, WiderSeq, MsgFacts, LenFacts DEF MsgTypes
      <4>2. \A i \in 1..Len(out) : out[i] \in Msgs BY Zenon, <4>1, ElementFacts
      <4>3. Len(out') = Len(out) + 1 /\ out'[Len(out) + 1] = n /\ \A i \in 1..Len(out) : out'[i] = out[i]
        BY <1>1, <4>1, AppendIndex
      <4> QED BY Zenon, <4>1, <4>2, <4>3
    <3>2. ASSUME NEW i \in 1..Len(out'), NEW j \in 1..Len(out'), i < j PROVE out'[i] < out'[j]
      <4>1. CASE j <= l BY <1>0, <3>1, <3>2, <4>1 DEF Order
      <4>2. CASE j = l + 1
        <5>1. i \in 1..l BY <3>1, <3>2, <4>2
        <5> QED BY Zenon, <1>1, <3>1, <4>2, <5>1
      <4>3. j \in 1..l + 1 BY Zenon, <3>1
      <4> QED BY <4>1, <4>2, <4>3
    <3> QED BY Zenon, <3>2
  <2>2. Behind(n)' BY Zenon, <1>0, <1>1, QueueFacts, MsgFacts DEF Behind
  <2>3. \A m \in Range(out') : Behind(m)' BY Zenon, <1>0, <1>5, <2>2 DEF Order, Behind
  <2>4. \A q \in Seq(Msgs) : Ordered(q, Before) => Ordered(q, Before')
    <3>1. TAKE q \in Seq(Msgs)
    <3>2. Range(q) \subseteq Msgs BY Zenon, RangeDef
    <3> QED BY Zenon, <1>4, <3>2, OrderedWeaken
  <2>5. Ordered(rq', Before') /\ \A k \in Wires : Ordered(wire'[k], Before')
    BY Zenon, <1>0, <2>4 DEF MsgTypes, Order
  <2>6. \A t \in Services : Ordered(chan'[t], Before') /\ \A g \in Gates : Ordered(parked'[g][t], Before')
    BY Zenon, <1>0, <2>4 DEF MsgTypes, Order
  <2>7. ASSUME NEW t \in Services, NEW k \in Wires, NEW x \in Range(chan'[t]) \cup Range(parked'["b"][t]),
               NEW y \in Range(wire'[k])
        PROVE  <<x, y>> \in Before'
    <3>1. x \in Msgs /\ y \in Msgs BY Zenon, <1>0, QueueFacts, MsgFacts
    <3>2. <<x, y>> \in Before BY Zenon, <1>0 DEF Order
    <3> QED BY Zenon, <1>4, <3>1, <3>2
  <2> QED BY Zenon, <2>1, <2>3, <2>5, <2>6, <2>7 DEF Order
<1> QED BY Zenon, <1>6, <1>7, <1>8 DEF MInv

\* Messages get the number of the wire they are put on.
LEMMA ViaFacts ==
    ASSUME MsgTypes, NEW R, NEW k \in Nat, via' = [m \in DOMAIN via |-> IF m \in R THEN k ELSE via[m]]
    PROVE  /\ via' \in Seq(Nat) /\ Len(via') = Len(via)
           /\ \A m \in Msgs : via'[m] = IF m \in R THEN k ELSE via[m]
<1>1. Len(via) \in Nat /\ DOMAIN via = 1..Len(via) /\ Msgs = 1..Len(via) BY Zenon, LenFacts DEF MsgTypes, Msgs
<1>2. \A m \in 1..Len(via) : via[m] \in Nat BY Zenon, ElementFacts DEF MsgTypes
<1>3. via' \in [1..Len(via) -> Nat] BY Zenon, <1>1, <1>2
<1>4. via' \in Seq(Nat) BY <1>1, <1>3
<1>5. Len(via') = Len(via) BY <1>1, <1>3, <1>4, LenFacts
<1>6. \A m \in Msgs : via'[m] = IF m \in R THEN k ELSE via[m] BY Zenon, <1>1
<1> QED BY Zenon, <1>4, <1>5, <1>6

\* What gate "a" hands on: messages of one service that it has from the sender.
Passes(s, ms) ==
    /\ \A m \in Range(ms) : dest[m] = s /\ via[m] = 0
    /\ Ordered(ms, Before)
    /\ \A m \in Range(ms), x \in Msgs : dest[x] = s =>
          /\ x \in Range(chan[s]) \cup Range(parked["b"][s]) \cup Range(rq) => x < m
          /\ \A k \in Wires : x \in Range(wire[k]) => x < m

\* What it keeps meanwhile.
Keeps(s, ms) ==
    /\ known' \in [Gates -> SUBSET Services] /\ known["a"] \subseteq known'["a"] /\ s \in known'["a"]
    /\ known'["b"] = known["b"]
    /\ out' \in Seq(Msgs) /\ Range(out') \subseteq Range(out)
    /\ \A i, j \in 1..Len(out') : i < j => out'[i] < out'[j]
    /\ \A m \in Range(ms), n \in Range(out') : m < n
    /\ parked' \in [Gates -> [Services -> Seq(Msgs)]] /\ parked'["b"] = parked["b"]
    /\ \A t \in Services : /\ parked'["a"][t] \in {parked["a"][t], <<>>}
                           /\ t \in known'["a"] => parked'["a"][t] = <<>>

\* What that means for the messages it has kept.
LEMMA KeepsFacts ==
    ASSUME MInv, NEW s \in Services, NEW ms \in Seq(Msgs), Keeps(s, ms)
    PROVE  /\ \A t \in Services : Range(parked'["a"][t]) \subseteq Range(parked["a"][t])
           /\ \A t \in Services : Ordered(parked'["a"][t], Before)
           /\ \A t \in Services : \A m \in Range(parked'["a"][t]) : t # s /\ via[m] = 0 /\ dest[m] = t
           /\ \A t \in Services : \A g \in Gates : t \in known'[g] => parked'[g][t] = <<>>
           /\ \A t \in Services : t \notin known'[Home[t]] => t \notin known[Home[t]]
           /\ \A n \in Range(out') : Behind(n) /\ via[n] = 0
<1>0. MsgTypes /\ Places /\ Order BY Zenon DEF MInv
<1>1. ASSUME NEW t \in Services
      PROVE  /\ Range(parked'["a"][t]) \subseteq Range(parked["a"][t]) /\ Ordered(parked'["a"][t], Before)
             /\ t = s => Range(parked'["a"][t]) = {}
  <2>1. parked'["a"][t] \in {parked["a"][t], <<>>} /\ (t = s => parked'["a"][t] = <<>>) BY Zenon DEF Keeps
  <2>2. Ordered(parked["a"][t], Before) BY Zenon, <1>0, MsgFacts DEF Order
  <2>3. Ordered(<<>>, Before) /\ Range(<<>>) = {} BY Zenon, OrderedEmpty
  <2> QED BY Zenon, <2>1, <2>2, <2>3
<1>2. \A t \in Services : \A m \in Range(parked'["a"][t]) : t # s /\ via[m] = 0 /\ dest[m] = t
  BY <1>0, <1>1 DEF Places
<1>3. \A t \in Services : \A g \in Gates : t \in known'[g] => parked'[g][t] = <<>>
  <2>1. \A t \in Services : t \in known'["a"] => parked'["a"][t] = <<>> BY Zenon DEF Keeps
  <2>2. \A t \in Services : t \in known'["b"] => parked'["b"][t] = <<>> BY <1>0, MsgFacts DEF Keeps, Places
  <2> QED BY Zenon, <2>1, <2>2 DEF Gates
<1>4. \A t \in Services : t \notin known'[Home[t]] => t \notin known[Home[t]]
  <2>1. \A t \in Services : Home[t] = "a" \/ Home[t] = "b" BY Zenon, RoutingAssumption DEF Gates
  <2> QED BY Zenon, <2>1 DEF Keeps
<1>5. \A n \in Range(out') : Behind(n) /\ via[n] = 0 BY Zenon, <1>0 DEF Keeps, Order, Places
<1> QED BY Zenon, <1>1, <1>2, <1>3, <1>4, <1>5

\* Gate "a" writes messages to the channel of a local service.
LEMMA PassLocal ==
    ASSUME MInv, NEW s \in Services, NEW ms \in Seq(Msgs), Passes(s, ms), Keeps(s, ms), Home[s] = "a",
           chan' = [chan EXCEPT ![s] = @ \o ms],
           UNCHANGED <<dest, via, rq, wire, nwire, rsock, ropen, listening>>
    PROVE  MInv'
<1>0. MsgTypes /\ Places /\ Order /\ Before' = Before /\ Msgs' = Msgs BY Zenon DEF MInv, Before, Msgs
<1>1. \A t \in Services : chan'[t] = IF t = s THEN chan[s] \o ms ELSE chan[t] BY Zenon, <1>0 DEF MsgTypes
<1>2. PICK c \in Seq(Msgs) : c = chan[s] /\ Ordered(c, Before) BY Zenon, <1>0 DEF MsgTypes, Order
<1>3. Range(c) \subseteq Msgs /\ Range(ms) \subseteq Msgs BY Zenon, RangeDef
<1>4. \A x \in Range(c) : dest[x] = s /\ via[x] = 0 BY Zenon, <1>0, <1>2 DEF Places
<1>5. \A x \in Range(c), y \in Range(ms) : <<x, y>> \in Before
  <2>1. \A x \in Range(c), y \in Range(ms) : x < y BY Zenon, <1>2, <1>3, <1>4 DEF Passes
  <2> QED BY Zenon, <1>3, <2>1, BeforeDef
<1>6. chan'[s] \in Seq(Msgs) /\ Range(chan'[s]) = Range(c) \cup Range(ms) /\ Ordered(chan'[s], Before)
  <2>1. Ordered(ms, Before) BY Zenon DEF Passes
  <2> QED BY <1>1, <1>2, <1>5, <2>1, OrderedConcat
<1>7. \A t \in Services : chan'[t] \in Seq(Msgs) /\ Ordered(chan'[t], Before)
  BY Zenon, <1>0, <1>1, <1>6 DEF MsgTypes, Order
<1>8. MsgTypes'
  <2>1. chan' \in [Services -> Seq(Msgs)] BY Zenon, <1>0, <1>7 DEF MsgTypes
  <2> QED BY Zenon, <1>0, <2>1 DEF MsgTypes, Keeps
<1>9. /\ \A t \in Services : Range(parked'["a"][t]) \subseteq Range(parked["a"][t])
      /\ \A t \in Services : Ordered(parked'["a"][t], Before)
      /\ \A t \in Services : \A m \in Range(parked'["a"][t]) : t # s /\ via[m] = 0 /\ dest[m] = t
      /\ \A t \in Services : \A g \in Gates : t \in known'[g] => parked'[g][t] = <<>>
      /\ \A t \in Services : t \notin known'[Home[t]] => t \notin known[Home[t]]
      /\ \A n \in Range(out') : Behind(n) /\ via[n] = 0
  BY Zenon, KeepsFacts
<1>10. Places'
  <2>0. known["a"] \subseteq known'["a"] /\ s \in known'["a"] /\ parked'["b"] = parked["b"] BY Zenon DEF Keeps
  <2>1. \A t \in Services : \A m \in Range(parked'["b"][t]) :
            via'[m] # 0 /\ dest'[m] = t /\ t \in known'["a"] /\ Home[t] = "b"
    BY Zenon, <1>0, <2>0 DEF Places
  <2>2. ASSUME NEW t \in Services, NEW m \in Range(chan'[t])
        PROVE  (via'[m] = 0 <=> Home[t] = "a") /\ dest'[m] = t /\ t \in known'["a"]
    <3>1. CASE t = s BY Zenon, <1>2, <1>4, <1>6, <2>0, <3>1 DEF Passes
    <3>2. CASE t # s
      <4>1. m \in Range(chan[t]) BY Zenon, <1>1, <3>2
      <4>2. (via[m] = 0 <=> Home[t] = "a") /\ dest[m] = t /\ t \in known["a"] BY Zenon, <1>0, <4>1 DEF Places
      <4> QED BY Zenon, <2>0, <4>2
    <3> QED BY Zenon, <3>1, <3>2
  <2>3. \A t \in Services : t \notin known'[Home[t]] => chan'[t] = <<>>
    <3>1. s \in known'[Home[s]] BY Zenon, <2>0
    <3> QED BY <1>0, <1>1, <1>9, <3>1 DEF Places
  <2>4. \A m \in Range(rq') : via'[m] = 0 /\ dest'[m] \in known'["a"] /\ Home[dest'[m]] = "b"
    BY Zenon, <1>0, <2>0 DEF Places
  <2>5. \A k \in Wires : \A m \in Range(wire'[k]) :
            via'[m] = k /\ dest'[m] \in known'["a"] /\ Home[dest'[m]] = "b"
    BY <1>0, <2>0 DEF Places
  <2>6. (\A m \in Msgs' : via'[m] <= nwire') /\ (rsock' # 0 => rq' = <<>>) BY Zenon, <1>0 DEF Places
  <2> QED BY <1>9, <2>1, <2>2, <2>3, <2>4, <2>5, <2>6 DEF Places
<1>11. Order'
  <2>1. ASSUME NEW n \in Range(out') PROVE Behind(n)'
    <3>0. Behind(n) /\ \A m \in Range(ms) : m < n BY Zenon, <1>9, <2>1 DEF Keeps
    <3>1. \A t \in Services : \A x \in Range(chan'[t]) : x < n BY Zenon, <1>1, <1>2, <1>6, <3>0 DEF Behind
    <3>2. \A t \in Services : \A x \in Range(parked'["a"][t]) \cup Range(parked'["b"][t]) : x < n
      BY Zenon, <1>9, <3>0 DEF Behind, Keeps
    <3> QED BY Zenon, <3>0, <3>1, <3>2 DEF Behind
  <2>2. \A t \in Services : \A g \in Gates : Ordered(parked'[g][t], Before)
    BY Zenon, <1>0, <1>9 DEF Order, Keeps, Gates
  <2>3. ASSUME NEW t \in Services, NEW k \in Wires, NEW x \in Range(chan'[t]) \cup Range(parked'["b"][t]),
               NEW y \in Range(wire[k])
        PROVE  <<x, y>> \in Before
    <3>1. CASE t = s /\ x \in Range(ms)
      <4>1. dest[x] = s /\ Home[dest[y]] = "b" /\ x \in Msgs /\ y \in Msgs
        BY <1>0, <1>3, <3>1, QueueFacts DEF Passes, Places
      <4>2. dest[x] # dest[y] BY Zenon, <4>1
      <4> QED BY Zenon, <4>1, <4>2, BeforeDef
    <3>2. CASE ~(t = s /\ x \in Range(ms))
      <4>1. x \in Range(chan[t]) \cup Range(parked["b"][t]) BY Zenon, <1>1, <1>2, <1>6, <2>3, <3>2 DEF Keeps
      <4> QED BY Zenon, <1>0, <2>3, <4>1 DEF Order
    <3> QED BY Zenon, <3>1, <3>2
  <2> QED BY Zenon, <1>0, <1>7, <2>1, <2>2, <2>3 DEF Order, Keeps
<1> QED BY Zenon, <1>8, <1>10, <1>11 DEF MInv

\* Gate "a" keeps the messages for the other gate, or loses them on a wire that
\* has been cut.
LEMMA PassQueue ==
    ASSUME MInv, NEW s \in Services, NEW ms \in Seq(Msgs), Passes(s, ms), Keeps(s, ms), Home[s] = "b",
           (rq' = rq \o ms /\ rsock = 0) \/ rq' = rq,
           UNCHANGED <<dest, via, chan, wire, nwire, rsock, ropen, listening>>
    PROVE  MInv'
<1>0. MsgTypes /\ Places /\ Order /\ Before' = Before /\ Msgs' = Msgs BY Zenon DEF MInv, Before, Msgs
<1>1. rq \in Seq(Msgs) /\ Ordered(rq, Before) BY Zenon, <1>0 DEF MsgTypes, Order
<1>2. Range(rq) \subseteq Msgs /\ Range(ms) \subseteq Msgs BY Zenon, <1>1, RangeDef
<1>3. \A x \in Range(rq), y \in Range(ms) : <<x, y>> \in Before
  <2>1. \A x \in Range(rq), y \in Range(ms) : dest[x] = dest[y] => x < y BY Zenon, <1>2 DEF Passes
  <2> QED BY Zenon, <1>2, <2>1, BeforeDef
<1>4. rq' \in Seq(Msgs) /\ Range(rq') \subseteq Range(rq) \cup Range(ms) /\ Ordered(rq', Before)
  <2>1. Ordered(ms, Before) BY Zenon DEF Passes
  <2>2. rq \o ms \in Seq(Msgs) /\ Range(rq \o ms) = Range(rq) \cup Range(ms) /\ Ordered(rq \o ms, Before)
    BY Zenon, <1>1, <1>3, <2>1, OrderedConcat
  <2> QED BY Zenon, <1>1, <2>2
<1>5. MsgTypes' BY Zenon, <1>0, <1>4 DEF MsgTypes, Keeps
<1>6. /\ \A t \in Services : Range(parked'["a"][t]) \subseteq Range(parked["a"][t])
      /\ \A t \in Services : Ordered(parked'["a"][t], Before)
      /\ \A t \in Services : \A m \in Range(parked'["a"][t]) : t # s /\ via[m] = 0 /\ dest[m] = t
      /\ \A t \in Services : \A g \in Gates : t \in known'[g] => parked'[g][t] = <<>>
      /\ \A t \in Services : t \notin known'[Home[t]] => t \notin known[Home[t]]
      /\ \A n \in Range(out') : Behind(n) /\ via[n] = 0
  BY Zenon, KeepsFacts
<1>7. Places'
  <2>0. known["a"] \subseteq known'["a"] /\ s \in known'["a"] /\ parked'["b"] = parked["b"] BY Zenon DEF Keeps
  <2>1. \A t \in Services : \A m \in Range(parked'["b"][t]) :
            via'[m] # 0 /\ dest'[m] = t /\ t \in known'["a"] /\ Home[t] = "b"
    BY Zenon, <1>0, <2>0 DEF Places
  <2>2. ASSUME NEW t \in Services, NEW m \in Range(chan'[t])
        PROVE  (via'[m] = 0 <=> Home[t] = "a") /\ dest'[m] = t /\ t \in known'["a"]
    <3>1. (via[m] = 0 <=> Home[t] = "a") /\ dest[m] = t /\ t \in known["a"] BY Zenon, <1>0 DEF Places
    <3> QED BY Zenon, <2>0, <3>1
  <2>3. \A t \in Services : t \notin known'[Home[t]] => chan'[t] = <<>> BY Zenon, <1>0, <1>6 DEF Places
  <2>4. ASSUME NEW m \in Range(rq') PROVE via'[m] = 0 /\ dest'[m] \in known'["a"] /\ Home[dest'[m]] = "b"
    <3>1. m \in Range(rq) => via[m] = 0 /\ dest[m] \in known["a"] /\ Home[dest[m]] = "b" BY Zenon, <1>0 DEF Places
    <3>2. m \in Range(ms) => via[m] = 0 /\ dest[m] = s BY Zenon DEF Passes
    <3> QED BY Zenon, <1>4, <2>0, <3>1, <3>2
  <2>5. \A k \in Wires : \A m \in Range(wire'[k]) :
            via'[m] = k /\ dest'[m] \in known'["a"] /\ Home[dest'[m]] = "b"
    BY <1>0, <2>0 DEF Places
  <2>6. (\A m \in Msgs' : via'[m] <= nwire') /\ (rsock' # 0 => rq' = <<>>) BY Zenon, <1>0 DEF Places
  <2> QED BY <1>6, <2>1, <2>2, <2>3, <2>4, <2>5, <2>6 DEF Places
<1>8. Order'
  <2>1. ASSUME NEW n \in Range(out') PROVE Behind(n)'
    <3>0. Behind(n) /\ \A m \in Range(ms) : m < n BY Zenon, <1>6, <2>1 DEF Keeps
    <3>1. \A x \in Range(rq') : x < n BY Zenon, <1>4, <3>0 DEF Behind
    <3>2. \A t \in Services : \A x \in Range(parked'["a"][t]) \cup Range(parked'["b"][t]) : x < n
      BY Zenon, <1>6, <3>0 DEF Behind, Keeps
    <3> QED BY Zenon, <3>0, <3>1, <3>2 DEF Behind
  <2>2. \A t \in Services : \A g \in Gates : Ordered(parked'[g][t], Before)
    BY Zenon, <1>0, <1>6 DEF Order, Keeps, Gates
  <2>3. \A t \in Services, k \in Wires : \A x \in Range(chan[t]) \cup Range(parked'["b"][t]), y \in Range(wire[k]) :
            <<x, y>> \in Before
    BY Zenon, <1>0 DEF Order, Keeps
  <2> QED BY Zenon, <1>0, <1>4, <2>1, <2>2, <2>3 DEF Order, Keeps
<1> QED BY Zenon, <1>5, <1>7, <1>8 DEF MInv

\* The number of a wire is not 0.
LEMMA WireFacts ==
    /\ \A k \in Wires : k \in Nat /\ k # 0
    /\ \A b \in Budgets, k \in Nat : k # 0 /\ k <= b.wires + 1 => k \in Wires
<1>1. \A b \in Budgets : b.wires \in Nat BY Zenon, RoutingAssumption
<1>2. ASSUME NEW k \in Wires PROVE k \in Nat /\ k # 0
  <2>1. PICK i \in UNION {0..b.wires : b \in Budgets} : k = i + 1 BY Zenon DEF Wires
  <2>2. PICK b \in Budgets : i \in 0..b.wires BY Zenon, <2>1
  <2> QED BY <1>1, <2>1, <2>2
<1>3. ASSUME NEW b \in Budgets, NEW k \in Nat, k # 0, k <= b.wires + 1 PROVE k \in Wires
  <2>1. k - 1 \in 0..b.wires /\ k = (k - 1) + 1 BY <1>1, <1>3
  <2>2. k - 1 \in UNION {0..c.wires : c \in Budgets} BY Zenon, <2>1
  <2> QED BY Zenon, <2>1, <2>2 DEF Wires
<1> QED BY Zenon, <1>2, <1>3

\* Gate "a" puts the messages on the wire it uses.
LEMMA PassWire ==
    ASSUME MInv, NEW s \in Services, NEW ms \in Seq(Msgs), Passes(s, ms), Keeps(s, ms), Home[s] = "b",
           rsock \in Wires, wire' = [wire EXCEPT ![rsock] = @ \o ms],
           via' = [m \in DOMAIN via |-> IF m \in Range(ms) THEN rsock ELSE via[m]],
           UNCHANGED <<dest, chan, rq, nwire, rsock, ropen, listening>>
    PROVE  MInv'
<1>0. MsgTypes /\ Places /\ Order /\ Msgs' = Msgs BY Zenon DEF MInv, Msgs
<1>1. PICK k \in Wires : k = rsock BY Zenon
<1>2. k \in Nat /\ k # 0 /\ k = nwire /\ rq = <<>> BY Zenon, <1>0, <1>1, WireFacts DEF MsgTypes, Places
<1>3. /\ via' \in Seq(Nat) /\ Len(via') = Len(via)
      /\ \A m \in Msgs : via'[m] = IF m \in Range(ms) THEN k ELSE via[m]
  <2>1. PICK R : R = Range(ms) BY Zenon
  <2>2. via' = [m \in DOMAIN via |-> IF m \in R THEN k ELSE via[m]] BY Zenon, <1>1, <2>1
  <2>3. /\ via' \in Seq(Nat) /\ Len(via') = Len(via)
        /\ \A m \in Msgs : via'[m] = IF m \in R THEN k ELSE via[m]
    BY Zenon, <1>0, <1>2, <2>2, ViaFacts
  <2> QED BY Zenon, <2>1, <2>3
<1>4. Range(ms) \subseteq Msgs /\ \A m \in Range(ms) : dest[m] = s /\ via[m] = 0 BY Zenon, RangeDef DEF Passes
<1>5. /\ \A t \in Services : Range(parked'["a"][t]) \subseteq Range(parked["a"][t])
      /\ \A t \in Services : Ordered(parked'["a"][t], Before)
      /\ \A t \in Services : \A m \in Range(parked'["a"][t]) : t # s /\ via[m] = 0 /\ dest[m] = t
      /\ \A t \in Services : \A g \in Gates : t \in known'[g] => parked'[g][t] = <<>>
      /\ \A t \in Services : t \notin known'[Home[t]] => t \notin known[Home[t]]
      /\ \A n \in Range(out') : Behind(n) /\ via[n] = 0
  BY Zenon, KeepsFacts
<1>6. /\ Range(out') \subseteq Msgs /\ \A j \in Wires : wire[j] \in Seq(Msgs) /\ Range(wire[j]) \subseteq Msgs
      /\ \A t \in Services : /\ Range(chan[t]) \subseteq Msgs
                             /\ Range(parked["a"][t]) \subseteq Msgs /\ Range(parked["b"][t]) \subseteq Msgs
  BY Zenon, <1>0, QueueFacts, MsgFacts DEF Keeps, MsgTypes
<1>7. /\ \A n \in Range(out') : n \notin Range(ms)
      /\ \A j \in Wires : \A x \in Range(wire[j]) : x \notin Range(ms)
      /\ \A t \in Services : /\ \A x \in Range(chan[t]) : x \notin Range(ms)
                             /\ \A x \in Range(parked'["a"][t]) : x \notin Range(ms)
                             /\ \A x \in Range(parked["b"][t]) : x \notin Range(ms)
  <2>1. \A n \in Range(out') : n \notin Range(ms)
    <3>1. \A n \in Range(out') : n \in Nat BY Zenon, <1>0, <1>6, MsgFacts
    <3>2. \A n \in Range(out') : ~(n < n) BY <3>1
    <3> QED BY Zenon, <3>2 DEF Keeps
  <2>2. \A j \in Wires : \A x \in Range(wire[j]) : x \notin Range(ms) BY <1>0, <1>4, WireFacts DEF Places
  <2>3. \A t \in Services : \A x \in Range(chan[t]) : x \notin Range(ms) BY <1>0, <1>4 DEF Places
  <2>4. \A t \in Services : \A x \in Range(parked'["a"][t]) : x \notin Range(ms) BY <1>4, <1>5
  <2>5. \A t \in Services : \A x \in Range(parked["b"][t]) : x \notin Range(ms) BY <1>0, <1>4 DEF Places
  <2> QED BY Zenon, <2>1, <2>2, <2>3, <2>4, <2>5
<1>8. \A x, y \in Msgs : x \notin Range(ms) /\ y \notin Range(ms) /\ <<x, y>> \in Before => <<x, y>> \in Before'
  BY <1>0, <1>3, BeforeDef DEF Before
<1>9. ASSUME NEW x \in Msgs, NEW y \in Range(ms), dest[x] = s => x < y PROVE <<x, y>> \in Before'
  BY Zenon, <1>0, <1>4, <1>9 DEF Before
<1>10. \A j \in Wires : wire'[j] = IF j = k THEN wire[k] \o ms ELSE wire[j] BY Zenon, <1>0, <1>1 DEF MsgTypes
<1>11. \A x \in Msgs, y \in Range(ms) :
          /\ \A j \in Wires : x \in Range(wire[j]) => <<x, y>> \in Before'
          /\ \A t \in Services : x \in Range(chan[t]) \cup Range(parked["b"][t]) => <<x, y>> \in Before'
  <2>1. TAKE x \in Msgs, y \in Range(ms)
  <2>2. ASSUME NEW j \in Wires, x \in Range(wire[j]) PROVE <<x, y>> \in Before'
    <3>1. dest[x] = s => x < y BY Zenon, <2>2 DEF Passes
    <3> QED BY Zenon, <1>9, <3>1
  <2>3. ASSUME NEW t \in Services, x \in Range(chan[t]) \cup Range(parked["b"][t]) PROVE <<x, y>> \in Before'
    <3>1. dest[x] = t BY Zenon, <1>0, <2>3 DEF Places
    <3>2. dest[x] = s => x < y BY Zenon, <2>3, <3>1 DEF Passes
    <3> QED BY Zenon, <1>9, <3>2
  <2> QED BY Zenon, <2>2, <2>3
<1>12. \A q \in Seq(Msgs) : Ordered(q, Before) /\ (\A x \in Range(q) : x \notin Range(ms)) => Ordered(q, Before')
  <2>1. TAKE q \in Seq(Msgs)
  <2>2. Range(q) \subseteq Msgs BY Zenon, RangeDef
  <2>3. HAVE Ordered(q, Before) /\ \A x \in Range(q) : x \notin Range(ms)
  <2>4. \A x, y \in Range(q) : <<x, y>> \in Before => <<x, y>> \in Before' BY Zenon, <1>8, <2>2, <2>3
  <2> QED BY Zenon, <2>3, <2>4, OrderedWeaken
<1>13. /\ wire'[k] \in Seq(Msgs) /\ Range(wire'[k]) = Range(wire[k]) \cup Range(ms) /\ Ordered(wire'[k], Before')
  <2>1. PICK w \in Seq(Msgs) : w = wire[k] BY Zenon, <1>6
  <2>2. Ordered(w, Before') BY Zenon, <1>0, <1>7, <1>12, <2>1 DEF Order
  <2>3. Ordered(ms, Before')
    <3>1. Ordered(ms, Before) BY Zenon DEF Passes
    <3>2. \A x, y \in Range(ms) : <<x, y>> \in Before => x < y BY Zenon, <1>4, BeforeDef
    <3>3. \A x, y \in Range(ms) : <<x, y>> \in Before => <<x, y>> \in Before' BY Zenon, <1>4, <1>9, <3>2
    <3> QED BY Zenon, <3>1, <3>3, OrderedWeaken
  <2>4. \A x \in Range(w), y \in Range(ms) : <<x, y>> \in Before' BY Zenon, <1>6, <1>11, <2>1
  <2>5. w \o ms \in Seq(Msgs) /\ Range(w \o ms) = Range(w) \cup Range(ms) /\ Ordered(w \o ms, Before')
    BY Zenon, <2>2, <2>3, <2>4, OrderedConcat
  <2> QED BY Zenon, <1>10, <2>1, <2>5
<1>14. \A j \in Wires : /\ wire'[j] \in Seq(Msgs) /\ Ordered(wire'[j], Before')
                        /\ Range(wire'[j]) \subseteq Range(wire[j]) \cup (IF j = k THEN Range(ms) ELSE {})
  <2>1. TAKE j \in Wires
  <2>2. CASE j = k BY Zenon, <1>13, <2>2
  <2>3. CASE j # k BY Zenon, <1>0, <1>6, <1>7, <1>10, <1>12, <2>3 DEF Order
  <2> QED BY Zenon, <2>2, <2>3
<1>15. MsgTypes'
  <2>1. wire' \in [Wires -> Seq(Msgs)] BY Zenon, <1>0, <1>14 DEF MsgTypes
  <2> QED BY Zenon, <1>0, <1>3, <2>1 DEF MsgTypes, Keeps
<1>16. Places'
  <2>0. known["a"] \subseteq known'["a"] /\ s \in known'["a"] /\ parked'["b"] = parked["b"] BY Zenon DEF Keeps
  <2>1. ASSUME NEW t \in Services, NEW m \in Range(parked'["b"][t])
        PROVE  via'[m] # 0 /\ dest'[m] = t /\ t \in known'["a"] /\ Home[t] = "b"
    <3>1. m \in Range(parked["b"][t]) BY Zenon, <2>0
    <3>2. m \in Msgs /\ m \notin Range(ms) BY Zenon, <1>6, <1>7, <3>1
    <3>3. via[m] # 0 /\ dest[m] = t /\ t \in known["a"] /\ Home[t] = "b" BY Zenon, <1>0, <3>1 DEF Places
    <3> QED BY Zenon, <1>3, <2>0, <3>2, <3>3
  <2>2. ASSUME NEW t \in Services, NEW m \in Range(chan'[t])
        PROVE  (via'[m] = 0 <=> Home[t] = "a") /\ dest'[m] = t /\ t \in known'["a"]
    <3>1. (via[m] = 0 <=> Home[t] = "a") /\ dest[m] = t /\ t \in known["a"] BY Zenon, <1>0 DEF Places
    <3>2. m \in Msgs /\ m \notin Range(ms) BY Zenon, <1>6, <1>7
    <3>3. via'[m] = via[m] BY Zenon, <1>3, <3>2
    <3> QED BY Zenon, <2>0, <3>1, <3>3
  <2>3. \A t \in Services : t \notin known'[Home[t]] => chan'[t] = <<>> BY Zenon, <1>0, <1>5 DEF Places
  <2>4. Range(rq') = {} BY Zenon, <1>2, OrderedEmpty
  <2>5. ASSUME NEW j \in Wires, NEW m \in Range(wire'[j])
        PROVE  via'[m] = j /\ dest'[m] \in known'["a"] /\ Home[dest'[m]] = "b"
    <3>1. CASE m \in Range(ms)
      <4>1. j = k BY Zenon, <1>7, <1>14, <3>1
      <4>2. via'[m] = k /\ dest[m] = s BY Zenon, <1>3, <1>4, <3>1
      <4> QED BY Zenon, <2>0, <4>1, <4>2
    <3>2. CASE m \notin Range(ms)
      <4>1. m \in Range(wire[j]) BY Zenon, <1>14, <3>2
      <4>2. m \in Msgs BY Zenon, <1>6, <4>1
      <4>3. via[m] = j /\ dest[m] \in known["a"] /\ Home[dest[m]] = "b" BY <1>0, <4>1 DEF Places
      <4> QED BY Zenon, <1>3, <2>0, <3>2, <4>2, <4>3
    <3> QED BY Zenon, <3>1, <3>2
  <2>6. \A m \in Msgs' : via'[m] <= nwire'
    <3>1. k <= nwire BY <1>2
    <3> QED BY <1>0, <1>3, <3>1 DEF Places
  <2>7. \A n \in Range(out') : via'[n] = 0 BY Zenon, <1>3, <1>5, <1>6, <1>7
  <2>8. ASSUME NEW t \in Services, NEW m \in Range(parked'["a"][t]) PROVE via'[m] = 0 /\ dest'[m] = t
    <3>1. m \in Msgs /\ m \notin Range(ms) /\ via[m] = 0 /\ dest[m] = t BY Zenon, <1>5, <1>6, <1>7
    <3> QED BY Zenon, <1>3, <3>1
  <2> QED BY <1>2, <1>5, <2>1, <2>2, <2>3, <2>4, <2>5, <2>6, <2>7, <2>8, ZenonT(30) DEF Places
<1>17. Order'
  <2>1. ASSUME NEW n \in Range(out') PROVE Behind(n)'
    <3>0. Behind(n) /\ \A m \in Range(ms) : m < n BY Zenon, <1>5, <2>1 DEF Keeps
    <3>1. \A j \in Wires : \A x \in Range(wire'[j]) : x < n BY Zenon, <1>14, <3>0 DEF Behind
    <3>2. \A t \in Services : \A x \in Range(parked'["a"][t]) \cup Range(parked'["b"][t]) : x < n
      BY Zenon, <1>5, <3>0 DEF Behind, Keeps
    <3> QED BY Zenon, <3>0, <3>1, <3>2 DEF Behind
  <2>2. ASSUME NEW t \in Services PROVE Ordered(chan[t], Before') /\ \A g \in Gates : Ordered(parked'[g][t], Before')
    <3>1. chan[t] \in Seq(Msgs) /\ parked'["a"][t] \in Seq(Msgs) /\ parked["b"][t] \in Seq(Msgs)
      BY Zenon, <1>0, MsgFacts DEF MsgTypes, Keeps
    <3>2. Ordered(chan[t], Before) /\ Ordered(parked["b"][t], Before) BY Zenon, <1>0, MsgFacts DEF Order
    <3>3. Ordered(chan[t], Before') BY Zenon, <1>7, <1>12, <3>1, <3>2
    <3>4. Ordered(parked'["a"][t], Before') BY Zenon, <1>5, <1>7, <1>12, <3>1
    <3>5. Ordered(parked'["b"][t], Before') BY Zenon, <1>7, <1>12, <3>1, <3>2 DEF Keeps
    <3> QED BY Zenon, <3>3, <3>4, <3>5 DEF Gates
  <2>3. ASSUME NEW t \in Services, NEW j \in Wires, NEW x \in Range(chan[t]) \cup Range(parked'["b"][t]),
               NEW y \in Range(wire'[j])
        PROVE  <<x, y>> \in Before'
    <3>1. x \in Range(chan[t]) \cup Range(parked["b"][t]) /\ x \in Msgs BY Zenon, <1>6, <2>3 DEF Keeps
    <3>2. CASE y \in Range(ms) BY Zenon, <1>11, <3>1, <3>2
    <3>3. CASE y \notin Range(ms)
      <4>1. y \in Range(wire[j]) /\ y \in Msgs BY Zenon, <1>6, <1>14, <3>3
      <4>2. <<x, y>> \in Before BY Zenon, <1>0, <3>1, <4>1 DEF Order
      <4>3. x \notin Range(ms) BY Zenon, <1>7, <3>1
      <4> QED BY Zenon, <1>8, <3>1, <3>3, <4>1, <4>2, <4>3
    <3> QED BY Zenon, <3>2, <3>3
  <2>4. Ordered(rq', Before') BY Zenon, <1>2, OrderedEmpty
  <2> QED BY Zenon, <1>14, <2>1, <2>2, <2>3, <2>4 DEF Order, Keeps
<1> QED BY Zenon, <1>15, <1>16, <1>17 DEF MInv

\* The next message that gate "a" reads.
LEMMA NextOut ==
    ASSUME MInv, out # <<>>
    PROVE  /\ Head(out) \in Range(out) /\ Tail(out) \in Seq(Msgs) /\ Range(Tail(out)) \subseteq Range(out)
           /\ \A n \in Range(Tail(out)) : Head(out) < n
           /\ \A i, j \in 1..Len(Tail(out)) : i < j => Tail(out)[i] < Tail(out)[j]
<1>1. out \in Seq(Msgs) /\ \A i, j \in 1..Len(out) : i < j => out[i] < out[j] BY Zenon DEF MInv, MsgTypes, Order
<1>2. PICK B : B = {p \in Msgs \X Msgs : p[1] < p[2]} BY Zenon
<1>3. \A i \in 1..Len(out) : out[i] \in Msgs BY Zenon, <1>1, ElementFacts
<1>4. Ordered(out, B) BY Zenon, <1>1, <1>2, <1>3 DEF Ordered
<1>5. PICK t \in Seq(Msgs) : /\ t = Tail(out) /\ Head(out) \in Range(out) /\ Range(t) \subseteq Range(out)
                             /\ Ordered(t, B) /\ \A y \in Range(t) : <<Head(out), y>> \in B
  BY Zenon, <1>1, <1>4, OrderedTail
<1>6. \A i, j \in 1..Len(t) : i < j => t[i] < t[j] BY Zenon, <1>2, <1>5 DEF Ordered
<1>7. \A y \in Range(t) : Head(out) < y BY Zenon, <1>2, <1>5
<1> QED BY Zenon, <1>5, <1>6, <1>7

\* Gate "a" keeps a message for a service that it does not know.
LEMMA ParkInv ==
    ASSUME MInv, NEW m \in Msgs, out # <<>>, m = Head(out), dest[m] \notin known["a"], out' = Tail(out),
           parked' = [parked EXCEPT !["a"][dest[m]] = Append(@, m)],
           UNCHANGED <<dest, via, known, rq, wire, chan, nwire, rsock, ropen, listening>>
    PROVE  MInv'
<1>0. MsgTypes /\ Places /\ Order /\ Before' = Before /\ Msgs' = Msgs BY Zenon DEF MInv, Before, Msgs
<1>1. PICK s \in Services : s = dest[m] BY Zenon, <1>0, MsgFacts
<1>2. /\ parked' \in [Gates -> [Services -> Seq(Msgs)]] /\ parked'["b"] = parked["b"]
      /\ \A t \in Services : parked'["a"][t] = IF t = s THEN Append(parked["a"][s], m) ELSE parked["a"][t]
  <2>1. \A t \in Services : Append(parked["a"][t], m) \in Seq(Msgs) BY <1>0, MsgFacts, AppendIndex DEF MsgTypes
  <2>2. "a" \in Gates /\ "b" \in Gates /\ "a" # "b" BY Zenon, <1>0, MsgFacts
  <2> QED BY ZenonT(30), <1>0, <1>1, <2>1, <2>2 DEF MsgTypes
<1>3. /\ m \in Range(out) /\ out' \in Seq(Msgs) /\ Range(out') \subseteq Range(out)
      /\ \A n \in Range(out') : m < n
      /\ \A i, j \in 1..Len(out') : i < j => out'[i] < out'[j]
  BY Zenon, NextOut
<1>4. Behind(m) /\ via[m] = 0 /\ m \in Nat BY Zenon, <1>0, <1>3, MsgFacts DEF Order, Places
<1>5. /\ Range(parked'["a"][s]) = Range(parked["a"][s]) \cup {m}
      /\ Ordered(parked'["a"][s], Before)
  <2>1. PICK q \in Seq(Msgs) : q = parked["a"][s] BY Zenon, <1>0, MsgFacts DEF MsgTypes
  <2>2. Range(q) \subseteq Msgs /\ \A x \in Range(q) : x < m BY Zenon, <1>4, <2>1, RangeDef DEF Behind
  <2>3. Ordered(q, Before) BY Zenon, <1>0, <2>1, MsgFacts DEF Order
  <2>4. \A x \in Range(q) : <<x, m>> \in Before BY Zenon, <2>2, BeforeDef
  <2>5. Range(Append(q, m)) = Range(q) \cup {m} /\ Ordered(Append(q, m), Before) BY <2>3, <2>4, OrderedAppend
  <2> QED BY Zenon, <1>2, <2>1, <2>5
<1>6. \A t \in Services : /\ Range(parked'["a"][t]) \subseteq Range(parked["a"][t]) \cup (IF t = s THEN {m} ELSE {})
                          /\ Ordered(parked'["a"][t], Before)
  <2>1. \A t \in Services : Ordered(parked["a"][t], Before) BY Zenon, <1>0, MsgFacts DEF Order
  <2> QED BY Zenon, <1>2, <1>5, <2>1
<1>7. MsgTypes' BY ZenonT(30), <1>0, <1>2, <1>3 DEF MsgTypes
<1>8. Places'
  <2>1. ASSUME NEW t \in Services, NEW x \in Range(parked'["a"][t]) PROVE via[x] = 0 /\ dest[x] = t
    <3>1. x \in Range(parked["a"][t]) \/ (x = m /\ t = s) BY Zenon, <1>6
    <3>2. x \in Range(parked["a"][t]) => via[x] = 0 /\ dest[x] = t BY Zenon, <1>0 DEF Places
    <3> QED BY Zenon, <1>1, <1>4, <3>1, <3>2
  <2>2. \A t \in Services, g \in Gates : t \in known'[g] => parked'[g][t] = <<>>
    <3>1. \A t \in Services : t \in known["a"] => parked'["a"][t] = <<>> BY SMTT(30), <1>0, <1>1, <1>2, MsgFacts DEF Places
    <3>2. \A t \in Services : t \in known["b"] => parked'["b"][t] = <<>> BY <1>0, <1>2, MsgFacts DEF Places
    <3> QED BY Zenon, <3>1, <3>2 DEF Gates
  <2>3. \A n \in Range(out') : via[n] = 0 BY Zenon, <1>0, <1>3 DEF Places
  <2>4. \A t \in Services :
           /\ \A x \in Range(parked'["b"][t]) : via[x] # 0 /\ dest[x] = t /\ t \in known["a"] /\ Home[t] = "b"
           /\ \A x \in Range(chan[t]) : (via[x] = 0 <=> Home[t] = "a") /\ dest[x] = t /\ t \in known["a"]
           /\ t \notin known[Home[t]] => chan[t] = <<>>
    BY Zenon, <1>0, <1>2 DEF Places
  <2>5. /\ \A x \in Msgs : via[x] <= nwire
        /\ \A x \in Range(rq) : via[x] = 0 /\ dest[x] \in known["a"] /\ Home[dest[x]] = "b"
        /\ \A k \in Wires : \A x \in Range(wire[k]) : via[x] = k /\ dest[x] \in known["a"] /\ Home[dest[x]] = "b"
        /\ rsock # 0 => rq = <<>>
    BY Zenon, <1>0 DEF Places
  <2> QED BY SMTT(30), <1>0, <2>1, <2>2, <2>3, <2>4, <2>5 DEF Places
<1>9. Order'
  <2>1. ASSUME NEW n \in Range(out') PROVE Behind(n)'
    <3>1. Behind(n) /\ m < n BY Zenon, <1>0, <1>3, <2>1 DEF Order
    <3>2. \A t \in Services : \A x \in Range(parked'["a"][t]) \cup Range(parked'["b"][t]) : x < n
      BY Zenon, <1>2, <1>6, <3>1 DEF Behind
    <3> QED BY Zenon, <3>1, <3>2 DEF Behind
  <2>2. \A t \in Services : \A g \in Gates : Ordered(parked'[g][t], Before)
    BY Zenon, <1>0, <1>2, <1>6 DEF Order, Gates
  <2> QED BY <1>0, <1>2, <1>3, <2>1, <2>2, Zenon DEF Order
<1> QED BY Zenon, <1>7, <1>8, <1>9 DEF MInv

\* A new wire takes all that has waited for one.
LEMMA RemoteConnectInv ==
    ASSUME MInv, nwire + 1 \in Wires, rsock = 0, nwire' = nwire + 1, rsock' = nwire + 1, rq' = <<>>,
           ropen' = ropen \cup {nwire + 1}, listening' = listening \cup {nwire + 1},
           wire' = [wire EXCEPT ![nwire + 1] = rq],
           via' = [m \in DOMAIN via |-> IF m \in Range(rq) THEN nwire + 1 ELSE via[m]],
           UNCHANGED <<dest, known, out, chan, parked>>
    PROVE  MInv'
<1>0. MsgTypes /\ Places /\ Order /\ Msgs' = Msgs BY Zenon DEF MInv, Msgs
<1>1. PICK k \in Wires : k = nwire + 1 BY Zenon
<1>2. k \in Nat /\ k # 0 /\ nwire \in Nat /\ nwire < k BY <1>0, <1>1, WireFacts DEF MsgTypes
<1>3. PICK R : R = Range(rq) BY Zenon
<1>4. /\ via' \in Seq(Nat) /\ Len(via') = Len(via) /\ \A m \in Msgs : via'[m] = IF m \in R THEN k ELSE via[m]
  <2>1. via' = [m \in DOMAIN via |-> IF m \in R THEN k ELSE via[m]] BY Zenon, <1>1, <1>3
  <2> QED BY <1>0, <1>2, <2>1, ViaFacts, Zenon
<1>5. R \subseteq Msgs /\ \A m \in R : via[m] = 0 /\ dest[m] \in known["a"] /\ Home[dest[m]] = "b"
  BY Zenon, <1>0, <1>3, QueueFacts DEF Places
<1>6. /\ Range(out) \subseteq Msgs /\ \A j \in Wires : wire[j] \in Seq(Msgs) /\ Range(wire[j]) \subseteq Msgs
      /\ \A t \in Services : /\ Range(chan[t]) \subseteq Msgs
                             /\ Range(parked["a"][t]) \subseteq Msgs /\ Range(parked["b"][t]) \subseteq Msgs
  BY Zenon, <1>0, QueueFacts, MsgFacts DEF MsgTypes
<1>7. /\ \A n \in Range(out) : n \notin R
      /\ \A j \in Wires : \A x \in Range(wire[j]) : x \notin R
      /\ \A t \in Services : /\ \A x \in Range(chan[t]) : x \notin R
                             /\ \A x \in Range(parked["a"][t]) : x \notin R
                             /\ \A x \in Range(parked["b"][t]) : x \notin R
  <2>1. \A n \in Range(out) : n \notin R
    <3>1. \A n \in Range(out) : n \in Nat BY Zenon, <1>0, <1>6, MsgFacts
    <3>2. \A n \in Range(out) : ~(n < n) BY <3>1
    <3> QED BY Zenon, <1>0, <1>3, <3>2 DEF Order, Behind
  <2>2. \A j \in Wires : \A x \in Range(wire[j]) : x \notin R BY <1>0, <1>5, WireFacts DEF Places
  <2>3. \A t \in Services : \A x \in Range(chan[t]) : x \notin R BY <1>0, <1>5 DEF Places
  <2>4. ASSUME NEW t \in Services, NEW x \in Range(parked["a"][t]), x \in R PROVE FALSE
    <3>1. dest[x] = t BY Zenon, <1>0 DEF Places
    <3>2. t \in known["a"] BY Zenon, <1>5, <2>4, <3>1
    <3>3. parked["a"][t] = <<>> BY <1>0, <3>2, MsgFacts DEF Places
    <3> QED BY Zenon, <3>3, OrderedEmpty
  <2>5. \A t \in Services : \A x \in Range(parked["b"][t]) : x \notin R BY <1>0, <1>5 DEF Places
  <2> QED BY Zenon, <2>1, <2>2, <2>3, <2>4, <2>5
<1>8. ASSUME NEW x \in Msgs, NEW y \in Msgs, (x \in R) = (y \in R), <<x, y>> \in Before
      PROVE  <<x, y>> \in Before'
  <2>1. dest[x] = dest[y] /\ via[x] = via[y] => x < y BY Zenon, <1>8, BeforeDef
  <2>2. via'[x] = via'[y] => via[x] = via[y]
    <3>1. CASE x \in R BY Zenon, <1>5, <1>8, <3>1
    <3>2. CASE x \notin R BY Zenon, <1>4, <1>8, <3>2
    <3> QED BY Zenon, <3>1, <3>2
  <2> QED BY Zenon, <1>0, <2>1, <2>2 DEF Before
<1>9. \A q \in Seq(Msgs) : Ordered(q, Before) /\ (\A x \in Range(q) : x \notin R) => Ordered(q, Before')
  <2>1. TAKE q \in Seq(Msgs)
  <2>2. Range(q) \subseteq Msgs BY Zenon, RangeDef
  <2>3. HAVE Ordered(q, Before) /\ \A x \in Range(q) : x \notin R
  <2>4. \A x, y \in Range(q) : <<x, y>> \in Before => <<x, y>> \in Before' BY <1>8, <2>2, <2>3
  <2> QED BY Zenon, <2>3, <2>4, OrderedWeaken
<1>10. rq \in Seq(Msgs) /\ Ordered(rq, Before')
  <2>1. rq \in Seq(Msgs) /\ Ordered(rq, Before) BY Zenon, <1>0 DEF MsgTypes, Order
  <2>2. \A x, y \in Range(rq) : <<x, y>> \in Before => <<x, y>> \in Before' BY Zenon, <1>3, <1>5, <1>8
  <2> QED BY Zenon, <2>1, <2>2, OrderedWeaken
<1>11. \A j \in Wires : wire'[j] = IF j = k THEN rq ELSE wire[j] BY Zenon, <1>0, <1>1 DEF MsgTypes
<1>12. \A j \in Wires : wire'[j] \in Seq(Msgs) /\ Ordered(wire'[j], Before')
  <2>1. TAKE j \in Wires
  <2>2. Ordered(wire[j], Before') BY Zenon, <1>0, <1>6, <1>7, <1>9 DEF Order
  <2> QED BY Zenon, <1>6, <1>10, <1>11, <2>2
<1>13. MsgTypes'
  <2>1. wire' \in [Wires -> Seq(Msgs)] BY Zenon, <1>0, <1>12 DEF MsgTypes
  <2>2. nwire' \in Nat /\ rsock' \in {0, nwire'} BY Zenon, <1>1, <1>2
  <2>3. ropen' \subseteq listening' /\ listening' \subseteq 1..nwire'
    <3>1. ropen \subseteq listening /\ listening \subseteq 1..nwire BY Zenon, <1>0 DEF MsgTypes
    <3>2. 1..nwire \subseteq 1..nwire' /\ nwire + 1 \in 1..nwire' BY <1>2
    <3> QED BY Zenon, <3>1, <3>2
  <2>4. rq' \in Seq(Msgs) BY Zenon, EmptyLen
  <2> QED BY Zenon, <1>0, <1>4, <2>1, <2>2, <2>3, <2>4 DEF MsgTypes
<1>14. Places'
  <2>1. ASSUME NEW t \in Services, NEW m \in Range(parked["b"][t])
        PROVE  via'[m] # 0 /\ dest[m] = t /\ t \in known["a"] /\ Home[t] = "b"
    <3>1. m \in Msgs /\ m \notin R BY Zenon, <1>6, <1>7
    <3>2. via[m] # 0 /\ dest[m] = t /\ t \in known["a"] /\ Home[t] = "b" BY Zenon, <1>0 DEF Places
    <3> QED BY Zenon, <1>4, <3>1, <3>2
  <2>2. ASSUME NEW t \in Services, NEW m \in Range(chan[t])
        PROVE  (via'[m] = 0 <=> Home[t] = "a") /\ dest[m] = t /\ t \in known["a"]
    <3>1. (via[m] = 0 <=> Home[t] = "a") /\ dest[m] = t /\ t \in known["a"] BY Zenon, <1>0 DEF Places
    <3>2. m \in Msgs /\ m \notin R BY Zenon, <1>6, <1>7
    <3>3. via'[m] = via[m] BY Zenon, <1>4, <3>2
    <3> QED BY Zenon, <3>1, <3>3
  <2>3. Range(rq') = {} BY Zenon, OrderedEmpty
  <2>4. ASSUME NEW j \in Wires, NEW m \in Range(wire'[j])
        PROVE  via'[m] = j /\ dest[m] \in known["a"] /\ Home[dest[m]] = "b"
    <3>1. CASE j = k BY Zenon, <1>3, <1>4, <1>5, <1>11, <3>1
    <3>2. CASE j # k
      <4>1. m \in Range(wire[j]) BY Zenon, <1>11, <3>2
      <4>2. m \in Msgs /\ m \notin R BY Zenon, <1>6, <1>7, <4>1
      <4>3. via[m] = j /\ dest[m] \in known["a"] /\ Home[dest[m]] = "b" BY Zenon, <1>0, <4>1 DEF Places
      <4> QED BY Zenon, <1>4, <4>2, <4>3
    <3> QED BY Zenon, <3>1, <3>2
  <2>5. ASSUME NEW m \in Msgs PROVE via'[m] <= nwire'
    <3>1. via[m] <= nwire /\ via[m] \in Nat BY Zenon, <1>0, MsgFacts DEF Places
    <3>2. via[m] <= k /\ k <= k BY <1>2, <3>1
    <3> QED BY Zenon, <1>1, <1>4, <3>2
  <2>6. \A n \in Range(out) : via'[n] = 0 BY Zenon, <1>0, <1>4, <1>6, <1>7 DEF Places
  <2>7. ASSUME NEW t \in Services, NEW m \in Range(parked["a"][t]) PROVE via'[m] = 0 /\ dest[m] = t
    <3>1. m \in Msgs /\ m \notin R /\ via[m] = 0 /\ dest[m] = t BY <1>0, <1>6, <1>7 DEF Places
    <3> QED BY Zenon, <1>4, <3>1
  <2>8. \A t \in Services : /\ \A g \in Gates : t \in known[g] => parked[g][t] = <<>>
                            /\ t \notin known[Home[t]] => chan[t] = <<>>
    BY Zenon, <1>0 DEF Places
  <2> QED BY SMTT(30), <1>0, <2>1, <2>2, <2>3, <2>4, <2>5, <2>6, <2>7, <2>8 DEF Places
<1>15. Order'
  <2>1. ASSUME NEW n \in Range(out) PROVE Behind(n)'
    <3>0. Behind(n) BY Zenon, <1>0 DEF Order
    <3>1. \A j \in Wires : \A x \in Range(wire'[j]) : x < n BY Zenon, <1>11, <3>0 DEF Behind
    <3>2. Range(rq') = {} BY Zenon, OrderedEmpty
    <3> QED BY Zenon, <3>0, <3>1, <3>2 DEF Behind
  <2>2. ASSUME NEW t \in Services PROVE Ordered(chan[t], Before') /\ \A g \in Gates : Ordered(parked[g][t], Before')
    <3>1. chan[t] \in Seq(Msgs) /\ parked["a"][t] \in Seq(Msgs) /\ parked["b"][t] \in Seq(Msgs)
      BY Zenon, <1>0, MsgFacts DEF MsgTypes
    <3>2. Ordered(chan[t], Before) /\ Ordered(parked["a"][t], Before) /\ Ordered(parked["b"][t], Before)
      BY Zenon, <1>0, MsgFacts DEF Order
    <3>3. Ordered(chan[t], Before') BY Zenon, <1>7, <1>9, <3>1, <3>2
    <3>4. Ordered(parked["a"][t], Before') BY Zenon, <1>7, <1>9, <3>1, <3>2
    <3>5. Ordered(parked["b"][t], Before') BY Zenon, <1>7, <1>9, <3>1, <3>2
    <3> QED BY Zenon, <3>3, <3>4, <3>5 DEF Gates
  <2>3. ASSUME NEW t \in Services, NEW j \in Wires, NEW x \in Range(chan[t]) \cup Range(parked["b"][t]),
               NEW y \in Range(wire'[j])
        PROVE  <<x, y>> \in Before'
    <3>1. x \in Msgs /\ x \notin R BY Zenon, <1>6, <1>7
    <3>2. CASE j = k
      <4>1. y \in R /\ y \in Msgs BY Zenon, <1>3, <1>5, <1>11, <3>2
      <4>2. via'[x] = via[x] /\ via[x] <= nwire /\ via[x] \in Nat /\ via'[y] = k
        BY SMTT(30), <1>0, <1>4, <3>1, <4>1, MsgFacts DEF Places
      <4>3. via'[x] # via'[y] BY <1>2, <4>2
      <4> QED BY Zenon, <1>0, <3>1, <4>1, <4>3 DEF Before
    <3>3. CASE j # k
      <4>1. y \in Range(wire[j]) BY Zenon, <1>11, <3>3
      <4>2. y \in Msgs /\ y \notin R BY Zenon, <1>6, <1>7, <4>1
      <4>3. <<x, y>> \in Before BY Zenon, <1>0, <2>3, <4>1 DEF Order
      <4> QED BY <1>8, <3>1, <4>2, <4>3
    <3> QED BY Zenon, <3>2, <3>3
  <2>4. Ordered(rq', Before') BY Zenon, OrderedEmpty
  <2> QED BY Zenon, <1>0, <1>12, <2>1, <2>2, <2>3, <2>4 DEF Order
<1> QED BY Zenon, <1>13, <1>14, <1>15 DEF MInv

\* service_info::write at gate "a".
LEMMA WriteInv ==
    ASSUME MInv, rsock \in ropen => rsock \in Wires, NEW s \in Services, NEW ms \in Seq(Msgs),
           Passes(s, ms), Keeps(s, ms), WriteTo("a", s, ms),
           UNCHANGED <<dest, nwire, rsock, ropen, listening>>
    PROVE  MInv'
<1>1. CASE Home[s] = "a"
  <2>1. chan' = [chan EXCEPT ![s] = @ \o ms] /\ UNCHANGED <<rq, wire, via>> BY Zenon, <1>1 DEF WriteTo
  <2> QED BY Zenon, <1>1, <2>1, PassLocal
<1>2. CASE Home[s] # "a"
  <2>1. Home[s] = "b" BY Zenon, <1>2, RoutingAssumption DEF Gates
  <2>2. RemoteSend(ms) /\ UNCHANGED chan BY Zenon, <1>2 DEF WriteTo
  <2>3. CASE rsock # 0 /\ rsock \in ropen
    <3>1. /\ rsock \in Wires /\ UNCHANGED rq /\ wire' = [wire EXCEPT ![rsock] = @ \o ms]
          /\ via' = [m \in DOMAIN via |-> IF m \in Range(ms) THEN rsock ELSE via[m]]
      BY Zenon, <2>2, <2>3 DEF RemoteSend, OnWire
    <3> QED BY Zenon, <2>1, <2>2, <3>1, PassWire
  <2>4. CASE ~(rsock # 0 /\ rsock \in ropen)
    <3>1. (rq' = rq \o ms /\ rsock = 0) \/ rq' = rq BY Zenon, <2>2 DEF RemoteSend
    <3>2. UNCHANGED <<wire, via>> BY Zenon, <2>2, <2>4 DEF RemoteSend, OnWire
    <3> QED BY Zenon, <2>1, <2>2, <3>1, <3>2, PassQueue
  <2> QED BY Zenon, <2>3, <2>4
<1> QED BY Zenon, <1>1, <1>2

\* Gate "a" reads a message of its service: the one that all that came before
\* it is ahead of.
LEMMA GateReadInv ==
    ASSUME MInv, rsock \in ropen => rsock \in Wires, GateRead
    PROVE  MInv'
<1>0. MsgTypes /\ Places /\ Order BY Zenon DEF MInv
<1>1. PICK m : m = Head(out) BY Zenon
<1>2. /\ out # <<>> /\ out' = Tail(out) /\ Forward("a", m)
      /\ UNCHANGED <<known, rsock, nwire, ropen, listening, dest>>
  BY Zenon, <1>1 DEF GateRead
<1>3. /\ m \in Range(out) /\ out' \in Seq(Msgs) /\ Range(out') \subseteq Range(out)
      /\ \A n \in Range(out') : m < n
      /\ \A i, j \in 1..Len(out') : i < j => out'[i] < out'[j]
  BY Zenon, <1>1, <1>2, NextOut
<1>4. m \in Msgs /\ Behind(m) /\ via[m] = 0 /\ m \in Nat BY Zenon, <1>0, <1>3, QueueFacts, MsgFacts DEF Order, Places
<1>5. PICK s \in Services : s = dest[m] BY Zenon, <1>0, <1>4, MsgFacts
<1>6. CASE s \notin known["a"]
  <2>1. /\ parked' = [parked EXCEPT !["a"][dest[m]] = Append(@, m)] /\ UNCHANGED <<chan, rq, wire, via>>
    BY Zenon, <1>2, <1>5, <1>6 DEF Forward
  <2> QED BY Zenon, <1>1, <1>2, <1>4, <1>5, <1>6, <2>1, ParkInv
<1>7. CASE s \in known["a"]
  <2>1. PICK ms \in Seq(Msgs) : ms = <<m>> /\ Range(ms) = {m} /\ Ordered(ms, Before) BY Zenon, <1>4, OrderedOne
  <2>2. WriteTo("a", s, ms) /\ parked' = parked BY Zenon, <1>2, <1>5, <1>7, <2>1 DEF Forward
  <2>3. Passes(s, ms) BY Zenon, <1>4, <1>5, <2>1 DEF Passes, Behind
  <2>4. Keeps(s, ms)
    <3>1. /\ known' \in [Gates -> SUBSET Services] /\ parked' \in [Gates -> [Services -> Seq(Msgs)]]
          /\ \A t \in Services : t \in known'["a"] => parked'["a"][t] = <<>>
      BY Zenon, <1>0, <1>2, <2>2, MsgFacts DEF MsgTypes, Places
    <3> QED BY Zenon, <1>2, <1>3, <1>7, <2>1, <2>2, <3>1 DEF Keeps
  <2> QED BY Zenon, <1>2, <2>2, <2>3, <2>4, WriteInv
<1> QED BY Zenon, <1>6, <1>7

\* Gate "a" learns of a service: what it has kept for it goes first.
LEMMA EmplaceAInv ==
    ASSUME MInv, rsock \in ropen => rsock \in Wires, NEW s \in Services, EmplaceService("a", s),
           UNCHANGED <<dest, out, nwire, rsock, ropen, listening>>
    PROVE  MInv'
<1>0. MsgTypes /\ Places /\ Order /\ "a" \in Gates /\ "b" \in Gates /\ "a" # "b" BY Zenon, MsgFacts DEF MInv
<1>1. PICK ms \in Seq(Msgs) : ms = parked["a"][s] BY Zenon, <1>0 DEF MsgTypes
<1>2. /\ known' = [known EXCEPT !["a"] = @ \cup {s}] /\ parked' = [parked EXCEPT !["a"][s] = <<>>]
      /\ WriteTo("a", s, ms)
  BY Zenon, <1>1 DEF EmplaceService
<1>3. \A m \in Range(ms) : dest[m] = s /\ via[m] = 0 /\ m \in Msgs BY Zenon, <1>0, <1>1, QueueFacts DEF Places
<1>4. Passes(s, ms)
  <2>1. Ordered(ms, Before) BY Zenon, <1>0, <1>1 DEF Order
  <2>2. CASE s \in known["a"]
    <3>1. Range(ms) = {} BY <1>0, <1>1, <2>2, OrderedEmpty DEF Places
    <3> QED BY Zenon, <2>1, <3>1 DEF Passes
  <2>3. CASE s \notin known["a"]
    <3>1. /\ \A x \in Range(chan[s]) \cup Range(parked["b"][s]) : FALSE
          /\ \A x \in Range(rq) : dest[x] # s
          /\ \A k \in Wires : \A x \in Range(wire[k]) : dest[x] # s
      <4>1. \A x \in Range(chan[s]) : FALSE BY Zenon, <1>0, <2>3 DEF Places
      <4>2. \A x \in Range(parked["b"][s]) : FALSE BY Zenon, <1>0, <2>3 DEF Places
      <4>3. \A x \in Range(rq) : dest[x] # s BY <1>0, <2>3 DEF Places
      <4>4. \A k \in Wires : \A x \in Range(wire[k]) : dest[x] # s BY <1>0, <2>3 DEF Places
      <4> QED BY Zenon, <4>1, <4>2, <4>3, <4>4
    <3> QED BY Zenon, <1>3, <2>1, <3>1 DEF Passes
  <2> QED BY Zenon, <2>2, <2>3
<1>5. Keeps(s, ms)
  <2>1. /\ known' \in [Gates -> SUBSET Services] /\ known["a"] \subseteq known'["a"] /\ s \in known'["a"]
        /\ known'["b"] = known["b"] /\ known'["a"] = known["a"] \cup {s}
    BY Zenon, <1>0, <1>2 DEF MsgTypes
  <2>2. /\ parked' \in [Gates -> [Services -> Seq(Msgs)]] /\ parked'["b"] = parked["b"]
        /\ \A t \in Services : parked'["a"][t] = IF t = s THEN <<>> ELSE parked["a"][t]
    <3>1. <<>> \in Seq(Msgs) BY Zenon, EmptyLen
    <3> QED BY Zenon, <1>0, <1>2, <3>1 DEF MsgTypes
  <2>3. \A t \in Services : /\ parked'["a"][t] \in {parked["a"][t], <<>>}
                            /\ t \in known'["a"] => parked'["a"][t] = <<>>
    BY <1>0, <2>1, <2>2 DEF Places
  <2>4. /\ out' \in Seq(Msgs) /\ Range(out') \subseteq Range(out)
        /\ \A i, j \in 1..Len(out') : i < j => out'[i] < out'[j]
    BY Zenon, <1>0 DEF MsgTypes, Order
  <2>5. \A m \in Range(ms), n \in Range(out') : m < n BY Zenon, <1>0, <1>1 DEF Order, Behind
  <2> QED BY Zenon, <2>1, <2>2, <2>3, <2>4, <2>5 DEF Keeps
<1> QED BY Zenon, <1>2, <1>4, <1>5, WriteInv

\* Messages move to the channel of a service of "b" from where "b" has kept
\* them, or from a wire.
LEMMA ArriveInv ==
    ASSUME MInv, NEW s \in Services, Home[s] = "b", known["a"] = known'["a"], known' \in [Gates -> SUBSET Services],
           s \in known'["b"], known["b"] \subseteq known'["b"], known'["b"] \subseteq known["b"] \cup {s},
           NEW q \in Seq(Msgs), Ordered(q, Before), chan' = [chan EXCEPT ![s] = q],
           parked' \in [Gates -> [Services -> Seq(Msgs)]], parked'["a"] = parked["a"],
           \A t \in Services : parked'["b"][t] = IF t = s THEN <<>> ELSE parked["b"][t],
           wire' \in [Wires -> Seq(Msgs)],
           \A k \in Wires : Range(wire'[k]) \subseteq Range(wire[k]) /\ Ordered(wire'[k], Before),
           \A x \in Range(q) : /\ x \in Msgs /\ dest[x] = s /\ via[x] # 0 /\ s \in known["a"]
                               /\ \A k \in Wires : \A y \in Range(wire'[k]) : <<x, y>> \in Before
                               /\ \A n \in Range(out) : x < n,
           UNCHANGED <<dest, via, out, rq, nwire, rsock, ropen, listening>>
    PROVE  MInv'
<1>0. MsgTypes /\ Places /\ Order /\ Before' = Before /\ Msgs' = Msgs BY Zenon DEF MInv, Before, Msgs
<1>1. chan' \in [Services -> Seq(Msgs)] /\ \A t \in Services : chan'[t] = IF t = s THEN q ELSE chan[t]
  BY Zenon, <1>0 DEF MsgTypes
<1>2. Ordered(<<>>, Before) /\ Range(<<>>) = {} BY Zenon, OrderedEmpty
<1>3. MsgTypes' BY Zenon, <1>0, <1>1 DEF MsgTypes
<1>4. \A t \in Services : Range(parked'["b"][t]) \subseteq Range(parked["b"][t]) BY Zenon, <1>2
<1>5. Places'
  <2>1. ASSUME NEW t \in Services, NEW x \in Range(chan'[t])
        PROVE  (via[x] = 0 <=> Home[t] = "a") /\ dest[x] = t /\ t \in known["a"]
    <3>1. CASE t = s BY Zenon, <1>1, <3>1
    <3>2. CASE t # s BY <1>0, <1>1, <3>2 DEF Places
    <3> QED BY Zenon, <3>1, <3>2
  <2>2. ASSUME NEW t \in Services
        PROVE  /\ \A x \in Range(parked["a"][t]) : via[x] = 0 /\ dest[x] = t
               /\ \A x \in Range(parked'["b"][t]) : via[x] # 0 /\ dest[x] = t /\ t \in known["a"] /\ Home[t] = "b"
    BY <1>0, <1>4, ZenonT(30) DEF Places
  <2>3. ASSUME NEW t \in Services PROVE \A g \in Gates : t \in known'[g] => parked'[g][t] = <<>>
    <3>1. t \in known["a"] => parked["a"][t] = <<>> BY Zenon, <1>0, MsgFacts DEF Places
    <3>2. t \in known["b"] => parked["b"][t] = <<>> BY <1>0, MsgFacts DEF Places
    <3>3. t \in known'["b"] => parked'["b"][t] = <<>> BY Zenon, <3>2
    <3> QED BY Zenon, <3>1, <3>3 DEF Gates
  <2>4. ASSUME NEW t \in Services, t \notin known'[Home[t]] PROVE chan'[t] = <<>>
    <3>1. t # s BY Zenon, <2>4
    <3>2. Home[t] \in {"a", "b"} BY Zenon, RoutingAssumption DEF Gates
    <3>3. t \notin known[Home[t]] BY Zenon, <2>4, <3>2
    <3>4. chan[t] = <<>> BY Zenon, <1>0, <3>3 DEF Places
    <3> QED BY Zenon, <1>1, <3>1, <3>4
  <2>5. /\ \A x \in Msgs : via[x] <= nwire
        /\ \A x \in Range(out) : via[x] = 0
        /\ \A x \in Range(rq) : via[x] = 0 /\ dest[x] \in known["a"] /\ Home[dest[x]] = "b"
        /\ rsock # 0 => rq = <<>>
    BY ZenonT(30), <1>0 DEF Places
  <2>6. \A k \in Wires : \A x \in Range(wire'[k]) : via[x] = k /\ dest[x] \in known["a"] /\ Home[dest[x]] = "b"
    BY <1>0 DEF Places
  <2>7. Msgs' = Msgs BY Zenon, <1>0
  <2>8. dest' = dest /\ via' = via /\ parked'["a"] = parked["a"] /\ known'["a"] = known["a"] BY ZenonT(30)
  <2>9. ASSUME NEW t \in Services
        PROVE  /\ \A x \in Range(parked'["a"][t]) : via'[x] = 0 /\ dest'[x] = t
               /\ \A x \in Range(parked'["b"][t]) :
                     via'[x] # 0 /\ dest'[x] = t /\ t \in known'["a"] /\ Home[t] = "b"
    <3>1. \A x \in Range(parked'["a"][t]) : via[x] = 0 /\ dest[x] = t BY Zenon, <2>2, <2>8
    <3>2. \A x \in Range(parked'["b"][t]) : via[x] # 0 /\ dest[x] = t /\ t \in known["a"] /\ Home[t] = "b"
      BY Zenon, <2>2
    <3>3. \A x \in Range(parked'["a"][t]) : via'[x] = 0 /\ dest'[x] = t BY ZenonT(30), <2>8, <3>1
    <3> QED BY ZenonT(30), <2>8, <3>2, <3>3
  <2>10. ASSUME NEW t \in Services, NEW x \in Range(chan'[t])
         PROVE  (via'[x] = 0 <=> Home[t] = "a") /\ dest'[x] = t /\ t \in known'["a"]
    BY SMTT(30), <2>1, <2>8
  <2>11. /\ \A x \in Msgs' : via'[x] <= nwire'
         /\ \A x \in Range(out') : via'[x] = 0
         /\ \A x \in Range(rq') : via'[x] = 0 /\ dest'[x] \in known'["a"] /\ Home[dest'[x]] = "b"
         /\ \A k \in Wires : \A x \in Range(wire'[k]) :
               via'[x] = k /\ dest'[x] \in known'["a"] /\ Home[dest'[x]] = "b"
         /\ rsock' # 0 => rq' = <<>>
    BY Zenon, <2>5, <2>6, <2>7
  <2>12. ASSUME NEW t \in Services
         PROVE  /\ \A x \in Range(parked'["a"][t]) : via'[x] = 0 /\ dest'[x] = t
                /\ \A x \in Range(parked'["b"][t]) :
                      via'[x] # 0 /\ dest'[x] = t /\ t \in known'["a"] /\ Home[t] = "b"
                /\ \A x \in Range(chan'[t]) :
                      (via'[x] = 0 <=> Home[t] = "a") /\ dest'[x] = t /\ t \in known'["a"]
                /\ \A g \in Gates : t \in known'[g] => parked'[g][t] = <<>>
                /\ t \notin known'[Home[t]] => chan'[t] = <<>>
    <3>1. t \notin known'[Home[t]] => chan'[t] = <<>> BY Zenon, <2>4
    <3>2. \A g \in Gates : t \in known'[g] => parked'[g][t] = <<>> BY Zenon, <2>3
    <3>3. \A x \in Range(chan'[t]) : (via'[x] = 0 <=> Home[t] = "a") /\ dest'[x] = t /\ t \in known'["a"]
      BY Zenon, <2>10
    <3> QED BY Zenon, <2>9, <3>1, <3>2, <3>3
  <2> QED BY Zenon, <2>11, <2>12 DEF Places
<1>6. Order'
  <2>1. ASSUME NEW n \in Range(out) PROVE Behind(n)'
    <3>0. Behind(n) BY Zenon, <1>0 DEF Order
    <3>1. \A k \in Wires : \A x \in Range(wire'[k]) : x < n BY Zenon, <3>0 DEF Behind
    <3>2. \A t \in Services : \A x \in Range(chan'[t]) : x < n BY Zenon, <1>1, <3>0 DEF Behind
    <3>3. \A t \in Services : \A x \in Range(parked["a"][t]) \cup Range(parked'["b"][t]) : x < n
      BY Zenon, <1>4, <3>0 DEF Behind
    <3> QED BY Zenon, <3>0, <3>1, <3>2, <3>3 DEF Behind
  <2>2. ASSUME NEW t \in Services PROVE Ordered(chan'[t], Before) /\ \A g \in Gates : Ordered(parked'[g][t], Before)
    <3>1. Ordered(chan[t], Before) /\ Ordered(parked["a"][t], Before) /\ Ordered(parked["b"][t], Before)
      BY Zenon, <1>0, MsgFacts DEF Order
    <3>2. Ordered(chan'[t], Before) BY Zenon, <1>1, <3>1
    <3>3. Ordered(parked'["a"][t], Before) /\ Ordered(parked'["b"][t], Before) BY Zenon, <1>2, <3>1
    <3> QED BY Zenon, <3>2, <3>3 DEF Gates
  <2>3. ASSUME NEW t \in Services, NEW k \in Wires, NEW x \in Range(chan'[t]) \cup Range(parked'["b"][t]),
               NEW y \in Range(wire'[k])
        PROVE  <<x, y>> \in Before
    <3>1. CASE x \in Range(q) BY Zenon, <3>1
    <3>2. CASE x \in Range(chan[t]) \cup Range(parked["b"][t])
      <4>1. y \in Range(wire[k]) BY Zenon
      <4> QED BY Zenon, <1>0, <3>2, <4>1 DEF Order
    <3> QED BY Zenon, <1>1, <1>4, <3>1, <3>2
  <2>4. Ordered(rq, Before) /\ \A i, j \in 1..Len(out) : i < j => out[i] < out[j] BY Zenon, <1>0 DEF Order
  <2> QED BY Zenon, <1>0, <2>1, <2>2, <2>3, <2>4 DEF Order
<1> QED BY Zenon, <1>3, <1>5, <1>6 DEF MInv

\* Gate "b" learns of a service: what it has kept goes to its new channel.
LEMMA EmplaceBInv ==
    ASSUME MInv, NEW s \in Services, Home[s] = "b", EmplaceService("b", s),
           UNCHANGED <<dest, out, nwire, rsock, ropen, listening>>
    PROVE  MInv'
<1>0. MsgTypes /\ Places /\ Order /\ "a" \in Gates /\ "b" \in Gates /\ "a" # "b" BY Zenon, MsgFacts DEF MInv
<1>1. /\ known' = [known EXCEPT !["b"] = @ \cup {s}] /\ parked' = [parked EXCEPT !["b"][s] = <<>>]
      /\ chan' = [chan EXCEPT ![s] = @ \o parked["b"][s]] /\ UNCHANGED <<rq, wire, via>>
  BY Zenon DEF EmplaceService, WriteTo
<1>2. PICK c \in Seq(Msgs) : c = chan[s] BY Zenon, <1>0 DEF MsgTypes
<1>3. PICK p \in Seq(Msgs) : p = parked["b"][s] BY Zenon, <1>0 DEF MsgTypes
<1>4. Ordered(c, Before) /\ Ordered(p, Before) BY Zenon, <1>0, <1>2, <1>3 DEF Order
<1>5. PICK q \in Seq(Msgs) : q = c \o p /\ Ordered(q, Before) /\ Range(q) = Range(c) \cup Range(p)
  <2>1. \A x \in Range(c), y \in Range(p) : <<x, y>> \in Before
    <3>1. CASE s \in known["b"]
      <4>1. Range(p) = {} BY <1>0, <1>3, <3>1, OrderedEmpty DEF Places
      <4> QED BY Zenon, <4>1
    <3>2. CASE s \notin known["b"]
      <4>1. Range(c) = {} BY Zenon, <1>0, <1>2, <3>2, OrderedEmpty DEF Places
      <4> QED BY Zenon, <4>1
    <3> QED BY Zenon, <3>1, <3>2
  <2>2. c \o p \in Seq(Msgs) /\ Range(c \o p) = Range(c) \cup Range(p) /\ Ordered(c \o p, Before)
    BY Zenon, <1>4, <2>1, OrderedConcat
  <2> QED BY Zenon, <2>2
<1>6. /\ known'["a"] = known["a"] /\ known' \in [Gates -> SUBSET Services] /\ known'["b"] = known["b"] \cup {s}
      /\ chan' = [chan EXCEPT ![s] = q]
  BY Zenon, <1>0, <1>1, <1>2, <1>3, <1>5 DEF MsgTypes
<1>7. /\ parked' \in [Gates -> [Services -> Seq(Msgs)]] /\ parked'["a"] = parked["a"]
      /\ \A t \in Services : parked'["b"][t] = IF t = s THEN <<>> ELSE parked["b"][t]
  <2>1. <<>> \in Seq(Msgs) BY Zenon, EmptyLen
  <2> QED BY Zenon, <1>0, <1>1, <2>1 DEF MsgTypes
<1>8. wire' \in [Wires -> Seq(Msgs)] /\ \A k \in Wires : Range(wire'[k]) \subseteq Range(wire[k]) /\ Ordered(wire'[k], Before)
  BY Zenon, <1>0, <1>1 DEF MsgTypes, Order
<1>9. ASSUME NEW x \in Range(q)
      PROVE  /\ x \in Msgs /\ dest[x] = s /\ via[x] # 0 /\ s \in known["a"]
             /\ \A k \in Wires : \A y \in Range(wire'[k]) : <<x, y>> \in Before
             /\ \A n \in Range(out) : x < n
  <2>1. x \in Range(chan[s]) \cup Range(parked["b"][s]) BY Zenon, <1>2, <1>3, <1>5
  <2>2. x \in Msgs BY Zenon, <1>0, <2>1, QueueFacts
  <2>3. dest[x] = s /\ via[x] # 0 /\ s \in known["a"] BY <1>0, <2>1 DEF Places
  <2>4. \A k \in Wires : \A y \in Range(wire'[k]) : <<x, y>> \in Before BY Zenon, <1>0, <1>1, <2>1 DEF Order
  <2>5. \A n \in Range(out) : x < n BY Zenon, <1>0, <2>1 DEF Order, Behind
  <2> QED BY Zenon, <2>2, <2>3, <2>4, <2>5
<1> QED BY Zenon, <1>1, <1>5, <1>6, <1>7, <1>8, <1>9, ArriveInv

\* Gate "b" keeps a message that came on a wire.
LEMMA KeepB ==
    ASSUME MInv, NEW s \in Services, s \notin known["b"], Home[s] = "b", s \in known["a"],
           NEW m \in Msgs, dest[m] = s, via[m] # 0,
           wire' \in [Wires -> Seq(Msgs)],
           \A k \in Wires : Range(wire'[k]) \subseteq Range(wire[k]) /\ Ordered(wire'[k], Before),
           \A k \in Wires : \A y \in Range(wire'[k]) : <<m, y>> \in Before,
           \A n \in Range(out) : m < n,
           NEW q \in Seq(Msgs), Ordered(q, Before), Range(q) = Range(parked["b"][s]) \cup {m},
           parked' \in [Gates -> [Services -> Seq(Msgs)]], parked'["a"] = parked["a"],
           \A t \in Services : parked'["b"][t] = IF t = s THEN q ELSE parked["b"][t],
           UNCHANGED <<dest, via, known, chan, out, rq, nwire, rsock, ropen, listening>>
    PROVE  MInv'
<1>0. MsgTypes /\ Places /\ Order /\ Before' = Before /\ Msgs' = Msgs BY Zenon DEF MInv, Before, Msgs
<1>1. MsgTypes' BY Zenon, <1>0 DEF MsgTypes
<1>2. ASSUME NEW t \in Services, NEW x \in Range(parked'["b"][t])
      PROVE  x \in Range(parked["b"][t]) \/ (x = m /\ t = s)
  BY Zenon
<1>3. Places'
  <2>1. ASSUME NEW t \in Services, NEW x \in Range(parked'["b"][t])
        PROVE  via[x] # 0 /\ dest[x] = t /\ t \in known["a"] /\ Home[t] = "b"
    <3>1. CASE x = m /\ t = s BY Zenon, <3>1
    <3>2. CASE x \in Range(parked["b"][t]) BY Zenon, <1>0, <3>2 DEF Places
    <3> QED BY Zenon, <1>2, <3>1, <3>2
  <2>2. ASSUME NEW t \in Services
        PROVE  /\ \A x \in Range(parked["a"][t]) : via[x] = 0 /\ dest[x] = t
               /\ \A x \in Range(chan[t]) : (via[x] = 0 <=> Home[t] = "a") /\ dest[x] = t /\ t \in known["a"]
               /\ t \notin known[Home[t]] => chan[t] = <<>>
    BY Zenon, <1>0 DEF Places
  <2>3. ASSUME NEW t \in Services PROVE \A g \in Gates : t \in known[g] => parked'[g][t] = <<>>
    <3>1. t \in known["a"] => parked["a"][t] = <<>> BY SMTT(30), <1>0, MsgFacts DEF Places
    <3>2. t \in known["b"] => parked["b"][t] = <<>> BY <1>0, MsgFacts DEF Places
    <3>3. t \in known["b"] => parked'["b"][t] = <<>> BY Zenon, <3>2
    <3> QED BY ZenonT(30), <3>1, <3>3 DEF Gates
  <2>5. /\ \A x \in Msgs : via[x] <= nwire
        /\ \A x \in Range(out) : via[x] = 0
        /\ \A x \in Range(rq) : via[x] = 0 /\ dest[x] \in known["a"] /\ Home[dest[x]] = "b"
        /\ rsock # 0 => rq = <<>>
    BY ZenonT(30), <1>0 DEF Places
  <2>6. \A k \in Wires : \A x \in Range(wire'[k]) : via[x] = k /\ dest[x] \in known["a"] /\ Home[dest[x]] = "b"
    BY <1>0 DEF Places
  <2>7. \A t \in Services :
           /\ \A x \in Range(parked'["a"][t]) : via[x] = 0 /\ dest[x] = t
           /\ \A x \in Range(parked'["b"][t]) : via[x] # 0 /\ dest[x] = t /\ t \in known["a"] /\ Home[t] = "b"
           /\ \A x \in Range(chan[t]) : (via[x] = 0 <=> Home[t] = "a") /\ dest[x] = t /\ t \in known["a"]
           /\ \A g \in Gates : t \in known[g] => parked'[g][t] = <<>>
           /\ t \notin known[Home[t]] => chan[t] = <<>>
    BY <2>1, <2>2, <2>3, Zenon
  <2>8. Msgs' = Msgs BY Zenon, <1>0
  <2>9. /\ \A x \in Msgs' : via'[x] <= nwire'
        /\ \A x \in Range(out') : via'[x] = 0
        /\ \A x \in Range(rq') : via'[x] = 0 /\ dest'[x] \in known'["a"] /\ Home[dest'[x]] = "b"
        /\ rsock' # 0 => rq' = <<>>
    BY Zenon, <2>5, <2>8
  <2>10. \A k \in Wires : \A x \in Range(wire'[k]) :
             via'[x] = k /\ dest'[x] \in known'["a"] /\ Home[dest'[x]] = "b"
    BY ZenonT(30), <2>6
  <2>11. ASSUME NEW t \in Services
         PROVE  /\ \A x \in Range(parked'["a"][t]) : via'[x] = 0 /\ dest'[x] = t
                /\ \A x \in Range(parked'["b"][t]) :
                      via'[x] # 0 /\ dest'[x] = t /\ t \in known'["a"] /\ Home[t] = "b"
                /\ \A x \in Range(chan'[t]) :
                      (via'[x] = 0 <=> Home[t] = "a") /\ dest'[x] = t /\ t \in known'["a"]
                /\ \A g \in Gates : t \in known'[g] => parked'[g][t] = <<>>
                /\ t \notin known'[Home[t]] => chan'[t] = <<>>
    BY SMTT(30), <2>7
  <2> QED BY ZenonT(30), <2>9, <2>10, <2>11 DEF Places
<1>4. Order'
  <2>1. ASSUME NEW n \in Range(out) PROVE Behind(n)'
    <3>0. Behind(n) BY Zenon, <1>0 DEF Order
    <3>1. \A k \in Wires : \A x \in Range(wire'[k]) : x < n BY Zenon, <3>0 DEF Behind
    <3>2. \A t \in Services : \A x \in Range(parked'["b"][t]) : x < n BY Zenon, <1>2, <3>0 DEF Behind
    <3>3. \A t \in Services : \A x \in Range(chan[t]) \cup Range(parked["a"][t]) : x < n BY Zenon, <3>0 DEF Behind
    <3> QED BY Zenon, <3>0, <3>1, <3>2, <3>3 DEF Behind
  <2>2. ASSUME NEW t \in Services PROVE Ordered(chan[t], Before) /\ \A g \in Gates : Ordered(parked'[g][t], Before)
    <3>1. Ordered(chan[t], Before) /\ Ordered(parked["a"][t], Before) /\ Ordered(parked["b"][t], Before)
      BY Zenon, <1>0, MsgFacts DEF Order
    <3>2. Ordered(parked'["a"][t], Before) /\ Ordered(parked'["b"][t], Before) BY Zenon, <3>1
    <3> QED BY Zenon, <3>1, <3>2 DEF Gates
  <2>3. ASSUME NEW t \in Services, NEW k \in Wires, NEW x \in Range(chan[t]) \cup Range(parked'["b"][t]),
               NEW y \in Range(wire'[k])
        PROVE  <<x, y>> \in Before
    <3>1. CASE x = m BY Zenon, <3>1
    <3>2. CASE x \in Range(chan[t]) \cup Range(parked["b"][t])
      <4>1. y \in Range(wire[k]) BY Zenon
      <4> QED BY Zenon, <1>0, <3>2, <4>1 DEF Order
    <3> QED BY Zenon, <1>2, <3>1, <3>2
  <2>4. Ordered(rq, Before) /\ \A i, j \in 1..Len(out) : i < j => out[i] < out[j] BY Zenon, <1>0 DEF Order
  <2> QED BY Zenon, <1>0, <2>1, <2>2, <2>3, <2>4 DEF Order
<1> QED BY Zenon, <1>1, <1>3, <1>4 DEF MInv

\* Gate "b" reads a message from a wire.
LEMMA RemoteReadInv ==
    ASSUME MInv, NEW k \in Wires, RemoteRead(k)
    PROVE  MInv'
<1>0. MsgTypes /\ Places /\ Order /\ "a" \in Gates /\ "b" \in Gates /\ "a" # "b" BY Zenon, MsgFacts DEF MInv
<1>1. PICK m : m = Head(wire[k]) BY Zenon
<1>2. /\ wire[k] # <<>> /\ wire' = [wire EXCEPT ![k] = Tail(@)]
      /\ UNCHANGED <<known, rsock, rq, nwire, ropen, listening, via, out, dest>>
  BY Zenon DEF RemoteRead, msgs
<1>3. wire[k] \in Seq(Msgs) /\ Ordered(wire[k], Before) BY Zenon, <1>0 DEF MsgTypes, Order
<1>4. PICK w \in Seq(Msgs) : /\ w = Tail(wire[k]) /\ m \in Range(wire[k]) /\ Range(w) \subseteq Range(wire[k])
                             /\ Ordered(w, Before) /\ \A y \in Range(w) : <<m, y>> \in Before
  BY ZenonT(30), <1>1, <1>2, <1>3, OrderedTail
<1>5. m \in Msgs /\ via[m] = k /\ dest[m] \in known["a"] /\ Home[dest[m]] = "b" /\ k # 0
  BY <1>0, <1>4, QueueFacts, WireFacts DEF Places
<1>6. PICK s \in Services : s = dest[m] BY Zenon, <1>0, <1>5, MsgFacts
<1>7. /\ wire' \in [Wires -> Seq(Msgs)]
      /\ \A j \in Wires : wire'[j] = IF j = k THEN w ELSE wire[j]
  BY Zenon, <1>0, <1>2, <1>4 DEF MsgTypes
<1>8. \A j \in Wires : Range(wire'[j]) \subseteq Range(wire[j]) /\ Ordered(wire'[j], Before)
  BY Zenon, <1>0, <1>4, <1>7 DEF Order
<1>9. \A j \in Wires : \A y \in Range(wire'[j]) : <<m, y>> \in Before
  <2>1. TAKE j \in Wires
  <2>2. CASE j = k BY Zenon, <1>4, <1>7, <2>2
  <2>3. CASE j # k
    <3>1. TAKE y \in Range(wire'[j])
    <3>2. y \in Range(wire[j]) BY Zenon, <1>7, <2>3
    <3>3. y \in Msgs /\ via[y] = j BY <1>0, <3>2, QueueFacts, Zenon DEF Places
    <3> QED BY Zenon, <1>5, <2>3, <3>3, BeforeDef
  <2> QED BY Zenon, <2>2, <2>3
<1>10. \A n \in Range(out) : m < n BY Zenon, <1>0, <1>4 DEF Order, Behind
<1>11. \A x \in Range(chan[s]) \cup Range(parked["b"][s]) : <<x, m>> \in Before BY Zenon, <1>0, <1>4 DEF Order
<1>12. CASE s \in known["b"]
  <2>1. chan' = [chan EXCEPT ![s] = Append(@, m)] /\ parked' = parked BY Zenon, <1>1, <1>6, <1>12 DEF RemoteRead
  <2>2. chan[s] \in Seq(Msgs) /\ Ordered(chan[s], Before) BY Zenon, <1>0 DEF MsgTypes, Order
  <2>3. PICK q \in Seq(Msgs) : q = Append(chan[s], m) /\ Ordered(q, Before) /\ Range(q) = Range(chan[s]) \cup {m}
    <3>1. \A x \in Range(chan[s]) : <<x, m>> \in Before BY Zenon, <1>11
    <3>2. /\ Append(chan[s], m) \in Seq(Msgs) /\ Range(Append(chan[s], m)) = Range(chan[s]) \cup {m}
          /\ Ordered(Append(chan[s], m), Before)
      BY Zenon, <1>5, <2>2, <3>1, OrderedAppend, AppendFacts
    <3> QED BY Zenon, <3>2
  <2>4. chan' = [chan EXCEPT ![s] = q] BY Zenon, <1>0, <2>1, <2>3 DEF MsgTypes
  <2>5. /\ parked' \in [Gates -> [Services -> Seq(Msgs)]] /\ parked'["a"] = parked["a"]
        /\ \A t \in Services : parked'["b"][t] = IF t = s THEN <<>> ELSE parked["b"][t]
    BY SMTT(30), <1>0, <1>12, <2>1 DEF MsgTypes, Places
  <2>6. ASSUME NEW x \in Range(q)
        PROVE  /\ x \in Msgs /\ dest[x] = s /\ via[x] # 0 /\ s \in known["a"]
               /\ \A j \in Wires : \A y \in Range(wire'[j]) : <<x, y>> \in Before
               /\ \A n \in Range(out) : x < n
    <3>1. CASE x = m BY Zenon, <1>5, <1>6, <1>9, <1>10, <3>1
    <3>2. CASE x \in Range(chan[s])
      <4>1. x \in Msgs BY ZenonT(30), <1>0, <3>2, QueueFacts
      <4>2. dest[x] = s /\ via[x] # 0 /\ s \in known["a"] BY <1>0, <1>5, <1>6, <3>2 DEF Places
      <4>3. \A j \in Wires : \A y \in Range(wire'[j]) : <<x, y>> \in Before BY Zenon, <1>0, <1>8, <3>2 DEF Order
      <4>4. \A n \in Range(out) : x < n BY Zenon, <1>0, <3>2 DEF Order, Behind
      <4> QED BY Zenon, <4>1, <4>2, <4>3, <4>4
    <3> QED BY Zenon, <2>3, <3>1, <3>2
  <2>7. Home[s] = "b" /\ known' = known /\ known \in [Gates -> SUBSET Services] BY Zenon, <1>0, <1>2, <1>5, <1>6 DEF MsgTypes
  <2>8. /\ known["a"] = known'["a"] /\ known' \in [Gates -> SUBSET Services] /\ s \in known'["b"]
        /\ known["b"] \subseteq known'["b"] /\ known'["b"] \subseteq known["b"] \cup {s}
    BY Zenon, <1>12, <2>7
  <2>9. UNCHANGED <<dest, via, out, rq, nwire, rsock, ropen, listening>> BY Zenon, <1>2
  <2> QED BY <1>7, <1>8, <2>3, <2>4, <2>5, <2>6, <2>7, <2>8, <2>9, ArriveInv, Zenon
<1>13. CASE s \notin known["b"]
  <2>1. parked' = [parked EXCEPT !["b"][s] = Append(@, m)] /\ chan' = chan BY Zenon, <1>1, <1>6, <1>13 DEF RemoteRead
  <2>2. parked["b"][s] \in Seq(Msgs) /\ Ordered(parked["b"][s], Before) BY Zenon, <1>0 DEF MsgTypes, Order
  <2>3. PICK q \in Seq(Msgs) : q = Append(parked["b"][s], m) /\ Ordered(q, Before) /\ Range(q) = Range(parked["b"][s]) \cup {m}
    <3>1. \A x \in Range(parked["b"][s]) : <<x, m>> \in Before BY Zenon, <1>11
    <3>2. PICK r \in Seq(Msgs) : r = parked["b"][s] BY Zenon, <2>2
    <3>3. /\ Append(r, m) \in Seq(Msgs) /\ Range(Append(r, m)) = Range(r) \cup {m} /\ Ordered(Append(r, m), Before)
      BY <1>5, <2>2, <3>1, <3>2, OrderedAppend, AppendFacts
    <3> QED BY Zenon, <3>2, <3>3
  <2>4. /\ parked' \in [Gates -> [Services -> Seq(Msgs)]] /\ parked'["a"] = parked["a"]
        /\ \A t \in Services : parked'["b"][t] = IF t = s THEN q ELSE parked["b"][t]
    BY Zenon, <1>0, <2>1, <2>3 DEF MsgTypes
  <2>5. UNCHANGED <<dest, via, known, chan, out, rq, nwire, rsock, ropen, listening>> BY Zenon, <1>2, <2>1
  <2>6. Home[s] = "b" /\ s \in known["a"] /\ m \in Msgs /\ dest[m] = s /\ via[m] # 0 BY Zenon, <1>5, <1>6
  <2> QED BY <1>7, <1>8, <1>9, <1>10, <1>13, <2>3, <2>4, <2>5, <2>6, KeepB, ZenonT(30)
<1> QED BY Zenon, <1>12, <1>13

-----------------------------------------------------------------------------
(* The parts of the invariant that a step leaves alone *)

\* The sender does nothing.
LEMMA SameLinks ==
    ASSUME LinkTypes, UNCHANGED <<sender, nlink, down>>
    PROVE  LinkTypes'
BY DEF LinkTypes, sender

\* The listener does nothing.
LEMMA SameListener ==
    ASSUME Listener, UNCHANGED <<nlink, open, listener>>
    PROVE  Listener'
BY DEF Listener, listener

\* No service comes or goes.
LEMMA SameOutside ==
    ASSUME Outside, UNCHANGED <<online, outside>>
    PROVE  Outside'
BY DEF Outside, outside

\* No message moves.
LEMMA SameMsgs ==
    ASSUME MInv, UNCHANGED <<known, parked, chan, remote, msgs>>
    PROVE  MInv'
BY Unmoved DEF remote, msgs

-----------------------------------------------------------------------------
(* What is left of the budget *)

\* The number of a link is not 0.
LEMMA LinkFacts ==
    /\ \A k \in Links : k \in Nat /\ k # 0
    /\ \A b \in Budgets, k \in Nat : k # 0 /\ k <= b.links + 1 => k \in Links
<1>1. \A b \in Budgets : b.links \in Nat BY Zenon, RoutingAssumption
<1>2. ASSUME NEW k \in Links PROVE k \in Nat /\ k # 0
  <2>1. PICK i \in UNION {0..b.links : b \in Budgets} : k = i + 1 BY Zenon DEF Links
  <2>2. PICK b \in Budgets : i \in 0..b.links BY Zenon, <2>1
  <2> QED BY <1>1, <2>1, <2>2
<1>3. ASSUME NEW b \in Budgets, NEW k \in Nat, k # 0, k <= b.links + 1 PROVE k \in Links
  <2>1. k - 1 \in 0..b.links /\ k = (k - 1) + 1 BY <1>1, <1>3
  <2>2. k - 1 \in UNION {0..c.links : c \in Budgets} BY Zenon, <2>1
  <2> QED BY Zenon, <2>1, <2>2 DEF Links
<1> QED BY Zenon, <1>2, <1>3

\* The link and the wire in use are among those that are counted.
LEMMA InUse ==
    ASSUME LinkTypes, Paid, MsgTypes
    PROVE  /\ sock # 0 => sock \in Links
           /\ rsock \in ropen => rsock \in Wires
           /\ rsock = 0 => nwire + 1 \in Wires
<1>1. PICK b \in Budgets :
          /\ nlink + left.links <= b.links + (IF sock # 0 /\ sock \in open THEN 1 ELSE 0)
          /\ nwire + left.wires <= b.wires + (IF rsock # 0 /\ rsock \in ropen THEN 1 ELSE 0)
  BY Zenon DEF Paid
<1>2. b.links \in Nat /\ b.wires \in Nat BY Zenon, RoutingAssumption
<1>3. left.links \in Nat /\ left.wires \in Nat BY Zenon DEF Paid, Counts
<1>4. nlink \in Nat /\ sock \in 0..nlink /\ nwire \in Nat /\ rsock \in {0, nwire} /\ ropen \subseteq 1..nwire
  BY Zenon DEF LinkTypes, MsgTypes
<1>5. nlink <= b.links + 1 /\ nwire <= b.wires + 1 /\ (rsock = 0 => nwire <= b.wires)
  BY <1>1, <1>2, <1>3, <1>4
<1>6. sock # 0 => sock \in Nat /\ sock <= b.links + 1 BY <1>2, <1>4, <1>5
<1>7. rsock \in ropen => rsock \in Nat /\ rsock # 0 /\ rsock <= b.wires + 1 BY <1>2, <1>4, <1>5
<1>8. rsock = 0 => nwire + 1 \in Nat /\ nwire + 1 # 0 /\ nwire + 1 <= b.wires + 1 BY <1>2, <1>4, <1>5
<1> QED BY Zenon, <1>6, <1>7, <1>8, LinkFacts, WireFacts

\* A fault costs one of its kind.
LEMMA SpendFacts ==
    ASSUME left \in Counts, NEW what \in {"sends", "links", "wires", "changes", "outages"}, Spend(what)
    PROVE  /\ left' \in Counts /\ left'.links <= left.links /\ left'.wires <= left.wires
           /\ what = "links" => left'.links < left.links
           /\ what = "wires" => left'.wires < left.wires
<1>1. left[what] \in Nat /\ left[what] > 0 /\ left' = [left EXCEPT ![what] = @ - 1] BY Zenon DEF Spend, Counts
<1>2. left[what] - 1 \in Nat BY <1>1
<1>3. left' \in Counts BY Zenon, <1>1, <1>2 DEF Counts
<1>4. left.links \in Nat /\ left.wires \in Nat BY Zenon DEF Counts
<1>5. left'.links = IF what = "links" THEN left.links - 1 ELSE left.links BY Zenon, <1>1 DEF Counts
<1>6. left'.wires = IF what = "wires" THEN left.wires - 1 ELSE left.wires BY Zenon, <1>1 DEF Counts
<1> QED BY <1>3, <1>4, <1>5, <1>6

\* No link or wire is made, and one that was in use is paid for.
LEMMA StillPaid ==
    ASSUME Paid, LinkTypes, MsgTypes, UNCHANGED <<nlink, nwire>>,
           left' \in Counts, left'.links <= left.links, left'.wires <= left.wires,
           sock # 0 /\ sock \in open => (sock' # 0 /\ sock' \in open') \/ left'.links < left.links,
           rsock # 0 /\ rsock \in ropen => (rsock' # 0 /\ rsock' \in ropen') \/ left'.wires < left.wires
    PROVE  Paid'
<1>1. PICK b \in Budgets :
          /\ nlink + left.links <= b.links + (IF sock # 0 /\ sock \in open THEN 1 ELSE 0)
          /\ nwire + left.wires <= b.wires + (IF rsock # 0 /\ rsock \in ropen THEN 1 ELSE 0)
  BY Zenon DEF Paid
<1>2. b.links \in Nat /\ b.wires \in Nat BY Zenon, RoutingAssumption
<1>3. left.links \in Nat /\ left.wires \in Nat /\ left'.links \in Nat /\ left'.wires \in Nat BY Zenon DEF Paid, Counts
<1>4. nlink \in Nat /\ nwire \in Nat BY Zenon DEF LinkTypes, MsgTypes
<1>5. nlink + left'.links <= b.links + (IF sock' # 0 /\ sock' \in open' THEN 1 ELSE 0) BY <1>1, <1>2, <1>3, <1>4
<1>6. nwire + left'.wires <= b.wires + (IF rsock' # 0 /\ rsock' \in ropen' THEN 1 ELSE 0) BY <1>1, <1>2, <1>3, <1>4
<1> QED BY Zenon, <1>5, <1>6 DEF Paid

\* Nothing is paid for.
LEMMA SamePaid ==
    ASSUME Paid, LinkTypes, MsgTypes, UNCHANGED <<nlink, nwire, sock, open, rsock, ropen, left>>
    PROVE  Paid'
BY DEF Paid

-----------------------------------------------------------------------------
(* The messages on a link *)

\* A subscribe coroutine that has no answer yet.
LEMMA TaskFacts ==
    ASSUME NEW st \in {"none", "asked", "unheard", "woken", "done"}
    PROVE  Task(st) \in Tasks /\ [s \in Services |-> None] \in Snapshots
BY DEF Task, Tasks, Snapshots

\* network.write of a message to the sender.
LEMMA PutFacts ==
    ASSUME NEW q \in [Links -> Seq(DownMsgs)], NEW n, NEW m \in DownMsgs
    PROVE  Put(q, n, m) \in [Links -> Seq(DownMsgs)]
<1>1. ASSUME NEW k \in Links PROVE Append(q[k], m) \in Seq(DownMsgs) BY Zenon, AppendIndex
<1> QED BY Zenon, <1>1 DEF Put

\* The sender reads a message.
LEMMA ReadFacts ==
    ASSUME NEW q \in [Links -> Seq(DownMsgs)], NEW n \in Links, q[n] # <<>>
    PROVE  [q EXCEPT ![n] = Tail(@)] \in [Links -> Seq(DownMsgs)] /\ Head(q[n]) \in DownMsgs
<1>1. Tail(q[n]) \in Seq(DownMsgs) /\ Head(q[n]) \in DownMsgs BY Zenon, TailIndex
<1> QED BY Zenon, <1>1

\* local_listener::update_service writes to the subscribers.
LEMMA ChangedFacts ==
    ASSUME down \in [Links -> Seq(DownMsgs)], NEW s \in Services, online'[s] \in BOOLEAN, Changed(s)
    PROVE  down' \in [Links -> Seq(DownMsgs)]
<1>1. PICK m : m = Brd(s) BY Zenon
<1>2. PICK b \in BOOLEAN : b = online'[s] BY Zenon
<1>3. m = [kind |-> "brd", svc |-> [t \in Services |-> IF t = s THEN b ELSE None]] BY Zenon, <1>1, <1>2 DEF Brd
<1>4. [t \in Services |-> IF t = s THEN b ELSE None] \in Snapshots BY Zenon DEF Snapshots
<1>5. m \in DownMsgs BY Zenon, <1>3, <1>4 DEF DownMsgs
<1>6. \A n \in Links : Put(down, n, m)[n] \in Seq(DownMsgs) BY Zenon, <1>5, PutFacts
<1>7. down' = IF s \in Login THEN [n \in Links |-> IF n \in Range(subs) THEN Put(down, n, m)[n] ELSE down[n]] ELSE down
  BY Zenon, <1>1 DEF Changed
<1> QED BY Zenon, <1>6, <1>7

\* The sender's view takes flags, and keeps the others.
LEMMA ViewFacts ==
    ASSUME view \in Snapshots, NEW svc \in Snapshots, UpdateSubscribe(svc)
    PROVE  view' \in Snapshots
BY DEF Snapshots, UpdateSubscribe

\* Asking for the subscribed type.
LEMMA AskFacts ==
    ASSUME task \in [Links -> Tasks], NEW n, Ask(n) \/ AskAgain(n)
    PROVE  task' \in [Links -> Tasks]
<1>1. Task("asked") \in Tasks /\ Task("unheard") \in Tasks /\ Task("done") \in Tasks BY Zenon, TaskFacts
<1>2. PICK t \in Tasks : task' = [task EXCEPT ![n] = t] BY Zenon, <1>1 DEF Ask, AskAgain
<1> QED BY Zenon, <1>2

\* The link that ends leaves the list, the last one takes its place.
LEMMA UnsubscribeFacts ==
    ASSUME Listener, NEW n
    PROVE  /\ Unsubscribe(n) \in Seq(Nat) /\ Range(Unsubscribe(n)) = wants \ {n}
           /\ IsInjective(Unsubscribe(n))
<1>0. subs \in Seq(Nat) /\ Range(subs) = wants /\ IsInjective(subs) BY Zenon DEF Listener
<1>1. CASE n \notin wants
  <2>1. Unsubscribe(n) = subs BY Zenon, <1>1 DEF Unsubscribe
  <2> QED BY Zenon, <1>0, <1>1, <2>1
<1>2. CASE n \in wants
  <2>1. PICK L \in Nat : L = Len(subs) /\ DOMAIN subs = 1..L /\ subs \in [1..L -> Nat] BY Zenon, <1>0, LenFacts
  <2>2. /\ wants = {subs[j] : j \in 1..L} /\ \A j, k \in 1..L : subs[j] = subs[k] => j = k
    BY Zenon, <1>0, <2>1, RangeDef
  <2>3. PICK i : i = CHOOSE j \in DOMAIN subs : subs[j] = n BY Zenon
  <2>4. i \in 1..L /\ subs[i] = n
    <3>1. \E j \in DOMAIN subs : subs[j] = n BY Zenon, <1>2, <2>1, <2>2
    <3> QED BY Zenon, <2>1, <2>3, <3>1
  <2>5. PICK e : e = [subs EXCEPT ![i] = subs[L]] BY Zenon
  <2>7. PICK K \in Nat : L = K + 1 /\ L - 1 = K
    <3>1. L - 1 \in Nat /\ L = (L - 1) + 1 BY <2>1, <2>4
    <3> QED BY Zenon, <3>1
  <2>14. \A j \in 1..K : j \in 1..L /\ j # L BY <2>7
  <2>15. \A j \in 1..L : j # L => j \in 1..K BY <2>7
  <2>16. L \in 1..L BY <2>7
  <2>6. Unsubscribe(n) = SubSeq(e, 1, K) BY Zenon, <1>2, <2>1, <2>3, <2>5, <2>7 DEF Unsubscribe
  <2>8. \A j \in 1..K : j \in 1..L /\ j # L /\ e[j] = (IF j = i THEN subs[L] ELSE subs[j]) /\ e[j] \in Nat
    BY Zenon, <2>1, <2>4, <2>5, <2>14, <2>16
  <2>9. PICK r \in Seq(Nat) : r = SubSeq(e, 1, K) /\ Len(r) = K /\ \A j \in 1..K : r[j] = e[j]
    <3>1. PICK r : r = SubSeq(e, 1, K) BY Zenon
    <3>2. r \in Seq(Nat) /\ Len(r) = K /\ \A j \in 1..K : r[j] = e[j] BY <2>7, <2>8, <3>1
    <3> QED BY Zenon, <3>1, <3>2
  <2>10. Range(r) = {r[j] : j \in 1..K} /\ (IsInjective(r) <=> \A j, k \in 1..K : r[j] = r[k] => j = k)
    <3>0. r \in Seq(Nat) BY Zenon, <2>9
    <3>1. Range(r) = {r[j] : j \in 1..Len(r)} BY Zenon, <3>0, RangeDef
    <3>2. IsInjective(r) <=> \A j, k \in 1..Len(r) : r[j] = r[k] => j = k BY Zenon, <2>9, RangeDef
    <3> QED BY <2>9, <3>1, <3>2, Zenon
  <2>11. IsInjective(r) BY <2>2, <2>4, <2>8, <2>9, <2>10, <2>16
  <2>12. \A x \in Range(r) : x \in wants \ {n} BY <2>2, <2>4, <2>8, <2>9, <2>10, <2>16
  <2>13. ASSUME NEW x \in wants \ {n} PROVE x \in Range(r)
    <3>1. PICK j \in 1..L : subs[j] = x /\ j # i BY Zenon, <2>2, <2>4
    <3>2. CASE j # L
      <4>1. j \in 1..K BY Zenon, <2>15, <3>1, <3>2
      <4> QED BY Zenon, <2>8, <2>9, <2>10, <3>1, <4>1
    <3>3. CASE j = L
      <4>1. i \in 1..K BY Zenon, <2>4, <2>15, <3>1, <3>3
      <4> QED BY Zenon, <2>8, <2>9, <2>10, <3>1, <3>3, <4>1
    <3> QED BY Zenon, <3>2, <3>3
  <2> QED BY Zenon, <2>6, <2>9, <2>11, <2>12, <2>13
<1> QED BY Zenon, <1>1, <1>2

-----------------------------------------------------------------------------
(* The steps of the sender and of its link *)

\* gate_connector::run connects.
LEMMA ConnectInv ==
    ASSUME IInv, Connect
    PROVE  IInv'
<1>0. LinkTypes /\ Listener /\ Outside /\ Paid /\ MInv /\ MsgTypes BY Zenon DEF IInv, MInv
<1>1. /\ phase = "down" /\ nlink' = nlink + 1 /\ sock' = nlink + 1 /\ phase' = "registering"
      /\ open' = open \cup {nlink + 1} /\ alive' = alive \cup {nlink + 1}
      /\ UNCHANGED <<task, view, channel, overtaken, down, reg, owner, subs, wants>>
      /\ UNCHANGED <<online, outside>> /\ UNCHANGED <<known, parked, chan, remote, msgs>>
      /\ UNCHANGED <<nwire, rsock, ropen, left>>
  BY Zenon DEF Connect, tables, remote
<1>2. nlink \in Nat /\ nlink + 1 \in Nat /\ nlink + 1 # 0 /\ nlink + 1 \in 0..nlink + 1 /\ sock = 0
  BY <1>0, <1>1 DEF LinkTypes
<1>3. LinkTypes' BY Zenon, <1>0, <1>1, <1>2 DEF LinkTypes
<1>4. Listener'
  <2>1. alive \subseteq 1..nlink /\ 1..nlink \subseteq 1..nlink + 1 /\ nlink + 1 \in 1..nlink + 1
    BY <1>0, <1>2 DEF Listener
  <2> QED BY Zenon, <1>0, <1>1, <2>1 DEF Listener
<1>5. Paid'
  <2>1. PICK b \in Budgets :
            /\ nlink + left.links <= b.links + (IF sock # 0 /\ sock \in open THEN 1 ELSE 0)
            /\ nwire + left.wires <= b.wires + (IF rsock # 0 /\ rsock \in ropen THEN 1 ELSE 0)
    BY Zenon, <1>0 DEF Paid
  <2>2. b.links \in Nat /\ left.links \in Nat /\ left \in Counts BY Zenon, <1>0, RoutingAssumption DEF Paid, Counts
  <2>3. nlink' + left.links <= b.links + 1 BY <1>1, <1>2, <2>1, <2>2
  <2>4. sock' # 0 /\ sock' \in open' BY Zenon, <1>1, <1>2
  <2>5. /\ nlink' + left'.links <= b.links + (IF sock' # 0 /\ sock' \in open' THEN 1 ELSE 0)
        /\ nwire' + left'.wires <= b.wires + (IF rsock' # 0 /\ rsock' \in ropen' THEN 1 ELSE 0)
    BY Zenon, <1>1, <2>1, <2>3, <2>4
  <2> QED BY Zenon, <1>1, <2>2, <2>5 DEF Paid
<1>6. Outside' /\ MInv' BY Zenon, <1>0, <1>1, SameOutside, SameMsgs
<1> QED BY Zenon, <1>3, <1>4, <1>5, <1>6 DEF IInv, MInv

\* The sender leaves its link: after a timeout, which is a fault, or because
\* the link is gone.
LEMMA HangupInv ==
    ASSUME IInv, TimedOut \/ LinkLost
    PROVE  IInv'
<1>0. LinkTypes /\ Listener /\ Outside /\ Paid /\ MInv /\ MsgTypes BY Zenon DEF IInv, MInv
<1>1. /\ sock' = 0 /\ phase' = "down" /\ open' = open \ {sock} /\ down' = [down EXCEPT ![sock] = <<>>]
      /\ UNCHANGED <<task, view, channel, overtaken, nlink, listener>>
      /\ UNCHANGED <<online, outside>> /\ UNCHANGED <<known, parked, chan, remote, msgs>>
      /\ UNCHANGED <<nwire, rsock, ropen>>
  BY Zenon DEF TimedOut, LinkLost, Hangup, tables, remote
<1>2. (sock \in open /\ Spend("links")) \/ (sock \notin open /\ left' = left) BY Zenon DEF TimedOut, LinkLost
<1>3. LinkTypes'
  <2>1. <<>> \in Seq(DownMsgs) BY Zenon, EmptyLen
  <2>2. down' \in [Links -> Seq(DownMsgs)] BY Zenon, <1>0, <1>1, <2>1 DEF LinkTypes
  <2>3. nlink \in Nat /\ 0 \in 0..nlink BY <1>0 DEF LinkTypes
  <2> QED BY Zenon, <1>0, <1>1, <2>2, <2>3 DEF LinkTypes
<1>4. Listener' BY Zenon, <1>0, <1>1 DEF Listener, listener
<1>5. Paid'
  <2>1. left \in Counts /\ left.links \in Nat /\ left.wires \in Nat BY Zenon, <1>0 DEF Paid, Counts
  <2>2. /\ left' \in Counts /\ left'.links <= left.links /\ left'.wires <= left.wires
        /\ sock \in open => left'.links < left.links
    <3>1. CASE sock \in open /\ Spend("links")
      <4>1. PICK w \in {"sends", "links", "wires", "changes", "outages"} : w = "links" BY Zenon
      <4> QED BY Zenon, <2>1, <3>1, <4>1, SpendFacts
    <3>2. CASE sock \notin open /\ left' = left BY <2>1, <3>2
    <3> QED BY Zenon, <1>2, <3>1, <3>2
  <2> QED BY Zenon, <1>0, <1>1, <2>2, StillPaid
<1>6. Outside' /\ MInv' BY Zenon, <1>0, <1>1, SameOutside, SameMsgs
<1> QED BY Zenon, <1>3, <1>4, <1>5, <1>6 DEF IInv, MInv

\* A step of the sender that leaves its link as it is.
LEMMA SenderStays ==
    ASSUME IInv, UNCHANGED <<sock, nlink, open, listener>>, UNCHANGED <<online, outside>>,
           UNCHANGED <<known, parked, chan, remote, msgs>>, UNCHANGED <<nwire, rsock, ropen>>,
           left' = left \/ Spend("links"),
           phase' = phase \/ (phase = "registering" /\ phase' = "ready"),
           view' \in Snapshots, channel' \in BOOLEAN, overtaken' \subseteq Services,
           task' \in [Links -> Tasks], down' \in [Links -> Seq(DownMsgs)]
    PROVE  IInv'
<1>0. LinkTypes /\ Listener /\ Outside /\ Paid /\ MInv /\ MsgTypes BY Zenon DEF IInv, MInv
<1>1. LinkTypes' BY Zenon, <1>0 DEF LinkTypes
<1>2. Listener' /\ Outside' /\ MInv' BY Zenon, <1>0, SameListener, SameOutside, SameMsgs
<1>3. Paid'
  <2>1. left \in Counts /\ left.links \in Nat /\ left.wires \in Nat BY Zenon, <1>0 DEF Paid, Counts
  <2>2. left' \in Counts /\ left'.links <= left.links /\ left'.wires <= left.wires
    <3>1. CASE Spend("links")
      <4>1. PICK w \in {"sends", "links", "wires", "changes", "outages"} : w = "links" BY Zenon
      <4> QED BY Zenon, <2>1, <3>1, <4>1, SpendFacts
    <3>2. CASE left' = left BY <2>1, <3>2
    <3> QED BY Zenon, <3>1, <3>2
  <2> QED BY Zenon, <1>0, <2>2, StillPaid
<1> QED BY Zenon, <1>1, <1>2, <1>3 DEF IInv, MInv

\* The answer to the registration, of gate_connector::run.
LEMMA RegisteredInv ==
    ASSUME IInv, Registered
    PROVE  IInv'
<1>0. LinkTypes /\ Paid /\ MsgTypes BY Zenon DEF IInv
<1>1. /\ phase = "registering" /\ down[sock] # <<>> /\ phase' = "ready" /\ channel' = TRUE
      /\ down' = [down EXCEPT ![sock] = Tail(@)] /\ Ask(sock)
      /\ UNCHANGED <<sock, nlink, open, listener>> /\ UNCHANGED <<online, outside>>
      /\ UNCHANGED <<known, parked, chan, remote, msgs>> /\ UNCHANGED <<nwire, rsock, ropen>>
      /\ UNCHANGED <<view, overtaken, left>>
  BY Zenon DEF Registered, tables, remote
<1>2. /\ view \in Snapshots /\ overtaken \subseteq Services /\ task \in [Links -> Tasks]
      /\ down \in [Links -> Seq(DownMsgs)] /\ sock # 0
  BY Zenon, <1>0, <1>1 DEF LinkTypes
<1>3. sock \in Links BY Zenon, <1>0, <1>2, InUse
<1>4. down' \in [Links -> Seq(DownMsgs)] BY Zenon, <1>1, <1>2, <1>3, ReadFacts
<1>5. task' \in [Links -> Tasks] BY Zenon, <1>1, <1>2, AskFacts
<1> QED BY Zenon, <1>1, <1>2, <1>4, <1>5, SenderStays

\* An answer to subscribe.
LEMMA RecvAnswerInv ==
    ASSUME IInv, RecvAnswer
    PROVE  IInv'
<1>0. LinkTypes /\ Paid /\ MsgTypes BY Zenon DEF IInv
<1>1. PICK m : m = Head(down[sock]) BY Zenon
<1>2. /\ phase = "ready" /\ down[sock] # <<>> /\ m.kind = "answer"
      /\ down' = [down EXCEPT ![sock] = Tail(@)]
      /\ \/ task' = [task EXCEPT ![sock] = [st |-> "woken", ok |-> m.ok, svc |-> m.svc, heard |-> {}]]
         \/ task' = task
      /\ UNCHANGED <<sock, nlink, open, listener>> /\ UNCHANGED <<online, outside>>
      /\ UNCHANGED <<known, parked, chan, remote, msgs>> /\ UNCHANGED <<nwire, rsock, ropen>>
      /\ UNCHANGED <<view, overtaken, phase, channel, left>>
  BY Zenon, <1>1 DEF RecvAnswer, tables, remote
<1>3. /\ view \in Snapshots /\ overtaken \subseteq Services /\ task \in [Links -> Tasks] /\ channel \in BOOLEAN
      /\ down \in [Links -> Seq(DownMsgs)] /\ sock # 0
  BY Zenon, <1>0, <1>2 DEF LinkTypes
<1>4. sock \in Links BY Zenon, <1>0, <1>3, InUse
<1>5. down' \in [Links -> Seq(DownMsgs)] /\ m \in DownMsgs BY Zenon, <1>1, <1>2, <1>3, <1>4, ReadFacts
<1>6. m.ok \in BOOLEAN /\ m.svc \in Snapshots BY Zenon, <1>2, <1>5 DEF DownMsgs
<1>7. [st |-> "woken", ok |-> m.ok, svc |-> m.svc, heard |-> {}] \in Tasks BY Zenon, <1>6 DEF Tasks
<1>8. task' \in [Links -> Tasks] BY Zenon, <1>2, <1>3, <1>7
<1> QED BY Zenon, <1>2, <1>3, <1>5, <1>8, SenderStays

\* A broadcast.
LEMMA RecvBroadcastInv ==
    ASSUME IInv, RecvBroadcast
    PROVE  IInv'
<1>0. LinkTypes /\ Paid /\ MsgTypes BY Zenon DEF IInv
<1>1. PICK m : m = Head(down[sock]) BY Zenon
<1>2. PICK told : told = {s \in Services : m.svc[s] # None} BY Zenon
<1>3. /\ phase = "ready" /\ down[sock] # <<>> /\ m.kind = "brd"
      /\ down' = [down EXCEPT ![sock] = Tail(@)] /\ UpdateSubscribe(m.svc) /\ overtaken' = overtaken \ told
      /\ task' = [task EXCEPT ![sock].heard = IF task[sock].st = "woken" THEN @ \cup told ELSE @]
      /\ UNCHANGED <<sock, nlink, open, listener>> /\ UNCHANGED <<online, outside>>
      /\ UNCHANGED <<known, parked, chan, remote, msgs>> /\ UNCHANGED <<nwire, rsock, ropen>>
      /\ UNCHANGED <<phase, channel, left>>
  BY Zenon, <1>1, <1>2 DEF RecvBroadcast, tables, remote
<1>4. /\ view \in Snapshots /\ overtaken \subseteq Services /\ task \in [Links -> Tasks] /\ channel \in BOOLEAN
      /\ down \in [Links -> Seq(DownMsgs)] /\ sock # 0
  BY Zenon, <1>0, <1>3 DEF LinkTypes
<1>5. sock \in Links BY Zenon, <1>0, <1>4, InUse
<1>6. down' \in [Links -> Seq(DownMsgs)] /\ m \in DownMsgs BY Zenon, <1>1, <1>3, <1>4, <1>5, ReadFacts
<1>7. m.svc \in Snapshots BY Zenon, <1>3, <1>6 DEF DownMsgs
<1>8. view' \in Snapshots
  <2>1. PICK v \in Snapshots : v = m.svc BY Zenon, <1>7
  <2> QED BY Zenon, <1>3, <1>4, <2>1, ViewFacts
<1>9. task' \in [Links -> Tasks]
  <2>1. PICK h : h = IF task[sock].st = "woken" THEN task[sock].heard \cup told ELSE task[sock].heard BY Zenon
  <2>2. h \subseteq Services BY Zenon, <1>2, <1>4, <1>5, <2>1 DEF Tasks
  <2>3. [task[sock] EXCEPT !.heard = h] \in Tasks BY Zenon, <1>4, <1>5, <2>2 DEF Tasks
  <2>4. task' = [task EXCEPT ![sock] = [task[sock] EXCEPT !.heard = h]] BY Zenon, <1>3, <1>4, <1>5, <2>1
  <2> QED BY Zenon, <1>4, <2>3, <2>4
<1>10. overtaken' \subseteq Services BY Zenon, <1>3, <1>4
<1> QED BY Zenon, <1>3, <1>4, <1>6, <1>8, <1>9, <1>10, SenderStays

\* subscribe resumes, with an answer or after its 5 s.
LEMMA SubscribeInv ==
    ASSUME IInv, NEW n \in Links, Subscribed(n) \/ SubscribeTimeout(n)
    PROVE  IInv'
<1>0. LinkTypes BY Zenon DEF IInv
<1>1. /\ UNCHANGED <<sock, nlink, open, listener>> /\ UNCHANGED <<online, outside>>
      /\ UNCHANGED <<known, parked, chan, remote, msgs>> /\ UNCHANGED <<nwire, rsock, ropen>>
      /\ UNCHANGED <<phase, channel, down>>
  BY Zenon DEF Subscribed, SubscribeTimeout, tables, remote
<1>2. left' = left \/ Spend("links") BY Zenon DEF Subscribed, SubscribeTimeout
<1>3. /\ view \in Snapshots /\ overtaken \subseteq Services /\ task \in [Links -> Tasks] /\ channel \in BOOLEAN
      /\ down \in [Links -> Seq(DownMsgs)]
  BY Zenon, <1>0 DEF LinkTypes
<1>4. /\ task[n].svc \in Snapshots /\ task[n].heard \subseteq Services BY Zenon, <1>3 DEF Tasks
<1>5. task' \in [Links -> Tasks]
  <2>1. CASE AskAgain(n) BY Zenon, <1>3, <2>1, AskFacts
  <2>2. CASE task' = [task EXCEPT ![n] = Task("done")] BY Zenon, <1>3, <2>2, TaskFacts
  <2> QED BY Zenon, <2>1, <2>2 DEF Subscribed, SubscribeTimeout
<1>6. view' \in Snapshots
  <2>1. PICK v \in Snapshots : v = task[n].svc BY Zenon, <1>4
  <2>2. view' = view \/ UpdateSubscribe(v) BY Zenon, <2>1 DEF Subscribed, SubscribeTimeout
  <2> QED BY Zenon, <1>3, <2>2, ViewFacts
<1>7. overtaken' \subseteq Services BY Zenon, <1>3 DEF Subscribed, SubscribeTimeout
<1> QED BY Zenon, <1>1, <1>2, <1>3, <1>5, <1>6, <1>7, SenderStays

-----------------------------------------------------------------------------
(* The steps of the listener and of the network *)

\* A turn of the loop of local_listener::socket_start.
LEMMA ListenerRecvInv ==
    ASSUME IInv, NEW n \in Links, ListenerRecv(n)
    PROVE  IInv'
<1>0. LinkTypes /\ Listener /\ Outside /\ Paid /\ MInv /\ MsgTypes BY Zenon DEF IInv, MInv
<1>1. /\ n \in alive /\ (ServiceRegister(n) \/ ServiceSubscribe(n))
      /\ UNCHANGED <<sender, nlink, open, alive>> /\ UNCHANGED <<online, outside>>
      /\ UNCHANGED <<known, parked, chan, remote, msgs>>
      /\ UNCHANGED <<nlink, nwire, sock, open, rsock, ropen, left>>
  BY Zenon DEF ListenerRecv, tables, remote, sender
<1>2. down \in [Links -> Seq(DownMsgs)] BY Zenon, <1>0 DEF LinkTypes
<1>3. down' \in [Links -> Seq(DownMsgs)]
  <2>1. PICK all \in Snapshots : all = [s \in Services |-> IF s \in known["a"] \cap Login THEN online[s] ELSE None]
    <3>1. online \in [Services -> BOOLEAN] BY Zenon, <1>0 DEF Outside
    <3> QED BY Zenon, <3>1 DEF Snapshots
  <2>2. [s \in Services |-> None] \in Snapshots BY Zenon DEF Snapshots
  <2>3. /\ [kind |-> "registered"] \in DownMsgs
        /\ [kind |-> "answer", ok |-> TRUE, svc |-> all] \in DownMsgs
        /\ [kind |-> "answer", ok |-> FALSE, svc |-> [s \in Services |-> None]] \in DownMsgs
    BY Zenon, <2>2 DEF DownMsgs
  <2>4. PICK m \in DownMsgs : down' = Put(down, n, m)
    BY Zenon, <1>1, <2>1, <2>3 DEF ServiceRegister, ServiceSubscribe
  <2> QED BY Zenon, <1>2, <2>4, PutFacts
<1>4. LinkTypes' BY Zenon, <1>0, <1>1, <1>3 DEF LinkTypes, sender
<1>5. Listener'
  <2>0. /\ alive \subseteq 1..nlink /\ open \subseteq alive /\ reg \subseteq alive /\ wants \subseteq reg
        /\ owner \in alive \cup {0} /\ subs \in Seq(Nat) /\ Range(subs) = wants /\ IsInjective(subs)
    BY Zenon, <1>0 DEF Listener
  <2>1. CASE ServiceRegister(n)
    <3>1. reg' = reg \cup {n} /\ owner' \in {owner, n} /\ UNCHANGED <<subs, wants>> BY Zenon, <2>1 DEF ServiceRegister
    <3>2. reg' \subseteq alive' /\ wants' \subseteq reg' /\ owner' \in alive' \cup {0} BY Zenon, <1>1, <2>0, <3>1
    <3> QED BY Zenon, <1>1, <2>0, <3>1, <3>2 DEF Listener
  <2>2. CASE ServiceSubscribe(n)
    <3>1. /\ \/ UNCHANGED <<subs, wants>>
             \/ n \in reg /\ n \in Range(subs) /\ subs' = subs /\ wants' = wants \cup {n}
             \/ n \in reg /\ n \notin Range(subs) /\ subs' = Append(subs, n) /\ wants' = wants \cup {n}
          /\ UNCHANGED <<reg, owner>>
      BY Zenon, <2>2 DEF ServiceSubscribe
    <3>2. n \in Nat BY Zenon, LinkFacts
    <3>3. /\ Append(subs, n) \in Seq(Nat) /\ Range(Append(subs, n)) = Range(subs) \cup {n}
          /\ n \notin Range(subs) => IsInjective(Append(subs, n))
      BY <2>0, <3>2, AppendFacts
    <3>4. /\ subs' \in Seq(Nat) /\ Range(subs') = wants' /\ IsInjective(subs') /\ wants' \subseteq reg
      BY Zenon, <2>0, <3>1, <3>3
    <3> QED BY Zenon, <1>1, <2>0, <3>1, <3>4 DEF Listener
  <2> QED BY Zenon, <1>1, <2>1, <2>2
<1>6. Outside' /\ MInv' BY Zenon, <1>0, <1>1, SameOutside, SameMsgs
<1>7. Paid' BY Zenon, <1>0, <1>1, SamePaid
<1> QED BY Zenon, <1>4, <1>5, <1>6, <1>7 DEF IInv, MInv

\* local_listener::socket_start after its loop.
LEMMA LinkEndsInv ==
    ASSUME IInv, NEW n \in Links, LinkEnds(n)
    PROVE  IInv'
<1>0. LinkTypes /\ Listener /\ Outside /\ Paid /\ MInv /\ MsgTypes BY Zenon DEF IInv, MInv
<1>1. /\ n \in alive \ open /\ alive' = alive \ {n} /\ reg' = reg \ {n} /\ wants' = wants \ {n}
      /\ owner' = (IF owner = n THEN 0 ELSE owner) /\ subs' = Unsubscribe(n)
      /\ UNCHANGED <<sender, nlink, down>> /\ UNCHANGED <<online, outside>>
      /\ UNCHANGED <<known, parked, chan, remote, msgs>>
      /\ UNCHANGED <<nlink, nwire, sock, open, rsock, ropen, left>>
  BY Zenon DEF LinkEnds, tables, remote, sender
<1>2. subs' \in Seq(Nat) /\ Range(subs') = wants' /\ IsInjective(subs') BY Zenon, <1>0, <1>1, UnsubscribeFacts
<1>3. Listener'
  <2>0. /\ alive \subseteq 1..nlink /\ open \subseteq alive /\ reg \subseteq alive /\ wants \subseteq reg
        /\ owner \in alive \cup {0}
    BY Zenon, <1>0 DEF Listener
  <2>1. owner' \in alive' \cup {0} BY Zenon, <1>1, <2>0
  <2> QED BY Zenon, <1>1, <1>2, <2>0, <2>1 DEF Listener
<1>4. LinkTypes' /\ Outside' /\ MInv' /\ Paid' BY Zenon, <1>0, <1>1, SameLinks, SameOutside, SameMsgs, SamePaid
<1> QED BY Zenon, <1>3, <1>4 DEF IInv, MInv

\* A link is cut.
LEMMA CutLinkInv ==
    ASSUME IInv, NEW n \in Links, CutLink(n)
    PROVE  IInv'
<1>0. LinkTypes /\ Listener /\ Outside /\ Paid /\ MInv /\ MsgTypes BY Zenon DEF IInv, MInv
<1>1. /\ n \in open /\ Spend("links") /\ open' = open \ {n}
      /\ UNCHANGED <<sender, nlink, down>> /\ UNCHANGED <<online, outside>> /\ UNCHANGED listener
      /\ UNCHANGED <<known, parked, chan, remote, msgs>>
      /\ UNCHANGED <<nlink, nwire, sock, rsock, ropen>>
  BY Zenon DEF CutLink, tables, remote, sender
<1>2. Listener' BY Zenon, <1>0, <1>1 DEF Listener, listener
<1>3. Paid'
  <2>1. left \in Counts BY Zenon, <1>0 DEF Paid
  <2>2. PICK w \in {"sends", "links", "wires", "changes", "outages"} : w = "links" BY Zenon
  <2>3. left' \in Counts /\ left'.links <= left.links /\ left'.wires <= left.wires /\ left'.links < left.links
    BY Zenon, <1>1, <2>1, <2>2, SpendFacts
  <2> QED BY Zenon, <1>0, <1>1, <2>3, StillPaid
<1>4. LinkTypes' /\ Outside' /\ MInv' BY Zenon, <1>0, <1>1, SameLinks, SameOutside, SameMsgs
<1> QED BY Zenon, <1>2, <1>3, <1>4 DEF IInv, MInv

-----------------------------------------------------------------------------
(* The steps of the messages *)

\* A step that only moves messages.
LEMMA MovesOnly ==
    ASSUME IInv, MInv', UNCHANGED <<sender, nlink, down>>, UNCHANGED <<nlink, open, listener>>,
           UNCHANGED <<online, outside>>, UNCHANGED <<nlink, nwire, sock, open, rsock, ropen, left>>
    PROVE  IInv'
<1>1. LinkTypes /\ Listener /\ Outside /\ Paid /\ MsgTypes BY Zenon DEF IInv
<1>2. LinkTypes' /\ Listener' /\ Outside' BY Zenon, <1>1, SameLinks, SameListener, SameOutside
<1>3. Paid' BY Zenon, <1>1, SamePaid
<1> QED BY Zenon, <1>2, <1>3 DEF IInv, MInv

\* gate_connector::write
LEMMA SendStep ==
    ASSUME IInv, NEW s \in Services, Send(s)
    PROVE  IInv'
<1>0. LinkTypes /\ Listener /\ Outside /\ Paid /\ MInv /\ MsgTypes BY Zenon DEF IInv, MInv
<1>1. /\ Spend("sends") /\ dest' = Append(dest, s) /\ out' = Append(out, Len(dest) + 1) /\ via' = Append(via, 0)
      /\ UNCHANGED <<sender, nlink, down>> /\ UNCHANGED <<nlink, open, listener>> /\ UNCHANGED <<online, outside>>
      /\ UNCHANGED <<nlink, nwire, sock, open, rsock, ropen>>
      /\ UNCHANGED <<known, rq, wire, chan, parked, nwire, rsock, ropen, listening>>
  BY Zenon DEF Send, links, tables, sender
<1>2. MInv' BY Zenon, <1>0, <1>1, SendInv
<1>3. Paid'
  <2>1. left \in Counts BY Zenon, <1>0 DEF Paid
  <2>2. PICK w \in {"sends", "links", "wires", "changes", "outages"} : w = "sends" BY Zenon
  <2>3. left' \in Counts /\ left'.links <= left.links /\ left'.wires <= left.wires BY Zenon, <1>1, <2>1, <2>2, SpendFacts
  <2> QED BY Zenon, <1>0, <1>1, <2>3, StillPaid
<1>4. LinkTypes' /\ Outside' /\ Listener' BY Zenon, <1>0, <1>1, SameLinks, SameOutside, SameListener
<1> QED BY Zenon, <1>2, <1>3, <1>4 DEF IInv, MInv

\* local_service::auto_read
LEMMA GateReadStep ==
    ASSUME IInv, GateRead
    PROVE  IInv'
<1>0. LinkTypes /\ Paid /\ MInv /\ MsgTypes BY Zenon DEF IInv, MInv
<1>1. rsock \in ropen => rsock \in Wires BY Zenon, <1>0, InUse
<1>2. MInv' BY Zenon, <1>0, <1>1, GateReadInv
<1>3. /\ UNCHANGED <<sender, nlink, down>> /\ UNCHANGED <<nlink, open, listener>> /\ UNCHANGED <<online, outside>>
      /\ UNCHANGED <<nlink, nwire, sock, open, rsock, ropen, left>>
  BY Zenon DEF GateRead, links, sender
<1> QED BY Zenon, <1>2, <1>3, MovesOnly

\* remote_gate::run connects.
LEMMA RemoteConnectStep ==
    ASSUME IInv, RemoteConnect
    PROVE  IInv'
<1>0. LinkTypes /\ Listener /\ Outside /\ Paid /\ MInv /\ MsgTypes BY Zenon DEF IInv, MInv
<1>1. /\ rsock = 0 /\ nwire' = nwire + 1 /\ rsock' = nwire + 1 /\ rq' = <<>>
      /\ ropen' = ropen \cup {nwire + 1} /\ listening' = listening \cup {nwire + 1}
      /\ wire' = [wire EXCEPT ![nwire + 1] = rq]
      /\ via' = [m \in DOMAIN via |-> IF m \in Range(rq) THEN nwire + 1 ELSE via[m]]
      /\ UNCHANGED <<dest, known, out, chan, parked>>
      /\ UNCHANGED <<sender, nlink, down>> /\ UNCHANGED <<nlink, open, listener>> /\ UNCHANGED <<online, outside>>
      /\ UNCHANGED <<nlink, sock, open, left>>
  BY Zenon DEF RemoteConnect, links, sender, tables, msgs
<1>2. nwire + 1 \in Wires BY Zenon, <1>0, <1>1, InUse
<1>3. MInv' BY Zenon, <1>0, <1>1, <1>2, RemoteConnectInv
<1>4. Paid'
  <2>1. PICK b \in Budgets :
            /\ nlink + left.links <= b.links + (IF sock # 0 /\ sock \in open THEN 1 ELSE 0)
            /\ nwire + left.wires <= b.wires + (IF rsock # 0 /\ rsock \in ropen THEN 1 ELSE 0)
    BY Zenon, <1>0 DEF Paid
  <2>2. b.wires \in Nat /\ left.wires \in Nat /\ left \in Counts /\ nwire \in Nat
    BY Zenon, <1>0, RoutingAssumption DEF Paid, Counts, MsgTypes
  <2>3. nwire' + left.wires <= b.wires + 1 BY SMTT(30), <1>1, <2>1, <2>2
  <2>4. rsock' # 0 /\ rsock' \in ropen' BY <1>1, <2>2
  <2>5. /\ nlink' + left'.links <= b.links + (IF sock' # 0 /\ sock' \in open' THEN 1 ELSE 0)
        /\ nwire' + left'.wires <= b.wires + (IF rsock' # 0 /\ rsock' \in ropen' THEN 1 ELSE 0)
    BY Zenon, <1>1, <2>1, <2>3, <2>4
  <2> QED BY Zenon, <1>1, <2>2, <2>5 DEF Paid
<1>5. LinkTypes' /\ Outside' /\ Listener' BY Zenon, <1>0, <1>1, SameLinks, SameOutside, SameListener
<1> QED BY Zenon, <1>3, <1>4, <1>5 DEF IInv, MInv

\* remote_gate::run loses its wire; what waits is kept for the next one.
LEMMA RemoteLostStep ==
    ASSUME IInv, RemoteLost
    PROVE  IInv'
<1>0. LinkTypes /\ Listener /\ Outside /\ Paid /\ MInv /\ MsgTypes /\ Places /\ Order BY Zenon DEF IInv, MInv
<1>1. /\ rsock # 0 /\ rsock \notin ropen /\ rsock' = 0
      /\ UNCHANGED <<dest, via, known, out, rq, wire, chan, parked, nwire, ropen, listening>>
      /\ UNCHANGED <<sender, nlink, down>> /\ UNCHANGED <<nlink, open, listener>> /\ UNCHANGED <<online, outside>>
      /\ UNCHANGED <<nlink, nwire>> /\ UNCHANGED <<sock, open, left>>
  BY Zenon DEF RemoteLost, links, sender, tables, msgs
<1>2. MsgTypes' BY ZenonT(30), <1>0, <1>1 DEF MsgTypes, Msgs
<1>3. Places' BY <1>0, <1>1 DEF Places, Msgs
<1>4. Before' = Before BY Zenon, <1>1 DEF Before, Msgs
<1>5. Order' BY Zenon, <1>0, <1>1, <1>4 DEF Order, Behind
<1>6. Paid'
  <2>1. left \in Counts /\ left.links \in Nat /\ left.wires \in Nat BY Zenon, <1>0 DEF Paid, Counts
  <2>2. left' \in Counts /\ left'.links <= left.links /\ left'.wires <= left.wires BY <1>1, <2>1
  <2>3. sock' = sock /\ open' = open BY Zenon, <1>1
  <2> QED BY Zenon, <1>0, <1>1, <2>2, <2>3, StillPaid
<1>7. LinkTypes' /\ Outside' /\ Listener' BY Zenon, <1>0, <1>1, SameLinks, SameOutside, SameListener
<1> QED BY Zenon, <1>2, <1>3, <1>5, <1>6, <1>7 DEF IInv

\* A wire is cut.
LEMMA CutWireStep ==
    ASSUME IInv, NEW k \in Wires, CutWire(k)
    PROVE  IInv'
<1>0. LinkTypes /\ Listener /\ Outside /\ Paid /\ MInv /\ MsgTypes /\ Order BY Zenon DEF IInv, MInv
<1>1. /\ k \in ropen /\ Spend("wires") /\ ropen' = ropen \ {k}
      /\ UNCHANGED <<dest, via, known, out, rq, chan, parked, nwire, rsock>> /\ listening' = listening
      /\ UNCHANGED <<sender, nlink, down>> /\ UNCHANGED <<nlink, open, listener>> /\ UNCHANGED <<online, outside>>
      /\ UNCHANGED <<nlink, nwire>> /\ UNCHANGED <<sock, open, rsock>>
  BY Zenon DEF CutWire, links, sender, tables, msgs
<1>2. PICK i \in 0..Len(wire[k]) : wire' = [wire EXCEPT ![k] = SubSeq(@, 1, i)] BY Zenon DEF CutWire
<1>3. wire[k] \in Seq(Msgs) /\ Ordered(wire[k], Before) BY Zenon, <1>0 DEF MsgTypes, Order
<1>4. PICK q \in Seq(Msgs) : q = SubSeq(wire[k], 1, i) /\ Range(q) \subseteq Range(wire[k]) /\ Ordered(q, Before)
  BY Zenon, <1>3, OrderedPrefix
<1>5. wire' = [wire EXCEPT ![k] = q] BY Zenon, <1>0, <1>2, <1>4 DEF MsgTypes
<1>6. ropen' \subseteq listening' /\ listening' \subseteq listening BY Zenon, <1>0, <1>1 DEF MsgTypes
<1>7. MInv' BY Zenon, <1>0, <1>1, <1>4, <1>5, <1>6, Shortened
<1>8. Paid'
  <2>1. left \in Counts BY Zenon, <1>0 DEF Paid
  <2>2. PICK w \in {"sends", "links", "wires", "changes", "outages"} : w = "wires" BY Zenon
  <2>3. left' \in Counts /\ left'.links <= left.links /\ left'.wires <= left.wires /\ left'.wires < left.wires
    BY Zenon, <1>1, <2>1, <2>2, SpendFacts
  <2> QED BY Zenon, <1>0, <1>1, <2>3, StillPaid
<1>9. LinkTypes' /\ Outside' /\ Listener' BY Zenon, <1>0, <1>1, SameLinks, SameOutside, SameListener
<1> QED BY Zenon, <1>7, <1>8, <1>9 DEF IInv, MInv

\* remote_listener reads from a wire, or gives it up.
LEMMA RemoteListenerStep ==
    ASSUME IInv, NEW k \in Wires, RemoteRead(k) \/ RemoteEnds(k)
    PROVE  IInv'
<1>0. MInv /\ MsgTypes BY Zenon DEF IInv, MInv
<1>1. /\ UNCHANGED <<sender, nlink, down>> /\ UNCHANGED <<nlink, open, listener>> /\ UNCHANGED <<online, outside>>
      /\ UNCHANGED <<nlink, nwire, sock, open, rsock, ropen, left>>
  BY Zenon DEF RemoteRead, RemoteEnds, links, sender, tables
<1>2. CASE RemoteRead(k)
  <2>1. MInv' BY Zenon, <1>0, <1>2, RemoteReadInv
  <2> QED BY Zenon, <1>1, <2>1, MovesOnly
<1>3. CASE RemoteEnds(k)
  <2>1. /\ k \notin ropen /\ listening' = listening \ {k} /\ ropen' = ropen /\ wire' = [wire EXCEPT ![k] = <<>>]
        /\ UNCHANGED <<dest, via, known, out, rq, chan, parked, nwire, rsock>>
    BY Zenon, <1>3 DEF RemoteEnds, tables, msgs
  <2>2. PICK q \in Seq(Msgs) : q = <<>> /\ Range(q) = {} /\ Ordered(q, Before) BY Zenon, OrderedEmpty, EmptyLen
  <2>3. ropen' \subseteq listening' /\ listening' \subseteq listening BY Zenon, <1>0, <2>1 DEF MsgTypes
  <2>4. Range(q) \subseteq Range(wire[k]) /\ wire' = [wire EXCEPT ![k] = q] BY Zenon, <2>1, <2>2
  <2>5. MInv' BY Zenon, <1>0, <2>1, <2>2, <2>3, <2>4, Shortened
  <2> QED BY Zenon, <1>1, <2>5, MovesOnly
<1> QED BY Zenon, <1>2, <1>3

-----------------------------------------------------------------------------
(* The steps of the services *)

\* What changes when a service comes, goes, or is heard of.
LEMMA ServiceStep ==
    ASSUME IInv, MInv', Outside', UNCHANGED <<sender, nlink>>, UNCHANGED <<nlink, open, listener>>,
           down' \in [Links -> Seq(DownMsgs)],
           UNCHANGED <<nlink, nwire>>, UNCHANGED <<sock, open, rsock, ropen>>, left' = left \/ Spend("changes")
    PROVE  IInv'
<1>1. LinkTypes /\ Listener /\ Paid /\ MsgTypes BY Zenon DEF IInv
<1>2. LinkTypes' BY Zenon, <1>1 DEF LinkTypes, sender
<1>3. Paid'
  <2>1. left \in Counts /\ left.links \in Nat /\ left.wires \in Nat BY Zenon, <1>1 DEF Paid, Counts
  <2>2. left' \in Counts /\ left'.links <= left.links /\ left'.wires <= left.wires
    <3>1. CASE Spend("changes")
      <4>1. PICK w \in {"sends", "links", "wires", "changes", "outages"} : w = "changes" BY Zenon
      <4> QED BY Zenon, <2>1, <3>1, <4>1, SpendFacts
    <3>2. CASE left' = left BY <2>1, <3>2
    <3> QED BY Zenon, <3>1, <3>2
  <2>3. sock' = sock /\ open' = open /\ rsock' = rsock /\ ropen' = ropen BY Zenon
  <2> QED BY Zenon, <1>1, <2>2, <2>3, StillPaid
<1> QED BY Zenon, <1>1, <1>2, <1>3, SameListener DEF IInv, MInv

\* What "a" will be told.
LEMMA NewsFacts ==
    ASSUME Outside, NEW s \in Services, NEW on \in BOOLEAN
    PROVE  Append(news, <<s, on>>) \in Seq(Services \X BOOLEAN)
<1>1. news \in Seq(Services \X BOOLEAN) /\ <<s, on>> \in Services \X BOOLEAN BY Zenon DEF Outside
<1> QED BY Zenon, <1>1, AppendIndex

\* The gate master lets "b" register a service.
LEMMA UploadedStep ==
    ASSUME IInv, NEW s \in Services, Uploaded(s)
    PROVE  IInv'
<1>0. LinkTypes /\ Outside /\ MInv BY Zenon DEF IInv, MInv
<1>1. /\ life' = [life EXCEPT ![s] = "uploaded"] /\ news' = Append(news, <<s, FALSE>>) /\ dead' = dead
      /\ UNCHANGED <<sender, nlink>> /\ UNCHANGED <<nlink, open, listener>> /\ UNCHANGED <<nlink, nwire>>
      /\ UNCHANGED <<sock, open, rsock, ropen>> /\ UNCHANGED <<down, online, left>>
      /\ UNCHANGED <<known, parked, chan, remote, msgs>>
  BY Zenon DEF Uploaded, links, sender, tables, remote
<1>2. Outside'
  <2>1. PICK b \in BOOLEAN : b = FALSE BY Zenon
  <2>2. news' \in Seq(Services \X BOOLEAN) BY Zenon, <1>0, <1>1, <2>1, NewsFacts
  <2> QED BY Zenon, <1>0, <1>1, <2>2 DEF Outside
<1>3. MInv' BY Zenon, <1>0, <1>1, SameMsgs
<1>4. down' \in [Links -> Seq(DownMsgs)] BY Zenon, <1>0, <1>1 DEF LinkTypes
<1> QED BY Zenon, <1>1, <1>2, <1>3, <1>4, ServiceStep

\* The first registration of a service at its gate.
LEMMA AddedStep ==
    ASSUME IInv, NEW s \in Services, Added(s)
    PROVE  IInv'
<1>0. LinkTypes /\ Outside /\ Paid /\ MInv /\ MsgTypes BY Zenon DEF IInv, MInv
<1>1. /\ life' = [life EXCEPT ![s] = "on"] /\ dead' = dead /\ EmplaceService(Home[s], s)
      /\ UNCHANGED <<sender, nlink>> /\ UNCHANGED <<nlink, open, listener>> /\ UNCHANGED <<nlink, nwire>>
      /\ UNCHANGED <<sock, open, rsock, ropen>> /\ left' = left
      /\ UNCHANGED <<dest, out, nwire, rsock, ropen, listening>>
  BY Zenon DEF Added, sender, msgs
<1>2. down \in [Links -> Seq(DownMsgs)] BY Zenon, <1>0 DEF LinkTypes
<1>3. CASE Home[s] = "a"
  <2>1. online' = [online EXCEPT ![s] = TRUE] /\ Changed(s) /\ news' = news BY Zenon, <1>3 DEF Added
  <2>2. Outside' /\ online'[s] \in BOOLEAN BY Zenon, <1>0, <1>1, <2>1 DEF Outside
  <2>3. rsock \in ropen => rsock \in Wires BY Zenon, <1>0, InUse
  <2>4. MInv' BY Zenon, <1>0, <1>1, <1>3, <2>3, EmplaceAInv
  <2>5. down' \in [Links -> Seq(DownMsgs)] BY Zenon, <1>2, <2>1, <2>2, ChangedFacts
  <2> QED BY Zenon, <1>1, <2>2, <2>4, <2>5, ServiceStep
<1>4. CASE Home[s] = "b"
  <2>1. news' = Append(news, <<s, TRUE>>) /\ UNCHANGED <<online, down>> BY Zenon, <1>4 DEF Added
  <2>2. Outside'
    <3>1. PICK b \in BOOLEAN : b = TRUE BY Zenon
    <3>2. news' \in Seq(Services \X BOOLEAN) BY Zenon, <1>0, <2>1, <3>1, NewsFacts
    <3> QED BY Zenon, <1>0, <1>1, <2>1, <3>2 DEF Outside
  <2>3. MInv' BY Zenon, <1>0, <1>1, <1>4, EmplaceBInv
  <2>4. down' \in [Links -> Seq(DownMsgs)] BY Zenon, <1>2, <2>1
  <2> QED BY Zenon, <1>1, <2>2, <2>3, <2>4, ServiceStep
<1>5. Home[s] = "a" \/ Home[s] = "b" BY Zenon, RoutingAssumption DEF Gates
<1> QED BY Zenon, <1>3, <1>4, <1>5

\* A service loses its link to its gate, or has one again.
LEMMA ToggledStep ==
    ASSUME IInv, NEW s \in Services, Toggled(s)
    PROVE  IInv'
<1>0. LinkTypes /\ Outside /\ MInv BY Zenon DEF IInv, MInv
<1>1. PICK on \in BOOLEAN : on = (life[s] = "off") BY Zenon
<1>2. /\ life' = [life EXCEPT ![s] = IF on THEN "on" ELSE "off"] /\ dead' = dead /\ Spend("changes")
      /\ UNCHANGED <<sender, nlink>> /\ UNCHANGED <<nlink, open, listener>> /\ UNCHANGED <<nlink, nwire>>
      /\ UNCHANGED <<sock, open, rsock, ropen>> /\ UNCHANGED <<known, parked, chan, remote, msgs>>
  BY Zenon, <1>1 DEF Toggled, sender, remote
<1>3. MInv' BY Zenon, <1>0, <1>2, SameMsgs
<1>4. down \in [Links -> Seq(DownMsgs)] BY Zenon, <1>0 DEF LinkTypes
<1>5. CASE Home[s] = "a"
  <2>1. online' = [online EXCEPT ![s] = on] /\ Changed(s) /\ news' = news BY Zenon, <1>1, <1>5 DEF Toggled
  <2>2. Outside' /\ online'[s] \in BOOLEAN BY Zenon, <1>0, <1>2, <2>1 DEF Outside
  <2>3. down' \in [Links -> Seq(DownMsgs)] BY Zenon, <1>4, <2>1, <2>2, ChangedFacts
  <2> QED BY Zenon, <1>2, <1>3, <2>2, <2>3, ServiceStep
<1>6. CASE Home[s] = "b"
  <2>1. news' = Append(news, <<s, on>>) /\ UNCHANGED <<online, down>> BY Zenon, <1>1, <1>6 DEF Toggled
  <2>2. news' \in Seq(Services \X BOOLEAN) BY Zenon, <1>0, <2>1, NewsFacts
  <2>3. Outside' BY Zenon, <1>0, <1>2, <2>1, <2>2 DEF Outside
  <2>4. down' \in [Links -> Seq(DownMsgs)] BY Zenon, <1>4, <2>1
  <2> QED BY Zenon, <1>2, <1>3, <2>3, <2>4, ServiceStep
<1>7. Home[s] = "a" \/ Home[s] = "b" BY Zenon, RoutingAssumption DEF Gates
<1> QED BY Zenon, <1>5, <1>6, <1>7

\* "a" hears of a service of "b".
LEMMA AddRemoteServiceStep ==
    ASSUME IInv, AddRemoteService
    PROVE  IInv'
<1>0. LinkTypes /\ Outside /\ Paid /\ MInv /\ MsgTypes BY Zenon DEF IInv, MInv
<1>1. news # <<>> /\ news \in Seq(Services \X BOOLEAN) BY Zenon, <1>0 DEF AddRemoteService, Outside
<1>2. Head(news) \in Services \X BOOLEAN /\ Tail(news) \in Seq(Services \X BOOLEAN) BY Zenon, <1>1, TailIndex
<1>3. PICK s \in Services : s = Head(news)[1] BY Zenon, <1>2
<1>4. /\ news' = Tail(news) /\ online' = [online EXCEPT ![s] = Head(news)[2]]
      /\ IF s \in known["a"] THEN UNCHANGED <<known, parked, chan, rq, wire, via, lost>> ELSE EmplaceService("a", s)
      /\ Changed(s) /\ life' = life /\ dead' = dead
      /\ UNCHANGED <<sender, nlink>> /\ UNCHANGED <<nlink, open, listener>> /\ UNCHANGED <<nlink, nwire>>
      /\ UNCHANGED <<sock, open, rsock, ropen>> /\ left' = left
      /\ UNCHANGED <<dest, out, nwire, rsock, ropen, listening>>
  BY Zenon, <1>3 DEF AddRemoteService, sender, msgs
<1>5. Outside' /\ online'[s] \in BOOLEAN BY Zenon, <1>0, <1>2, <1>4 DEF Outside
<1>6. MInv'
  <2>1. CASE s \in known["a"]
    <3>1. UNCHANGED <<dest, via, known, out, rq, wire, chan, parked, nwire, rsock, ropen, listening>> BY Zenon, <1>4, <2>1
    <3> QED BY Zenon, <1>0, <3>1, Unmoved
  <2>2. CASE s \notin known["a"]
    <3>1. rsock \in ropen => rsock \in Wires BY Zenon, <1>0, InUse
    <3>2. EmplaceService("a", s) BY Zenon, <1>4, <2>2
    <3> QED BY Zenon, <1>0, <1>4, <3>1, <3>2, EmplaceAInv
  <2> QED BY Zenon, <2>1, <2>2
<1>7. down \in [Links -> Seq(DownMsgs)] BY Zenon, <1>0 DEF LinkTypes
<1>8. down' \in [Links -> Seq(DownMsgs)] BY Zenon, <1>4, <1>5, <1>7, ChangedFacts
<1> QED BY Zenon, <1>4, <1>5, <1>6, <1>8, ServiceStep

\* An address of "b" fails or recovers.
LEMMA OutageStep ==
    ASSUME IInv, NEW i \in 1..Addresses, Outage(i)
    PROVE  IInv'
<1>0. LinkTypes /\ Listener /\ Outside /\ Paid /\ MInv /\ MsgTypes BY Zenon DEF IInv, MInv
<1>1. /\ Spend("outages") /\ dead' \subseteq dead \cup {i} /\ UNCHANGED <<online, life, news>>
      /\ UNCHANGED <<sender, nlink, down>> /\ UNCHANGED <<nlink, open, listener>>
      /\ UNCHANGED <<nlink, nwire, sock, open, rsock, ropen>>
      /\ UNCHANGED <<known, parked, chan, remote, msgs>>
  BY Zenon DEF Outage, links, tables, sender, remote
<1>2. MInv' BY Zenon, <1>0, <1>1, SameMsgs
<1>3. Paid'
  <2>1. left \in Counts BY Zenon, <1>0 DEF Paid
  <2>2. PICK w \in {"sends", "links", "wires", "changes", "outages"} : w = "outages" BY Zenon
  <2>3. left' \in Counts /\ left'.links <= left.links /\ left'.wires <= left.wires BY Zenon, <1>1, <2>1, <2>2, SpendFacts
  <2> QED BY Zenon, <1>0, <1>1, <2>3, StillPaid
<1>4. LinkTypes' /\ Listener' BY Zenon, <1>0, <1>1, SameLinks, SameListener
<1>5. Outside' BY Zenon, <1>0, <1>1 DEF Outside
<1> QED BY Zenon, <1>2, <1>3, <1>4, <1>5 DEF IInv, MInv

-----------------------------------------------------------------------------
(* The specification *)

\* The program starts in the invariant.
LEMMA InitInv == Init => IInv
<1> SUFFICES ASSUME Init PROVE IInv BY Zenon
<1>0. \A S : <<>> \in Seq(S) BY Zenon, EmptyLen
<1>1. LinkTypes
  <2>1. task \in [Links -> Tasks] BY Zenon, TaskFacts DEF Init
  <2>2. view \in Snapshots BY Zenon DEF Init, Snapshots
  <2>3. down \in [Links -> Seq(DownMsgs)] BY Zenon, <1>0 DEF Init
  <2>4. /\ nlink \in Nat /\ sock \in 0..nlink /\ phase \in {"down", "registering", "ready"}
        /\ (sock = 0) = (phase = "down")
    BY DEF Init
  <2>5. channel \in BOOLEAN /\ overtaken \subseteq Services BY Zenon DEF Init
  <2> QED BY Zenon, <2>1, <2>2, <2>3, <2>4, <2>5 DEF LinkTypes
<1>2. Listener
  <2>1. Range(<<>>) = {} /\ IsInjective(<<>>) BY Zenon, EmptyFacts
  <2> QED BY Zenon, <1>0, <2>1 DEF Init, Listener
<1>3. Outside BY Zenon, <1>0 DEF Init, Outside
<1>4. Paid
  <2>1. left \in Counts BY Zenon, RoutingAssumption DEF Init, Counts
  <2>2. left.links \in Nat /\ left.wires \in Nat BY Zenon, <2>1 DEF Counts
  <2>3. nlink = 0 /\ nwire = 0 /\ sock = 0 /\ rsock = 0 /\ left \in Budgets BY Zenon DEF Init
  <2>4. /\ nlink + left.links <= left.links + (IF sock # 0 /\ sock \in open THEN 1 ELSE 0)
        /\ nwire + left.wires <= left.wires + (IF rsock # 0 /\ rsock \in ropen THEN 1 ELSE 0)
    BY <2>2, <2>3
  <2> QED BY Zenon, <2>1, <2>3, <2>4 DEF Paid
<1>5. MsgTypes
  <2>1. dest \in Seq(Services) /\ via \in Seq(Nat) /\ Len(via) = Len(dest) BY Zenon, <1>0 DEF Init
  <2>2. out \in Seq(Msgs) /\ rq \in Seq(Msgs) BY Zenon, <1>0 DEF Init
  <2>3. wire \in [Wires -> Seq(Msgs)] /\ chan \in [Services -> Seq(Msgs)] BY Zenon, <1>0 DEF Init
  <2>4. parked \in [Gates -> [Services -> Seq(Msgs)]] BY Zenon, <1>0 DEF Init
  <2>5. known \in [Gates -> SUBSET Services] BY Zenon DEF Init
  <2>6. nwire \in Nat /\ rsock \in {0, nwire} /\ ropen \subseteq listening /\ listening \subseteq 1..nwire BY Zenon DEF Init
  <2> QED BY Zenon, <2>1, <2>2, <2>3, <2>4, <2>5, <2>6 DEF MsgTypes
<1>6. /\ Range(<<>>) = {} /\ Ordered(<<>>, Before) BY Zenon, OrderedEmpty
<1>7. /\ out = <<>> /\ rq = <<>> /\ \A k \in Wires : wire[k] = <<>>
      /\ \A s \in Services : chan[s] = <<>> /\ \A g \in Gates : parked[g][s] = <<>>
      /\ Msgs = {} /\ Len(out) = 0
  BY DEF Init, Msgs
<1>8. \A s \in Services : parked["a"][s] = <<>> /\ parked["b"][s] = <<>> BY Zenon, <1>7 DEF Gates
<1>9. Places BY Zenon, <1>6, <1>7, <1>8 DEF Places
<1>10. Order
  <2>1. \A i, j \in 1..Len(out) : i < j => out[i] < out[j] BY <1>7
  <2> QED BY ZenonT(30), <1>6, <1>7, <1>8, <2>1 DEF Order
<1> QED BY Zenon, <1>1, <1>2, <1>3, <1>4, <1>5, <1>9, <1>10 DEF IInv

\* Every step keeps the invariant.
LEMMA NextInv == IInv /\ [Next]_vars => IInv'
<1> SUFFICES ASSUME IInv, [Next]_vars PROVE IInv' BY Zenon
<1>1. CASE SenderStep
  BY <1>1, ConnectInv, RegisteredInv, HangupInv, RecvAnswerInv, RecvBroadcastInv, SubscribeInv, Zenon DEF SenderStep
<1>2. CASE TimedOut BY <1>2, HangupInv, Zenon
<1>3. ASSUME NEW n \in Links, SubscribeTimeout(n) \/ CutLink(n) PROVE IInv'
  BY <1>3, SubscribeInv, CutLinkInv, Zenon
<1>4. CASE ListenerStep BY <1>4, ListenerRecvInv, LinkEndsInv, Zenon DEF ListenerStep
<1>5. CASE MessageStep
  BY <1>5, GateReadStep, RemoteConnectStep, RemoteLostStep, RemoteListenerStep, Zenon DEF MessageStep
<1>6. ASSUME NEW k \in Wires, CutWire(k) PROVE IInv' BY Zenon, <1>6, CutWireStep
<1>7. CASE AddRemoteService BY Zenon, <1>7, AddRemoteServiceStep
<1>10. ASSUME NEW i \in 1..Addresses, Outage(i) PROVE IInv' BY Zenon, <1>10, OutageStep
<1>8. ASSUME NEW s \in Services, Send(s) \/ Uploaded(s) \/ Added(s) \/ Toggled(s) PROVE IInv'
  BY <1>8, SendStep, UploadedStep, AddedStep, ToggledStep, Zenon
<1>9. CASE UNCHANGED vars
  <2>1. /\ UNCHANGED <<sender, nlink, down>> /\ UNCHANGED <<nlink, open, listener>> /\ UNCHANGED <<online, outside>>
        /\ UNCHANGED <<nlink, nwire, sock, open, rsock, ropen, left>>
        /\ UNCHANGED <<known, parked, chan, remote, msgs>>
    BY Zenon, <1>9 DEF vars, links, sender, tables, remote
  <2>2. MInv BY Zenon DEF IInv, MInv
  <2>3. MInv' BY Zenon, <2>1, <2>2, SameMsgs
  <2> QED BY Zenon, <2>1, <2>3, MovesOnly
<1> QED BY <1>1, <1>2, <1>3, <1>4, <1>5, <1>6, <1>7, <1>8, <1>9, <1>10, Zenon DEF Next

\* A service gets the messages of another one once and in the order they were
\* sent, for any services, links, wires and losses of them: also those that
\* waited in a gate for a service it did not know (gate::forward and
\* emplace_service) or for the other gate (remote_gate::send) while others
\* followed; only those that took different wires may come in another order.
THEOREM MessagesInOrder == Spec => []RoutedInOrder
<1>1. IInv => RoutedInOrder
  <2> SUFFICES ASSUME IInv PROVE RoutedInOrder BY Zenon
  <2>0. LinkTypes /\ Listener /\ Outside /\ MsgTypes /\ Places /\ Order BY Zenon DEF IInv
  <2>1. TypeOK BY Zenon, <2>0 DEF TypeOK, LinkTypes, Listener, Outside, MsgTypes
  <2>2. ASSUME NEW s \in Services, NEW i \in DOMAIN chan[s], NEW j \in DOMAIN chan[s], i < j
        PROVE  /\ chan[s][i] # chan[s][j]
               /\ via[chan[s][i]] = via[chan[s][j]] => chan[s][i] < chan[s][j]
    <3>1. PICK c \in Seq(Msgs) : c = chan[s] /\ Ordered(c, Before) BY Zenon, <2>0 DEF MsgTypes, Order
    <3>2. i \in 1..Len(c) /\ j \in 1..Len(c) BY Zenon, <2>2, <3>1, LenFacts
    <3>3. PICK x \in Msgs : x = c[i] BY Zenon, <3>2, ElementFacts
    <3>4. PICK y \in Msgs : y = c[j] BY Zenon, <3>2, ElementFacts
    <3>5. <<x, y>> \in Before BY ZenonT(30), <2>2, <3>1, <3>2, <3>3, <3>4 DEF Ordered
    <3>6. x \in Range(chan[s]) /\ y \in Range(chan[s]) BY <3>1, <3>2, <3>3, <3>4, RangeDef
    <3>7. dest[x] = s /\ dest[y] = s BY Zenon, <2>0, <3>6 DEF Places
    <3>8. via[x] = via[y] => x < y BY Zenon, <3>5, <3>7, BeforeDef
    <3>9. x \in Nat BY Zenon, <2>0, MsgFacts
    <3>10. x # y BY <3>8, <3>9
    <3> QED BY Zenon, <3>1, <3>3, <3>4, <3>8, <3>10
  <2> QED BY Zenon, <2>1, <2>2 DEF RoutedInOrder
<1>2. Spec => []IInv BY InitInv, NextInv, PTL DEF Spec
<1> QED BY <1>1, <1>2, PTL
=============================================================================
