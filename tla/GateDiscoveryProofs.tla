------------------------ MODULE GateDiscoveryProofs ------------------------
(***************************************************************************)
(* Proofs about GateDiscovery, for any gates and services and any number   *)
(* of connections, links and faults: a service has one home, and the       *)
(* master's table agrees with the gates it holds a connection of.          *)
(***************************************************************************)
EXTENDS GateDiscovery, SeqFacts

Entries == [sock : Links \cup {0}, on : BOOLEAN]

\* The connection that gate g uses, if it uses one.
Current(g) == <<g, sock[g]>>

\* The register request of connection c is still on its way.
Unread(c) == up[c] # <<>> /\ up[c][1].kind = "register"

\* The gate of a process has an entry for its service.
Serves(g, s) == objs[<<g, s>>] # <<>>

\* The tables of the master.
Tables == mOwner \in [Services -> Gates \cup {None}] /\ mOnline \in [Services -> BOOLEAN]

Types ==
    /\ mSock \in [Gates -> Nat] /\ conn \in [Gates -> Nat] /\ sock \in [Gates -> Nat]
    /\ reg \in [Gates -> {"down", "registering", "ready"}]
    /\ Tables
    /\ sockets \subseteq Conns /\ bound \subseteq sockets /\ open \subseteq sockets
    /\ up \in [Conns -> Seq(UpMsgs)] /\ down \in [Conns -> Seq(DownMsgs)]
    /\ home \in [Gates -> [Services -> Gates \cup {None}]]
    /\ ron \in [Gates -> [Services -> BOOLEAN]]
    /\ objs \in [Processes -> Seq(Entries)]
    /\ nlink \in [Processes -> Nat] /\ ended \in [Processes -> SUBSET Nat]
    /\ lstate \in [Processes -> [Links -> {"none", "asked", "upload", "done"}]]
    /\ att \in [Processes -> [Links -> Nat]]
    /\ superseded \subseteq Gates
    /\ faults \in 0..MaxFaults /\ mRestarted \in BOOLEAN

\* The connections of a gate are numbered in the order it makes them; it uses
\* the last or none, and the master's is one that has registered.
Numbering ==
    /\ \A g \in Gates : /\ conn[g] <= MaxConn[g] /\ sock[g] \in {0, conn[g]}
                        /\ (sock[g] = 0) = (reg[g] = "down")
                        /\ mSock[g] # 0 => <<g, mSock[g]>> \in bound
    /\ \A c \in sockets : c[2] <= conn[c[1]]

\* The links of a process, and the entries its links are attached to.
Linked ==
    \A p \in Processes : /\ nlink[p] <= MaxLinks[p] /\ ended[p] \subseteq 1..nlink[p]
                         /\ \A n \in Links : att[p][n] <= Len(objs[p])

\* A request about a service, as update_service and service_register send it.
IsUpdate(m) == m.kind = "update" /\ m.id \in Services /\ m.svc[m.id] # "none"

\* A request to register is the first on its connection, which the master has
\* not bound yet, and nothing has come back before it is read.
UpOK ==
    \A c \in Conns :
        /\ \A i \in 1..Len(up[c]) : (i = 1 /\ up[c][i].kind = "register") \/ IsUpdate(up[c][i])
        /\ Unread(c) => c \notin bound /\ down[c] = <<>>

\* What the master sends to a gate never says that the gate itself serves a
\* service; a positive answer to an upload means that it does.
InfoOK(c, m) ==
    /\ \A s \in Services : m.svc[s] # None => m.svc[s][1] # c[1]
    /\ m.kind = "uack" => /\ m.id \in Services /\ m.link \in Links
                          /\ m.ok /\ (~mRestarted \/ c \in bound) => mOwner[m.id] = c[1]

DownOK ==
    \A c \in Conns : /\ down[c] # <<>> => sock[c[1]] = c[2]
                     /\ \A i \in 1..Len(down[c]) : InfoOK(c, down[c][i])

\* Until a gate has the answer to its registration, that answer is the next
\* message or its request is still to be read.
Registering ==
    \A g \in Gates : reg[g] = "registering" =>
        IF down[Current(g)] = <<>> THEN Current(g) \in open => Unread(Current(g))
        ELSE down[Current(g)][1].kind = "ack"

\* A gate serves what it has an entry for. The master knows of it, unless it
\* has restarted; then it knows from when the gate has registered anew, with a
\* request that names every service the gate serves.
Served ==
    \A g \in Gates, s \in Services :
        /\ home[g][s] = g => Serves(g, s)
        /\ Serves(g, s) =>
              /\ ~mRestarted \/ Current(g) \in bound => mOwner[s] = g
              /\ sock[g] # 0 /\ Unread(Current(g)) => up[Current(g)][1].svc[s] # "none"

IInv == Types /\ Numbering /\ Linked /\ UpOK /\ DownOK /\ Registering /\ Served

-----------------------------------------------------------------------------
(* The sets the model is built from *)

\* A connection is a gate and a number within that gate's bound.
LEMMA ConnFacts ==
    /\ \A c \in Conns : /\ c = <<c[1], c[2]>> /\ c[1] \in Gates
                        /\ c[2] \in Nat /\ c[2] # 0 /\ c[2] <= MaxConn[c[1]]
    /\ \A g \in Gates, k \in Nat : k # 0 /\ k <= MaxConn[g] => <<g, k>> \in Conns
<1>1. MaxConn \in [Gates -> Nat] BY Zenon, DiscoveryAssumption
<1>2. ASSUME NEW c \in Conns
      PROVE  c = <<c[1], c[2]>> /\ c[1] \in Gates /\ c[2] \in Nat /\ c[2] # 0 /\ c[2] <= MaxConn[c[1]]
  <2>1. PICK g \in Gates : c \in {g} \X (1..MaxConn[g]) BY Zenon DEF Conns
  <2>2. MaxConn[g] \in Nat BY Zenon, <1>1
  <2>3. c = <<c[1], c[2]>> /\ c[1] = g /\ c[2] \in 1..MaxConn[g] BY <2>1
  <2> QED BY <2>2, <2>3
<1>3. ASSUME NEW g \in Gates, NEW k \in Nat, k # 0, k <= MaxConn[g]
      PROVE  <<g, k>> \in Conns
  <2>1. k \in 1..MaxConn[g] BY <1>1, <1>3
  <2>2. <<g, k>> \in {g} \X (1..MaxConn[g]) BY Zenon, <2>1
  <2> QED BY Zenon, <2>2 DEF Conns
<1> QED BY Zenon, <1>2, <1>3

\* A link is a positive number; the links a process makes are among them.
LEMMA LinkFacts ==
    /\ \A n \in Links : n \in Nat /\ n # 0
    /\ \A p \in Processes, n \in Nat : n # 0 /\ n <= MaxLinks[p] => n \in Links
<1>1. MaxLinks \in [Processes -> Nat] BY Zenon, DiscoveryAssumption DEF Processes
<1>2. ASSUME NEW n \in Links PROVE n \in Nat /\ n # 0
  <2>1. PICK i \in UNION {0..MaxLinks[p] - 1 : p \in Processes} : n = i + 1 BY Zenon DEF Links
  <2>2. PICK p \in Processes : i \in 0..MaxLinks[p] - 1 BY Zenon, <2>1
  <2> QED BY <1>1, <2>1, <2>2
<1>3. ASSUME NEW p \in Processes, NEW n \in Nat, n # 0, n <= MaxLinks[p] PROVE n \in Links
  <2>1. n - 1 \in 0..MaxLinks[p] - 1 /\ n = (n - 1) + 1 BY <1>1, <1>3
  <2>2. n - 1 \in UNION {0..MaxLinks[c] - 1 : c \in Processes} BY Zenon, <2>1
  <2> QED BY Zenon, <2>1, <2>2 DEF Links
<1> QED BY Zenon, <1>2, <1>3

\* A process is a gate and a service.
LEMMA ProcessFacts ==
    /\ \A p \in Processes : p = <<p[1], p[2]>> /\ p[1] \in Gates /\ p[2] \in Services
    /\ \A g \in Gates, s \in Services : <<g, s>> \in Processes
BY DEF Processes

\* The requests of a gate.
LEMMA RequestFacts ==
    /\ \A svc \in Reports : /\ Register(svc) \in UpMsgs
                            /\ Register(svc).kind = "register" /\ Register(svc).svc = svc
    /\ \A s \in Services, on \in BOOLEAN, n \in Links \cup {0} :
          /\ Update(s, on, n) \in UpMsgs /\ IsUpdate(Update(s, on, n))
          /\ Update(s, on, n).id = s /\ Update(s, on, n).link = n
<1>1. ASSUME NEW svc \in Reports
      PROVE  Register(svc) \in UpMsgs /\ Register(svc).kind = "register" /\ Register(svc).svc = svc
  BY Zenon DEF Register, UpMsgs
<1>2. ASSUME NEW s \in Services, NEW on \in BOOLEAN, NEW n \in Links \cup {0}
      PROVE  /\ Update(s, on, n) \in UpMsgs /\ IsUpdate(Update(s, on, n))
             /\ Update(s, on, n).id = s /\ Update(s, on, n).link = n
  <2>1. Flag(on) \in {"on", "off"} BY Zenon DEF Flag
  <2>2. PICK r : r = [t \in Services |-> IF t = s THEN Flag(on) ELSE "none"] BY Zenon
  <2>3. r \in Reports BY Zenon, <2>1, <2>2 DEF Reports
  <2>4. r[s] # "none" BY Zenon, <2>1, <2>2
  <2>5. Update(s, on, n) = [kind |-> "update", svc |-> r, id |-> s, link |-> n] BY Zenon, <2>2 DEF Update
  <2> HIDE DEF Update
  <2>6. Update(s, on, n) \in UpMsgs BY <2>3, <2>5 DEF UpMsgs
  <2>7. IsUpdate(Update(s, on, n)) BY <2>4, <2>5 DEF IsUpdate
  <2> QED BY <2>5, <2>6, <2>7
<1> QED BY Zenon, <1>1, <1>2

\* The answer to an upload.
LEMMA UpdateAckFacts ==
    ASSUME NEW ok \in BOOLEAN, NEW s \in Services, NEW n \in Links \cup {0}, NEW m, m = UpdateAck(ok, s, n)
    PROVE  m \in DownMsgs /\ m.kind = "uack" /\ m.ok = ok /\ m.svc = NoInfo /\ m.id = s /\ m.link = n
<1>1. NoInfo \in Infos BY Zenon DEF NoInfo, Infos
<1> QED BY Zenon, <1>1 DEF UpdateAck, DownMsgs

\* The other messages of the master.
LEMMA AnswerFacts ==
    /\ NoInfo \in Infos
    /\ \A ok \in BOOLEAN, svc \in Infos :
          /\ Ack(ok, svc) \in DownMsgs /\ Ack(ok, svc).kind = "ack" /\ Ack(ok, svc).svc = svc
          /\ Brd(svc) \in DownMsgs /\ Brd(svc).kind = "brd" /\ Brd(svc).svc = svc
<1>1. NoInfo \in Infos BY Zenon DEF NoInfo, Infos
<1>2. ASSUME NEW ok \in BOOLEAN, NEW svc \in Infos
      PROVE  /\ Ack(ok, svc) \in DownMsgs /\ Ack(ok, svc).kind = "ack" /\ Ack(ok, svc).svc = svc
             /\ Brd(svc) \in DownMsgs /\ Brd(svc).kind = "brd" /\ Brd(svc).svc = svc
  BY Zenon DEF Ack, Brd, DownMsgs
<1> QED BY Zenon, <1>1, <1>2

-----------------------------------------------------------------------------
(* What a step of a gate does to the messages *)

\* Only requests about a service join what is on its way to the master.
UpGrows ==
    /\ up' \in [Conns -> Seq(UpMsgs)]
    /\ \A c \in Conns : /\ Len(up[c]) <= Len(up'[c])
                        /\ \A i \in 1..Len(up[c]) : up'[c][i] = up[c][i]
                        /\ \A i \in (Len(up[c]) + 1)..Len(up'[c]) : IsUpdate(up'[c][i])

\* A gate reads its messages in order, or they are gone with their connection.
DownShrinks ==
    /\ down' \in [Conns -> Seq(DownMsgs)]
    /\ \A c \in Conns : \/ down'[c] = down[c] \/ down'[c] = <<>>
                        \/ down[c] # <<>> /\ down'[c] = Tail(down[c])

\* The connection a gate uses is one of the connections.
LEMMA CurrentConn ==
    ASSUME Types, Numbering, NEW g \in Gates, sock[g] # 0
    PROVE  Current(g) \in Conns /\ Current(g)[1] = g /\ Current(g)[2] = sock[g]
<1>1. sock[g] \in Nat /\ conn[g] \in Nat BY Zenon DEF Types, Tables
<1>2. sock[g] <= MaxConn[g] BY Zenon DEF Numbering
<1>3. <<g, sock[g]>> \in Conns BY Zenon, <1>1, <1>2, ConnFacts
<1> QED BY Zenon, <1>3 DEF Current

\* What master_connector::upload does to the messages.
LEMMA UploadGrows ==
    ASSUME Types, Numbering, NEW g \in Gates, NEW ms \in Seq(UpMsgs),
           \A i \in 1..Len(ms) : IsUpdate(ms[i]), Upload(g, ms)
    PROVE  UpGrows
<1>0. up \in [Conns -> Seq(UpMsgs)] BY Zenon DEF Types, Tables
<1>1. CASE sock[g] # 0 /\ Current(g) \in open
  <2>1. PICK c \in Conns : c = Current(g) BY Zenon, <1>1, CurrentConn
  <2>2. PICK t : t = up[c] \o ms BY Zenon
  <2>3. up' = [up EXCEPT ![c] = t] BY Zenon, <1>1, <2>1, <2>2 DEF Upload, Current
  <2>4. up[c] \in Seq(UpMsgs) BY Zenon, <1>0
  <2>5. t \in Seq(UpMsgs) BY Zenon, <2>2, <2>4, ConcatIndex
  <2>6. /\ Len(t) = Len(up[c]) + Len(ms) /\ Len(ms) \in Nat /\ Len(up[c]) \in Nat
        /\ \A i \in 1..Len(up[c]) : t[i] = up[c][i]
        /\ \A i \in (Len(up[c]) + 1)..Len(t) : IsUpdate(t[i])
    <3>1. Len(t) = Len(up[c]) + Len(ms) /\ Len(ms) \in Nat /\ Len(up[c]) \in Nat
      BY Zenon, <2>2, <2>4, LenFacts, ConcatIndex
    <3>2. \A i \in 1..Len(up[c]) : t[i] = up[c][i] BY <2>2, <2>4, ConcatIndex
    <3>3. ASSUME NEW i \in (Len(up[c]) + 1)..Len(t) PROVE IsUpdate(t[i])
      <4>1. i - Len(up[c]) \in 1..Len(ms) BY <3>1
      <4>2. t[i] = ms[i - Len(up[c])] BY <2>2, <2>4, <3>1
      <4> QED BY Zenon, <4>1, <4>2
    <3> QED BY Zenon, <3>1, <3>2, <3>3
  <2>7. up' \in [Conns -> Seq(UpMsgs)] BY Zenon, <1>0, <2>3, <2>5
  <2>8. ASSUME NEW k \in Conns
        PROVE  /\ Len(up[k]) <= Len(up'[k])
               /\ \A i \in 1..Len(up[k]) : up'[k][i] = up[k][i]
               /\ \A i \in (Len(up[k]) + 1)..Len(up'[k]) : IsUpdate(up'[k][i])
    <3>1. CASE k = c
      <4>1. up'[k] = t BY Zenon, <1>0, <2>3, <3>1
      <4> QED BY <2>6, <3>1, <4>1
    <3>2. CASE k # c
      <4>1. up'[k] = up[k] BY Zenon, <1>0, <2>3, <3>2
      <4>2. Len(up[k]) \in Nat BY Zenon, <1>0, LenFacts
      <4> QED BY <4>1, <4>2
    <3> QED BY Zenon, <3>1, <3>2
  <2> QED BY Zenon, <2>7, <2>8 DEF UpGrows
<1>2. CASE ~(sock[g] # 0 /\ Current(g) \in open)
  <2>1. up' = up BY Zenon, <1>2 DEF Upload, Current
  <2>2. \A k \in Conns : Len(up[k]) \in Nat BY Zenon, <1>0, LenFacts
  <2> QED BY <1>0, <2>1, <2>2 DEF UpGrows
<1> QED BY Zenon, <1>1, <1>2

\* Nothing is uploaded.
LEMMA SameGrows ==
    ASSUME Types, up' = up
    PROVE  UpGrows
<1>1. up \in [Conns -> Seq(UpMsgs)] BY Zenon DEF Types, Tables
<1>2. \A k \in Conns : Len(up[k]) \in Nat BY Zenon, <1>1, LenFacts
<1> QED BY <1>1, <1>2 DEF UpGrows

\* A register request that is still to be read stays so.
LEMMA UnreadSame ==
    ASSUME Types, UpGrows, NEW c \in Conns
    PROVE  /\ Unread(c)' = Unread(c)
           /\ Unread(c) => up'[c][1] = up[c][1]
<1>1. up[c] \in Seq(UpMsgs) /\ up'[c] \in Seq(UpMsgs) BY Zenon DEF Types, Tables, UpGrows
<1>2. /\ Len(up[c]) \in Nat /\ Len(up'[c]) \in Nat /\ Len(up[c]) <= Len(up'[c])
      /\ (up[c] = <<>>) = (Len(up[c]) = 0) /\ (up'[c] = <<>>) = (Len(up'[c]) = 0)
  BY <1>1, EmptyLen DEF UpGrows
<1>3. CASE up[c] # <<>>
  <2>1. 1 \in 1..Len(up[c]) BY <1>2, <1>3
  <2>2. up'[c][1] = up[c][1] BY Zenon, <2>1 DEF UpGrows
  <2> QED BY <1>2, <1>3, <2>2 DEF Unread
<1>4. CASE up[c] = <<>>
  <2>1. CASE up'[c] # <<>>
    <3>1. 1 \in (Len(up[c]) + 1)..Len(up'[c]) BY <1>2, <1>4, <2>1
    <3>2. up'[c][1].kind = "update" BY Zenon, <3>1 DEF UpGrows, IsUpdate
    <3> QED BY Zenon, <1>4, <3>2 DEF Unread
  <2>2. CASE up'[c] = <<>> BY Zenon, <1>4, <2>2 DEF Unread
  <2> QED BY Zenon, <2>1, <2>2
<1> QED BY Zenon, <1>3, <1>4

\* A step of a gate leaves the requests and messages in order.
LEMMA GateWire ==
    ASSUME IInv, UpGrows, DownShrinks,
           bound' = bound, mOwner' = mOwner, mRestarted' = mRestarted,
           \A c \in Conns : down'[c] # <<>> => sock'[c[1]] = sock[c[1]]
    PROVE  UpOK' /\ DownOK'
<1>0. Types /\ UpOK /\ DownOK BY Zenon DEF IInv
<1>1. ASSUME NEW c \in Conns
      PROVE  /\ \A i \in 1..Len(up'[c]) : (i = 1 /\ up'[c][i].kind = "register") \/ IsUpdate(up'[c][i])
             /\ Unread(c)' => c \notin bound' /\ down'[c] = <<>>
  <2>1. up[c] \in Seq(UpMsgs) /\ up'[c] \in Seq(UpMsgs) BY Zenon, <1>0 DEF Types, Tables, UpGrows
  <2>2. Len(up[c]) \in Nat /\ Len(up'[c]) \in Nat BY Zenon, <2>1, LenFacts
  <2>3. ASSUME NEW i \in 1..Len(up'[c])
        PROVE  (i = 1 /\ up'[c][i].kind = "register") \/ IsUpdate(up'[c][i])
    <3>1. CASE i \in 1..Len(up[c]) BY <1>0, <3>1 DEF UpGrows, UpOK
    <3>2. CASE i \in (Len(up[c]) + 1)..Len(up'[c]) BY Zenon, <3>2 DEF UpGrows
    <3> QED BY <2>2, <3>1, <3>2
  <2>4. ASSUME Unread(c)' PROVE c \notin bound' /\ down'[c] = <<>>
    <3>1. Unread(c) BY Zenon, <1>0, <2>4, UnreadSame
    <3>2. c \notin bound /\ down[c] = <<>> BY Zenon, <1>0, <3>1 DEF UpOK
    <3> QED BY Zenon, <3>2 DEF DownShrinks
  <2> QED BY Zenon, <2>3, <2>4
<1>2. ASSUME NEW c \in Conns
      PROVE  /\ down'[c] # <<>> => sock'[c[1]] = c[2]
             /\ \A i \in 1..Len(down'[c]) : InfoOK(c, down[c][i])'
  <2>1. down[c] \in Seq(DownMsgs) /\ down'[c] \in Seq(DownMsgs) BY Zenon, <1>0 DEF Types, Tables, DownShrinks
  <2>2. ASSUME down'[c] # <<>> PROVE sock'[c[1]] = c[2]
    <3>1. down[c] # <<>> BY Zenon, <2>2 DEF DownShrinks
    <3> QED BY Zenon, <1>0, <2>2, <3>1 DEF DownOK
  <2>3. ASSUME NEW i \in 1..Len(down'[c]) PROVE \E j \in 1..Len(down[c]) : down'[c][i] = down[c][j]
    <3>1. CASE down'[c] = down[c] BY Zenon, <3>1
    <3>2. CASE down'[c] = <<>> BY <3>2
    <3>3. CASE down[c] # <<>> /\ down'[c] = Tail(down[c]) BY <2>1, <3>3, TailIndex
    <3> QED BY Zenon, <3>1, <3>2, <3>3 DEF DownShrinks
  <2>4. ASSUME NEW i \in 1..Len(down'[c]) PROVE InfoOK(c, down[c][i])'
    <3>1. PICK j \in 1..Len(down[c]) : down'[c][i] = down[c][j] BY Zenon, <2>3
    <3>2. InfoOK(c, down[c][j]) BY Zenon, <1>0 DEF DownOK
    <3> QED BY Zenon, <3>1, <3>2 DEF InfoOK
  <2> QED BY Zenon, <2>2, <2>4
<1>3. UpOK' BY Zenon, <1>1 DEF UpOK
<1>4. DownOK' BY Zenon, <1>2 DEF DownOK
<1> QED BY Zenon, <1>3, <1>4

\* A gate that waits for the answer to its registration still does, or has it.
LEMMA RegisteringKept ==
    ASSUME IInv, UpGrows, open' \subseteq open,
           \A h \in Gates : reg'[h] = "registering" =>
               reg[h] = "registering" /\ sock'[h] = sock[h] /\ down'[Current(h)] = down[Current(h)]
    PROVE  Registering'
<1>0. Types /\ Numbering /\ Registering BY Zenon DEF IInv
<1>1. SUFFICES ASSUME NEW h \in Gates, reg'[h] = "registering"
               PROVE  (IF down[Current(h)] = <<>> THEN Current(h) \in open => Unread(Current(h))
                       ELSE down[Current(h)][1].kind = "ack")'
  BY Zenon DEF Registering
<1>2. reg[h] = "registering" /\ sock'[h] = sock[h] /\ down'[Current(h)] = down[Current(h)] BY Zenon, <1>1
<1>3. sock[h] # 0 BY <1>0, <1>2, Zenon DEF Numbering
<1>4. PICK c \in Conns : c = Current(h) BY Zenon, <1>0, <1>3, CurrentConn
<1>5. Current(h)' = c BY Zenon, <1>2, <1>4 DEF Current
<1>6. IF down[c] = <<>> THEN c \in open => Unread(c) ELSE down[c][1].kind = "ack"
  BY Zenon, <1>0, <1>2, <1>4 DEF Registering
<1>7. Unread(c)' = Unread(c) BY Zenon, <1>0, UnreadSame
<1>8. Unread(Current(h))' = Unread(c)' BY Zenon, <1>5 DEF Unread
<1> QED BY <1>2, <1>4, <1>5, <1>6, <1>7, <1>8

\* What a gate serves stays known; what it serves from now on is the master's word.
LEMMA ServedKept ==
    ASSUME IInv, UpGrows, bound' = bound, mOwner' = mOwner, mRestarted' = mRestarted,
           \A h \in Gates : sock'[h] \in {0, sock[h]},
           \A h \in Gates, s \in Services :
              /\ home'[h][s] = h => Serves(h, s)'
              /\ Serves(h, s)' /\ ~Serves(h, s) =>
                    /\ ~mRestarted \/ Current(h) \in bound => mOwner[s] = h
                    /\ ~Unread(Current(h))
    PROVE  Served'
<1>0. Types /\ Numbering /\ Served BY Zenon DEF IInv
<1>1. ASSUME NEW h \in Gates, NEW s \in Services, Serves(h, s)'
      PROVE  /\ ~mRestarted \/ Current(h) \in bound => mOwner[s] = h
             /\ sock[h] # 0 /\ Unread(Current(h)) => up[Current(h)][1].svc[s] # "none"
  <2>1. CASE Serves(h, s) BY Zenon, <1>0, <2>1 DEF Served
  <2>2. CASE ~Serves(h, s) BY Zenon, <1>1, <2>2
  <2> QED BY Zenon, <2>1, <2>2
<1>2. ASSUME NEW h \in Gates, NEW s \in Services, Serves(h, s)'
      PROVE  /\ ~mRestarted' \/ Current(h)' \in bound' => mOwner'[s] = h
             /\ sock'[h] # 0 /\ Unread(Current(h))' => up'[Current(h)'][1].svc[s] # "none"
  <2>1. CASE sock'[h] # 0
    <3>1. sock'[h] = sock[h] BY Zenon, <2>1
    <3>2. PICK c \in Conns : c = Current(h) BY Zenon, <1>0, <2>1, <3>1, CurrentConn
    <3>3. Current(h)' = c BY Zenon, <3>1, <3>2 DEF Current
    <3>4. Unread(Current(h))' = Unread(c)' BY Zenon, <3>3 DEF Unread
    <3>5. Unread(c)' = Unread(c) /\ (Unread(c) => up'[c][1] = up[c][1]) BY Zenon, <1>0, UnreadSame
    <3>6. ~mRestarted \/ c \in bound => mOwner[s] = h BY Zenon, <1>1, <1>2, <3>2
    <3>7. Unread(c) => up[c][1].svc[s] # "none" BY Zenon, <1>1, <1>2, <2>1, <3>1, <3>2
    <3> QED BY Zenon, <3>3, <3>4, <3>5, <3>6, <3>7
  <2>2. CASE sock'[h] = 0
    <3>1. Current(h)' = <<h, 0>> BY Zenon, <2>2 DEF Current
    <3>2. <<h, 0>> \notin Conns BY Zenon, ConnFacts
    <3>3. Current(h)' \notin bound' BY Zenon, <1>0, <3>1, <3>2 DEF Types, Tables
    <3> QED BY Zenon, <1>1, <1>2, <2>2, <3>3
  <2> QED BY Zenon, <2>1, <2>2
<1>3. ASSUME NEW h \in Gates, NEW s \in Services PROVE home'[h][s] = h => Serves(h, s)' BY Zenon
<1> QED BY Zenon, <1>2, <1>3 DEF Served

\* A step of a gate or of its processes keeps the invariant when it keeps the
\* types and the links, the gate stays on its connection or leaves it, and a
\* service it serves from now on is one the master has given it.
LEMMA GateStep ==
    ASSUME IInv, UpGrows, DownShrinks, Types', Linked',
           mSock' = mSock, mOwner' = mOwner, bound' = bound, sockets' = sockets,
           conn' = conn, mRestarted' = mRestarted, open' \subseteq open,
           \A h \in Gates :
              /\ sock'[h] = sock[h] \/ (sock'[h] = 0 /\ \A c \in Conns : c[1] = h => down'[c] = <<>>)
              /\ (sock'[h] = 0) = (reg'[h] = "down")
              /\ reg'[h] = "registering" => reg[h] = "registering" /\ down'[Current(h)] = down[Current(h)],
           \A h \in Gates, s \in Services :
              /\ home'[h][s] = h => Serves(h, s)'
              /\ Serves(h, s)' /\ ~Serves(h, s) =>
                    /\ ~mRestarted \/ Current(h) \in bound => mOwner[s] = h
                    /\ ~Unread(Current(h))
    PROVE  IInv'
<1>1. \A c \in Conns : down'[c] # <<>> => sock'[c[1]] = sock[c[1]] BY Zenon, ConnFacts
<1>2. UpOK' /\ DownOK' BY Zenon, <1>1, GateWire
<1>3. ASSUME NEW h \in Gates, reg'[h] = "registering"
      PROVE  reg[h] = "registering" /\ sock'[h] = sock[h] /\ down'[Current(h)] = down[Current(h)]
  <2>1. sock'[h] # 0 BY Zenon, <1>3
  <2> QED BY Zenon, <1>3, <2>1
<1>4. Registering' BY Zenon, <1>3, RegisteringKept
<1>5. Served' BY Zenon, ServedKept
<1>6. Numbering'
  <2>1. Numbering BY Zenon DEF IInv
  <2>2. \A h \in Gates : sock'[h] \in {0, sock[h]} BY Zenon
  <2> QED BY Zenon, <2>1, <2>2 DEF Numbering
<1> QED BY Zenon, <1>2, <1>4, <1>5, <1>6 DEF IInv

-----------------------------------------------------------------------------
(* The gates *)

\* One more fault is within the bound.
LEMMA FaultFacts ==
    ASSUME Types, Fault
    PROVE  faults' \in 0..MaxFaults
<1>1. faults \in 0..MaxFaults /\ faults < MaxFaults /\ faults' = faults + 1 BY Zenon DEF Types, Tables, Fault
<1>2. MaxFaults \in Nat BY Zenon, DiscoveryAssumption
<1> QED BY <1>1, <1>2

\* The entries and links a step leaves alone.
LEMMA SameLinked ==
    ASSUME Linked, UNCHANGED <<nlink, ended, att, objs>>
    PROVE  Linked'
BY DEF Linked

\* master_connector::run closes the gate's socket.
LEMMA HangupInv ==
    ASSUME IInv, NEW g \in Gates, reg[g] # "down", Hangup(g), faults' \in 0..MaxFaults,
           UNCHANGED <<mvars, up, conn, home, ron, objs, lvars, mRestarted>>
    PROVE  IInv'
<1>0. Types /\ Numbering /\ Linked /\ DownOK /\ Served BY Zenon DEF IInv
<1>1. sock[g] # 0 BY <1>0, Zenon DEF Numbering
<1>2. PICK k \in Conns : k = Current(g) /\ k[1] = g /\ k[2] = sock[g] BY Zenon, <1>0, <1>1, CurrentConn
<1>3. /\ open' = open \ {k} /\ down' = [down EXCEPT ![k] = <<>>]
      /\ sock' = [sock EXCEPT ![g] = 0] /\ reg' = [reg EXCEPT ![g] = "down"]
  BY Zenon, <1>2 DEF Hangup, Current
<1>4. UpGrows BY Zenon, <1>0, SameGrows
<1>5. down \in [Conns -> Seq(DownMsgs)] BY Zenon, <1>0 DEF Types, Tables
<1>6. DownShrinks BY <1>3, <1>5 DEF DownShrinks
<1>7. Types' BY Zenon, <1>0, <1>3, <1>6 DEF Types, Tables, DownShrinks, mvars, lvars
<1>8. Linked' BY Zenon, <1>0, SameLinked DEF lvars
<1>9. ASSUME NEW c \in Conns, c[1] = g PROVE down'[c] = <<>>
  <2>1. CASE c = k BY Zenon, <1>3, <1>5, <2>1
  <2>2. CASE c # k
    <3>1. c[2] # sock[g] BY <1>2, <1>9, <2>2, ConnFacts
    <3>2. down[c] = <<>> BY Zenon, <1>0, <1>9, <3>1 DEF DownOK
    <3> QED BY Zenon, <1>3, <1>5, <2>2, <3>2
  <2> QED BY Zenon, <2>1, <2>2
<1>10. ASSUME NEW h \in Gates
       PROVE  /\ sock'[h] = sock[h] \/ (sock'[h] = 0 /\ \A c \in Conns : c[1] = h => down'[c] = <<>>)
              /\ (sock'[h] = 0) = (reg'[h] = "down")
              /\ reg'[h] = "registering" => reg[h] = "registering" /\ down'[Current(h)] = down[Current(h)]
  <2>1. CASE h = g
    <3>1. sock'[g] = 0 /\ reg'[g] = "down" BY Zenon, <1>0, <1>3 DEF Types, Tables
    <3> QED BY Zenon, <1>9, <2>1, <3>1
  <2>2. CASE h # g
    <3>1. sock'[h] = sock[h] /\ reg'[h] = reg[h] BY Zenon, <1>0, <1>3, <2>2 DEF Types, Tables
    <3>2. Current(h) # k BY Zenon, <1>2, <2>2 DEF Current
    <3>3. down'[Current(h)] = down[Current(h)] BY <1>3, <1>5, <3>2
    <3> QED BY <1>0, <3>1, <3>3, Zenon DEF Numbering
  <2> QED BY Zenon, <2>1, <2>2
<1>11. \A h \in Gates, s \in Services : Serves(h, s)' = Serves(h, s) BY Zenon DEF Serves
<1>12. \A h \in Gates, s \in Services : home'[h][s] = h => Serves(h, s)'
  BY Zenon, <1>0, <1>11 DEF Served
<1>13. /\ mSock' = mSock /\ mOwner' = mOwner /\ bound' = bound /\ sockets' = sockets
       /\ conn' = conn /\ mRestarted' = mRestarted /\ open' \subseteq open
  BY Zenon, <1>3 DEF mvars
<1> QED BY Zenon, <1>4, <1>6, <1>7, <1>8, <1>10, <1>11, <1>12, <1>13, GateStep

\* A gate leaves its connection because its registration was refused, took too
\* long, or the connection is lost.
LEMMA GateLeaves ==
    ASSUME IInv, NEW g \in Gates,
           \/ RecvRegisterAck(g) /\ ~Head(down[Current(g)]).ok
           \/ RegisterTimeout(g) \/ GateLost(g)
    PROVE  IInv'
<1>0. Types BY Zenon DEF IInv
<1>1. CASE RecvRegisterAck(g) /\ ~Head(down[Current(g)]).ok
  <2>1. reg[g] # "down" /\ Hangup(g) BY Zenon, <1>1 DEF RecvRegisterAck, Current
  <2>2. UNCHANGED <<mvars, up, conn, home, ron, objs, lvars, mRestarted>> /\ faults' = faults
    BY Zenon, <1>1 DEF RecvRegisterAck, Current, hvars
  <2>3. faults' \in 0..MaxFaults BY Zenon, <1>0, <2>2 DEF Types, Tables
  <2> QED BY Zenon, <2>1, <2>2, <2>3, HangupInv
<1>2. CASE RegisterTimeout(g)
  <2>1. faults' \in 0..MaxFaults BY Zenon, <1>0, <1>2, FaultFacts DEF RegisterTimeout
  <2>2. /\ reg[g] # "down" /\ Hangup(g)
        /\ UNCHANGED <<mvars, up, conn, home, ron, objs, lvars, mRestarted>>
    BY Zenon, <1>2 DEF RegisterTimeout
  <2> QED BY Zenon, <2>1, <2>2, HangupInv
<1>3. CASE GateLost(g)
  <2>1. faults' \in 0..MaxFaults BY Zenon, <1>0, <1>3 DEF GateLost, hvars, Types, Tables
  <2>2. /\ reg[g] # "down" /\ Hangup(g)
        /\ UNCHANGED <<mvars, up, conn, home, ron, objs, lvars, mRestarted>>
    BY Zenon, <1>3 DEF GateLost, hvars
  <2> QED BY Zenon, <2>1, <2>2, HangupInv
<1> QED BY Zenon, <1>1, <1>2, <1>3

\* The network ends a connection.
LEMMA CutInv ==
    ASSUME IInv, NEW k \in Conns, Cut(k)
    PROVE  IInv'
<1>0. Types /\ Numbering /\ Linked /\ Served BY Zenon DEF IInv
<1>1. faults' \in 0..MaxFaults BY Zenon, <1>0, FaultFacts DEF Cut
<1>2. open' = open \ {k} /\ UNCHANGED <<mvars, up, down, gvars, lvars, mRestarted>> BY Zenon DEF Cut
<1>3. Types' BY Zenon, <1>0, <1>1, <1>2 DEF Types, Tables, mvars, gvars, lvars
<1>4. Linked' BY Zenon, <1>0, <1>2, SameLinked DEF lvars, gvars
<1>5. UpGrows BY Zenon, <1>0, <1>2, SameGrows
<1>6. DownShrinks BY Zenon, <1>0, <1>2 DEF DownShrinks, Types, Tables
<1>7. UNCHANGED <<mSock, mOwner, bound, sockets, conn, mRestarted, sock, reg, home, objs, down>> /\ open' \subseteq open
  BY Zenon, <1>2 DEF mvars, gvars
<1>8. \A h \in Gates, s \in Services : Serves(h, s)' = Serves(h, s) BY Zenon, <1>7 DEF Serves
<1>9. \A h \in Gates, s \in Services : home'[h][s] = h => Serves(h, s)' BY Zenon, <1>0, <1>7, <1>8 DEF Served
<1>10. \A h \in Gates : (sock'[h] = 0) = (reg'[h] = "down") BY <1>0, <1>7, Zenon DEF Numbering
<1> QED BY Zenon, <1>3, <1>4, <1>5, <1>6, <1>7, <1>8, <1>9, <1>10, GateStep

\* A gate starts again with empty tables.
LEMMA GateRestartInv ==
    ASSUME IInv, NEW g \in Gates, GateRestart(g)
    PROVE  IInv'
<1>0. Types /\ Numbering /\ Linked /\ Served BY Zenon DEF IInv
<1>1. faults' \in 0..MaxFaults BY Zenon, <1>0, FaultFacts DEF GateRestart
<1>2. /\ open' = {c \in open : c[1] # g}
      /\ down' = [c \in Conns |-> IF c[1] = g THEN <<>> ELSE down[c]]
      /\ sock' = [sock EXCEPT ![g] = 0] /\ reg' = [reg EXCEPT ![g] = "down"]
      /\ home' = [home EXCEPT ![g] = [s \in Services |-> None]]
      /\ ron' = [ron EXCEPT ![g] = [s \in Services |-> FALSE]]
      /\ objs' = [p \in Processes |-> IF p[1] = g THEN <<>> ELSE objs[p]]
      /\ ended' = [p \in Processes |-> IF p[1] = g THEN 1..nlink[p] ELSE ended[p]]
      /\ lstate' = [p \in Processes |->
                      IF p[1] = g THEN [n \in Links |-> IF n <= nlink[p] THEN "done" ELSE "none"] ELSE lstate[p]]
      /\ att' = [p \in Processes |-> IF p[1] = g THEN [n \in Links |-> 0] ELSE att[p]]
      /\ UNCHANGED <<mSock, mOwner, mOnline, sockets, bound, superseded, up, conn, nlink, mRestarted>>
  BY Zenon DEF GateRestart, mvars
<1>3. Types'
  <2>1. down' \in [Conns -> Seq(DownMsgs)] BY Zenon, <1>0, <1>2, EmptyLen DEF Types, Tables
  <2>2. objs' \in [Processes -> Seq(Entries)] BY Zenon, <1>0, <1>2, EmptyLen DEF Types, Tables
  <2>3. sock' \in [Gates -> Nat] /\ reg' \in [Gates -> {"down", "registering", "ready"}]
    BY Zenon, <1>0, <1>2 DEF Types, Tables
  <2>4. home' \in [Gates -> [Services -> Gates \cup {None}]] /\ ron' \in [Gates -> [Services -> BOOLEAN]]
    BY Zenon, <1>0, <1>2 DEF Types, Tables
  <2>5. ended' \in [Processes -> SUBSET Nat]
    <3>1. \A p \in Processes : 1..nlink[p] \in SUBSET Nat BY <1>0 DEF Types, Tables
    <3> QED BY Zenon, <1>0, <1>2, <3>1 DEF Types, Tables
  <2>6. lstate' \in [Processes -> [Links -> {"none", "asked", "upload", "done"}]] BY Zenon, <1>0, <1>2 DEF Types, Tables
  <2>7. att' \in [Processes -> [Links -> Nat]] BY Zenon, <1>0, <1>2 DEF Types, Tables
  <2>8. open' \subseteq sockets' BY Zenon, <1>0, <1>2 DEF Types, Tables
  <2> QED BY Zenon, <1>0, <1>1, <1>2, <2>1, <2>2, <2>3, <2>4, <2>5, <2>6, <2>7, <2>8 DEF Types, Tables
<1>4. Linked'
  <2>1. ASSUME NEW p \in Processes
        PROVE  nlink'[p] <= MaxLinks[p] /\ ended'[p] \subseteq 1..nlink'[p]
               /\ \A n \in Links : att'[p][n] <= Len(objs'[p])
    <3>1. CASE p[1] = g
      <4>1. ended'[p] = 1..nlink[p] /\ objs'[p] = <<>> /\ \A n \in Links : att'[p][n] = 0 BY Zenon, <1>2, <3>1
      <4>2. Len(objs'[p]) = 0 BY <4>1
      <4> QED BY <1>0, <1>2, <4>1, <4>2 DEF Linked
    <3>2. CASE p[1] # g
      <4>1. ended'[p] = ended[p] /\ objs'[p] = objs[p] /\ att'[p] = att[p] BY Zenon, <1>2, <3>2
      <4> QED BY Zenon, <1>0, <1>2, <4>1 DEF Linked
    <3> QED BY Zenon, <3>1, <3>2
  <2> QED BY Zenon, <2>1 DEF Linked
<1>5. UpGrows BY Zenon, <1>0, <1>2, SameGrows
<1>6. DownShrinks
  <2>1. down' \in [Conns -> Seq(DownMsgs)] BY Zenon, <1>3 DEF Types, Tables
  <2> QED BY Zenon, <1>2, <2>1 DEF DownShrinks
<1>7. ASSUME NEW h \in Gates
      PROVE  /\ sock'[h] = sock[h] \/ (sock'[h] = 0 /\ \A c \in Conns : c[1] = h => down'[c] = <<>>)
             /\ (sock'[h] = 0) = (reg'[h] = "down")
             /\ reg'[h] = "registering" => reg[h] = "registering" /\ down'[Current(h)] = down[Current(h)]
  <2>1. CASE h = g
    <3>1. sock'[g] = 0 /\ reg'[g] = "down" BY Zenon, <1>0, <1>2 DEF Types, Tables
    <3> QED BY Zenon, <1>2, <2>1, <3>1
  <2>2. CASE h # g
    <3>1. sock'[h] = sock[h] /\ reg'[h] = reg[h] BY Zenon, <1>0, <1>2, <2>2 DEF Types, Tables
    <3>2. ASSUME reg[h] = "registering" PROVE down'[Current(h)] = down[Current(h)]
      <4>1. sock[h] # 0 BY <1>0, <3>2, Zenon DEF Numbering
      <4>2. Current(h) \in Conns /\ Current(h)[1] = h BY Zenon, <1>0, <4>1, CurrentConn
      <4> QED BY <1>2, <2>2, <4>2, Zenon
    <3> QED BY <1>0, <3>1, <3>2, Zenon DEF Numbering
  <2> QED BY Zenon, <2>1, <2>2
<1>8. ASSUME NEW h \in Gates, NEW s \in Services
      PROVE  (home'[h][s] = h => Serves(h, s)') /\ (Serves(h, s)' => Serves(h, s))
  <2>1. <<h, s>> \in Processes /\ <<h, s>>[1] = h BY Zenon, ProcessFacts
  <2>2. CASE h = g
    <3>1. home'[g][s] = None BY Zenon, <1>0, <1>2 DEF Types, Tables
    <3>2. objs'[<<h, s>>] = <<>> BY <1>2, <2>1, <2>2, Zenon
    <3>3. None # g BY Zenon, DiscoveryAssumption
    <3> QED BY Zenon, <2>2, <3>1, <3>2, <3>3 DEF Serves
  <2>3. CASE h # g
    <3>1. home'[h] = home[h] BY Zenon, <1>0, <1>2, <2>3 DEF Types, Tables
    <3>2. objs'[<<h, s>>] = objs[<<h, s>>] BY <1>2, <2>1, <2>3, Zenon
    <3> QED BY Zenon, <1>0, <3>1, <3>2 DEF Serves, Served
  <2> QED BY Zenon, <2>2, <2>3
<1>9. open' \subseteq open BY <1>2, Zenon
<1> QED BY <1>2, <1>3, <1>4, <1>5, <1>6, <1>7, <1>8, <1>9, GateStep, Zenon

\* A gate reads the next message of its connection.
LEMMA NextMessage ==
    ASSUME IInv, NEW g \in Gates, reg[g] # "down", down[Current(g)] # <<>>,
           down' = [down EXCEPT ![Current(g)] = Tail(@)]
    PROVE  /\ sock[g] # 0 /\ Current(g) \in Conns /\ Current(g)[1] = g
           /\ DownShrinks /\ ~Unread(Current(g))
           /\ Head(down[Current(g)]) \in DownMsgs /\ InfoOK(Current(g), Head(down[Current(g)]))
           /\ \A h \in Gates : h # g /\ sock[h] # 0 => down'[Current(h)] = down[Current(h)]
<1>0. Types /\ Numbering /\ UpOK /\ DownOK BY Zenon DEF IInv
<1>1. sock[g] # 0 BY <1>0, Zenon DEF Numbering
<1>2. PICK c \in Conns : c = Current(g) /\ c[1] = g BY Zenon, <1>0, <1>1, CurrentConn
<1>3. down \in [Conns -> Seq(DownMsgs)] BY Zenon, <1>0 DEF Types, Tables
<1>4. down[c] \in Seq(DownMsgs) /\ down[c] # <<>> BY Zenon, <1>2, <1>3
<1>5. down' = [down EXCEPT ![c] = Tail(down[c])] BY Zenon, <1>2
<1>6. Tail(down[c]) \in Seq(DownMsgs) /\ Head(down[c]) \in DownMsgs BY Zenon, <1>4, TailIndex
<1>7. DownShrinks
  <2>1. down' \in [Conns -> Seq(DownMsgs)] BY Zenon, <1>3, <1>5, <1>6
  <2>2. \A k \in Conns : down'[k] = down[k] \/ (down[k] # <<>> /\ down'[k] = Tail(down[k]))
    BY Zenon, <1>3, <1>4, <1>5
  <2> QED BY Zenon, <2>1, <2>2 DEF DownShrinks
<1>8. ~Unread(c) BY Zenon, <1>0, <1>4 DEF UpOK
<1>9. InfoOK(c, Head(down[c]))
  <2>1. Len(down[c]) \in Nat \ {0} BY Zenon, <1>4, EmptyLen
  <2>2. 1 \in 1..Len(down[c]) /\ Head(down[c]) = down[c][1] BY <1>4, <2>1
  <2> QED BY Zenon, <1>0, <2>2 DEF DownOK
<1>10. ASSUME NEW h \in Gates, h # g, sock[h] # 0 PROVE down'[Current(h)] = down[Current(h)]
  <2>1. Current(h) \in Conns /\ Current(h)[1] = h BY Zenon, <1>0, <1>10, CurrentConn
  <2>2. Current(h) # c BY Zenon, <1>2, <1>10, <2>1
  <2> QED BY Zenon, <1>3, <1>5, <2>1, <2>2
<1> QED BY <1>1, <1>2, <1>6, <1>7, <1>8, <1>9, <1>10, Zenon

\* master_connector::add_remote_gate adds no service to the ones the gate
\* serves, and sends back only requests about services.
LEMMA AddRemoteFacts ==
    ASSUME IInv, NEW g \in Gates, NEW svc \in Infos,
           \A s \in Services : svc[s] # None => svc[s][1] # g, AddRemoteGates(g, svc)
    PROVE  /\ UpGrows
           /\ home' \in [Gates -> [Services -> Gates \cup {None}]]
           /\ ron' \in [Gates -> [Services -> BOOLEAN]]
           /\ objs' \in [Processes -> Seq(Entries)]
           /\ \A p \in Processes : Len(objs'[p]) = Len(objs[p]) /\ (objs'[p] = <<>>) = (objs[p] = <<>>)
           /\ \A h \in Gates, s \in Services : home'[h][s] = h => home[h][s] = h
<1>0. Types /\ Numbering BY Zenon DEF IInv
<1>1. home \in [Gates -> [Services -> Gates \cup {None}]] /\ ron \in [Gates -> [Services -> BOOLEAN]]
      /\ objs \in [Processes -> Seq(Entries)]
  BY Zenon, <1>0 DEF Types, Tables
<1>2. \A s \in Services : svc[s] # None => svc[s][1] \in Gates /\ svc[s][2] \in BOOLEAN BY Zenon DEF Infos
<1>3. PICK told : told = {s \in Services : svc[s] # None} BY Zenon
<1>4. /\ home' = [home EXCEPT ![g] = [s \in Services |-> IF s \in told /\ @[s] = None THEN svc[s][1] ELSE @[s]]]
      /\ ron' = [ron EXCEPT ![g] = [s \in Services |-> IF s \in told /\ home[g][s] # g THEN svc[s][2] ELSE @[s]]]
      /\ objs' = [p \in Processes |-> IF p[1] = g /\ p[2] \in told /\ home[g][p[2]] = g
                                      THEN [objs[p] EXCEPT ![1].on = svc[p[2]][2]] ELSE objs[p]]
  BY Zenon, <1>3 DEF AddRemoteGates, AddRemoteServices
<1>5. UpGrows
  <2>1. PICK mine : mine = {s \in Services : svc[s] # None /\ home[g][s] = g} BY Zenon
  <2>4. \A n \in 0..Cardinality(Services) : n \in Nat BY DiscoveryAssumption
  <2>5. PICK N \in Nat : \E own \in Bijection(1..N, mine) :
              Upload(g, [i \in DOMAIN own |-> Update(own[i], svc[own[i]][2], 0)])
    BY <2>1, <2>4, Zenon DEF AddRemoteGates
  <2>13. PICK own \in Bijection(1..N, mine) : Upload(g, [i \in DOMAIN own |-> Update(own[i], svc[own[i]][2], 0)])
    BY Zenon, <2>5
  <2>6. own \in [1..N -> mine] BY Zenon, <2>13 DEF Bijection, Injection
  <2>7. PICK ms : ms = [i \in 1..N |-> Update(own[i], svc[own[i]][2], 0)] BY Zenon
  <2>8. ASSUME NEW i \in 1..N PROVE ms[i] \in UpMsgs /\ IsUpdate(ms[i])
    <3>1. own[i] \in Services /\ svc[own[i]][2] \in BOOLEAN BY Zenon, <1>2, <2>1, <2>6
    <3>2. 0 \in Links \cup {0} BY Zenon
    <3>3. ms[i] = Update(own[i], svc[own[i]][2], 0) BY Zenon, <2>7
    <3> QED BY <3>1, <3>2, <3>3, RequestFacts
  <2>9. ms \in [1..N -> UpMsgs] BY Zenon, <2>7, <2>8
  <2>10. ms \in Seq(UpMsgs) /\ Len(ms) = N BY <2>9
  <2>11. Upload(g, ms)
    <3>1. DOMAIN own = 1..N BY Zenon, <2>6
    <3> QED BY Zenon, <2>13, <2>7, <3>1
  <2>12. \A i \in 1..Len(ms) : IsUpdate(ms[i]) BY Zenon, <2>8, <2>10
  <2> QED BY Zenon, <1>0, <2>10, <2>11, <2>12, UploadGrows
<1>6. home' \in [Gates -> [Services -> Gates \cup {None}]] BY Zenon, <1>1, <1>2, <1>3, <1>4
<1>7. ron' \in [Gates -> [Services -> BOOLEAN]] BY Zenon, <1>1, <1>2, <1>3, <1>4
<1>8. ASSUME NEW p \in Processes
      PROVE  objs'[p] \in Seq(Entries) /\ Len(objs'[p]) = Len(objs[p]) /\ (objs'[p] = <<>>) = (objs[p] = <<>>)
  <2>1. objs[p] \in Seq(Entries) BY Zenon, <1>1
  <2>2. CASE p[1] = g /\ p[2] \in told /\ home[g][p[2]] = g
    <3>1. PICK b \in BOOLEAN : b = svc[p[2]][2] BY Zenon, <1>2, <1>3, <2>2
    <3>2. objs'[p] = [objs[p] EXCEPT ![1].on = b] BY Zenon, <1>4, <2>2, <3>1
    <3>3. PICK e : e = [objs[p][1] EXCEPT !.on = b] BY Zenon
    <3>4. objs'[p] = [objs[p] EXCEPT ![1] = e] BY Zenon, <3>2, <3>3
    <3>5. CASE objs[p] = <<>>
      <4>1. objs'[p] = <<>> BY <3>4, <3>5
      <4> QED BY Zenon, <2>1, <3>5, <4>1
    <3>6. CASE objs[p] # <<>>
      <4>1. Len(objs[p]) \in Nat \ {0} BY Zenon, <2>1, <3>6, EmptyLen
      <4>2. objs[p][1] \in Entries BY <2>1, <4>1, ElementFacts
      <4>3. e \in Entries BY Zenon, <3>3, <4>2 DEF Entries
      <4>4. objs[p] \in [1..Len(objs[p]) -> Entries] BY Zenon, <2>1, LenFacts
      <4>5. objs'[p] \in [1..Len(objs[p]) -> Entries] BY <3>4, <4>3, <4>4, Zenon
      <4>6. objs'[p] \in Seq(Entries) /\ Len(objs'[p]) = Len(objs[p]) BY <4>1, <4>5
      <4> QED BY Zenon, <3>6, <4>1, <4>6
    <3> QED BY Zenon, <3>5, <3>6
  <2>3. CASE ~(p[1] = g /\ p[2] \in told /\ home[g][p[2]] = g)
    <3>1. objs'[p] = objs[p] BY Zenon, <1>4, <2>3
    <3> QED BY Zenon, <2>1, <3>1
  <2> QED BY Zenon, <2>2, <2>3
<1>9. objs' \in [Processes -> Seq(Entries)] BY Zenon, <1>4, <1>8
<1>10. ASSUME NEW h \in Gates, NEW s \in Services, home'[h][s] = h PROVE home[h][s] = h
  <2>1. CASE h = g /\ s \in told /\ home[g][s] = None
    <3>1. home'[g][s] = svc[s][1] BY Zenon, <1>1, <1>4, <2>1
    <3>2. svc[s][1] # g BY Zenon, <1>3, <2>1
    <3> QED BY Zenon, <1>10, <2>1, <3>1, <3>2
  <2>2. CASE ~(h = g /\ s \in told /\ home[g][s] = None)
    <3>1. home'[h][s] = home[h][s] BY Zenon, <1>1, <1>4, <2>2
    <3> QED BY Zenon, <1>10, <3>1
  <2> QED BY Zenon, <2>1, <2>2
<1> QED BY Zenon, <1>5, <1>6, <1>7, <1>8, <1>9, <1>10

\* A gate takes the services of other gates from the answer to its
\* registration or from a broadcast.
LEMMA LearnInv ==
    ASSUME IInv, NEW g \in Gates,
           (RecvRegisterAck(g) /\ Head(down[Current(g)]).ok) \/ RecvBroadcast(g)
    PROVE  IInv'
<1>0. Types /\ Numbering /\ Linked /\ Served BY Zenon DEF IInv
<1>1. PICK m : m = Head(down[Current(g)]) BY Zenon
<1>2. /\ reg[g] # "down" /\ down[Current(g)] # <<>> /\ down' = [down EXCEPT ![Current(g)] = Tail(@)]
      /\ AddRemoteGates(g, m.svc) /\ reg' = [reg EXCEPT ![g] = "ready"]
      /\ UNCHANGED <<mvars, open, conn, sock, lvars, hvars>>
  <2>1. CASE RecvRegisterAck(g) /\ Head(down[Current(g)]).ok BY <1>1, <2>1, Zenon DEF RecvRegisterAck, Current
  <2>2. CASE RecvBroadcast(g)
    <3>1. reg[g] = "ready" /\ reg' = reg BY Zenon, <2>2 DEF RecvBroadcast
    <3>2. reg' = [reg EXCEPT ![g] = "ready"] BY Zenon, <1>0, <3>1 DEF Types, Tables
    <3> QED BY <1>1, <2>2, <3>1, <3>2, Zenon DEF RecvBroadcast, Current
  <2> QED BY Zenon, <2>1, <2>2
<1>3. /\ sock[g] # 0 /\ Current(g)[1] = g /\ DownShrinks /\ m \in DownMsgs /\ InfoOK(Current(g), m)
      /\ \A h \in Gates : h # g /\ sock[h] # 0 => down'[Current(h)] = down[Current(h)]
  BY <1>1, <1>2, NextMessage, Zenon
<1>4. m.svc \in Infos BY Zenon, <1>3 DEF DownMsgs
<1>5. \A s \in Services : m.svc[s] # None => m.svc[s][1] # g BY Zenon, <1>3 DEF InfoOK
<1>6. /\ UpGrows
      /\ home' \in [Gates -> [Services -> Gates \cup {None}]] /\ ron' \in [Gates -> [Services -> BOOLEAN]]
      /\ objs' \in [Processes -> Seq(Entries)]
      /\ \A p \in Processes : Len(objs'[p]) = Len(objs[p]) /\ (objs'[p] = <<>>) = (objs[p] = <<>>)
      /\ \A h \in Gates, s \in Services : home'[h][s] = h => home[h][s] = h
  BY Zenon, <1>2, <1>4, <1>5, AddRemoteFacts
<1>7. UNCHANGED <<mSock, mOwner, mOnline, sockets, bound, superseded, open, conn, sock,
                  nlink, lstate, ended, att, faults, mRestarted>>
  BY Zenon, <1>2 DEF mvars, lvars, hvars
<1>8. Types'
  <2>1. reg' \in [Gates -> {"down", "registering", "ready"}] BY Zenon, <1>0, <1>2 DEF Types, Tables
  <2>2. up' \in [Conns -> Seq(UpMsgs)] /\ down' \in [Conns -> Seq(DownMsgs)]
    BY <1>3, <1>6, Zenon DEF UpGrows, DownShrinks
  <2> QED BY Zenon, <1>0, <1>6, <1>7, <2>1, <2>2 DEF Types, Tables
<1>9. Linked' BY Zenon, <1>0, <1>6, <1>7 DEF Linked
<1>10. ASSUME NEW h \in Gates
       PROVE  /\ (sock'[h] = 0) = (reg'[h] = "down")
              /\ reg'[h] = "registering" => reg[h] = "registering" /\ down'[Current(h)] = down[Current(h)]
  <2>1. CASE h = g
    <3>1. reg'[g] = "ready" BY Zenon, <1>0, <1>2 DEF Types, Tables
    <3> QED BY <1>3, <1>7, <2>1, <3>1, Zenon
  <2>2. CASE h # g
    <3>1. reg'[h] = reg[h] BY Zenon, <1>0, <1>2, <2>2 DEF Types, Tables
    <3>2. (sock[h] = 0) = (reg[h] = "down") BY <1>0, Zenon DEF Numbering
    <3> QED BY Zenon, <1>3, <1>7, <2>2, <3>1, <3>2
  <2> QED BY Zenon, <2>1, <2>2
<1>11. ASSUME NEW h \in Gates, NEW s \in Services
       PROVE  Serves(h, s)' = Serves(h, s) /\ (home'[h][s] = h => Serves(h, s)')
  <2>1. <<h, s>> \in Processes BY Zenon, ProcessFacts
  <2>2. Serves(h, s)' = Serves(h, s) BY <1>6, <2>1, Zenon DEF Serves
  <2> QED BY <1>0, <1>6, <2>2, Zenon DEF Served
<1>12. open' \subseteq open /\ \A h \in Gates : sock'[h] = sock[h] BY Zenon, <1>7
<1> QED BY <1>3, <1>6, <1>7, <1>8, <1>9, <1>10, <1>11, <1>12, GateStep, Zenon

-----------------------------------------------------------------------------
(* The processes of the services *)

\* A step of a process, or an answer for it, while the gates stay on their
\* connections.
LEMMA LocalStep ==
    ASSUME IInv, UpGrows, DownShrinks, Types', Linked',
           UNCHANGED <<mvars, open, conn, sock, reg, mRestarted>>,
           \A h \in Gates : reg[h] = "registering" => down'[Current(h)] = down[Current(h)],
           \A h \in Gates, s \in Services :
              /\ home'[h][s] = h => Serves(h, s)'
              /\ Serves(h, s)' /\ ~Serves(h, s) =>
                    /\ ~mRestarted \/ Current(h) \in bound => mOwner[s] = h
                    /\ ~Unread(Current(h))
    PROVE  IInv'
<1>1. UNCHANGED <<mSock, mOwner, bound, sockets>> /\ open' \subseteq open BY Zenon DEF mvars
<1>2. \A h \in Gates : (sock[h] = 0) = (reg[h] = "down") BY Zenon DEF IInv, Numbering
<1>3. \A h \in Gates :
          /\ sock'[h] = sock[h]
          /\ (sock'[h] = 0) = (reg'[h] = "down")
          /\ reg'[h] = "registering" => reg[h] = "registering" /\ down'[Current(h)] = down[Current(h)]
  BY Zenon, <1>2
<1> QED BY <1>1, <1>3, GateStep, Zenon

\* One request about a service is uploaded.
LEMMA UploadOne ==
    ASSUME Types, Numbering, NEW p \in Processes, NEW on \in BOOLEAN, NEW n \in Links \cup {0},
           Upload(p[1], <<Update(p[2], on, n)>>)
    PROVE  UpGrows
<1>1. p[1] \in Gates /\ p[2] \in Services BY Zenon, ProcessFacts
<1>2. PICK u \in UpMsgs : u = Update(p[2], on, n) /\ IsUpdate(u) BY <1>1, RequestFacts
<1>3. PICK ms : ms = <<u>> BY Zenon
<1>4. ms \in Seq(UpMsgs) /\ 1..Len(ms) = {1} /\ ms[1] = u BY <1>3
<1>5. \A j \in 1..Len(ms) : IsUpdate(ms[j]) BY Zenon, <1>2, <1>4
<1>6. Upload(p[1], ms) BY Zenon, <1>2, <1>3
<1> QED BY Zenon, <1>1, <1>4, <1>5, <1>6, UploadGrows

\* The end of service_register: an entry changes, and no other process is
\* touched.
LEMMA AttachFacts ==
    ASSUME Types, Numbering, Linked, NEW p \in Processes, NEW n \in Links, NEW entries \in Seq(Entries),
           NEW i \in 1..Len(entries), Len(objs[p]) <= Len(entries), Attach(p, n, entries, i),
           UNCHANGED <<nlink, ended>>
    PROVE  /\ UpGrows /\ Linked'
           /\ objs' \in [Processes -> Seq(Entries)] /\ objs'[p] # <<>>
           /\ \A q \in Processes : q # p => objs'[q] = objs[q]
           /\ att' \in [Processes -> [Links -> Nat]]
           /\ lstate' \in [Processes -> [Links -> {"none", "asked", "upload", "done"}]]
<1>1. PICK e : e = [sock |-> IF n \in ended[p] THEN 0 ELSE n, on |-> TRUE] BY Zenon
<1>2. e \in Entries BY Zenon, <1>1 DEF Entries
<1>3. PICK t : t = [entries EXCEPT ![i] = e] BY Zenon
<1>4. Len(entries) \in Nat /\ entries \in [1..Len(entries) -> Entries] BY Zenon, LenFacts
<1>5. t \in [1..Len(entries) -> Entries] BY Zenon, <1>2, <1>3, <1>4
<1>6. t \in Seq(Entries) /\ Len(t) = Len(entries) BY <1>4, <1>5
<1>7. t # <<>> BY <1>4, <1>6
<1>8. /\ objs' = [objs EXCEPT ![p] = t] /\ att' = [att EXCEPT ![p][n] = i]
      /\ lstate' = [lstate EXCEPT ![p][n] = "done"]
      /\ Upload(p[1], <<Update(p[2], TRUE, 0)>>)
  BY Zenon, <1>1, <1>3 DEF Attach
<1>9. /\ objs \in [Processes -> Seq(Entries)] /\ att \in [Processes -> [Links -> Nat]]
      /\ lstate \in [Processes -> [Links -> {"none", "asked", "upload", "done"}]]
  BY Zenon DEF Types, Tables
<1>10. objs' \in [Processes -> Seq(Entries)] /\ objs'[p] = t BY Zenon, <1>6, <1>8, <1>9
<1>11. \A q \in Processes : q # p => objs'[q] = objs[q] BY Zenon, <1>8, <1>9
<1>12. i \in Nat BY <1>4
<1>13. att' \in [Processes -> [Links -> Nat]] BY Zenon, <1>8, <1>9, <1>12
<1>14. lstate' \in [Processes -> [Links -> {"none", "asked", "upload", "done"}]] BY Zenon, <1>8, <1>9
<1>15. UpGrows
  <2>1. TRUE \in BOOLEAN /\ 0 \in Links \cup {0} BY Zenon
  <2> QED BY <1>8, <2>1, UploadOne, Zenon
<1>16. Linked'
  <2>1. ASSUME NEW q \in Processes, NEW m \in Links PROVE att'[q][m] <= Len(objs'[q])
    <3>1. att[q][m] <= Len(objs[q]) BY Zenon DEF Linked
    <3>2. CASE q = p
      <4>1. att'[p][m] = IF m = n THEN i ELSE att[p][m] BY Zenon, <1>8, <1>9
      <4>2. Len(objs'[p]) = Len(entries) BY Zenon, <1>6, <1>10
      <4>3. att[p][m] \in Nat /\ Len(objs[p]) \in Nat BY <1>9, LenFacts
      <4> QED BY <1>4, <3>1, <3>2, <4>1, <4>2, <4>3
    <3>3. CASE q # p
      <4>1. att'[q] = att[q] BY Zenon, <1>8, <1>9, <3>3
      <4> QED BY Zenon, <1>11, <3>1, <3>3, <4>1
    <3> QED BY Zenon, <3>2, <3>3
  <2> QED BY <2>1, Zenon DEF Linked
<1> QED BY Zenon, <1>7, <1>10, <1>11, <1>13, <1>14, <1>15, <1>16

\* Nothing is read from the master.
LEMMA SameDown ==
    ASSUME Types, down' = down
    PROVE  DownShrinks
BY DEF Types, Tables, DownShrinks

\* A process links itself to its gate.
LEMMA LinkOpenInv ==
    ASSUME IInv, NEW p \in Processes, LinkOpen(p)
    PROVE  IInv'
<1>0. Types /\ Numbering /\ Linked /\ Served BY Zenon DEF IInv
<1>1. nlink[p] < MaxLinks[p] /\ nlink' = [nlink EXCEPT ![p] = @ + 1]
      /\ lstate' = [lstate EXCEPT ![p][nlink[p] + 1] = "asked"]
      /\ UNCHANGED <<mvars, nvars, gvars, ended, att, mRestarted>>
  BY Zenon DEF LinkOpen
<1>2. faults' \in 0..MaxFaults
  <2>1. CASE UNCHANGED faults BY Zenon, <1>0, <2>1 DEF Types, Tables
  <2>2. CASE Fault BY Zenon, <1>0, <2>2, FaultFacts
  <2> QED BY Zenon, <2>1, <2>2 DEF LinkOpen
<1>3. UNCHANGED <<mSock, mOwner, mOnline, sockets, bound, superseded, open, up, down, conn, sock, reg,
                  home, ron, objs, ended, att, mRestarted>>
  BY Zenon, <1>1 DEF mvars, nvars, gvars
<1>4. MaxLinks[p] \in Nat BY Zenon, DiscoveryAssumption DEF Processes
<1>5. Types'
  <2>1. nlink' \in [Processes -> Nat] BY <1>0, <1>1 DEF Types, Tables
  <2>2. lstate' \in [Processes -> [Links -> {"none", "asked", "upload", "done"}]]
    BY <1>0, <1>1, Zenon DEF Types, Tables
  <2> QED BY Zenon, <1>0, <1>2, <1>3, <2>1, <2>2 DEF Types, Tables
<1>6. Linked'
  <2>1. ASSUME NEW q \in Processes
        PROVE  nlink'[q] <= MaxLinks[q] /\ ended'[q] \subseteq 1..nlink'[q]
    <3>1. CASE q = p
      <4>1. nlink[p] \in Nat /\ nlink'[p] = nlink[p] + 1 BY Zenon, <1>0, <1>1 DEF Types, Tables
      <4>2. ended[p] \subseteq 1..nlink[p] BY Zenon, <1>0 DEF Linked
      <4>3. 1..nlink[p] \subseteq 1..(nlink[p] + 1) BY <4>1
      <4> QED BY <1>1, <1>3, <1>4, <3>1, <4>1, <4>2, <4>3
    <3>2. CASE q # p
      <4>1. nlink'[q] = nlink[q] BY Zenon, <1>0, <1>1, <3>2 DEF Types, Tables
      <4> QED BY Zenon, <1>0, <1>3, <4>1 DEF Linked
    <3> QED BY Zenon, <3>1, <3>2
  <2> QED BY Zenon, <1>0, <1>3, <2>1 DEF Linked
<1>7. UpGrows /\ DownShrinks BY Zenon, <1>0, <1>3, SameGrows, SameDown
<1>8. \A h \in Gates, s \in Services : Serves(h, s)' = Serves(h, s) /\ (home'[h][s] = h => Serves(h, s)')
  BY <1>0, <1>3, Zenon DEF Serves, Served
<1>9. UNCHANGED <<mvars, open, conn, sock, reg, mRestarted>> BY Zenon, <1>3 DEF mvars
<1> QED BY <1>3, <1>5, <1>6, <1>7, <1>8, <1>9, LocalStep, Zenon

\* service_register up to its first suspension: an entry that exists takes the
\* link, or the master is asked.
LEMMA ServiceRegisterInv ==
    ASSUME IInv, NEW p \in Processes, NEW n \in Links, ServiceRegister(p, n)
    PROVE  IInv'
<1>0. Types /\ Numbering /\ Linked /\ Served BY Zenon DEF IInv
<1>1. UNCHANGED <<mSock, mOwner, mOnline, sockets, bound, superseded, open, down, conn, sock, reg,
                  home, ron, nlink, ended, faults, mRestarted>>
  BY Zenon DEF ServiceRegister, mvars, hvars
<1>2. p[1] \in Gates /\ p[2] \in Services /\ p = <<p[1], p[2]>> BY Zenon, ProcessFacts
<1>3. objs \in [Processes -> Seq(Entries)] BY Zenon, <1>0 DEF Types, Tables
<1>4. /\ UpGrows /\ Linked' /\ objs' \in [Processes -> Seq(Entries)]
      /\ att' \in [Processes -> [Links -> Nat]]
      /\ lstate' \in [Processes -> [Links -> {"none", "asked", "upload", "done"}]]
      /\ \A q \in Processes : (objs'[q] = <<>>) = (objs[q] = <<>>)
  <2>1. CASE /\ Upload(p[1], <<Update(p[2], FALSE, n)>>)
             /\ lstate' = [lstate EXCEPT ![p][n] = "upload"]
             /\ UNCHANGED <<objs, att>>
    <3>1. FALSE \in BOOLEAN /\ n \in Links \cup {0} BY Zenon
    <3>2. UpGrows BY <1>0, <2>1, <3>1, UploadOne, Zenon
    <3>3. Linked' BY Zenon, <1>0, <1>1, <2>1, SameLinked
    <3>4. lstate' \in [Processes -> [Links -> {"none", "asked", "upload", "done"}]] BY Zenon, <1>0, <2>1 DEF Types, Tables
    <3> QED BY Zenon, <1>0, <2>1, <3>2, <3>3, <3>4 DEF Types, Tables
  <2>2. CASE home[p[1]][p[2]] = p[1] /\ Attach(p, n, objs[p], 1)
    <3>1. objs[p] # <<>> BY Zenon, <1>0, <1>2, <2>2 DEF Served, Serves
    <3>2. objs[p] \in Seq(Entries) BY Zenon, <1>3
    <3>3. Len(objs[p]) \in Nat \ {0} BY Zenon, <3>1, <3>2, EmptyLen
    <3>4. 1 \in 1..Len(objs[p]) /\ Len(objs[p]) <= Len(objs[p]) BY <3>3
    <3>5. /\ UpGrows /\ Linked' /\ objs' \in [Processes -> Seq(Entries)] /\ objs'[p] # <<>>
          /\ \A q \in Processes : q # p => objs'[q] = objs[q]
          /\ att' \in [Processes -> [Links -> Nat]]
          /\ lstate' \in [Processes -> [Links -> {"none", "asked", "upload", "done"}]]
      BY Zenon, <1>0, <1>1, <2>2, <3>2, <3>4, AttachFacts
    <3>6. \A q \in Processes : (objs'[q] = <<>>) = (objs[q] = <<>>) BY Zenon, <3>1, <3>5
    <3> QED BY Zenon, <3>5, <3>6
  <2>3. CASE lstate' = [lstate EXCEPT ![p][n] = "done"] /\ UNCHANGED <<up, objs, att>>
    <3>1. UpGrows BY Zenon, <1>0, <2>3, SameGrows
    <3>2. Linked' BY Zenon, <1>0, <1>1, <2>3, SameLinked
    <3>3. lstate' \in [Processes -> [Links -> {"none", "asked", "upload", "done"}]] BY Zenon, <1>0, <2>3 DEF Types, Tables
    <3> QED BY Zenon, <1>0, <2>3, <3>1, <3>2, <3>3 DEF Types, Tables
  <2> QED BY <2>1, <2>2, <2>3, Zenon DEF ServiceRegister
<1>5. DownShrinks BY Zenon, <1>0, <1>1, SameDown
<1>6. Types'
  <2>1. up' \in [Conns -> Seq(UpMsgs)] BY <1>4, Zenon DEF UpGrows
  <2> QED BY Zenon, <1>0, <1>1, <1>4, <2>1 DEF Types, Tables
<1>7. ASSUME NEW h \in Gates, NEW s \in Services
      PROVE  Serves(h, s)' = Serves(h, s) /\ (home'[h][s] = h => Serves(h, s)')
  <2>1. <<h, s>> \in Processes BY Zenon, ProcessFacts
  <2>2. Serves(h, s)' = Serves(h, s) BY Zenon, <1>4, <2>1 DEF Serves
  <2> QED BY <1>0, <1>1, <2>2, Zenon DEF Served
<1>8. UNCHANGED <<mvars, open, conn, sock, reg, mRestarted>> BY Zenon, <1>1 DEF mvars
<1> QED BY Zenon, <1>1, <1>4, <1>5, <1>6, <1>7, <1>8, LocalStep

\* The master's answer to an upload: the service is added to the gate when the
\* master has given it to the gate, and the link still waits.
LEMMA RecvUpdateAckInv ==
    ASSUME IInv, NEW g \in Gates, RecvUpdateAck(g)
    PROVE  IInv'
<1>0. Types /\ Numbering /\ Linked /\ Served BY Zenon DEF IInv
<1>1. PICK m : m = Head(down[Current(g)]) BY Zenon
<1>2. PICK p : p = <<g, m.id>> BY Zenon
<1>3. /\ reg[g] = "ready" /\ down[Current(g)] # <<>> /\ m.kind = "uack"
      /\ down' = [down EXCEPT ![Current(g)] = Tail(@)]
      /\ UNCHANGED <<mSock, mOwner, mOnline, sockets, bound, superseded, open, conn, sock, reg,
                     ron, nlink, ended, faults, mRestarted>>
  BY Zenon, <1>1 DEF RecvUpdateAck, Current, mvars, hvars
<1>4. IF lstate[p][m.link] = "upload" THEN Acked(p, m.link, m.ok) ELSE UNCHANGED <<home, objs, att, lstate, up>>
  BY Zenon, <1>1, <1>2 DEF RecvUpdateAck, Current
<1>5. /\ Current(g) \in Conns /\ Current(g)[1] = g
      /\ DownShrinks /\ ~Unread(Current(g)) /\ m \in DownMsgs /\ InfoOK(Current(g), m)
      /\ \A h \in Gates : h # g /\ sock[h] # 0 => down'[Current(h)] = down[Current(h)]
  BY <1>1, <1>3, NextMessage, Zenon
<1>6. /\ m.id \in Services /\ m.link \in Links
      /\ m.ok /\ (~mRestarted \/ Current(g) \in bound) => mOwner[m.id] = g
  BY Zenon, <1>3, <1>5 DEF InfoOK
<1>7. p \in Processes /\ p[1] = g /\ p[2] = m.id BY Zenon, <1>2, <1>6, ProcessFacts
<1>8. ASSUME NEW h \in Gates, reg[h] = "registering" PROVE down'[Current(h)] = down[Current(h)]
  <2>1. h # g /\ sock[h] # 0 BY <1>0, <1>3, <1>8, Zenon DEF Numbering
  <2> QED BY Zenon, <1>5, <2>1
<1>9. UNCHANGED <<mvars, open, conn, sock, reg, mRestarted>> BY Zenon, <1>3 DEF mvars
<1>10. CASE UNCHANGED <<home, objs, att, up>>
            /\ lstate' \in [Processes -> [Links -> {"none", "asked", "upload", "done"}]]
  <2>1. UpGrows BY Zenon, <1>0, <1>10, SameGrows
  <2>2. Linked' BY Zenon, <1>0, <1>3, <1>10, SameLinked
  <2>3. Types'
    <3>1. down' \in [Conns -> Seq(DownMsgs)] BY <1>5, Zenon DEF DownShrinks
    <3> QED BY Zenon, <1>0, <1>3, <1>10, <3>1 DEF Types, Tables
  <2>4. \A h \in Gates, s \in Services : Serves(h, s)' = Serves(h, s) /\ (home'[h][s] = h => Serves(h, s)')
    BY <1>0, <1>10, Zenon DEF Serves, Served
  <2> QED BY <1>5, <1>8, <1>9, <2>1, <2>2, <2>3, <2>4, LocalStep, Zenon
<1>11. CASE m.ok /\ AddLocalService(p, m.link)
  <2>1. PICK e : e = [sock |-> 0, on |-> FALSE] BY Zenon
  <2>2. e \in Entries /\ objs[p] \in Seq(Entries) BY <1>0, <1>7, <2>1, Zenon DEF Entries, Types, Tables
  <2>3. PICK entries : entries = Append(objs[p], e) BY Zenon
  <2>4. entries \in Seq(Entries) /\ Len(entries) = Len(objs[p]) + 1 /\ Len(objs[p]) \in Nat
    BY <2>2, <2>3, AppendIndex, LenFacts
  <2>5. /\ home' = IF home[g][m.id] = None THEN [home EXCEPT ![g][m.id] = g] ELSE home
        /\ Attach(p, m.link, entries, Len(entries))
    BY Zenon, <1>7, <1>11, <2>1, <2>3 DEF AddLocalService
  <2>6. Len(entries) \in 1..Len(entries) /\ Len(objs[p]) <= Len(entries) BY <2>4
  <2>7. /\ UpGrows /\ Linked' /\ objs' \in [Processes -> Seq(Entries)] /\ objs'[p] # <<>>
        /\ \A q \in Processes : q # p => objs'[q] = objs[q]
        /\ att' \in [Processes -> [Links -> Nat]]
        /\ lstate' \in [Processes -> [Links -> {"none", "asked", "upload", "done"}]]
    BY Zenon, <1>0, <1>3, <1>6, <1>7, <2>4, <2>5, <2>6, AttachFacts
  <2>8. Types'
    <3>1. home' \in [Gates -> [Services -> Gates \cup {None}]] BY Zenon, <1>0, <1>6, <2>5 DEF Types, Tables
    <3>2. up' \in [Conns -> Seq(UpMsgs)] /\ down' \in [Conns -> Seq(DownMsgs)]
      BY <1>5, <2>7, Zenon DEF UpGrows, DownShrinks
    <3> QED BY Zenon, <1>0, <1>3, <2>7, <3>1, <3>2 DEF Types, Tables
  <2>9. ASSUME NEW h \in Gates, NEW s \in Services
        PROVE  /\ home'[h][s] = h => Serves(h, s)'
               /\ Serves(h, s)' /\ ~Serves(h, s) =>
                    /\ ~mRestarted \/ Current(h) \in bound => mOwner[s] = h
                    /\ ~Unread(Current(h))
    <3>1. CASE h = g /\ s = m.id
      <4>1. Serves(h, s)' BY Zenon, <1>2, <2>7, <3>1 DEF Serves
      <4> QED BY <1>5, <1>6, <1>11, <3>1, <4>1, Zenon
    <3>2. CASE ~(h = g /\ s = m.id)
      <4>1. <<h, s>> \in Processes /\ <<h, s>> # p BY Zenon, <1>2, <3>2, ProcessFacts
      <4>2. Serves(h, s)' = Serves(h, s) BY Zenon, <2>7, <4>1 DEF Serves
      <4>3. home'[h][s] = home[h][s] BY Zenon, <1>0, <2>5, <3>2 DEF Types, Tables
      <4> QED BY Zenon, <1>0, <4>2, <4>3 DEF Served
    <3> QED BY <3>1, <3>2, Zenon
  <2> QED BY <1>5, <1>8, <1>9, <2>7, <2>8, <2>9, LocalStep, Zenon
<1>12. lstate \in [Processes -> [Links -> {"none", "asked", "upload", "done"}]] BY Zenon, <1>0 DEF Types, Tables
<1>13. lstate' = [lstate EXCEPT ![p][m.link] = "done"] =>
          lstate' \in [Processes -> [Links -> {"none", "asked", "upload", "done"}]]
  BY <1>6, <1>7, <1>12
<1> QED BY Zenon, <1>4, <1>10, <1>11, <1>12, <1>13 DEF Acked

\* The 5 s of service_register are over.
LEMMA UploadTimeoutInv ==
    ASSUME IInv, NEW p \in Processes, NEW n \in Links, UploadTimeout(p, n)
    PROVE  IInv'
<1>0. Types /\ Numbering /\ Linked /\ Served BY Zenon DEF IInv
<1>1. faults' \in 0..MaxFaults BY Zenon, <1>0, FaultFacts DEF UploadTimeout
<1>2. /\ lstate' = [lstate EXCEPT ![p][n] = "done"]
      /\ UNCHANGED <<mSock, mOwner, mOnline, sockets, bound, superseded, open, up, down, conn, sock, reg,
                     home, ron, objs, nlink, ended, att, mRestarted>>
  BY Zenon DEF UploadTimeout, mvars, nvars, gvars
<1>3. lstate' \in [Processes -> [Links -> {"none", "asked", "upload", "done"}]] BY Zenon, <1>0, <1>2 DEF Types, Tables
<1>4. Types' BY Zenon, <1>0, <1>1, <1>2, <1>3 DEF Types, Tables
<1>5. Linked' BY Zenon, <1>0, <1>2, SameLinked
<1>6. UpGrows /\ DownShrinks BY Zenon, <1>0, <1>2, SameGrows, SameDown
<1>7. \A h \in Gates, s \in Services : Serves(h, s)' = Serves(h, s) /\ (home'[h][s] = h => Serves(h, s)')
  BY <1>0, <1>2, Zenon DEF Serves, Served
<1>8. UNCHANGED <<mvars, open, conn, sock, reg, mRestarted>> BY Zenon, <1>2 DEF mvars
<1> QED BY Zenon, <1>2, <1>4, <1>5, <1>6, <1>7, <1>8, LocalStep

\* A link ends; its entry goes offline if it is still this link's.
LEMMA LinkLostInv ==
    ASSUME IInv, NEW p \in Processes, NEW n \in Links, LinkLost(p, n)
    PROVE  IInv'
<1>0. Types /\ Numbering /\ Linked /\ Served BY Zenon DEF IInv
<1>1. PICK i : i = att[p][n] BY Zenon
<1>2. /\ n <= nlink[p]
      /\ ended' = [ended EXCEPT ![p] = @ \cup {n}]
      /\ att' = [att EXCEPT ![p][n] = 0]
      /\ lstate' = [lstate EXCEPT ![p][n] = IF @ = "asked" THEN "done" ELSE @]
      /\ UNCHANGED <<mSock, mOwner, mOnline, sockets, bound, superseded, open, down, conn, sock, reg,
                     home, ron, nlink, mRestarted>>
  BY Zenon DEF LinkLost, mvars
<1>3. faults' \in 0..MaxFaults
  <2>1. CASE UNCHANGED faults BY Zenon, <1>0, <2>1 DEF Types, Tables
  <2>2. CASE Fault BY Zenon, <1>0, <2>2, FaultFacts
  <2> QED BY Zenon, <2>1, <2>2 DEF LinkLost
<1>4. n \in Nat /\ n # 0 /\ nlink[p] \in Nat BY Zenon, <1>0, LinkFacts DEF Types, Tables
<1>5. i \in 0..Len(objs[p]) /\ objs[p] \in Seq(Entries) /\ Len(objs[p]) \in Nat
  <2>1. i \in Nat /\ i <= Len(objs[p]) BY Zenon, <1>0, <1>1 DEF Types, Tables, Linked
  <2>2. objs[p] \in Seq(Entries) BY Zenon, <1>0 DEF Types, Tables
  <2> QED BY <2>1, <2>2, LenFacts
<1>6. /\ UpGrows /\ objs' \in [Processes -> Seq(Entries)]
      /\ \A q \in Processes : Len(objs'[q]) = Len(objs[q]) /\ (objs'[q] = <<>>) = (objs[q] = <<>>)
  <2>1. CASE i # 0 /\ objs[p][i].sock = n
    <3>1. PICK e : e = [sock |-> 0, on |-> FALSE] BY Zenon
    <3>2. objs' = [objs EXCEPT ![p][i] = e] /\ Upload(p[1], <<Update(p[2], FALSE, 0)>>)
      BY Zenon, <1>1, <2>1, <3>1 DEF LinkLost
    <3>3. PICK t : t = [objs[p] EXCEPT ![i] = e] BY Zenon
    <3>4. objs' = [objs EXCEPT ![p] = t] BY Zenon, <3>2, <3>3
    <3>5. e \in Entries BY Zenon, <3>1 DEF Entries
    <3>6. objs[p] \in [1..Len(objs[p]) -> Entries] BY Zenon, <1>5, LenFacts
    <3>7. t \in [1..Len(objs[p]) -> Entries] BY <3>3, <3>5, <3>6, Zenon
    <3>8. t \in Seq(Entries) /\ Len(t) = Len(objs[p]) BY <1>5, <3>7
    <3>9. (t = <<>>) = (objs[p] = <<>>) BY <1>5, <3>8
    <3>10. objs \in [Processes -> Seq(Entries)] BY Zenon, <1>0 DEF Types, Tables
    <3>11. objs' \in [Processes -> Seq(Entries)] BY Zenon, <3>4, <3>8, <3>10
    <3>12. \A q \in Processes : Len(objs'[q]) = Len(objs[q]) /\ (objs'[q] = <<>>) = (objs[q] = <<>>)
      BY Zenon, <3>4, <3>8, <3>9, <3>10
    <3>13. FALSE \in BOOLEAN /\ 0 \in Links \cup {0} BY Zenon
    <3>14. UpGrows BY <1>0, <3>2, <3>13, UploadOne, Zenon
    <3> QED BY Zenon, <3>11, <3>12, <3>14
  <2>2. CASE ~(i # 0 /\ objs[p][i].sock = n)
    <3>1. UNCHANGED <<objs, up>> BY Zenon, <1>1, <2>2 DEF LinkLost
    <3>2. UpGrows BY Zenon, <1>0, <3>1, SameGrows
    <3> QED BY Zenon, <1>0, <3>1, <3>2 DEF Types, Tables
  <2> QED BY Zenon, <2>1, <2>2
<1>7. Types'
  <2>1. ended' \in [Processes -> SUBSET Nat] BY Zenon, <1>0, <1>2, <1>4 DEF Types, Tables
  <2>2. att' \in [Processes -> [Links -> Nat]] BY Zenon, <1>0, <1>2 DEF Types, Tables
  <2>3. lstate' \in [Processes -> [Links -> {"none", "asked", "upload", "done"}]]
    <3>1. lstate \in [Processes -> [Links -> {"none", "asked", "upload", "done"}]] BY Zenon, <1>0 DEF Types, Tables
    <3>2. PICK v : v = IF lstate[p][n] = "asked" THEN "done" ELSE lstate[p][n] BY Zenon
    <3>3. v \in {"none", "asked", "upload", "done"} BY Zenon, <3>1, <3>2
    <3>4. lstate' = [lstate EXCEPT ![p][n] = v] BY Zenon, <1>2, <3>2
    <3> QED BY Zenon, <3>1, <3>3, <3>4
  <2>4. up' \in [Conns -> Seq(UpMsgs)] BY <1>6, Zenon DEF UpGrows
  <2> QED BY Zenon, <1>0, <1>2, <1>3, <1>6, <2>1, <2>2, <2>3, <2>4 DEF Types, Tables
<1>8. Linked'
  <2>1. ASSUME NEW q \in Processes
        PROVE  ended'[q] \subseteq 1..nlink'[q] /\ \A k \in Links : att'[q][k] <= Len(objs'[q])
    <3>1. Len(objs[q]) \in Nat /\ att \in [Processes -> [Links -> Nat]] /\ ended \in [Processes -> SUBSET Nat]
      BY Zenon, <1>0, LenFacts DEF Types, Tables
    <3>2. ended[q] \subseteq 1..nlink[q] /\ \A k \in Links : att[q][k] <= Len(objs[q]) BY Zenon, <1>0 DEF Linked
    <3>3. \A k \in Links : att'[q][k] \in {0, att[q][k]} BY Zenon, <1>2, <3>1
    <3>4. n \in 1..nlink[p] BY <1>2, <1>4
    <3>5. ended'[q] \subseteq ended[q] \cup (IF q = p THEN {n} ELSE {}) BY Zenon, <1>2, <3>1
    <3> QED BY <1>2, <1>6, <3>1, <3>2, <3>3, <3>4, <3>5
  <2> QED BY Zenon, <1>0, <1>2, <2>1 DEF Linked
<1>9. DownShrinks BY Zenon, <1>0, <1>2, SameDown
<1>10. ASSUME NEW h \in Gates, NEW s \in Services
       PROVE  Serves(h, s)' = Serves(h, s) /\ (home'[h][s] = h => Serves(h, s)')
  <2>1. <<h, s>> \in Processes BY Zenon, ProcessFacts
  <2>2. Serves(h, s)' = Serves(h, s) BY Zenon, <1>6, <2>1 DEF Serves
  <2> QED BY Zenon, <1>0, <1>2, <2>2 DEF Served
<1>11. UNCHANGED <<mvars, open, conn, sock, reg, mRestarted>> BY Zenon, <1>2 DEF mvars
<1> QED BY Zenon, <1>2, <1>6, <1>7, <1>8, <1>9, <1>10, <1>11, LocalStep

-----------------------------------------------------------------------------
(* The master *)

\* A step of the master for connection c sends at most one message to a gate,
\* over the connection the gate uses: an answer over c, a broadcast over the
\* others, which are bound. A request to register is answered first of all.
MasterWrites(c) ==
    /\ down' \in [Conns -> Seq(DownMsgs)]
    /\ \A k \in Conns :
          \/ down'[k] = down[k]
          \/ \E m \in DownMsgs : /\ k \in open /\ sock[k[1]] = k[2] /\ down'[k] = Append(down[k], m)
                                 /\ InfoOK(k, m)'
                                 /\ IF k = c THEN Unread(c) => m.kind = "ack" ELSE k \in bound
    /\ Unread(c) /\ c \in open /\ sock[c[1]] = c[2] => down'[c] # down[c]

\* network.write of the master.
LEMMA WroteFacts ==
    ASSUME NEW d \in [Conns -> Seq(DownMsgs)], NEW c \in Conns, NEW m \in DownMsgs
    PROVE  /\ Wrote(d, c, m) \in [Conns -> Seq(DownMsgs)]
           /\ \A k \in Conns : Wrote(d, c, m)[k] =
                 IF k = c /\ c \in open /\ sock[c[1]] = c[2] THEN Append(d[k], m) ELSE d[k]
<1>1. Append(d[c], m) \in Seq(DownMsgs) BY Zenon, AppendIndex
<1> QED BY Zenon, <1>1 DEF Wrote

\* What add_gate_info says of the gates of a set.
LEMMA GateInfoFacts ==
    ASSUME Tables', NEW gs \in SUBSET Gates
    PROVE  /\ GateInfo(gs) \in Infos
           /\ \A s \in Services : GateInfo(gs)[s] # None => GateInfo(gs)[s][1] \in gs
<1>1. mOwner' \in [Services -> Gates \cup {None}] /\ mOnline' \in [Services -> BOOLEAN] BY Zenon DEF Tables
<1> QED BY Zenon, <1>1 DEF GateInfo, Infos

\* gate_master::publish.
LEMMA PublishFacts ==
    ASSUME Tables', NEW d \in [Conns -> Seq(DownMsgs)], NEW g \in Gates
    PROVE  /\ Publish(d, g) \in [Conns -> Seq(DownMsgs)]
           /\ \A k \in Conns : Publish(d, g)[k] =
                 IF k[1] # g /\ mSock'[k[1]] = k[2] /\ k \in open /\ sock[k[1]] = k[2]
                 THEN Append(d[k], Brd(GateInfo({g}))) ELSE d[k]
<1>1. GateInfo({g}) \in Infos BY Zenon, GateInfoFacts
<1>2. PICK m \in DownMsgs : m = Brd(GateInfo({g})) BY <1>1, AnswerFacts, Zenon
<1>3. Publish(d, g) = [k \in Conns |-> IF k[1] # g /\ mSock'[k[1]] = k[2] THEN Wrote(d, k, m)[k] ELSE d[k]]
  BY Zenon, <1>2 DEF Publish
<1>4. \A k \in Conns : Wrote(d, k, m)[k] = IF k \in open /\ sock[k[1]] = k[2] THEN Append(d[k], m) ELSE d[k]
  BY WroteFacts
<1>5. \A k \in Conns : Append(d[k], m) \in Seq(DownMsgs) BY Zenon, AppendIndex
<1>6. \A k \in Conns : Publish(d, g)[k] =
         IF k[1] # g /\ mSock'[k[1]] = k[2] /\ k \in open /\ sock[k[1]] = k[2] THEN Append(d[k], m) ELSE d[k]
  BY <1>3, <1>4
<1>7. Publish(d, g) \in [Conns -> Seq(DownMsgs)] BY <1>3, <1>5, <1>6, Zenon
<1> QED BY <1>2, <1>6, <1>7, Zenon

\* A broadcast of the master says nothing of the gate that gets it.
LEMMA BroadcastOK ==
    ASSUME Tables', NEW g \in Gates, NEW k \in Conns, k[1] # g
    PROVE  \E m \in DownMsgs : m = Brd(GateInfo({g})) /\ InfoOK(k, m)'
<1>1. PICK svc \in Infos : svc = GateInfo({g}) BY Zenon, GateInfoFacts
<1>2. \A s \in Services : svc[s] # None => svc[s][1] = g BY Zenon, <1>1, GateInfoFacts
<1>3. PICK m \in DownMsgs : m = Brd(svc) /\ m.kind = "brd" /\ m.svc = svc
  <2>1. TRUE \in BOOLEAN BY Zenon
  <2>2. Brd(svc) \in DownMsgs /\ Brd(svc).kind = "brd" /\ Brd(svc).svc = svc BY <2>1, AnswerFacts, Zenon
  <2> QED BY Zenon, <2>2
<1>4. InfoOK(k, m)' BY Zenon, <1>2, <1>3 DEF InfoOK
<1> QED BY <1>1, <1>3, <1>4, Zenon

\* A broadcast alone.
LEMMA PublishWrites ==
    ASSUME IInv, Types', Numbering', NEW c \in Conns, bound' \subseteq bound, ~Unread(c) \/ c \notin open,
           down' = Publish(down, c[1])
    PROVE  MasterWrites(c)
<1>0. down \in [Conns -> Seq(DownMsgs)] /\ Tables' BY Zenon DEF IInv, Types
<1>1. c[1] \in Gates BY Zenon, ConnFacts
<1>2. down' \in [Conns -> Seq(DownMsgs)] BY <1>0, <1>1, PublishFacts, Zenon
<1>3. \A k \in Conns : down'[k] =
         IF k[1] # c[1] /\ mSock'[k[1]] = k[2] /\ k \in open /\ sock[k[1]] = k[2]
         THEN Append(down[k], Brd(GateInfo({c[1]}))) ELSE down[k]
  BY <1>0, <1>1, PublishFacts, Zenon
<1>4. ASSUME NEW k \in Conns, down'[k] # down[k]
      PROVE  \E m \in DownMsgs : /\ k \in open /\ sock[k[1]] = k[2] /\ down'[k] = Append(down[k], m)
                                  /\ InfoOK(k, m)'
                                  /\ IF k = c THEN Unread(c) => m.kind = "ack" ELSE k \in bound
  <2>1. /\ k[1] # c[1] /\ mSock'[k[1]] = k[2] /\ k \in open /\ sock[k[1]] = k[2]
        /\ down'[k] = Append(down[k], Brd(GateInfo({c[1]})))
    BY <1>3, <1>4, Zenon
  <2>2. PICK m \in DownMsgs : m = Brd(GateInfo({c[1]})) /\ InfoOK(k, m)'
    BY <1>0, <1>1, <2>1, BroadcastOK, Zenon
  <2>3. k = <<k[1], k[2]>> /\ k[1] \in Gates /\ k[2] # 0 BY Zenon, ConnFacts
  <2>4. k \in bound' BY Zenon, <2>1, <2>3 DEF Numbering
  <2> QED BY <2>1, <2>2, <2>4, Zenon
<1> QED BY Zenon, <1>2, <1>4 DEF MasterWrites

\* An answer over c and the broadcast to the other gates.
LEMMA AnswerWrites ==
    ASSUME IInv, Types', Numbering', NEW c \in Conns, NEW m \in DownMsgs, InfoOK(c, m)',
           Unread(c) => m.kind = "ack", bound' \ {c} \subseteq bound,
           \/ down' = Publish(Wrote(down, c, m), c[1])
           \/ down' = Wrote(down, c, m)
    PROVE  MasterWrites(c)
<1>0. down \in [Conns -> Seq(DownMsgs)] /\ Tables' BY Zenon DEF IInv, Types
<1>1. PICK d : d = Wrote(down, c, m) BY Zenon
<1>2. d \in [Conns -> Seq(DownMsgs)] BY Zenon, <1>0, <1>1, WroteFacts
<1>3. \A k \in Conns : d[k] = IF k = c /\ c \in open /\ sock[c[1]] = c[2] THEN Append(down[k], m) ELSE down[k]
  BY <1>0, <1>1, WroteFacts, ZenonT(30)
<1>4. c[1] \in Gates BY Zenon, ConnFacts
<1>5. /\ down' \in [Conns -> Seq(DownMsgs)]
      /\ \A k \in Conns : down'[k] = d[k] \/
            (/\ k[1] # c[1] /\ mSock'[k[1]] = k[2] /\ k \in open /\ sock[k[1]] = k[2]
             /\ down'[k] = Append(d[k], Brd(GateInfo({c[1]}))))
  <2>1. CASE down' = d BY <1>2, <2>1, Zenon
  <2>2. CASE down' = Publish(d, c[1])
    <3>1. PICK f : f = Publish(d, c[1]) BY Zenon
    <3>2. f \in [Conns -> Seq(DownMsgs)] BY <1>0, <1>2, <1>4, <3>1, PublishFacts, Zenon
    <3>3. \A k \in Conns : f[k] =
             IF k[1] # c[1] /\ mSock'[k[1]] = k[2] /\ k \in open /\ sock[k[1]] = k[2]
             THEN Append(d[k], Brd(GateInfo({c[1]}))) ELSE d[k]
      BY <1>0, <1>2, <1>4, <3>1, PublishFacts, Zenon
    <3> QED BY <2>2, <3>1, <3>2, <3>3, Zenon
  <2> QED BY <1>1, <2>1, <2>2, Zenon
<1>6. down'[c] = d[c] BY Zenon, <1>5
<1>7. ASSUME NEW k \in Conns
      PROVE  \/ down'[k] = down[k]
             \/ \E n \in DownMsgs : /\ k \in open /\ sock[k[1]] = k[2] /\ down'[k] = Append(down[k], n)
                                    /\ InfoOK(k, n)'
                                    /\ IF k = c THEN Unread(c) => n.kind = "ack" ELSE k \in bound
  <2>1. CASE k = c BY <1>3, <1>6, <2>1, Zenon
  <2>2. CASE k # c
    <3>1. d[k] = down[k] BY <1>3, <2>2, Zenon
    <3>2. CASE down'[k] = d[k] BY <3>1, <3>2, Zenon
    <3>3. CASE down'[k] # d[k]
      <4>1. /\ k[1] # c[1] /\ mSock'[k[1]] = k[2] /\ k \in open /\ sock[k[1]] = k[2]
            /\ down'[k] = Append(d[k], Brd(GateInfo({c[1]})))
        BY <1>5, <3>3, Zenon
      <4>2. PICK n \in DownMsgs : n = Brd(GateInfo({c[1]})) /\ InfoOK(k, n)'
        BY <1>0, <1>4, <4>1, BroadcastOK, Zenon
      <4>3. k = <<k[1], k[2]>> /\ k[1] \in Gates /\ k[2] # 0 BY Zenon, ConnFacts
      <4>4. k \in bound' BY Zenon, <4>1, <4>3 DEF Numbering
      <4>5. k \in bound BY Zenon, <2>2, <4>4
      <4> QED BY <2>2, <3>1, <4>1, <4>2, <4>5, Zenon
    <3> QED BY <3>2, <3>3, Zenon
  <2> QED BY <2>1, <2>2, Zenon
<1>8. ASSUME Unread(c), c \in open, sock[c[1]] = c[2] PROVE down'[c] # down[c]
  <2>1. down'[c] = Append(down[c], m) /\ down[c] \in Seq(DownMsgs) BY <1>0, <1>3, <1>6, <1>8, Zenon
  <2>2. Len(down'[c]) = Len(down[c]) + 1 /\ Len(down[c]) \in Nat BY <2>1, AppendIndex, LenFacts
  <2> QED BY <2>2
<1> QED BY <1>5, <1>7, <1>8, Zenon DEF MasterWrites

\* A step of the master for connection c keeps the invariant: no service
\* changes its owner, and a connection is bound by a request that names every
\* service of its gate.
LEMMA MasterStep ==
    ASSUME IInv, Types', Numbering', NEW c \in Conns, MasterWrites(c),
           UNCHANGED <<gvars, lvars, mRestarted>>, open' \subseteq open, bound' \subseteq bound \cup {c},
           \A k \in Conns : k # c => up'[k] = up[k],
           up'[c] = <<>> \/ (up[c] # <<>> /\ up'[c] = Tail(up[c])),
           \A s \in Services : mOwner[s] # None => mOwner'[s] = mOwner[s],
           c \in bound' /\ c \notin bound =>
              Unread(c) /\ \A s \in Services : up[c][1].svc[s] # "none" => mOwner'[s] = c[1]
    PROVE  IInv'
<1>0. Types /\ Numbering /\ Linked /\ UpOK /\ DownOK /\ Registering /\ Served BY Zenon DEF IInv
<1>1. UNCHANGED <<conn, sock, reg, home, ron, objs, nlink, lstate, ended, att>> BY Zenon DEF gvars, lvars
<1>2. None \notin Gates BY DiscoveryAssumption, Zenon
<1>3. Linked' BY Zenon, <1>0, <1>1, SameLinked
<1>4. up \in [Conns -> Seq(UpMsgs)] /\ down \in [Conns -> Seq(DownMsgs)]
      /\ up' \in [Conns -> Seq(UpMsgs)] /\ down' \in [Conns -> Seq(DownMsgs)]
  BY <1>0, Zenon DEF Types
\* What is left of the requests of c are requests about services.
<1>5. \A i \in 1..Len(up'[c]) : IsUpdate(up'[c][i])
  <2>1. CASE up'[c] = <<>> BY <2>1
  <2>2. CASE up[c] # <<>> /\ up'[c] = Tail(up[c])
    <3>1. up[c] \in Seq(UpMsgs) /\ Len(up[c]) \in Nat BY <1>4, LenFacts, Zenon
    <3>2. Len(up'[c]) = Len(up[c]) - 1 /\ \A i \in 1..Len(up'[c]) : up'[c][i] = up[c][i + 1]
      BY <2>2, <3>1, TailIndex
    <3>3. ASSUME NEW i \in 1..Len(up'[c]) PROVE IsUpdate(up'[c][i])
      <4>1. i + 1 \in 1..Len(up[c]) /\ i + 1 # 1 BY <3>1, <3>2
      <4>2. IsUpdate(up[c][i + 1]) BY <1>0, <4>1, Zenon DEF UpOK
      <4> QED BY Zenon, <3>2, <4>2
    <3> QED BY Zenon, <3>3
  <2> QED BY <2>1, <2>2, Zenon
<1>6. ~Unread(c)'
  <2>1. CASE up'[c] = <<>> BY Zenon, <2>1 DEF Unread
  <2>2. CASE up'[c] # <<>>
    <3>1. up'[c] \in Seq(UpMsgs) BY Zenon, <1>4
    <3>2. Len(up'[c]) \in Nat \ {0} BY Zenon, <2>2, <3>1, EmptyLen
    <3>3. 1 \in 1..Len(up'[c]) BY <3>2
    <3> QED BY <1>5, <3>3, Zenon DEF Unread, IsUpdate
  <2> QED BY Zenon, <2>1, <2>2
<1>7. \A k \in Conns : k # c => Unread(k)' = Unread(k) BY Zenon DEF Unread
<1>8. \A k \in Conns : Unread(k)' => k # c /\ Unread(k) BY <1>6, <1>7, Zenon
<1>9. UpOK'
  <2>1. ASSUME NEW k \in Conns
        PROVE  \A i \in 1..Len(up'[k]) : (i = 1 /\ up'[k][i].kind = "register") \/ IsUpdate(up'[k][i])
    <3>1. CASE k = c BY Zenon, <1>5, <3>1
    <3>2. CASE k # c
      <4>1. up'[k] = up[k] BY <3>2, Zenon
      <4> QED BY Zenon, <1>0, <4>1 DEF UpOK
    <3> QED BY <3>1, <3>2, Zenon
  <2>2. ASSUME NEW k \in Conns, Unread(k)' PROVE k \notin bound' /\ down'[k] = <<>>
    <3>1. k # c /\ Unread(k) BY <1>8, <2>2, Zenon
    <3>2. k \notin bound /\ down[k] = <<>> BY <1>0, <3>1, Zenon DEF UpOK
    <3>3. down'[k] = down[k] BY <3>1, <3>2, Zenon DEF MasterWrites
    <3> QED BY <3>1, <3>2, <3>3, Zenon
  <2> QED BY <2>1, <2>2, Zenon DEF UpOK
<1>10. ASSUME NEW k \in Conns, NEW m \in DownMsgs, InfoOK(k, m), k \in bound' => k \in bound
       PROVE  InfoOK(k, m)'
  <2>1. k[1] \in Gates BY Zenon, ConnFacts
  <2>2. ASSUME m.kind = "uack", m.ok, ~mRestarted' \/ k \in bound' PROVE mOwner'[m.id] = k[1]
    <3>1. m.id \in Services /\ mOwner[m.id] = k[1] BY <1>10, <2>2, Zenon DEF InfoOK
    <3> QED BY <1>2, <2>1, <3>1, Zenon
  <2> QED BY <1>10, <2>2, Zenon DEF InfoOK
<1>11. DownOK'
  <2>1. ASSUME NEW k \in Conns
        PROVE  /\ down'[k] # <<>> => sock'[k[1]] = k[2]
               /\ \A i \in 1..Len(down'[k]) : InfoOK(k, down[k][i])'
    <3>1. down[k] \in Seq(DownMsgs) BY <1>4, Zenon
    <3>2. ASSUME NEW i \in 1..Len(down[k]) PROVE InfoOK(k, down[k][i]) /\ down[k][i] \in DownMsgs
      BY <1>0, <3>1, ElementFacts, Zenon DEF DownOK
    <3>3. ASSUME NEW i \in 1..Len(down[k]) PROVE k \in bound' => k \in bound
      <4>1. down[k] # <<>> BY <3>3
      <4>2. ~Unread(k) BY Zenon, <1>0, <4>1 DEF UpOK
      <4> QED BY <4>2, Zenon
    <3>4. CASE down'[k] = down[k]
      <4>1. ASSUME NEW i \in 1..Len(down'[k]) PROVE InfoOK(k, down[k][i])'
        <5>1. PICK m \in DownMsgs : m = down'[k][i] /\ m = down[k][i] /\ InfoOK(k, m) BY <3>2, <3>4, <4>1, Zenon
        <5>2. k \in bound' => k \in bound BY <3>3, <3>4, <4>1, Zenon
        <5>3. InfoOK(k, m)' BY <1>10, <5>1, <5>2, Zenon
        <5> QED BY <5>1, <5>3, Zenon DEF InfoOK
      <4> QED BY <1>0, <1>1, <3>4, <4>1, Zenon DEF DownOK
    <3>5. CASE \E m \in DownMsgs : /\ k \in open /\ sock[k[1]] = k[2] /\ down'[k] = Append(down[k], m)
                                   /\ InfoOK(k, m)'
      <4>1. PICK m \in DownMsgs : /\ sock[k[1]] = k[2] /\ down'[k] = Append(down[k], m) /\ InfoOK(k, m)'
        BY <3>5, Zenon
      <4>2. /\ Len(down'[k]) = Len(down[k]) + 1 /\ down'[k][Len(down[k]) + 1] = m /\ Len(down[k]) \in Nat
            /\ \A i \in 1..Len(down[k]) : down'[k][i] = down[k][i]
        BY <3>1, <4>1, AppendIndex, LenFacts
      <4>3. ASSUME NEW i \in 1..Len(down'[k]) PROVE InfoOK(k, down[k][i])'
        <5>1. CASE i = Len(down[k]) + 1
          <6>1. down'[k][i] = m BY <4>2, <5>1, Zenon
          <6> QED BY <4>1, <6>1, Zenon DEF InfoOK
        <5>2. CASE i # Len(down[k]) + 1
          <6>1. i \in 1..Len(down[k]) BY <4>2, <5>2
          <6>2. PICK n \in DownMsgs : n = down'[k][i] /\ n = down[k][i] /\ InfoOK(k, n) BY <3>2, <4>2, <6>1, Zenon
          <6>3. k \in bound' => k \in bound BY Zenon, <3>3, <6>1
          <6>4. InfoOK(k, n)' BY <1>10, <6>2, <6>3, Zenon
          <6> QED BY <6>2, <6>4, Zenon DEF InfoOK
        <5> QED BY Zenon, <5>1, <5>2
      <4> QED BY <1>1, <4>1, <4>3, Zenon
    <3> QED BY <3>4, <3>5, Zenon DEF MasterWrites
  <2> QED BY <2>1, Zenon DEF DownOK
<1>12. Registering'
  <2>1. SUFFICES ASSUME NEW h \in Gates, reg[h] = "registering"
                 PROVE  (IF down[Current(h)] = <<>> THEN Current(h) \in open => Unread(Current(h))
                         ELSE down[Current(h)][1].kind = "ack")'
    BY <1>1, Zenon DEF Registering
  <2>2. sock[h] # 0 BY <1>0, <2>1, Zenon DEF Numbering
  <2>3. PICK k \in Conns : k = Current(h) /\ k[1] = h /\ k[2] = sock[h] BY <1>0, <2>2, CurrentConn, Zenon
  <2>4. Current(h)' = k BY <1>1, <2>3, Zenon DEF Current
  <2>5. IF down[k] = <<>> THEN k \in open => Unread(k) ELSE down[k][1].kind = "ack"
    BY <1>0, <2>1, <2>3, Zenon DEF Registering
  <2>6. down[k] \in Seq(DownMsgs) BY <1>4, Zenon
  <2>7. IF down'[k] = <<>> THEN k \in open' => Unread(k)' ELSE down'[k][1].kind = "ack"
    <3>1. CASE down'[k] = down[k] /\ (down[k] # <<>> \/ k # c)
      <4>1. k # c => Unread(k)' = Unread(k) BY <1>7, Zenon
      <4> QED BY <2>5, <3>1, <4>1, Zenon
    <3>2. CASE down'[k] = down[k] /\ down[k] = <<>> /\ k = c
      <4>1. Unread(c) => c \notin open BY <2>3, <3>2, Zenon DEF MasterWrites
      <4> QED BY <2>5, <3>2, <4>1, Zenon
    <3>3. CASE down'[k] # down[k]
      <4>1. PICK m \in DownMsgs : /\ k \in open /\ down'[k] = Append(down[k], m)
                                  /\ IF k = c THEN Unread(c) => m.kind = "ack" ELSE k \in bound
        BY <3>3, Zenon DEF MasterWrites
      <4>2. /\ down'[k] # <<>> /\ down'[k][Len(down[k]) + 1] = m
            /\ \A i \in 1..Len(down[k]) : down'[k][i] = down[k][i]
        BY <2>6, <4>1, AppendIndex
      <4>3. CASE down[k] = <<>>
        <5>1. Unread(k) BY <2>5, <4>1, <4>3, Zenon
        <5>2. k \notin bound BY <1>0, <5>1, Zenon DEF UpOK
        <5>3. m.kind = "ack" BY <4>1, <5>1, <5>2, Zenon
        <5>4. Len(down[k]) + 1 = 1 BY <4>3
        <5> QED BY Zenon, <4>2, <5>3, <5>4
      <4>4. CASE down[k] # <<>>
        <5>1. Len(down[k]) \in Nat \ {0} BY <2>6, <4>4, EmptyLen, Zenon
        <5>2. down'[k][1] = down[k][1] BY <4>2, <5>1
        <5> QED BY <2>5, <4>2, <4>4, <5>2, Zenon
      <4> QED BY <4>3, <4>4, Zenon
    <3> QED BY <3>1, <3>2, <3>3, Zenon
  <2>8. Unread(Current(h))' = Unread(k)' BY Zenon, <2>4 DEF Unread
  <2> QED BY <2>4, <2>7, <2>8, Zenon
<1>13. Served'
  <2>1. ASSUME NEW h \in Gates, NEW s \in Services, Serves(h, s)
        PROVE  /\ ~mRestarted' \/ Current(h)' \in bound' => mOwner'[s] = h
               /\ sock'[h] # 0 /\ Unread(Current(h))' => up'[Current(h)'][1].svc[s] # "none"
    <3>1. Current(h)' = Current(h) BY Zenon, <1>1 DEF Current
    <3>2. /\ ~mRestarted \/ Current(h) \in bound => mOwner[s] = h
          /\ sock[h] # 0 /\ Unread(Current(h)) => up[Current(h)][1].svc[s] # "none"
      BY <1>0, <2>1, Zenon DEF Served
    <3>3. ~mRestarted \/ Current(h) \in bound => mOwner'[s] = h BY <1>2, <3>2, Zenon
    <3>4. ASSUME Current(h) \in bound', Current(h) \notin bound PROVE mOwner'[s] = h
      <4>1. Current(h) = c BY Zenon, <3>4
      <4>2. sock[h] = c[2] /\ c[1] = h BY <4>1, Zenon DEF Current
      <4>3. sock[h] # 0 BY Zenon, <4>2, ConnFacts
      <4> QED BY <3>2, <3>4, <4>1, <4>2, <4>3, Zenon
    <3>5. ASSUME sock'[h] # 0, Unread(Current(h))' PROVE up'[Current(h)'][1].svc[s] # "none"
      <4>1. PICK k \in Conns : k = Current(h) BY <1>0, <1>1, <3>5, CurrentConn, Zenon
      <4>2. Unread(k)' BY <3>1, <3>5, <4>1, Zenon DEF Unread
      <4>3. k # c /\ Unread(k) BY <1>8, <4>2, Zenon
      <4>4. up'[k] = up[k] BY Zenon, <4>3
      <4> QED BY <1>1, <3>1, <3>2, <3>5, <4>1, <4>3, <4>4, Zenon
    <3> QED BY <3>1, <3>3, <3>4, <3>5, Zenon
  <2>2. \A h \in Gates, s \in Services : Serves(h, s)' = Serves(h, s) BY <1>1, Zenon DEF Serves
  <2>3. \A h \in Gates, s \in Services : home'[h][s] = h => Serves(h, s) BY <1>0, <1>1, Zenon DEF Served
  <2> QED BY <2>1, <2>2, <2>3, Zenon DEF Served
<1> QED BY Zenon, <1>3, <1>9, <1>11, <1>12, <1>13 DEF IInv

\* What the master reads next on a connection.
LEMMA NextRequest ==
    ASSUME IInv, NEW c \in Conns, MasterRecv(c)
    PROVE  /\ Head(up[c]) = up[c][1] /\ up[c][1] \in UpMsgs
           /\ Unread(c) \/ IsUpdate(up[c][1])
           /\ up' \in [Conns -> Seq(UpMsgs)] /\ up'[c] = Tail(up[c]) /\ up[c] # <<>>
           /\ \A k \in Conns : k # c => up'[k] = up[k]
<1>1. up[c] # <<>> /\ up' = [up EXCEPT ![c] = Tail(@)] BY Zenon DEF MasterRecv
<1>2. up \in [Conns -> Seq(UpMsgs)] /\ UpOK BY Zenon DEF IInv, Types
<1>3. up[c] \in Seq(UpMsgs) BY Zenon, <1>2
<1>4. Head(up[c]) \in UpMsgs /\ Tail(up[c]) \in Seq(UpMsgs) BY Zenon, <1>1, <1>3, TailIndex
<1>5. Len(up[c]) \in Nat \ {0} BY Zenon, <1>1, <1>3, EmptyLen
<1>6. 1 \in 1..Len(up[c]) /\ Head(up[c]) = up[c][1] BY <1>1, <1>3, <1>5
<1>7. Unread(c) \/ IsUpdate(up[c][1]) BY Zenon, <1>1, <1>2, <1>6 DEF UpOK, Unread
<1> QED BY Zenon, <1>1, <1>2, <1>4, <1>6, <1>7

\* gate_master::check_services and add_services together: every service of an
\* accepted report is the gate's, and no other changes its owner.
LEMMA AddServicesFacts ==
    ASSUME Types, NEW g \in Gates, NEW svc \in Reports, CheckServices(svc, g), AddServices(svc, g)
    PROVE  /\ Tables'
           /\ \A s \in Services : mOwner[s] # None => mOwner'[s] = mOwner[s]
           /\ \A s \in Services : svc[s] # "none" => mOwner'[s] = g
<1>1. mOwner \in [Services -> Gates \cup {None}] /\ mOnline \in [Services -> BOOLEAN] BY Zenon DEF Types, Tables
<1>2. mOwner' = [s \in Services |-> IF svc[s] # "none" /\ mOwner[s] = None THEN g ELSE mOwner[s]]
      /\ mOnline' = [s \in Services |-> IF svc[s] # "none" THEN svc[s] = "on" ELSE mOnline[s]]
  BY Zenon DEF AddServices
<1>3. mOwner' \in [Services -> Gates \cup {None}] BY Zenon, <1>1, <1>2
<1>4. mOnline' \in [Services -> BOOLEAN] BY <1>1, <1>2, Zenon
<1>5. \A s \in Services : svc[s] # "none" => mOwner[s] \in {None, g} BY Zenon DEF CheckServices
<1> QED BY Zenon, <1>2, <1>3, <1>4, <1>5 DEF Tables

\* gate_register of a gate whose services are no other gate's.
LEMMA RegisterAccepted ==
    ASSUME IInv, NEW c \in Conns, MasterRecv(c), Unread(c), CheckServices(up[c][1].svc, c[1])
    PROVE  IInv'
<1>0. Types /\ Numbering /\ UpOK BY Zenon DEF IInv
<1>1. /\ Head(up[c]) = up[c][1] /\ up[c][1] \in UpMsgs /\ up' \in [Conns -> Seq(UpMsgs)]
      /\ up'[c] = Tail(up[c]) /\ up[c] # <<>> /\ \A k \in Conns : k # c => up'[k] = up[k]
  BY NextRequest, Zenon
<1>2. PICK g \in Gates : g = c[1] /\ c = <<g, c[2]>> /\ c[2] \in Nat /\ c[2] # 0 BY Zenon, ConnFacts
<1>3. PICK svc \in Reports : svc = up[c][1].svc BY <1>1, Zenon DEF UpMsgs
<1>4. c \notin bound /\ c \in sockets BY <1>0, Zenon DEF UpOK, MasterRecv
<1>5. GateRegister(c, up[c][1]) /\ UNCHANGED <<sockets, gvars, lvars, hvars>>
  BY Zenon, <1>1 DEF MasterRecv, Unread
<1>6. /\ mSock' = [mSock EXCEPT ![g] = c[2]] /\ bound' = bound \cup {c} /\ open' = open
      /\ superseded' = IF mSock[g] \in {0, c[2]} THEN superseded ELSE superseded \cup {g}
      /\ AddServices(svc, g)
      /\ AnswerAndPublish(c, Ack(TRUE, GateInfo(Gates \ {g})))
  BY <1>2, <1>3, <1>4, <1>5, Zenon DEF GateRegister
<1>7. /\ Tables'
      /\ \A s \in Services : mOwner[s] # None => mOwner'[s] = mOwner[s]
      /\ \A s \in Services : svc[s] # "none" => mOwner'[s] = g
  BY Zenon, <1>0, <1>2, <1>3, <1>6, AddServicesFacts
<1>8. UNCHANGED <<sockets, conn, sock, reg, home, ron, objs, nlink, lstate, ended, att, faults, mRestarted>>
  BY <1>5, Zenon DEF gvars, lvars, hvars
<1>9. Numbering'
  <2>1. ASSUME NEW h \in Gates, mSock'[h] # 0 PROVE <<h, mSock'[h]>> \in bound'
    <3>1. CASE h = g
      <4>1. mSock'[h] = c[2] BY Zenon, <1>0, <1>6, <3>1 DEF Types
      <4> QED BY <1>2, <1>6, <3>1, <4>1
    <3>2. CASE h # g
      <4>1. mSock'[h] = mSock[h] BY Zenon, <1>0, <1>6, <3>2 DEF Types
      <4>2. <<h, mSock[h]>> \in bound BY Zenon, <1>0, <2>1, <4>1 DEF Numbering
      <4> QED BY <1>6, <4>1, <4>2
    <3> QED BY Zenon, <3>1, <3>2
  <2> QED BY <1>0, <1>8, <2>1, Zenon DEF Numbering
<1>10. PICK info \in Infos : info = GateInfo(Gates \ {g}) /\ \A s \in Services : info[s] # None => info[s][1] # g
  <2>1. Gates \ {g} \in SUBSET Gates BY Zenon
  <2> QED BY Zenon, <1>7, <2>1, GateInfoFacts
<1>11. PICK m \in DownMsgs : /\ m = Ack(TRUE, GateInfo(Gates \ {g})) /\ m.kind = "ack"
                             /\ \A s \in Services : m.svc[s] # None => m.svc[s][1] # g
  <2>1. TRUE \in BOOLEAN BY Zenon
  <2>2. Ack(TRUE, info) \in DownMsgs /\ Ack(TRUE, info).kind = "ack" /\ Ack(TRUE, info).svc = info
    BY <2>1, AnswerFacts, Zenon
  <2> QED BY <1>10, <2>2, Zenon
<1>12. InfoOK(c, m)' BY <1>2, <1>11, Zenon DEF InfoOK
<1>13. down' = Publish(Wrote(down, c, m), g)
  <2>1. Answered(down, c, m) = Wrote(down, c, m) BY <1>11, Zenon DEF Answered
  <2> QED BY <1>2, <1>6, <1>11, <2>1, Zenon DEF AnswerAndPublish
<1>14. down' \in [Conns -> Seq(DownMsgs)]
  <2>1. PICK d \in [Conns -> Seq(DownMsgs)] : d = Wrote(down, c, m) BY <1>0, WroteFacts, Zenon DEF Types
  <2> QED BY <1>7, <1>13, <2>1, PublishFacts, Zenon
<1>15. Types'
  <2>1. mSock' \in [Gates -> Nat] BY Zenon, <1>0, <1>2, <1>6 DEF Types
  <2>2. superseded' \subseteq Gates BY Zenon, <1>0, <1>6 DEF Types
  <2>3. bound' \subseteq sockets' /\ open' \subseteq sockets' BY <1>0, <1>4, <1>6, <1>8, Zenon DEF Types
  <2> QED BY <1>0, <1>1, <1>7, <1>8, <1>14, <2>1, <2>2, <2>3, Zenon DEF Types
<1>16. MasterWrites(c) BY <1>2, <1>6, <1>9, <1>11, <1>12, <1>13, <1>15, AnswerWrites, Zenon
<1>17. /\ open' \subseteq open /\ bound' \subseteq bound \cup {c} /\ mRestarted' = mRestarted
       /\ UNCHANGED <<gvars, lvars>>
       /\ \A s \in Services : up[c][1].svc[s] # "none" => mOwner'[s] = c[1]
  BY <1>2, <1>3, <1>5, <1>6, <1>7, <1>8, Zenon
<1> QED BY <1>1, <1>7, <1>9, <1>15, <1>16, <1>17, MasterStep, Zenon

\* gate_upload of a bound connection whose services are no other gate's.
LEMMA UploadAccepted ==
    ASSUME IInv, NEW c \in Conns, MasterRecv(c), ~Unread(c), c \in bound, CheckServices(up[c][1].svc, c[1])
    PROVE  IInv'
<1>0. Types /\ Numbering BY Zenon DEF IInv
<1>1. /\ Head(up[c]) = up[c][1] /\ up[c][1] \in UpMsgs /\ up' \in [Conns -> Seq(UpMsgs)]
      /\ up'[c] = Tail(up[c]) /\ up[c] # <<>> /\ \A k \in Conns : k # c => up'[k] = up[k]
      /\ IsUpdate(up[c][1])
  BY NextRequest, Zenon
<1>2. PICK g \in Gates : g = c[1] BY Zenon, ConnFacts
<1>3. PICK r \in UpMsgs : r = up[c][1] BY <1>1, Zenon
<1>4. /\ r.svc \in Reports /\ r.id \in Services /\ r.link \in Links \cup {0} /\ r.svc[r.id] # "none"
      /\ r.kind # "register"
  BY <1>1, <1>3, Zenon DEF UpMsgs, IsUpdate
<1>5. GateUpload(c, r) /\ UNCHANGED <<sockets, gvars, lvars, hvars>> BY <1>1, <1>3, <1>4, Zenon DEF MasterRecv
<1>6. /\ AddServices(r.svc, g) /\ mSock' = mSock /\ AnswerAndPublish(c, UpdateAck(TRUE, r.id, r.link))
      /\ UNCHANGED <<bound, open, superseded>>
  BY <1>2, <1>3, <1>5, Zenon DEF GateUpload
<1>7. /\ Tables'
      /\ \A s \in Services : mOwner[s] # None => mOwner'[s] = mOwner[s]
      /\ \A s \in Services : r.svc[s] # "none" => mOwner'[s] = g
  BY <1>0, <1>2, <1>3, <1>4, <1>6, AddServicesFacts
<1>8. UNCHANGED <<sockets, conn, sock, reg, home, ron, objs, nlink, lstate, ended, att, faults, mRestarted>>
  BY <1>5, Zenon DEF gvars, lvars, hvars
<1>9. Numbering' BY <1>0, <1>6, <1>8, Zenon DEF Numbering
<1>10. PICK m \in DownMsgs : /\ m = UpdateAck(TRUE, r.id, r.link) /\ m.kind = "uack" /\ m.svc = NoInfo
                             /\ m.id = r.id /\ m.link = r.link
  <2>1. PICK b \in BOOLEAN : b = TRUE BY Zenon
  <2>2. PICK m : m = UpdateAck(TRUE, r.id, r.link) BY Zenon
  <2>3. m \in DownMsgs /\ m.kind = "uack" /\ m.svc = NoInfo /\ m.id = r.id /\ m.link = r.link
    <3>1. PICK s0 \in Services : s0 = r.id BY Zenon, <1>4
    <3>2. PICK n0 \in Links \cup {0} : n0 = r.link BY Zenon, <1>4
    <3>3. m = UpdateAck(b, s0, n0) BY <2>1, <2>2, <3>1, <3>2, Zenon
    <3>4. m \in DownMsgs /\ m.kind = "uack" /\ m.svc = NoInfo /\ m.id = s0 /\ m.link = n0
      BY <3>3, UpdateAckFacts
    <3> QED BY Zenon, <3>1, <3>2, <3>4
  <2> QED BY <2>2, <2>3, Zenon
<1>11. \A s \in Services : m.svc[s] = None BY <1>10, Zenon DEF NoInfo
<1>12. down' = Publish(Answered(down, c, m), g) BY <1>2, <1>6, <1>10, Zenon DEF AnswerAndPublish
<1>13. PICK d \in [Conns -> Seq(DownMsgs)] : d = Answered(down, c, m) BY <1>0, WroteFacts, Zenon DEF Types, Answered
<1>14. down' \in [Conns -> Seq(DownMsgs)] BY <1>7, <1>12, <1>13, PublishFacts, Zenon
<1>15. Types' BY <1>0, <1>1, <1>6, <1>7, <1>8, <1>14, Zenon DEF Types
<1>16. MasterWrites(c)
  <2>1. CASE m.link # 0
    <3>1. down' = Publish(Wrote(down, c, m), c[1]) BY <1>2, <1>12, <2>1, Zenon DEF Answered
    <3>2. m.id \in Services /\ m.link \in Links /\ mOwner'[m.id] = c[1] BY <1>2, <1>4, <1>7, <1>10, <2>1, Zenon
    <3>3. InfoOK(c, m)' BY <1>11, <3>2, Zenon DEF InfoOK
    <3>4. bound' \ {c} \subseteq bound BY <1>6, Zenon
    <3> QED BY <1>9, <1>15, <3>1, <3>3, <3>4, AnswerWrites, Zenon
  <2>2. CASE m.link = 0
    <3>1. down' = Publish(down, c[1]) BY <1>2, <1>10, <1>12, <2>2, Zenon DEF Answered
    <3> QED BY <1>2, <1>6, <1>9, <1>15, <3>1, PublishWrites, Zenon
  <2> QED BY <2>1, <2>2, Zenon
<1>17. /\ open' \subseteq open /\ bound' \subseteq bound \cup {c} /\ mRestarted' = mRestarted
       /\ UNCHANGED <<gvars, lvars>> /\ c \in bound
  BY <1>5, <1>6, <1>8, Zenon
<1> QED BY <1>1, <1>7, <1>9, <1>15, <1>16, <1>17, MasterStep, Zenon

\* A request that the master refuses: only the answer is sent.
LEMMA RequestRefused ==
    ASSUME IInv, NEW c \in Conns, MasterRecv(c),
           ~CheckServices(up[c][1].svc, c[1]) \/ (~Unread(c) /\ c \notin bound)
    PROVE  IInv'
<1>0. Types /\ Numbering BY Zenon DEF IInv
<1>1. /\ Head(up[c]) = up[c][1] /\ up[c][1] \in UpMsgs /\ up' \in [Conns -> Seq(UpMsgs)]
      /\ up'[c] = Tail(up[c]) /\ up[c] # <<>> /\ \A k \in Conns : k # c => up'[k] = up[k]
      /\ Unread(c) \/ IsUpdate(up[c][1])
  BY NextRequest, Zenon
<1>2. PICK r \in UpMsgs : r = up[c][1] BY Zenon, <1>1
<1>3. /\ IF r.kind = "register" THEN GateRegister(c, r) ELSE GateUpload(c, r)
      /\ UNCHANGED <<sockets, gvars, lvars, hvars>>
  BY Zenon, <1>1, <1>2 DEF MasterRecv
<1>4. Unread(c) = (r.kind = "register") BY <1>1, <1>2, Zenon DEF Unread
<1>5. FALSE \in BOOLEAN BY Zenon
<1>6. PICK m \in DownMsgs :
          /\ m.svc = NoInfo
          /\ IF Unread(c) THEN m.kind = "ack"
             ELSE m = UpdateAck(FALSE, r.id, r.link) /\ m.kind = "uack" /\ ~m.ok /\ m.id \in Services
                  /\ m.link \in Links \cup {0}
          /\ down' = Answered(down, c, m)
          /\ UNCHANGED <<mSock, mOwner, mOnline, bound, open, superseded>>
  <2>1. CASE Unread(c)
    <3>1. /\ down' = Wrote(down, c, Ack(FALSE, NoInfo))
          /\ UNCHANGED <<mSock, mOwner, mOnline, bound, open, superseded>>
      BY <1>2, <1>3, <1>4, <2>1, Zenon DEF GateRegister
    <3>2. PICK m \in DownMsgs : m = Ack(FALSE, NoInfo) /\ m.kind = "ack" /\ m.svc = NoInfo
      <4>1. PICK m : m = Ack(FALSE, NoInfo) BY Zenon
      <4>2. m \in DownMsgs /\ m.kind = "ack" /\ m.svc = NoInfo BY <1>5, <4>1, AnswerFacts, Zenon
      <4> QED BY <4>1, <4>2, Zenon
    <3>3. Answered(down, c, m) = Wrote(down, c, m) BY <3>2, Zenon DEF Answered
    <3> QED BY <2>1, <3>1, <3>2, <3>3, Zenon
  <2>2. CASE ~Unread(c)
    <3>1. /\ down' = Answered(down, c, UpdateAck(FALSE, r.id, r.link))
          /\ UNCHANGED <<mSock, mOwner, mOnline, bound, open, superseded>>
      BY <1>2, <1>3, <1>4, <2>2, Zenon DEF GateUpload
    <3>2. r.id \in Services /\ r.link \in Links \cup {0} BY <1>1, <1>2, <2>2, Zenon DEF UpMsgs, IsUpdate
    <3>3. PICK m \in DownMsgs : /\ m = UpdateAck(FALSE, r.id, r.link) /\ m.kind = "uack" /\ m.ok = FALSE
                                /\ m.svc = NoInfo /\ m.id = r.id /\ m.link = r.link
      <4>1. PICK m : m = UpdateAck(FALSE, r.id, r.link) BY Zenon
      <4>2. /\ m \in DownMsgs /\ m.kind = "uack" /\ m.ok = FALSE /\ m.svc = NoInfo
            /\ m.id = r.id /\ m.link = r.link
        <5>1. PICK s0 \in Services : s0 = r.id BY Zenon, <3>2
        <5>2. PICK n0 \in Links \cup {0} : n0 = r.link BY Zenon, <3>2
        <5>0. PICK b \in BOOLEAN : b = FALSE BY Zenon
        <5>3. m = UpdateAck(b, s0, n0) BY <4>1, <5>0, <5>1, <5>2, Zenon
        <5>4. m \in DownMsgs /\ m.kind = "uack" /\ m.ok = b /\ m.svc = NoInfo /\ m.id = s0 /\ m.link = n0
          BY <5>3, UpdateAckFacts
        <5> QED BY Zenon, <5>0, <5>1, <5>2, <5>4
      <4> QED BY <4>1, <4>2, Zenon
    <3> QED BY <2>2, <3>1, <3>2, <3>3, Zenon
  <2> QED BY <2>1, <2>2, Zenon
<1>7. \A s \in Services : m.svc[s] = None BY <1>6, Zenon DEF NoInfo
<1>8. UNCHANGED <<sockets, conn, sock, reg, home, ron, objs, nlink, lstate, ended, att, faults, mRestarted>>
  BY Zenon, <1>3 DEF gvars, lvars, hvars
<1>9. Numbering' BY <1>0, <1>6, <1>8, Zenon DEF Numbering
<1>10. down \in [Conns -> Seq(DownMsgs)] BY Zenon, <1>0 DEF Types
<1>11. down' \in [Conns -> Seq(DownMsgs)]
  <2>1. Wrote(down, c, m) \in [Conns -> Seq(DownMsgs)] BY Zenon, <1>10, WroteFacts
  <2> QED BY <1>6, <1>10, <2>1, Zenon DEF Answered
<1>12. Types' BY Zenon, <1>0, <1>1, <1>6, <1>8, <1>11 DEF Types, Tables
<1>13. MasterWrites(c)
  <2>1. CASE down' = Wrote(down, c, m)  /\ (m.kind = "uack" => m.link # 0)
    <3>1. m.kind = "uack" => ~m.ok /\ m.id \in Services /\ m.link \in Links BY <1>6, <2>1, Zenon
    <3>2. InfoOK(c, m)' BY Zenon, <1>7, <3>1 DEF InfoOK
    <3>3. Unread(c) => m.kind = "ack" BY <1>6, Zenon
    <3>4. bound' \ {c} \subseteq bound BY <1>6, Zenon
    <3> QED BY <1>9, <1>12, <2>1, <3>2, <3>3, <3>4, AnswerWrites, Zenon
  <2>2. CASE down' = down /\ ~Unread(c) BY <1>11, <2>2, Zenon DEF MasterWrites
  <2>3. Unread(c) => m.kind # "uack" BY <1>6, Zenon
  <2> QED BY <1>6, <2>1, <2>2, <2>3, Zenon DEF Answered
<1>14. /\ open' \subseteq open /\ bound' \subseteq bound \cup {c} /\ mRestarted' = mRestarted
       /\ UNCHANGED <<gvars, lvars>> /\ bound' = bound /\ mOwner' = mOwner
  BY <1>3, <1>6, <1>8, Zenon
<1> QED BY <1>1, <1>9, <1>12, <1>13, <1>14, MasterStep, Zenon

\* One turn of the loop of gate_master::socket_start.
LEMMA MasterRecvInv ==
    ASSUME IInv, NEW c \in Conns, MasterRecv(c)
    PROVE  IInv'
BY RegisterAccepted, UploadAccepted, RequestRefused, Zenon

\* The master notices that a connection is lost.
LEMMA MasterLostInv ==
    ASSUME IInv, NEW c \in Conns, MasterLost(c)
    PROVE  IInv'
<1>0. Types /\ Numbering BY Zenon DEF IInv
<1>1. /\ c \notin open /\ sockets' = sockets \ {c} /\ bound' = bound \ {c}
      /\ up' = [up EXCEPT ![c] = <<>>]
      /\ UNCHANGED <<open, superseded, gvars, lvars, hvars>>
  BY Zenon DEF MasterLost
<1>2. UNCHANGED <<conn, sock, reg, home, ron, objs, nlink, lstate, ended, att, faults, mRestarted>>
  BY Zenon, <1>1 DEF gvars, lvars, hvars
<1>3. PICK g \in Gates : g = c[1] /\ c = <<g, c[2]>> BY Zenon, ConnFacts
<1>4. /\ Tables' /\ mOwner' = mOwner /\ mSock' \in [Gates -> Nat]
      /\ \A h \in Gates : mSock'[h] # 0 => mSock'[h] = mSock[h] /\ <<h, mSock[h]>> # c
      /\ down' = Publish(down, g) \/ down' = down
  <2>1. CASE c \in bound /\ mSock[g] = c[2]
    <3>1. GateDisconnect(g) BY Zenon, <1>3, <2>1 DEF MasterLost
    <3>2. /\ mSock' = [mSock EXCEPT ![g] = 0] /\ mOwner' = mOwner /\ down' = Publish(down, g)
          /\ mOnline' = [s \in Services |-> IF mOwner[s] = g THEN FALSE ELSE mOnline[s]]
      BY Zenon, <3>1 DEF GateDisconnect
    <3>3. Tables' BY <1>0, <3>2, Zenon DEF Types, Tables
    <3>4. mSock' \in [Gates -> Nat] BY <1>0, <3>2, Zenon DEF Types
    <3>5. \A h \in Gates : mSock'[h] # 0 => h # g /\ mSock'[h] = mSock[h] BY <1>0, <3>2, Zenon DEF Types
    <3> QED BY <1>3, <3>2, <3>3, <3>4, <3>5
  <2>2. CASE ~(c \in bound /\ mSock[g] = c[2])
    <3>1. UNCHANGED <<mSock, mOwner, mOnline, down>> BY Zenon, <1>3, <2>2 DEF MasterLost
    <3>2. ASSUME NEW h \in Gates, mSock[h] # 0 PROVE <<h, mSock[h]>> # c
      <4>1. <<h, mSock[h]>> \in bound BY Zenon, <1>0, <3>2 DEF Numbering
      <4> QED BY <1>3, <2>2, <4>1
    <3> QED BY Zenon, <1>0, <3>1, <3>2 DEF Types, Tables
  <2> QED BY Zenon, <2>1, <2>2
<1>5. up' \in [Conns -> Seq(UpMsgs)] /\ up'[c] = <<>> /\ \A k \in Conns : k # c => up'[k] = up[k]
  BY Zenon, <1>0, <1>1, EmptyLen DEF Types
<1>6. down' \in [Conns -> Seq(DownMsgs)]
  <2>1. down \in [Conns -> Seq(DownMsgs)] BY Zenon, <1>0 DEF Types
  <2>2. Publish(down, g) \in [Conns -> Seq(DownMsgs)] BY <1>4, <2>1, PublishFacts, Zenon
  <2> QED BY Zenon, <1>4, <2>1, <2>2
<1>7. Types' BY <1>0, <1>1, <1>2, <1>4, <1>5, <1>6, Zenon DEF Types
<1>8. Numbering'
  <2>1. ASSUME NEW h \in Gates, mSock'[h] # 0 PROVE <<h, mSock'[h]>> \in bound'
    <3>1. mSock'[h] = mSock[h] /\ <<h, mSock[h]>> # c BY Zenon, <1>4, <2>1
    <3>2. <<h, mSock[h]>> \in bound BY Zenon, <1>0, <2>1, <3>1 DEF Numbering
    <3> QED BY <1>1, <3>1, <3>2, Zenon
  <2>2. \A k \in sockets' : k[2] <= conn'[k[1]] BY Zenon, <1>0, <1>1, <1>2 DEF Numbering
  <2> QED BY <1>0, <1>2, <2>1, <2>2, Zenon DEF Numbering
<1>9. MasterWrites(c)
  <2>1. CASE down' = down BY Zenon, <1>1, <1>6, <2>1 DEF MasterWrites
  <2>2. CASE down' = Publish(down, g)
    <3>1. bound' \subseteq bound BY Zenon, <1>1
    <3> QED BY Zenon, <1>1, <1>3, <1>7, <1>8, <2>2, <3>1, PublishWrites
  <2> QED BY Zenon, <1>4, <2>1, <2>2
<1>10. /\ open' \subseteq open /\ bound' \subseteq bound \cup {c} /\ mRestarted' = mRestarted
       /\ UNCHANGED <<gvars, lvars>> /\ c \notin bound'
  BY Zenon, <1>1, <1>2
<1> QED BY <1>4, <1>5, <1>7, <1>8, <1>9, <1>10, MasterStep, Zenon

\* The master starts again with empty tables.
LEMMA MasterRestartInv ==
    ASSUME IInv, MasterRestart
    PROVE  IInv'
<1>0. Types /\ Numbering /\ Linked /\ DownOK /\ Registering /\ Served BY Zenon DEF IInv
<1>1. /\ mRestarted' = TRUE /\ mSock' = [g \in Gates |-> 0]
      /\ mOwner' = [s \in Services |-> None] /\ mOnline' = [s \in Services |-> FALSE]
      /\ sockets' = {} /\ bound' = {} /\ open' = {}
      /\ up' = [c \in Conns |-> <<>>]
      /\ UNCHANGED <<superseded, down, conn, sock, reg, home, ron, objs, nlink, lstate, ended, att>>
  BY Zenon DEF MasterRestart, gvars, lvars
<1>2. faults' \in 0..MaxFaults BY Zenon, <1>0, FaultFacts DEF MasterRestart
<1>3. Types'
  <2>1. up' \in [Conns -> Seq(UpMsgs)] BY Zenon, <1>1, EmptyLen
  <2>2. Tables' /\ mSock' \in [Gates -> Nat] BY Zenon, <1>1 DEF Tables
  <2> QED BY Zenon, <1>0, <1>1, <1>2, <2>1, <2>2 DEF Types
<1>4. Numbering' BY <1>0, <1>1, Zenon DEF Numbering
<1>5. Linked' BY Zenon, <1>0, <1>1, SameLinked
<1>6. \A c \in Conns : ~Unread(c)' /\ up'[c] = <<>> BY Zenon, <1>1 DEF Unread
<1>7. UpOK'
  <2>1. \A c \in Conns : 1..Len(up'[c]) = {} BY <1>6
  <2> QED BY Zenon, <1>6, <2>1 DEF UpOK
<1>8. DownOK'
  <2>1. ASSUME NEW c \in Conns, NEW i \in 1..Len(down[c]) PROVE InfoOK(c, down[c][i])'
    <3>1. InfoOK(c, down[c][i]) BY Zenon, <1>0 DEF DownOK
    <3> QED BY Zenon, <1>1, <3>1 DEF InfoOK
  <2> QED BY Zenon, <1>0, <1>1, <2>1 DEF DownOK
<1>9. Registering' BY <1>0, <1>1, Zenon DEF Registering, Current
<1>10. Served'
  <2>1. \A h \in Gates, s \in Services : Serves(h, s)' = Serves(h, s) /\ (home'[h][s] = h => Serves(h, s))
    BY <1>0, <1>1, Zenon DEF Served, Serves
  <2>2. ASSUME NEW h \in Gates, sock'[h] # 0 PROVE ~Unread(Current(h))'
    <3>1. PICK k \in Conns : k = Current(h) BY Zenon, <1>0, <1>1, <2>2, CurrentConn
    <3>2. Current(h)' = k BY Zenon, <1>1, <3>1 DEF Current
    <3> QED BY Zenon, <1>6, <3>2 DEF Unread
  <2> QED BY <1>1, <2>1, <2>2, Zenon DEF Served
<1> QED BY Zenon, <1>3, <1>4, <1>5, <1>7, <1>8, <1>9, <1>10 DEF IInv

\* A gate connects and asks to be registered with every service it serves.
LEMMA ConnectInv ==
    ASSUME IInv, NEW g \in Gates, Connect(g)
    PROVE  IInv'
<1>0. Types /\ Numbering /\ Linked /\ UpOK /\ DownOK /\ Registering /\ Served BY Zenon DEF IInv
<1>1. PICK c : c = <<g, conn[g] + 1>> BY Zenon
<1>2. PICK r : r = Register(LocalServices(g)) BY Zenon
<1>3. /\ reg[g] = "down" /\ conn[g] < MaxConn[g]
      /\ conn' = [conn EXCEPT ![g] = conn[g] + 1] /\ sock' = [sock EXCEPT ![g] = conn[g] + 1]
      /\ reg' = [reg EXCEPT ![g] = "registering"]
      /\ open' = open \cup {c} /\ sockets' = sockets \cup {c}
      /\ up' = [up EXCEPT ![c] = <<r>>]
      /\ UNCHANGED <<mSock, mOwner, mOnline, bound, superseded, down, home, ron, objs,
                     nlink, lstate, ended, att, faults, mRestarted>>
  BY <1>1, <1>2, Zenon DEF Connect, lvars, hvars
<1>4. conn[g] \in Nat /\ MaxConn[g] \in Nat BY Zenon, <1>0, DiscoveryAssumption DEF Types
<1>5. c \in Conns /\ c[1] = g /\ c[2] = conn[g] + 1
  <2>1. conn[g] + 1 \in Nat /\ conn[g] + 1 # 0 /\ conn[g] + 1 <= MaxConn[g] BY <1>3, <1>4
  <2> QED BY Zenon, <1>1, <2>1, ConnFacts
<1>6. c \notin sockets /\ c \notin bound
  <2>1. c \in sockets => conn[g] + 1 <= conn[g] BY Zenon, <1>0, <1>5 DEF Numbering
  <2> QED BY <1>0, <1>4, <2>1 DEF Types
<1>7. r \in UpMsgs /\ r.kind = "register" /\ \A s \in Services : Serves(g, s) => r.svc[s] # "none"
  <2>1. LocalServices(g) \in Reports BY Zenon DEF LocalServices, Reports, Flag
  <2>2. r \in UpMsgs /\ r.kind = "register" /\ r.svc = LocalServices(g) BY Zenon, <1>2, <2>1, RequestFacts
  <2>3. \A s \in Services : Serves(g, s) => LocalServices(g)[s] # "none" BY Zenon DEF LocalServices, Flag, Serves
  <2> QED BY Zenon, <2>2, <2>3
<1>8. PICK t : t = <<r>> BY Zenon
<1>9. t \in Seq(UpMsgs) /\ 1..Len(t) = {1} /\ t[1] = r /\ t # <<>> BY <1>7, <1>8
<1>10. up \in [Conns -> Seq(UpMsgs)] BY Zenon, <1>0 DEF Types
<1>11. up' \in [Conns -> Seq(UpMsgs)] /\ up'[c] = t /\ \A k \in Conns : k # c => up'[k] = up[k]
  BY Zenon, <1>3, <1>5, <1>8, <1>9, <1>10
<1>12. Types'
  <2>1. /\ conn' \in [Gates -> Nat] /\ sock' \in [Gates -> Nat]
        /\ reg' \in [Gates -> {"down", "registering", "ready"}]
    BY <1>0, <1>3, <1>4 DEF Types
  <2>2. sockets' \subseteq Conns /\ bound' \subseteq sockets' /\ open' \subseteq sockets'
    BY Zenon, <1>0, <1>3, <1>5 DEF Types
  <2> QED BY <1>0, <1>3, <1>11, <2>1, <2>2, Zenon DEF Types, Tables
<1>13. \A h \in Gates : h # g => conn'[h] = conn[h] /\ sock'[h] = sock[h] /\ reg'[h] = reg[h]
  BY Zenon, <1>0, <1>3 DEF Types
<1>14. conn'[g] = conn[g] + 1 /\ sock'[g] = conn[g] + 1 /\ reg'[g] = "registering" BY Zenon, <1>0, <1>3 DEF Types
<1>15. Numbering'
  <2>1. ASSUME NEW h \in Gates
        PROVE  /\ conn'[h] <= MaxConn[h] /\ sock'[h] \in {0, conn'[h]}
               /\ (sock'[h] = 0) = (reg'[h] = "down")
               /\ mSock'[h] # 0 => <<h, mSock'[h]>> \in bound'
    <3>1. CASE h = g BY <1>0, <1>3, <1>4, <1>14, <3>1 DEF Numbering
    <3>2. CASE h # g BY Zenon, <1>0, <1>3, <1>13, <3>2 DEF Numbering
    <3> QED BY Zenon, <3>1, <3>2
  <2>2. ASSUME NEW k \in sockets' PROVE k[2] <= conn'[k[1]]
    <3>1. CASE k = c BY <1>4, <1>5, <1>14, <3>1
    <3>2. CASE k # c
      <4>1. k \in sockets /\ k \in Conns BY Zenon, <1>0, <1>3, <3>2 DEF Types
      <4>2. k[1] \in Gates /\ k[2] \in Nat /\ k[2] <= conn[k[1]] BY Zenon, <1>0, <4>1, ConnFacts DEF Numbering
      <4>3. k[1] = g => conn'[k[1]] = conn[k[1]] + 1 BY <1>14, Zenon
      <4> QED BY <1>4, <1>13, <4>2, <4>3
    <3> QED BY Zenon, <3>1, <3>2
  <2> QED BY Zenon, <2>1, <2>2 DEF Numbering
<1>16. Linked' BY Zenon, <1>0, <1>3, SameLinked
<1>17. \A k \in Conns : k # c => Unread(k)' = Unread(k) BY Zenon, <1>11 DEF Unread
<1>18. Unread(c)' BY Zenon, <1>7, <1>9, <1>11 DEF Unread
<1>19. sock[g] = 0 BY <1>0, <1>3, Zenon DEF Numbering
<1>20. \A k \in Conns : down[k] # <<>> => k[1] # g
  <2>1. \A k \in Conns : down[k] # <<>> => sock[k[1]] = k[2] /\ k[2] # 0 BY Zenon, <1>0, ConnFacts DEF DownOK
  <2> QED BY Zenon, <1>19, <2>1
<1>21. UpOK'
  <2>1. ASSUME NEW k \in Conns
        PROVE  /\ \A i \in 1..Len(up'[k]) : (i = 1 /\ up'[k][i].kind = "register") \/ IsUpdate(up'[k][i])
               /\ Unread(k)' => k \notin bound' /\ down'[k] = <<>>
    <3>1. CASE k = c
      <4>1. \A i \in 1..Len(up'[c]) : i = 1 /\ up'[c][i].kind = "register" BY Zenon, <1>7, <1>9, <1>11
      <4>2. down'[c] = <<>> BY Zenon, <1>3, <1>5, <1>20
      <4> QED BY Zenon, <1>3, <1>6, <3>1, <4>1, <4>2
    <3>2. CASE k # c
      <4>1. up'[k] = up[k] BY Zenon, <1>11, <3>2
      <4>2. Unread(k)' = Unread(k) BY Zenon, <1>17, <3>2
      <4> QED BY <1>0, <1>3, <4>1, <4>2, Zenon DEF UpOK
    <3> QED BY Zenon, <3>1, <3>2
  <2> QED BY Zenon, <2>1 DEF UpOK
<1>22. DownOK'
  <2>1. ASSUME NEW k \in Conns, down'[k] # <<>> PROVE sock'[k[1]] = k[2]
    <3>1. k[1] \in Gates /\ k[1] # g /\ sock[k[1]] = k[2] BY Zenon, <1>0, <1>3, <1>20, <2>1, ConnFacts DEF DownOK
    <3> QED BY Zenon, <1>13, <3>1
  <2>2. ASSUME NEW k \in Conns, NEW i \in 1..Len(down[k]) PROVE InfoOK(k, down[k][i])'
    <3>1. InfoOK(k, down[k][i]) BY Zenon, <1>0 DEF DownOK
    <3> QED BY <1>3, <3>1, Zenon DEF InfoOK
  <2> QED BY <1>3, <2>1, <2>2, Zenon DEF DownOK
<1>23. Current(g)' = c BY Zenon, <1>1, <1>14 DEF Current
<1>24. Registering'
  <2>1. SUFFICES ASSUME NEW h \in Gates, reg'[h] = "registering"
                 PROVE  (IF down[Current(h)] = <<>> THEN Current(h) \in open => Unread(Current(h))
                         ELSE down[Current(h)][1].kind = "ack")'
    BY Zenon DEF Registering
  <2>2. CASE h = g
    <3>1. down'[c] = <<>> BY Zenon, <1>3, <1>5, <1>20
    <3>2. Unread(Current(g))' BY Zenon, <1>18, <1>23 DEF Unread
    <3> QED BY Zenon, <1>23, <2>2, <3>1, <3>2
  <2>3. CASE h # g
    <3>1. sock'[h] = sock[h] /\ reg[h] = "registering" BY Zenon, <1>13, <2>1, <2>3
    <3>2. sock[h] # 0 BY <1>0, <3>1, Zenon DEF Numbering
    <3>3. PICK k \in Conns : k = Current(h) /\ k[1] = h BY Zenon, <1>0, <3>2, CurrentConn
    <3>4. Current(h)' = k /\ k # c BY Zenon, <1>5, <2>3, <3>1, <3>3 DEF Current
    <3>5. IF down[k] = <<>> THEN k \in open => Unread(k) ELSE down[k][1].kind = "ack"
      BY Zenon, <1>0, <3>1, <3>3 DEF Registering
    <3>6. Unread(Current(h))' = Unread(k) BY Zenon, <1>17, <3>4 DEF Unread
    <3>7. k \in open' => k \in open BY Zenon, <1>3, <3>4
    <3> QED BY <1>3, <3>4, <3>5, <3>6, <3>7, Zenon
  <2> QED BY <2>2, <2>3, Zenon
<1>25. Served'
  <2>1. \A h \in Gates, s \in Services : Serves(h, s)' = Serves(h, s) /\ (home'[h][s] = h => Serves(h, s))
    BY <1>0, <1>3, Zenon DEF Served, Serves
  <2>2. ASSUME NEW h \in Gates, NEW s \in Services, Serves(h, s)
        PROVE  /\ ~mRestarted' \/ Current(h)' \in bound' => mOwner'[s] = h
               /\ sock'[h] # 0 /\ Unread(Current(h))' => up'[Current(h)'][1].svc[s] # "none"
    <3>1. /\ ~mRestarted \/ Current(h) \in bound => mOwner[s] = h
          /\ sock[h] # 0 /\ Unread(Current(h)) => up[Current(h)][1].svc[s] # "none"
      BY <1>0, <2>2, Zenon DEF Served
    <3>2. CASE h = g
      <4>1. up'[c][1].svc[s] # "none" BY <1>7, <1>9, <1>11, <2>2, <3>2, Zenon
      <4> QED BY <1>3, <1>6, <1>23, <3>1, <3>2, <4>1, Zenon
    <3>3. CASE h # g
      <4>1. sock'[h] = sock[h] /\ Current(h)' = Current(h) BY Zenon, <1>13, <3>3 DEF Current
      <4>2. ASSUME sock[h] # 0, Unread(Current(h))' PROVE up'[Current(h)][1].svc[s] # "none"
        <5>1. PICK k \in Conns : k = Current(h) /\ k[1] = h BY Zenon, <1>0, <4>2, CurrentConn
        <5>2. k # c BY Zenon, <1>5, <3>3, <5>1
        <5>3. Unread(k)' BY Zenon, <4>1, <4>2, <5>1 DEF Unread
        <5>4. Unread(k) /\ up'[k] = up[k] BY Zenon, <1>11, <1>17, <5>2, <5>3
        <5> QED BY <3>1, <4>2, <5>1, <5>4, Zenon
      <4> QED BY <1>3, <3>1, <4>1, <4>2, Zenon
    <3> QED BY Zenon, <3>2, <3>3
  <2> QED BY Zenon, <2>1, <2>2 DEF Served
<1> QED BY Zenon, <1>12, <1>15, <1>16, <1>21, <1>22, <1>24, <1>25 DEF IInv

-----------------------------------------------------------------------------
(* The results *)

\* The invariant holds initially.
LEMMA InitInv == Init => IInv
<1> SUFFICES ASSUME Init PROVE IInv BY Zenon
<1>1. MaxFaults \in Nat BY Zenon, DiscoveryAssumption
<1>2. Types
  <2>1. <<>> \in Seq(UpMsgs) /\ <<>> \in Seq(DownMsgs) /\ <<>> \in Seq(Entries) BY Zenon, EmptyLen
  <2>2. Tables BY Zenon DEF Init, Tables
  <2>3. /\ mSock \in [Gates -> Nat] /\ conn \in [Gates -> Nat] /\ sock \in [Gates -> Nat]
        /\ reg \in [Gates -> {"down", "registering", "ready"}]
    BY Zenon DEF Init
  <2>4. sockets \subseteq Conns /\ bound \subseteq sockets /\ open \subseteq sockets /\ superseded \subseteq Gates
    BY Zenon DEF Init
  <2>5. up \in [Conns -> Seq(UpMsgs)] /\ down \in [Conns -> Seq(DownMsgs)] /\ objs \in [Processes -> Seq(Entries)]
    BY Zenon, <2>1 DEF Init
  <2>6. home \in [Gates -> [Services -> Gates \cup {None}]] /\ ron \in [Gates -> [Services -> BOOLEAN]]
    BY Zenon DEF Init
  <2>7. nlink \in [Processes -> Nat] /\ ended \in [Processes -> SUBSET Nat] BY Zenon DEF Init
  <2>8. /\ lstate \in [Processes -> [Links -> {"none", "asked", "upload", "done"}]]
        /\ att \in [Processes -> [Links -> Nat]]
    BY Zenon DEF Init
  <2>9. faults = 0 /\ mRestarted = FALSE BY Zenon DEF Init
  <2>10. faults \in 0..MaxFaults BY <1>1, <2>9
  <2>11. mRestarted \in BOOLEAN BY <2>9, Zenon
  <2> QED BY Zenon, <2>2, <2>3, <2>4, <2>5, <2>6, <2>7, <2>8, <2>10, <2>11 DEF Types
<1>3. Numbering BY DiscoveryAssumption DEF Init, Numbering
<1>4. Linked
  <2>1. \A p \in Processes : MaxLinks[p] \in Nat BY Zenon, DiscoveryAssumption DEF Processes
  <2>2. \A p \in Processes : nlink[p] = 0 /\ ended[p] = {} /\ objs[p] = <<>> /\ \A n \in Links : att[p][n] = 0
    BY Zenon DEF Init
  <2> QED BY <2>1, <2>2 DEF Linked
<1>5. \A c \in Conns : up[c] = <<>> /\ down[c] = <<>> /\ 1..Len(up[c]) = {} /\ 1..Len(down[c]) = {} BY DEF Init
<1>6. UpOK /\ DownOK BY Zenon, <1>5 DEF UpOK, DownOK, Unread
<1>7. Registering BY Zenon DEF Init, Registering
<1>8. Served
  <2>1. \A h \in Gates, s \in Services : home[h][s] # h BY Zenon, DiscoveryAssumption DEF Init
  <2>2. \A h \in Gates, s \in Services : ~Serves(h, s) BY ProcessFacts, Zenon DEF Init, Serves
  <2> QED BY Zenon, <2>1, <2>2 DEF Served
<1> QED BY Zenon, <1>2, <1>3, <1>4, <1>6, <1>7, <1>8 DEF IInv

\* Every step keeps it.
LEMMA NextInv == IInv /\ [Next]_vars => IInv'
<1> SUFFICES ASSUME IInv, [Next]_vars PROVE IInv' BY Zenon
<1>1. CASE UNCHANGED vars
  <2>1. Types /\ Numbering /\ Linked /\ UpOK /\ DownOK /\ Registering /\ Served BY Zenon DEF IInv
  <2>2. UNCHANGED <<mSock, mOwner, mOnline, sockets, bound, superseded, open, up, down, conn, sock, reg, home, ron,
                    objs, nlink, lstate, ended, att, faults, mRestarted>>
    BY Zenon, <1>1 DEF vars, mvars, nvars, gvars, lvars, hvars
  <2>3. Types' BY Zenon, <2>1, <2>2 DEF Types, Tables
  <2>4. Numbering' BY Zenon, <2>1, <2>2 DEF Numbering
  <2>5. Linked' BY Zenon, <2>1, <2>2, SameLinked
  <2>6. UpOK' BY <2>1, <2>2, Zenon DEF UpOK, Unread
  <2>7. DownOK' BY <2>1, <2>2, Zenon DEF DownOK, InfoOK
  <2>8. Registering' BY <2>1, <2>2, Zenon DEF Registering, Current, Unread
  <2>9. Served' BY <2>1, <2>2, Zenon DEF Served, Serves, Current, Unread
  <2> QED BY Zenon, <2>3, <2>4, <2>5, <2>6, <2>7, <2>8, <2>9 DEF IInv
<1>2. CASE MasterRestart BY Zenon, <1>2, MasterRestartInv
<1>3. ASSUME NEW c \in Conns, MasterRecv(c) \/ MasterLost(c) \/ Cut(c) PROVE IInv'
  BY Zenon, <1>3, MasterRecvInv, MasterLostInv, CutInv
<1>4. ASSUME NEW g \in Gates,
             \/ Connect(g) \/ RecvRegisterAck(g) \/ RegisterTimeout(g)
             \/ RecvBroadcast(g) \/ RecvUpdateAck(g) \/ GateLost(g) \/ GateRestart(g)
      PROVE  IInv'
  BY Zenon, <1>4, ConnectInv, GateLeaves, LearnInv, RecvUpdateAckInv, GateRestartInv
<1>5. ASSUME NEW p \in Processes, LinkOpen(p) PROVE IInv' BY Zenon, <1>5, LinkOpenInv
<1>6. ASSUME NEW p \in Processes, NEW n \in Links, ServiceRegister(p, n) \/ UploadTimeout(p, n) \/ LinkLost(p, n)
      PROVE  IInv'
  BY Zenon, <1>6, ServiceRegisterInv, UploadTimeoutInv, LinkLostInv
<1> QED BY Zenon, <1>1, <1>2, <1>3, <1>4, <1>5, <1>6 DEF Next

\* It holds of every state of the gates, the master and the processes.
LEMMA Invariance == Spec => []IInv
BY InitInv, NextInv, PTL DEF Spec

\* The tables, messages and links have their types.
LEMMA TypesOK == IInv => TypeOK
<1> SUFFICES ASSUME IInv PROVE TypeOK BY Zenon
<1>0. Types /\ Numbering /\ Linked BY Zenon DEF IInv
<1>1. ASSUME NEW g \in Gates PROVE mSock[g] \in 0..conn[g] /\ conn[g] \in 0..MaxConn[g]
  <2>1. mSock[g] \in Nat /\ conn[g] \in Nat /\ MaxConn[g] \in Nat BY Zenon, <1>0, DiscoveryAssumption DEF Types
  <2>2. conn[g] <= MaxConn[g] BY <1>0, Zenon DEF Numbering
  <2>3. mSock[g] # 0 => mSock[g] <= conn[g]
    <3>1. SUFFICES ASSUME mSock[g] # 0 PROVE mSock[g] <= conn[g] BY Zenon
    <3>2. <<g, mSock[g]>> \in sockets BY Zenon, <1>0, <3>1 DEF Numbering, Types
    <3>3. <<g, mSock[g]>>[2] <= conn[<<g, mSock[g]>>[1]] BY Zenon, <1>0, <3>2 DEF Numbering
    <3> QED BY Zenon, <3>3
  <2> QED BY <2>1, <2>2, <2>3
<1>2. ASSUME NEW c \in Conns
      PROVE  /\ \A i \in DOMAIN up[c] : up[c][i] \in UpMsgs
             /\ \A i \in DOMAIN down[c] : down[c][i] \in DownMsgs
  <2>1. up[c] \in Seq(UpMsgs) /\ down[c] \in Seq(DownMsgs) BY Zenon, <1>0 DEF Types
  <2> QED BY Zenon, <2>1, LenFacts, ElementFacts
<1>3. ASSUME NEW p \in Processes
      PROVE  /\ \A i \in DOMAIN objs[p] : objs[p][i] \in [sock : Links \cup {0}, on : BOOLEAN]
             /\ nlink[p] \in Links \cup {0} /\ ended[p] \subseteq 1..nlink[p]
             /\ lstate[p] \in [Links -> {"none", "asked", "upload", "done"}]
             /\ att[p] \in [Links -> 0..Len(objs[p])]
  <2>1. objs[p] \in Seq(Entries) BY Zenon, <1>0 DEF Types
  <2>2. \A i \in DOMAIN objs[p] : objs[p][i] \in Entries BY Zenon, <2>1, LenFacts, ElementFacts
  <2>3. nlink[p] \in Nat /\ nlink[p] <= MaxLinks[p] BY Zenon, <1>0 DEF Types, Linked
  <2>4. nlink[p] \in Links \cup {0} BY Zenon, <2>3, LinkFacts
  <2>5. att[p] \in [Links -> 0..Len(objs[p])]
    <3>1. att[p] \in [Links -> Nat] /\ Len(objs[p]) \in Nat BY Zenon, <1>0, <2>1, LenFacts DEF Types
    <3>2. \A n \in Links : att[p][n] <= Len(objs[p]) BY Zenon, <1>0 DEF Linked
    <3>3. \A n \in Links : att[p][n] \in 0..Len(objs[p]) BY <3>1, <3>2
    <3> QED BY Zenon, <3>1, <3>3
  <2>6. ended[p] \subseteq 1..nlink[p] /\ lstate[p] \in [Links -> {"none", "asked", "upload", "done"}]
    BY Zenon, <1>0 DEF Types, Linked
  <2> QED BY Zenon, <2>2, <2>4, <2>5, <2>6 DEF Entries
<1>4. ASSUME NEW g \in Gates
      PROVE  /\ sock[g] \in {0, conn[g]} /\ reg[g] \in {"down", "registering", "ready"}
             /\ (sock[g] = 0) = (reg[g] = "down")
             /\ mSock[g] # 0 => <<g, mSock[g]>> \in bound
  BY Zenon, <1>0 DEF Types, Numbering
<1>5. sockets \subseteq Conns /\ bound \subseteq sockets /\ open \subseteq Conns BY Zenon, <1>0 DEF Types
<1> QED BY <1>0, <1>1, <1>2, <1>3, <1>4, <1>5, Zenon DEF TypeOK, Types, Tables

\* However processes, gates, answers, lost connections and restarts of gates
\* interleave, a service id is served by one gate only, as long as the master
\* keeps its tables (gate_master::check_services, local_listener's
\* service_register).
THEOREM ServiceHasOneHome == Spec => []OneHome
<1>1. IInv => OneHome
  <2> SUFFICES ASSUME IInv PROVE OneHome BY Zenon
  <2>1. TypeOK BY Zenon, TypesOK
  <2>2. ASSUME ~mRestarted, NEW s \in Services, NEW g \in Gates, NEW h \in Gates,
               objs[<<g, s>>] # <<>>, objs[<<h, s>>] # <<>>
        PROVE  g = h
    BY <2>2 DEF IInv, Served, Serves
  <2> QED BY Zenon, <2>1, <2>2 DEF OneHome
<1> QED BY <1>1, Invariance, PTL

\* While the master holds the connection a gate uses, it has every service the
\* gate serves in that gate's name, also after restarts and for answers that
\* come late; and the first message a gate gets on a connection is the answer
\* to its registration (gate_master::gate_register and publish,
\* master_connector::recv_one_message).
THEOREM MasterAgreesWithGates == Spec => []RegisteredAgree
<1>1. IInv => RegisteredAgree
  <2> SUFFICES ASSUME IInv, NEW g \in Gates
               PROVE  /\ reg[g] = "ready" /\ mSock[g] = sock[g] =>
                            \A s \in Services : objs[<<g, s>>] # <<>> => mOwner[s] = g
                      /\ reg[g] = "registering" /\ down[<<g, sock[g]>>] # <<>>
                            => Head(down[<<g, sock[g]>>]).kind = "ack"
    BY Zenon DEF RegisteredAgree
  <2>0. Types /\ Numbering /\ Registering /\ Served BY Zenon DEF IInv
  <2>1. ASSUME reg[g] = "ready", mSock[g] = sock[g], NEW s \in Services, objs[<<g, s>>] # <<>>
        PROVE  mOwner[s] = g
    <3>1. sock[g] # 0 BY <2>0, <2>1, Zenon DEF Numbering
    <3>2. Current(g) \in bound BY Zenon, <2>0, <2>1, <3>1 DEF Numbering, Current
    <3> QED BY Zenon, <2>0, <2>1, <3>2 DEF Served, Serves
  <2>2. ASSUME reg[g] = "registering", down[<<g, sock[g]>>] # <<>>
        PROVE  Head(down[<<g, sock[g]>>]).kind = "ack"
    <3>1. sock[g] # 0 BY <2>0, <2>2, Zenon DEF Numbering
    <3>2. PICK c \in Conns : c = Current(g) BY Zenon, <2>0, <3>1, CurrentConn
    <3>3. down[c] \in Seq(DownMsgs) /\ down[c] # <<>> BY Zenon, <2>0, <2>2, <3>2 DEF Types, Current
    <3>4. Head(down[c]) = down[c][1] BY <3>3
    <3>5. down[c][1].kind = "ack" BY Zenon, <2>0, <2>2, <3>2, <3>3 DEF Registering
    <3> QED BY Zenon, <3>2, <3>4, <3>5 DEF Current
  <2> QED BY Zenon, <2>1, <2>2
<1> QED BY <1>1, Invariance, PTL
=============================================================================
