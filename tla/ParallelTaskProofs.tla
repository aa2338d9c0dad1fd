------------------------- MODULE ParallelTaskProofs -------------------------
(***************************************************************************)
(* JoinsAll, CancelReachesTree and FirstSuccessWins of ParallelTask for    *)
(* any finite tree of awaitables and any wait types.                       *)
(***************************************************************************)
EXTENDS ParallelTask, SeqFacts, FiniteSetTheorems

Active == {"entering", "running", "starting", "resumed"}
Before == {"new", "entering", "running", "waiting", "woken"}
States == {"new", "entering", "running", "waiting", "woken", "starting", "joining", "resumed", "done"}

Open(n) == {k \in KidSet(n) : state[k] # "done"}
Ended(n) == {k \in KidSet(n) : state[k] = "done"}

\* On the stack are those that run; all but the innermost start a child.
Frames ==
    /\ Range(stack) = {n \in Nodes : state[n] \in Active}
    /\ stack # <<>> => \A n \in Range(stack) \ {Head(stack)} : state[n] = "starting"
    /\ \A n \in Nodes : state[n] \in {"starting", "joining", "resumed"} => n \in Inner

\* The children a when_ready has started, and what count_ counts.
Family(n) ==
    /\ state[n] \in Before => pos[n] = 1 /\ \A k \in KidSet(n) : state[k] = "new"
    /\ state[n] = "starting" =>
        /\ pos[n] \in 1..Len(Kids[n]) + 1
        /\ \A i \in 1..Len(Kids[n]) : state[Kids[n][i]] = "new" <=> i >= pos[n]
    /\ state[n] = "joining" => \A k \in KidSet(n) : state[k] # "new"
    /\ state[n] = "resumed" => \A k \in KidSet(n) : state[k] = "done"
    /\ state[n] = "done" => \A k \in KidSet(n) : state[k] \in {"new", "done"}
    /\ state[n] \in Before \cup {"starting"} => count[n] = Cardinality(Open(n)) + 1
    /\ state[n] = "joining" => count[n] = Cardinality(Open(n)) /\ count[n] # 0

\* An awaitable that waits hears of a cancellation.
Reach(n) ==
    /\ state[n] = "waiting" => n \in registered /\ ~Requested(n)
    /\ state[n] = "joining" => \/ n \in missed \cup requested
                               \/ n \in registered /\ ~Requested(n)

\* What a || that has ended made of its children.
Settled(n, bad, res) ==
    type[n] = "one_succ" =>
        /\ bad => Requested(n) \/ \A k \in KidSet(n) : failed[k] \/ state[k] = "new"
        /\ ~bad /\ res # None =>
            n \in requested /\ \A k \in KidSet(n) : ~failed[k] => index[res] <= index[k]

\* A success cancels the others, and index_ numbers the children as they end.
Outcome(n) ==
    /\ type[n] = "one_succ" => Len(Kids[n]) = 2 /\ \A k \in Ended(n) : ~failed[k] => n \in requested
    /\ \A k \in Ended(n) : index[k] < Cardinality(Ended(n))
    /\ \A j, k \in Ended(n) : index[j] = index[k] => j = k
    /\ state[n] # "done" => result[n] = None
    /\ state[n] = "done" => Settled(n, failed[n], result[n])
    /\ result[n] # None => result[n] \in Ended(n)

IInv ==
    /\ TypeOK /\ Frames
    /\ \A n \in Inner : Family(n) /\ Outcome(n)
    /\ \A n \in Nodes : Reach(n)

-----------------------------------------------------------------------------
(* The tree.                                                               *)

\* Every awaitable but the root has one parent, under whose source it runs.
LEMMA TokenFacts ==
    /\ TokenOf(Root) = Outside /\ Outside \notin Nodes
    /\ \A n \in Nodes \ {Root} : TokenOf(n) \in Inner /\ n \in KidSet(TokenOf(n))
    /\ \A p \in Inner : \A k \in KidSet(p) : k \in Nodes \ {Root} /\ TokenOf(k) = p
    /\ \A n \in Nodes : TokenOf(n) \in Sources
    /\ Inner \subseteq Nodes
<1>1. Inner \subseteq Nodes BY Zenon DEF Inner
<1>2. ASSUME NEW n \in Nodes \ {Root}
      PROVE  /\ TokenOf(n) \in Inner /\ n \in KidSet(TokenOf(n))
             /\ \A q \in Inner : n \in KidSet(q) => q = TokenOf(n)
    <2>1. PICK p \in Inner : \A q \in Inner : n \in KidSet(q) <=> q = p
        BY Zenon, ParallelTaskAssumption
    <2>2. TokenOf(n) = CHOOSE q \in Inner : n \in KidSet(q) BY Zenon DEF TokenOf
    <2>3. TokenOf(n) \in Inner /\ n \in KidSet(TokenOf(n)) BY Zenon, <2>1, <2>2
    <2> QED BY Zenon, <2>1, <2>3
<1>3. ASSUME NEW p \in Inner, NEW k \in KidSet(p) PROVE k \in Nodes \ {Root} /\ TokenOf(k) = p
    <2>1. Kids[p] \in Seq(Nodes \ {Root}) BY Zenon, <1>1, ParallelTaskAssumption
    <2>2. k \in Nodes \ {Root} BY Zenon, <2>1, RangeDef DEF KidSet
    <2> QED BY Zenon, <1>2, <2>2
<1>4. TokenOf(Root) = Outside /\ Outside \notin Nodes BY Zenon, ParallelTaskAssumption DEF TokenOf
<1> QED BY Zenon, <1>1, <1>2, <1>3, <1>4 DEF Sources

\* The sources above an awaitable.
LEMMA AboveFacts ==
    ASSUME NEW n \in Nodes
    PROVE  /\ TokenOf(n) \in Above[n] /\ n \notin Above[n]
           /\ \A m \in Above[n] \cap Nodes : Above[m] \subseteq Above[n]
           /\ \A t \in Above[n] :
                t = TokenOf(n) \/ (TokenOf(n) \in Nodes /\ t \in Above[TokenOf(n)])
<1> DEFINE Closed(S) == \A m \in S \cap Nodes : TokenOf(m) \in S
<1>1. \A m \in Nodes : Above[m] =
        {t \in Sources : \A S \in SUBSET Sources : TokenOf(m) \in S /\ Closed(S) => t \in S}
    BY Zenon DEF Above
<1>2. \A m \in Nodes : TokenOf(m) \in Sources BY Zenon, TokenFacts
<1>3. \A m \in Nodes : TokenOf(m) \in Above[m] /\ Above[m] \in SUBSET Sources BY Zenon, <1>1, <1>2
<1>4. \A m \in Nodes : Closed(Above[m])
    <2> SUFFICES ASSUME NEW m \in Nodes, NEW x \in Above[m] \cap Nodes PROVE TokenOf(x) \in Above[m]
        BY Zenon
    <2>1. ASSUME NEW S \in SUBSET Sources, TokenOf(m) \in S, Closed(S) PROVE TokenOf(x) \in S
        <3>1. x \in S BY Zenon, <1>1, <2>1
        <3> QED BY Zenon, <2>1, <3>1
    <2> QED BY Zenon, <1>1, <1>2, <2>1
<1>5. \A m \in Above[n] \cap Nodes : Above[m] \subseteq Above[n]
    <2> SUFFICES ASSUME NEW m \in Above[n] \cap Nodes, NEW t \in Above[m] PROVE t \in Above[n]
        BY Zenon
    <2>1. TokenOf(m) \in Above[n] BY Zenon, <1>4
    <2> QED BY Zenon, <1>1, <1>3, <1>4, <2>1
<1>6. CASE TokenOf(n) \in Nodes
    <2> DEFINE S == {TokenOf(n)} \cup Above[TokenOf(n)]
    <2>1. S \in SUBSET Sources BY Zenon, <1>2, <1>3, <1>6
    <2>2. Closed(S) BY Zenon, <1>3, <1>4, <1>6
    <2>3. \A t \in Above[n] : t \in S
        <3>1. TokenOf(n) \in S BY Zenon
        <3> HIDE DEF S
        <3> QED BY Zenon, <1>1, <2>1, <2>2, <3>1
    <2> QED BY Zenon, <1>3, <1>5, <1>6, <2>3, ParallelTaskAssumption
<1>7. CASE TokenOf(n) \notin Nodes
    <2> DEFINE S == {TokenOf(n)}
    <2>1. S \in SUBSET Sources /\ Closed(S) BY Zenon, <1>2, <1>7
    <2>2. \A t \in Above[n] : t \in S BY Zenon, <1>1, <2>1
    <2> QED BY Zenon, <1>3, <1>5, <2>2, ParallelTaskAssumption
<1> QED BY Zenon, <1>6, <1>7

\* The children of a when_ready are finitely many.
LEMMA KidsFinite ==
    ASSUME NEW n \in Inner, NEW S, S \subseteq KidSet(n)
    PROVE  IsFiniteSet(S) /\ Cardinality(S) \in 0..NoIndex
<1>1. S \subseteq Nodes BY Zenon, TokenFacts
<1>2. IsFiniteSet(Nodes) BY Zenon, ParallelTaskAssumption
<1>3. IsFiniteSet(S) /\ Cardinality(S) <= Cardinality(Nodes) BY Zenon, <1>1, <1>2, FS_Subset
<1>4. Cardinality(S) \in Nat /\ Cardinality(Nodes) \in Nat BY Zenon, <1>2, <1>3, FS_CardinalityType
<1> QED BY <1>3, <1>4 DEF NoIndex

\* A child is not its own parent.
LEMMA NotOwnKid ==
    ASSUME NEW n \in Inner
    PROVE  n \notin KidSet(n)
<1>1. n \in Nodes BY Zenon, TokenFacts
<1>2. TokenOf(n) # n BY Zenon, <1>1, AboveFacts
<1> QED BY Zenon, <1>2, TokenFacts

\* The children of a when_ready by their position.
LEMMA KidIndex ==
    ASSUME NEW n \in Inner
    PROVE  /\ Len(Kids[n]) \in Nat \ {0}
           /\ KidSet(n) = {Kids[n][i] : i \in 1..Len(Kids[n])}
           /\ \A i, j \in 1..Len(Kids[n]) : Kids[n][i] = Kids[n][j] => i = j
<1>1. Kids[n] \in Seq(Nodes \ {Root}) /\ IsInjective(Kids[n]) /\ Kids[n] # <<>>
    BY Zenon, TokenFacts, ParallelTaskAssumption DEF Inner
<1>2. Range(Kids[n]) = {Kids[n][i] : i \in 1..Len(Kids[n])} BY Zenon, <1>1, RangeDef
<1>3. Len(Kids[n]) \in Nat \ {0} BY <1>1
<1>4. DOMAIN Kids[n] = 1..Len(Kids[n]) BY <1>1
<1>5. \A i, j \in 1..Len(Kids[n]) : Kids[n][i] = Kids[n][j] => i = j
    BY Zenon, <1>1, <1>4 DEF IsInjective
<1> QED BY Zenon, <1>2, <1>3, <1>5 DEF KidSet

\* A cancellation of t reaches whoever is registered, directly with t or with a
\* when_ready that it reaches: the callbacks are run all the way down.
LEMMA FiredReaches ==
    ASSUME NEW t \in Sources, t \notin requested, registered \subseteq Nodes,
           NEW n \in Nodes, n \in registered, TokenOf(n) \notin requested,
           TokenOf(n) = t \/ TokenOf(n) \in Fired(t)
    PROVE  n \in Fired(t)
<1>1. /\ TokenOf(n) \in Above[n] /\ n \notin Above[n]
      /\ \A m \in Above[n] \cap Nodes : Above[m] \subseteq Above[n]
      /\ \A s \in Above[n] : s = TokenOf(n) \/ (TokenOf(n) \in Nodes /\ s \in Above[TokenOf(n)])
    BY Zenon, AboveFacts
<1>2. Fired(t) = {m \in registered : t \in Above[m] /\
             \A x \in Above[m] \cap Nodes : t \in Above[x] => x \in registered \ requested}
    BY Zenon DEF Fired
<1>3. CASE TokenOf(n) = t
    <2>1. ASSUME NEW x \in Above[n] \cap Nodes, t \in Above[x] PROVE FALSE
        <3>1. x # t BY Zenon, <2>1, AboveFacts
        <3>2. t \in Nodes /\ x \in Above[t] BY Zenon, <1>1, <1>3, <2>1, <3>1
        <3>3. Above[x] \subseteq Above[t] /\ t \notin Above[t] BY Zenon, <2>1, <3>2, AboveFacts
        <3> QED BY Zenon, <2>1, <3>3
    <2> QED BY Zenon, <1>1, <1>2, <1>3, <2>1
<1>4. CASE TokenOf(n) \in Fired(t) /\ TokenOf(n) \in Nodes
    <2>1. t \in Above[TokenOf(n)] BY Zenon, <1>2, <1>4
    <2>2. t \in Above[n] BY Zenon, <1>1, <1>4, <2>1
    <2>3. ASSUME NEW x \in Above[n] \cap Nodes, t \in Above[x] PROVE x \in registered \ requested
        BY Zenon, <1>1, <1>2, <1>4, <2>3
    <2> QED BY Zenon, <1>2, <2>2, <2>3
<1> QED BY Zenon, <1>2, <1>3, <1>4

-----------------------------------------------------------------------------
(* What a step leaves alone.                                               *)

\* The types of the variables, one by one.
LEMMA Types ==
    ASSUME IInv
    PROVE  /\ type \in [Inner -> WaitTypes] /\ state \in [Nodes -> States]
           /\ stack \in Seq(Nodes) /\ IsInjective(stack)
           /\ pos \in [Inner -> Nat] /\ count \in [Inner -> Nat]
           /\ failed \in [Nodes -> BOOLEAN] /\ index \in [Nodes -> 0..NoIndex]
           /\ requested \subseteq Sources /\ registered \subseteq Nodes
           /\ result \in [Inner -> Nodes \cup {None}] /\ missed \subseteq Inner
BY Zenon DEF IInv, TypeOK, States, Sources

\* The children of n start and end as before.
KidsKept(n) ==
    \A k \in KidSet(n) :
        (state'[k] = "new" <=> state[k] = "new") /\ (state'[k] = "done" <=> state[k] = "done")

\* A when_ready to whose children nothing happens.
LEMMA FamilyKept ==
    ASSUME NEW n \in Inner, Family(n), KidsKept(n), pos'[n] = pos[n], count'[n] = count[n],
           state'[n] = state[n] \/ (state[n] \in Before /\ state'[n] \in Before)
    PROVE  Family(n)'
<1>1. Open(n)' = Open(n) BY Zenon DEF Open, KidsKept
<1>2. \A i \in 1..Len(Kids[n]) : Kids[n][i] \in KidSet(n)
    <2>1. KidSet(n) = {Kids[n][i] : i \in 1..Len(Kids[n])} BY Zenon, KidIndex
    <2> QED BY Zenon, <2>1
<1>3. CASE state'[n] = state[n] BY Zenon, <1>1, <1>2, <1>3 DEF Family, KidsKept
<1>4. CASE state[n] \in Before /\ state'[n] \in Before
    <2>1. /\ state'[n] # "starting" /\ state'[n] # "joining" /\ state'[n] # "resumed"
          /\ state'[n] # "done"
        BY Zenon, <1>4 DEF Before
    <2>2. /\ pos[n] = 1 /\ (\A k \in KidSet(n) : state[k] = "new")
          /\ count[n] = Cardinality(Open(n)) + 1
        BY Zenon, <1>4 DEF Family
    <2> QED BY Zenon, <1>1, <2>1, <2>2 DEF Family, KidsKept
<1> QED BY Zenon, <1>3, <1>4

\* The outcome of a when_ready does not change either.
LEMMA OutcomeKept ==
    ASSUME NEW n \in Inner, Outcome(n), type' = type,
           \A k \in KidSet(n) : state'[k] = "done" <=> state[k] = "done",
           state[n] = "done" => KidsKept(n),
           \A k \in KidSet(n) : failed'[k] = failed[k] /\ index'[k] = index[k],
           requested \subseteq requested', result'[n] = result[n], failed'[n] = failed[n],
           state'[n] = "done" <=> state[n] = "done"
    PROVE  Outcome(n)'
<1>1. Ended(n)' = Ended(n) /\ Ended(n) \subseteq KidSet(n) BY Zenon DEF Ended
<1>2. state[n] = "done" => Settled(n, failed[n], result[n])' /\ Settled(n, failed[n], result[n])
    <2> SUFFICES ASSUME state[n] = "done"
                 PROVE  Settled(n, failed[n], result[n])' /\ Settled(n, failed[n], result[n])
        BY Zenon
    <2>1. Settled(n, failed[n], result[n]) BY Zenon DEF Outcome
    <2>2. result[n] # None => index'[result[n]] = index[result[n]] BY Zenon, <1>1 DEF Outcome
    <2>3. Requested(n) => Requested(n)' BY Zenon DEF Requested
    <2> QED BY Zenon, <2>1, <2>2, <2>3 DEF Settled, KidsKept
<1>3. \A k \in Ended(n) : failed'[k] = failed[k] /\ index'[k] = index[k] BY Zenon, <1>1
<1>4. type'[n] = "one_succ" =>
        Len(Kids[n]) = 2 /\ \A k \in Ended(n)' : ~failed'[k] => n \in requested'
    BY Zenon, <1>1, <1>3 DEF Outcome
<1>5. \A k \in Ended(n)' : index'[k] < Cardinality(Ended(n)') BY Zenon, <1>1, <1>3 DEF Outcome
<1>6. \A j, k \in Ended(n)' : index'[j] = index'[k] => j = k
    <2> SUFFICES ASSUME NEW j \in Ended(n), NEW k \in Ended(n), index'[j] = index'[k] PROVE j = k
        BY Zenon, <1>1
    <2>1. index[j] = index[k] BY Zenon, <1>3
    <2> QED BY Zenon, <2>1 DEF Outcome
<1>7. /\ state'[n] # "done" => result'[n] = None
      /\ result'[n] # None => result'[n] \in Ended(n)'
    BY Zenon, <1>1 DEF Outcome
<1>8. state'[n] = "done" => Settled(n, failed[n], result[n])' BY Zenon, <1>2
<1> QED BY Zenon, <1>4, <1>5, <1>6, <1>7, <1>8 DEF Outcome

-----------------------------------------------------------------------------
(* Steps in which nobody starts a child or ends.                           *)

\* Putting a frame on a stack.
LEMMA PushFacts ==
    ASSUME NEW s \in Seq(Nodes), NEW x \in Nodes, IsInjective(s), x \notin Range(s)
    PROVE  /\ <<x>> \o s \in Seq(Nodes) /\ IsInjective(<<x>> \o s)
           /\ Range(<<x>> \o s) = Range(s) \cup {x}
           /\ <<x>> \o s # <<>> /\ Head(<<x>> \o s) = x
<1>1. <<x>> \o s = PushFront(x, s) BY Zenon DEF PushFront
<1>2. <<x>> \o s # <<>> /\ Head(<<x>> \o s) = x OBVIOUS
<1>3. /\ PushFront(x, s) \in Seq(Nodes) /\ Range(PushFront(x, s)) = Range(s) \cup {x}
      /\ IsInjective(PushFront(x, s))
    BY PushFrontFacts, SMT
<1>4. /\ <<x>> \o s \in Seq(Nodes) /\ Range(<<x>> \o s) = Range(s) \cup {x}
      /\ IsInjective(<<x>> \o s)
    BY Zenon, <1>1, <1>3
<1> QED BY Zenon, <1>2, <1>4

\* The innermost frame and those below it.
LEMMA TopFacts ==
    ASSUME IInv, stack # <<>>
    PROVE  /\ Head(stack) \in Nodes /\ state[Head(stack)] \in Active
           /\ Tail(stack) \in Seq(Nodes) /\ IsInjective(Tail(stack))
           /\ Range(Tail(stack)) = {n \in Nodes : state[n] \in Active} \ {Head(stack)}
           /\ \A n \in Range(Tail(stack)) : state[n] = "starting"
<1>1. stack \in Seq(Nodes) /\ IsInjective(stack) BY Zenon, Types
<1>2. Head(stack) \in Range(stack) /\ Head(stack) \in Nodes BY Zenon, <1>1, HeadInRange
<1>3. /\ Tail(stack) \in Seq(Nodes) /\ IsInjective(Tail(stack))
      /\ Range(Tail(stack)) = Range(stack) \ {Head(stack)}
    BY Zenon, <1>1, TailFacts
<1> QED BY Zenon, <1>2, <1>3 DEF IInv, Frames

\* An empty stack: nobody runs.
LEMMA IdleFacts ==
    ASSUME IInv, stack = <<>>
    PROVE  \A n \in Nodes : state[n] \notin Active
<1>1. Range(stack) = {} BY Zenon, EmptyFacts
<1> QED BY Zenon, <1>1 DEF IInv, Frames

\* A step that lets some awaitables go on, without a child or an end.
Gentle(m) ==
    \/ state'[m] = state[m]
    \/ /\ state[m] \in Before /\ state'[m] \in Before \ {"new"}
       /\ state[m] = "new" => m = Root

LEMMA GentleInv ==
    ASSUME IInv, state' \in [Nodes -> States], \A m \in Nodes : Gentle(m),
           UNCHANGED <<type, pos, failed, index, count, result>>,
           requested \subseteq requested', requested' \subseteq Sources,
           registered' \subseteq Nodes, missed' \subseteq Inner,
           stack' \in Seq(Nodes), IsInjective(stack'), Frames', \A m \in Nodes : Reach(m)'
    PROVE  IInv'
<1>1. \A m \in Nodes : (state'[m] = "done" <=> state[m] = "done") BY Zenon DEF Gentle, Before
<1>2. \A m \in Nodes : m # Root => (state'[m] = "new" <=> state[m] = "new") BY Zenon DEF Gentle
<1>3. \A n \in Inner : KidsKept(n) BY Zenon, <1>1, <1>2, TokenFacts DEF KidsKept
<1>4. \A n \in Inner : n \in Nodes BY Zenon, TokenFacts
<1>5. \A n \in Inner : Family(n)'
    <2> TAKE n \in Inner
    <2>1. Family(n) /\ Gentle(n) BY Zenon, <1>4 DEF IInv
    <2>2. state'[n] = state[n] \/ (state[n] \in Before /\ state'[n] \in Before)
        BY Zenon, <2>1 DEF Gentle
    <2> QED BY Zenon, <1>3, <2>1, <2>2, FamilyKept
<1>6. \A n \in Inner : Outcome(n)'
    <2> TAKE n \in Inner
    <2>1. Outcome(n) BY Zenon DEF IInv
    <2> QED BY Zenon, <1>1, <1>3, <1>4, <2>1, OutcomeKept DEF KidsKept
<1>7. TypeOK' BY Zenon, Types DEF TypeOK, States, Sources
<1> QED BY Zenon, <1>5, <1>6, <1>7 DEF IInv

\* One awaitable goes on.
LEMMA OneMoves ==
    ASSUME IInv, NEW n \in Nodes, NEW x \in Before \ {"new"}, state[n] \in Before,
           state[n] = "new" => n = Root, state' = [state EXCEPT ![n] = x]
    PROVE  /\ state' \in [Nodes -> States] /\ state'[n] = x
           /\ \A m \in Nodes : Gentle(m)
           /\ \A m \in Nodes : m # n => state'[m] = state[m]
<1>1. state \in [Nodes -> States] BY Zenon, Types
<1>2. x \in States BY Zenon DEF Before, States
<1> QED BY Zenon, <1>1, <1>2 DEF Gentle

\* The root begins.
LEMMA StartRootInv ==
    ASSUME IInv, StartRoot
    PROVE  IInv'
<1>1. /\ stack = <<>> /\ state[Root] = "new" /\ stack' = <<Root>>
      /\ state' = [state EXCEPT ![Root] = "entering"]
      /\ UNCHANGED <<type, pos, failed, index, count, result, requested, registered, missed>>
    BY Zenon DEF StartRoot, treeVars, cancelVars
<1>2. Root \in Nodes BY Zenon, ParallelTaskAssumption
<1>3. /\ state' \in [Nodes -> States] /\ state'[Root] = "entering"
      /\ \A m \in Nodes : Gentle(m) /\ (m # Root => state'[m] = state[m])
    BY Zenon, <1>1, <1>2, OneMoves DEF Before
<1>4. /\ stack' \in Seq(Nodes) /\ IsInjective(stack') /\ Range(stack') = {Root}
      /\ Head(stack') = Root
    <2>1. Head(<<Root>>) = Root OBVIOUS
    <2> QED BY Zenon, <1>1, <1>2, <2>1, SingletonFacts
<1>5. Frames'
    <2>1. \A n \in Nodes : state[n] \notin Active BY Zenon, <1>1, IdleFacts
    <2>2. Range(stack') = {n \in Nodes : state'[n] \in Active}
        BY Zenon, <1>2, <1>3, <1>4, <2>1 DEF Active
    <2>3. \A n \in Nodes : state'[n] \in {"starting", "joining", "resumed"} => n \in Inner
        BY Zenon, <1>3 DEF IInv, Frames
    <2> QED BY Zenon, <1>4, <2>2, <2>3 DEF Frames
<1>6. \A m \in Nodes : Reach(m)' BY Zenon, <1>1, <1>3 DEF IInv, Reach, Requested
<1> QED BY Zenon, <1>1, <1>3, <1>4, <1>5, <1>6, Types, GentleInv

\* An awaitable begins under a token that is not cancelled.
LEMMA EnterInv ==
    ASSUME IInv, NEW n \in Nodes, OnTop(n, "entering"), state' = [state EXCEPT ![n] = "running"],
           UNCHANGED <<type, stack, pos, treeVars, cancelVars, missed>>
    PROVE  IInv'
<1>1. /\ stack # <<>> /\ Head(stack) = n /\ state[n] = "entering"
      /\ UNCHANGED <<type, stack, pos, failed, index, count, result, requested, registered, missed>>
    BY Zenon DEF OnTop, treeVars, cancelVars
<1>2. /\ state' \in [Nodes -> States] /\ state'[n] = "running"
      /\ \A m \in Nodes : Gentle(m) /\ (m # n => state'[m] = state[m])
    BY Zenon, <1>1, OneMoves DEF Before
<1>3. Frames'
    <2>1. \A m \in Nodes : state'[m] \in Active <=> state[m] \in Active
        BY Zenon, <1>1, <1>2 DEF Active
    <2>2. \A m \in Range(stack) : m \in Nodes BY Zenon DEF IInv, Frames
    <2> QED BY Zenon, <1>1, <1>2, <2>1, <2>2 DEF IInv, Frames
<1>4. \A m \in Nodes : Reach(m)' BY Zenon, <1>1, <1>2 DEF IInv, Reach, Requested
<1> QED BY Zenon, <1>1, <1>2, <1>3, <1>4, Types, GentleInv

\* It waits and is registered.
LEMMA SuspendInv ==
    ASSUME IInv, NEW n \in Nodes, Suspend(n)
    PROVE  IInv'
<1>1. /\ stack # <<>> /\ Head(stack) = n /\ state[n] = "running" /\ ~Requested(n)
      /\ state' = [state EXCEPT ![n] = "waiting"] /\ registered' = registered \cup {n}
      /\ stack' = Tail(stack)
      /\ UNCHANGED <<type, pos, failed, index, count, result, requested, missed>>
    BY Zenon DEF Suspend, OnTop, treeVars
<1>2. /\ state' \in [Nodes -> States] /\ state'[n] = "waiting"
      /\ \A m \in Nodes : Gentle(m) /\ (m # n => state'[m] = state[m])
    BY Zenon, <1>1, OneMoves DEF Before
<1>3. /\ stack' \in Seq(Nodes) /\ IsInjective(stack')
      /\ Range(stack') = {m \in Nodes : state[m] \in Active} \ {n}
      /\ \A m \in Range(stack') : state[m] = "starting"
    BY Zenon, <1>1, TopFacts
<1>4. Frames'
    <2>1. Range(stack') = {m \in Nodes : state'[m] \in Active} BY Zenon, <1>2, <1>3 DEF Active
    <2>2. \A m \in Range(stack') : state'[m] = "starting" BY Zenon, <1>2, <1>3
    <2> QED BY Zenon, <1>2, <2>1, <2>2 DEF IInv, Frames
<1>5. \A m \in Nodes : Reach(m)' BY Zenon, <1>1, <1>2 DEF IInv, Reach, Requested
<1>6. registered' \subseteq Nodes BY Zenon, <1>1, Types
<1> QED BY Zenon, <1>1, <1>2, <1>3, <1>4, <1>5, <1>6, Types, GentleInv

\* What it waits for happens.
LEMMA EventInv ==
    ASSUME IInv, NEW n \in Nodes, Event(n)
    PROVE  IInv'
<1>1. /\ state[n] = "waiting" /\ state' = [state EXCEPT ![n] = "woken"]
      /\ UNCHANGED <<type, stack, pos, failed, index, count, result, requested, registered, missed>>
    BY Zenon DEF Event, treeVars, cancelVars
<1>2. /\ state' \in [Nodes -> States] /\ state'[n] = "woken"
      /\ \A m \in Nodes : Gentle(m) /\ (m # n => state'[m] = state[m])
    BY Zenon, <1>1, OneMoves DEF Before
<1>3. Frames'
    <2>1. \A m \in Nodes : state'[m] \in Active <=> state[m] \in Active
        BY Zenon, <1>1, <1>2 DEF Active
    <2>2. \A m \in Range(stack) : m \in Nodes BY Zenon DEF IInv, Frames
    <2> QED BY Zenon, <1>1, <1>2, <2>1, <2>2 DEF IInv, Frames
<1>4. \A m \in Nodes : Reach(m)' BY Zenon, <1>1, <1>2 DEF IInv, Reach, Requested
<1> QED BY Zenon, <1>1, <1>2, <1>3, <1>4, Types, GentleInv

\* The scheduler resumes it.
LEMMA ResumeWokenInv ==
    ASSUME IInv, NEW n \in Nodes, ResumeWoken(n)
    PROVE  IInv'
<1>1. /\ stack = <<>> /\ state[n] = "woken" /\ state' = [state EXCEPT ![n] = "running"]
      /\ stack' = <<n>> /\ registered' = registered \ {n}
      /\ UNCHANGED <<type, pos, failed, index, count, result, requested, missed>>
    BY Zenon DEF ResumeWoken, treeVars
<1>2. /\ state' \in [Nodes -> States] /\ state'[n] = "running"
      /\ \A m \in Nodes : Gentle(m) /\ (m # n => state'[m] = state[m])
    BY Zenon, <1>1, OneMoves DEF Before
<1>3. stack' \in Seq(Nodes) /\ IsInjective(stack') /\ Range(stack') = {n} /\ Head(stack') = n
    <2>1. Head(<<n>>) = n OBVIOUS
    <2> QED BY Zenon, <1>1, <2>1, SingletonFacts
<1>4. Frames'
    <2>1. \A m \in Nodes : state[m] \notin Active BY Zenon, <1>1, IdleFacts
    <2>2. Range(stack') = {m \in Nodes : state'[m] \in Active}
        BY Zenon, <1>2, <1>3, <2>1 DEF Active
    <2>3. \A m \in Nodes : state'[m] \in {"starting", "joining", "resumed"} => m \in Inner
        BY Zenon, <1>2 DEF IInv, Frames
    <2> QED BY Zenon, <1>3, <2>2, <2>3 DEF Frames
<1>5. \A m \in Nodes : Reach(m)' BY Zenon, <1>1, <1>2 DEF IInv, Reach, Requested
<1>6. registered' \subseteq Nodes BY Zenon, <1>1, Types
<1> QED BY Zenon, <1>1, <1>2, <1>3, <1>4, <1>5, <1>6, Types, GentleInv

-----------------------------------------------------------------------------
(* A request for cancellation.                                             *)

\* Whoever waits and is not woken by a request for t is still registered under a
\* token that nobody cancelled, and whoever awaits children passes it on, was
\* too late for it or is registered in the same way.
LEMMA RequestReaches ==
    ASSUME IInv, NEW t \in Sources, t \notin requested,
           NEW R, R = requested \cup ({t} \cup {n \in Fired(t) : state[n] = "joining"})
    PROVE  /\ \A n \in Nodes : state[n] = "waiting" /\ n \notin Fired(t) =>
                  n \in registered \ Fired(t) /\ TokenOf(n) \notin R
           /\ \A n \in Nodes : state[n] = "joining" =>
                  n \in missed \cup R \/ (n \in registered \ Fired(t) /\ TokenOf(n) \notin R)
           /\ R \subseteq Sources
<1>1. registered \subseteq Nodes /\ requested \subseteq Sources BY Zenon, Types
<1>2. ASSUME NEW n \in Nodes, n \in registered, ~Requested(n), n \notin Fired(t)
      PROVE  TokenOf(n) \notin R
    <2>1. TokenOf(n) \notin requested BY Zenon, <1>2 DEF Requested
    <2>2. ~(TokenOf(n) = t \/ TokenOf(n) \in Fired(t)) BY Zenon, <1>1, <1>2, <2>1, FiredReaches
    <2> QED BY Zenon, <2>1, <2>2
<1>3. \A n \in Nodes : Reach(n) BY Zenon DEF IInv
<1>4. \A n \in Nodes : state[n] = "waiting" /\ n \notin Fired(t) =>
                  n \in registered \ Fired(t) /\ TokenOf(n) \notin R
    BY Zenon, <1>2, <1>3 DEF Reach
<1>5. ASSUME NEW n \in Nodes, state[n] = "joining"
      PROVE  n \in missed \cup R \/ (n \in registered \ Fired(t) /\ TokenOf(n) \notin R)
    <2>1. CASE n \in missed \cup requested BY Zenon, <2>1
    <2>2. CASE n \in registered /\ ~Requested(n) /\ n \in Fired(t) BY Zenon, <1>5, <2>2
    <2>3. CASE n \in registered /\ ~Requested(n) /\ n \notin Fired(t) BY Zenon, <1>2, <2>3
    <2> QED BY Zenon, <1>3, <1>5, <2>1, <2>2, <2>3 DEF Reach
<1>6. \A n \in Nodes : state[n] = "joining" => n \in Inner BY Zenon DEF IInv, Frames
<1>7. Fired(t) \subseteq Nodes BY Zenon, <1>1 DEF Fired
<1> QED BY Zenon, <1>1, <1>4, <1>5, <1>6, <1>7 DEF Sources

\* The source the root runs under is cancelled.
LEMMA CancelOutsideInv ==
    ASSUME IInv, CancelOutside
    PROVE  IInv'
<1>1. /\ Outside \in Sources /\ Outside \notin requested
      /\ requested' = requested \cup ({Outside} \cup {n \in Fired(Outside) : state[n] = "joining"})
      /\ registered' = registered \ Fired(Outside)
      /\ state' = [n \in Nodes |-> IF n \in WokenBy(Outside) THEN "woken" ELSE state[n]]
      /\ UNCHANGED <<type, stack, pos, failed, index, count, result, missed>>
    BY Zenon DEF CancelOutside, treeVars, Sources
<1>2. /\ \A n \in Nodes : state[n] = "waiting" /\ n \notin Fired(Outside) =>
             n \in registered' /\ TokenOf(n) \notin requested'
      /\ \A n \in Nodes : state[n] = "joining" =>
             n \in missed \cup requested' \/ (n \in registered' /\ TokenOf(n) \notin requested')
      /\ requested' \subseteq Sources
    BY ONLY IInv, <1>1, RequestReaches, SMT
<1>3. \A n \in Nodes : state'[n] =
          IF n \in Fired(Outside) /\ state[n] = "waiting" THEN "woken" ELSE state[n]
    BY Zenon, <1>1 DEF WokenBy
<1>4. state' \in [Nodes -> States]
    <2>1. state \in [Nodes -> States] BY Zenon, Types
    <2>2. \A n \in Nodes : state'[n] \in States BY Zenon, <1>3, <2>1 DEF States
    <2> QED BY Zenon, <1>1, <2>2
<1>5. \A m \in Nodes : Gentle(m) BY Zenon, <1>3 DEF Gentle, Before
<1>6. Frames'
    <2>1. \A m \in Nodes : state'[m] \in Active <=> state[m] \in Active BY Zenon, <1>3 DEF Active
    <2>2. \A m \in Range(stack) : m \in Nodes BY Zenon DEF IInv, Frames
    <2>3. \A m \in Nodes : \A s \in {"starting", "joining", "resumed"} :
              state'[m] = s <=> state[m] = s
        BY Zenon, <1>3
    <2> QED BY Zenon, <1>1, <2>1, <2>2, <2>3 DEF IInv, Frames
<1>7. \A m \in Nodes : Reach(m)'
    <2> TAKE m \in Nodes
    <2>1. state'[m] = "waiting" => state[m] = "waiting" /\ m \notin Fired(Outside) BY Zenon, <1>3
    <2>2. state'[m] = "joining" => state[m] = "joining" BY Zenon, <1>3
    <2> QED BY Zenon, <1>1, <1>2, <2>1, <2>2 DEF Reach, Requested
<1>8. registered' \subseteq Nodes BY Zenon, <1>1, Types
<1>9. requested \subseteq requested' BY Zenon, <1>1
<1> QED BY Zenon, <1>1, <1>2, <1>4, <1>5, <1>6, <1>7, <1>8, <1>9, Types, GentleInv

-----------------------------------------------------------------------------
(* A when_ready starts its children and waits for them.                    *)

\* A when_ready that lives on goes on with its children.
LEMMA ParentMoves ==
    ASSUME IInv, NEW n \in Inner, NEW x \in States \ {"new", "done"},
           state[n] \notin {"new", "done"}, state' = [state EXCEPT ![n] = x],
           UNCHANGED <<type, failed, index, result, requested>>,
           \A m \in Inner : m # n => pos'[m] = pos[m] /\ count'[m] = count[m],
           Family(n)', TypeOK', Frames', \A m \in Nodes : Reach(m)'
    PROVE  IInv'
<1>1. n \in Nodes /\ state \in [Nodes -> States] BY Zenon, TokenFacts, Types
<1>2. state'[n] = x /\ \A m \in Nodes : m # n => state'[m] = state[m] BY Zenon, <1>1
<1>3. \A m \in Nodes : /\ state'[m] = "new" <=> state[m] = "new"
                       /\ state'[m] = "done" <=> state[m] = "done"
    BY Zenon, <1>2
<1>4. \A m \in Inner : KidsKept(m) /\ m \in Nodes BY Zenon, <1>3, TokenFacts DEF KidsKept
<1>5. \A m \in Inner : m # n => Family(m)'
    <2> SUFFICES ASSUME NEW m \in Inner, m # n PROVE Family(m)' BY Zenon
    <2>1. Family(m) BY Zenon DEF IInv
    <2> QED BY Zenon, <1>2, <1>4, <2>1, FamilyKept
<1>6. \A m \in Inner : Outcome(m)'
    <2> TAKE m \in Inner
    <2>1. Outcome(m) BY Zenon DEF IInv
    <2> QED BY Zenon, <1>3, <1>4, <2>1, OutcomeKept DEF KidsKept
<1> QED BY Zenon, <1>5, <1>6 DEF IInv

\* co_await of a when_ready under a token that is not cancelled.
LEMMA BeginInv ==
    ASSUME IInv, NEW n \in Inner, OnTop(n, "running"), state' = [state EXCEPT ![n] = "starting"],
           UNCHANGED <<type, stack, pos, treeVars, cancelVars, missed>>
    PROVE  IInv'
<1>1. /\ stack # <<>> /\ Head(stack) = n /\ state[n] = "running"
      /\ UNCHANGED <<type, stack, pos, failed, index, count, result, requested, registered, missed>>
    BY Zenon DEF OnTop, treeVars, cancelVars
<1>2. n \in Nodes /\ state \in [Nodes -> States] BY Zenon, TokenFacts, Types
<1>3. state'[n] = "starting" /\ \A m \in Nodes : m # n => state'[m] = state[m]
    BY Zenon, <1>1, <1>2
<1>4. \A k \in KidSet(n) : state'[k] = state[k] BY Zenon, <1>3, NotOwnKid, TokenFacts
<1>5. Family(n)'
    <2>1. /\ pos[n] = 1 /\ (\A k \in KidSet(n) : state[k] = "new")
          /\ count[n] = Cardinality(Open(n)) + 1
        BY Zenon, <1>1 DEF IInv, Family, Before
    <2>2. Open(n)' = Open(n) BY Zenon, <1>4 DEF Open
    <2>3. \A i \in 1..Len(Kids[n]) : state'[Kids[n][i]] = "new"
        <3>1. KidSet(n) = {Kids[n][i] : i \in 1..Len(Kids[n])} BY Zenon, KidIndex
        <3>2. \A i \in 1..Len(Kids[n]) : Kids[n][i] \in KidSet(n) BY Zenon, <3>1
        <3> QED BY Zenon, <1>4, <2>1, <3>2
    <2>4. pos'[n] \in 1..Len(Kids[n]) + 1 /\ \A i \in 1..Len(Kids[n]) : i >= pos'[n]
        BY <1>1, <2>1, KidIndex
    <2> QED BY Zenon, <1>1, <1>3, <2>1, <2>2, <2>3, <2>4 DEF Family, Before
<1>6. Frames'
    <2>1. \A m \in Nodes : state'[m] \in Active <=> state[m] \in Active
        BY Zenon, <1>1, <1>3 DEF Active
    <2>2. \A m \in Range(stack) : m \in Nodes BY Zenon DEF IInv, Frames
    <2>3. \A m \in Nodes : state'[m] \in {"starting", "joining", "resumed"} => m \in Inner
        BY Zenon, <1>3 DEF IInv, Frames
    <2>4. \A m \in Range(stack) \ {Head(stack)} : state'[m] = "starting"
        BY Zenon, <1>1, <1>3, <2>2 DEF IInv, Frames
    <2> QED BY Zenon, <1>1, <2>1, <2>3, <2>4 DEF IInv, Frames
<1>7. \A m \in Nodes : Reach(m)' BY Zenon, <1>1, <1>3 DEF IInv, Reach, Requested
<1>8. TypeOK'
    <2>1. state' \in [Nodes -> States] BY Zenon, <1>2 DEF States
    <2> QED BY Zenon, <1>1, <2>1, Types DEF TypeOK, States, Sources
<1> QED BY Zenon, <1>1, <1>5, <1>6, <1>7, <1>8, ParentMoves DEF States

\* The next child is started, on top of its parent's frame.
LEMMA StartKidInv ==
    ASSUME IInv, NEW n \in Inner, StartKid(n)
    PROVE  IInv'
<1>1. PICK k : k = Kids[n][pos[n]] BY Zenon
<1>2. /\ stack # <<>> /\ Head(stack) = n /\ state[n] = "starting" /\ pos[n] <= Len(Kids[n])
      /\ pos' = [pos EXCEPT ![n] = pos[n] + 1] /\ state' = [state EXCEPT ![k] = "entering"]
      /\ stack' = <<k>> \o stack
      /\ UNCHANGED <<type, failed, index, count, result, requested, registered, missed>>
    BY Zenon, <1>1 DEF StartKid, OnTop, treeVars, cancelVars
<1>3. /\ n \in Nodes /\ state \in [Nodes -> States] /\ pos \in [Inner -> Nat]
      /\ Family(n) /\ pos[n] \in Nat
    BY Zenon, TokenFacts, Types DEF IInv
<1>4. /\ pos[n] \in 1..Len(Kids[n]) + 1
      /\ \A i \in 1..Len(Kids[n]) : state[Kids[n][i]] = "new" <=> i >= pos[n]
      /\ count[n] = Cardinality(Open(n)) + 1
    BY Zenon, <1>2, <1>3 DEF Family
<1>5. Len(Kids[n]) \in Nat BY Zenon, KidIndex
<1>6. pos[n] \in 1..Len(Kids[n]) /\ pos[n] >= pos[n] BY <1>2, <1>4, <1>5
<1>7. k \in KidSet(n) /\ state[k] = "new"
    <2>1. KidSet(n) = {Kids[n][i] : i \in 1..Len(Kids[n])} BY Zenon, KidIndex
    <2>2. Kids[n][pos[n]] \in KidSet(n) BY Zenon, <1>6, <2>1
    <2>3. state[Kids[n][pos[n]]] = "new" BY Zenon, <1>4, <1>6
    <2> QED BY Zenon, <1>1, <2>2, <2>3
<1>8. k \in Nodes /\ TokenOf(k) = n /\ k # n BY Zenon, <1>2, <1>7, TokenFacts
<1>9. state'[k] = "entering" /\ \A m \in Nodes : m # k => state'[m] = state[m]
    BY Zenon, <1>2, <1>3, <1>8
<1>10. \A m \in Nodes : state'[m] = "done" <=> state[m] = "done" BY Zenon, <1>7, <1>9
<1>11. \A m \in Inner : m # n => KidsKept(m)
    <2> SUFFICES ASSUME NEW m \in Inner, m # n, NEW j \in KidSet(m) PROVE state'[j] = state[j]
        BY Zenon DEF KidsKept
    <2>1. j \in Nodes /\ j # k BY Zenon, <1>8, TokenFacts
    <2> QED BY Zenon, <1>9, <2>1
<1>12. pos'[n] = pos[n] + 1 /\ (\A m \in Inner : m # n => pos'[m] = pos[m]) /\ pos' \in [Inner -> Nat]
    <2>1. pos[n] + 1 \in Nat BY <1>3
    <2> QED BY Zenon, <1>2, <1>3, <2>1
<1>13. Family(n)'
    <2>1. Open(n)' = Open(n) BY Zenon, <1>10, TokenFacts DEF Open
    <2>2. pos'[n] \in 1..Len(Kids[n]) + 1 BY <1>5, <1>6, <1>12
    <2>3. ASSUME NEW i \in 1..Len(Kids[n]) PROVE state'[Kids[n][i]] = "new" <=> i >= pos'[n]
        <3>1. CASE i = pos[n]
            <4>1. ~(i >= pos[n] + 1) BY <1>3, <3>1
            <4> QED BY Zenon, <1>1, <1>9, <1>12, <3>1, <4>1
        <3>2. CASE i # pos[n]
            <4>1. Kids[n][i] # k /\ Kids[n][i] \in KidSet(n) BY Zenon, <1>1, <1>6, <3>2, KidIndex
            <4>2. state'[Kids[n][i]] = state[Kids[n][i]] BY Zenon, <1>9, <4>1, TokenFacts
            <4>3. i >= pos[n] <=> i >= pos[n] + 1 BY <1>3, <1>5, <3>2
            <4> QED BY Zenon, <1>4, <1>12, <4>2, <4>3
        <3> QED BY Zenon, <3>1, <3>2
    <2>4. state'[n] = "starting" BY Zenon, <1>2, <1>3, <1>8, <1>9
    <2> QED BY Zenon, <1>2, <1>4, <2>1, <2>2, <2>3, <2>4 DEF Family, Before
<1>14. \A m \in Inner : m # n => Family(m)'
    <2> SUFFICES ASSUME NEW m \in Inner, m # n PROVE Family(m)' BY Zenon
    <2>1. Family(m) /\ m \in Nodes BY Zenon, TokenFacts DEF IInv
    <2>2. state'[m] = state[m] \/ (state[m] \in Before /\ state'[m] \in Before)
        BY Zenon, <1>7, <1>9, <2>1 DEF Before
    <2> QED BY Zenon, <1>2, <1>11, <1>12, <2>1, <2>2, FamilyKept
<1>15. \A m \in Inner : Outcome(m)'
    <2> TAKE m \in Inner
    <2>1. Outcome(m) /\ m \in Nodes BY Zenon, TokenFacts DEF IInv
    <2>2. state[m] = "done" => KidsKept(m) BY Zenon, <1>2, <1>11
    <2>3. \A j \in KidSet(m) : state'[j] = "done" <=> state[j] = "done" BY Zenon, <1>10, TokenFacts
    <2>4. state'[m] = "done" <=> state[m] = "done" BY Zenon, <1>10, <2>1
    <2> QED BY Zenon, <1>2, <2>1, <2>2, <2>3, <2>4, OutcomeKept
<1>16. /\ stack' \in Seq(Nodes) /\ IsInjective(stack') /\ Range(stack') = Range(stack) \cup {k}
       /\ Head(stack') = k
    <2>1. k \notin Range(stack) BY Zenon, <1>7 DEF IInv, Frames, Active
    <2> QED BY Zenon, <1>2, <1>8, <2>1, Types, PushFacts
<1>17. Frames'
    <2>1. Range(stack) = {m \in Nodes : state[m] \in Active} BY Zenon DEF IInv, Frames
    <2>2. Range(stack') = {m \in Nodes : state'[m] \in Active}
        BY Zenon, <1>7, <1>8, <1>9, <1>16, <2>1 DEF Active
    <2>3. \A m \in Range(stack) : state[m] = "starting" BY Zenon, <1>2 DEF IInv, Frames
    <2>4. \A m \in Range(stack') \ {k} : state'[m] = "starting"
        BY Zenon, <1>9, <1>16, <2>1, <2>3
    <2>5. \A m \in Nodes : state'[m] \in {"starting", "joining", "resumed"} => m \in Inner
        BY Zenon, <1>9 DEF IInv, Frames
    <2> QED BY Zenon, <1>16, <2>2, <2>4, <2>5 DEF Frames
<1>18. \A m \in Nodes : Reach(m)' BY Zenon, <1>2, <1>9 DEF IInv, Reach, Requested
<1>19. TypeOK'
    <2>1. state' \in [Nodes -> States] BY Zenon, <1>2, <1>3 DEF States
    <2> QED BY Zenon, <1>2, <1>12, <1>16, <2>1, Types DEF TypeOK, States, Sources
<1> QED BY Zenon, <1>13, <1>14, <1>15, <1>17, <1>18, <1>19 DEF IInv

\* All children are started: the parent suspends, or goes on if they have ended.
LEMMA TryAwaitInv ==
    ASSUME IInv, NEW n \in Inner, TryAwait(n)
    PROVE  IInv'
<1>1. /\ stack # <<>> /\ Head(stack) = n /\ state[n] = "starting" /\ pos[n] > Len(Kids[n])
      /\ count' = [count EXCEPT ![n] = count[n] - 1]
      /\ UNCHANGED <<type, pos, failed, index, result, requested>>
    BY Zenon DEF TryAwait, OnTop
<1>2. /\ n \in Nodes /\ state \in [Nodes -> States] /\ count \in [Inner -> Nat]
      /\ Family(n) /\ pos[n] \in Nat /\ count[n] \in Nat
    BY Zenon, TokenFacts, Types DEF IInv
<1>3. /\ \A i \in 1..Len(Kids[n]) : state[Kids[n][i]] = "new" <=> i >= pos[n]
      /\ count[n] = Cardinality(Open(n)) + 1
    BY Zenon, <1>1, <1>2 DEF Family
<1>4. \A k \in KidSet(n) : state[k] # "new"
    <2>1. \A i \in 1..Len(Kids[n]) : ~(i >= pos[n]) BY <1>1, <1>2, KidIndex
    <2>2. KidSet(n) = {Kids[n][i] : i \in 1..Len(Kids[n])} BY Zenon, KidIndex
    <2>3. \A k \in KidSet(n) : \E i \in 1..Len(Kids[n]) : k = Kids[n][i] BY Zenon, <2>2
    <2>4. \A i \in 1..Len(Kids[n]) : state[Kids[n][i]] # "new" BY Zenon, <1>3, <2>1
    <2> QED BY Zenon, <2>3, <2>4
<1>5. IsFiniteSet(Open(n)) /\ Cardinality(Open(n)) \in Nat
    <2>1. IsFiniteSet(Open(n)) BY Zenon, KidsFinite DEF Open
    <2> QED BY Zenon, <2>1, FS_CardinalityType
<1>6. count[n] - 1 = Cardinality(Open(n)) /\ count[n] - 1 \in Nat BY <1>3, <1>5
<1>7. /\ count'[n] = Cardinality(Open(n)) /\ count' \in [Inner -> Nat]
      /\ \A m \in Inner : m # n => pos'[m] = pos[m] /\ count'[m] = count[m]
    BY Zenon, <1>1, <1>2, <1>6
<1>8. CASE /\ count[n] > 1 /\ state' = [state EXCEPT ![n] = "joining"] /\ stack' = Tail(stack)
           /\ registered' = IF Requested(n) THEN registered ELSE registered \cup {n}
           /\ missed' = IF Requested(n) THEN missed \cup {n} ELSE missed
    <2>1. state'[n] = "joining" /\ (\A m \in Nodes : m # n => state'[m] = state[m])
        BY Zenon, <1>2, <1>8
    <2>2. \A k \in KidSet(n) : state'[k] = state[k] BY Zenon, <2>1, NotOwnKid, TokenFacts
    <2>3. Family(n)'
        <3>1. Open(n)' = Open(n) BY Zenon, <2>2 DEF Open
        <3>2. count'[n] # 0 BY <1>2, <1>6, <1>7, <1>8
        <3> QED BY Zenon, <1>4, <1>7, <2>1, <2>2, <3>1, <3>2 DEF Family, Before
    <2>4. /\ stack' \in Seq(Nodes) /\ IsInjective(stack')
          /\ Range(stack') = {m \in Nodes : state[m] \in Active} \ {n}
          /\ \A m \in Range(stack') : state[m] = "starting"
        BY Zenon, <1>1, <1>8, TopFacts
    <2>5. Frames'
        <3>1. Range(stack') = {m \in Nodes : state'[m] \in Active} BY Zenon, <2>1, <2>4 DEF Active
        <3>2. \A m \in Range(stack') : state'[m] = "starting" BY Zenon, <2>1, <2>4
        <3>3. \A m \in Nodes : state'[m] \in {"starting", "joining", "resumed"} => m \in Inner
            BY Zenon, <2>1 DEF IInv, Frames
        <3> QED BY Zenon, <3>1, <3>2, <3>3 DEF Frames
    <2>6. \A m \in Nodes : Reach(m)'
        <3> TAKE m \in Nodes
        <3>1. CASE m = n BY Zenon, <1>1, <1>8, <2>1, <3>1 DEF Reach, Requested
        <3>2. CASE m # n BY Zenon, <1>1, <1>8, <2>1, <3>2 DEF IInv, Reach, Requested
        <3> QED BY Zenon, <3>1, <3>2
    <2>7. TypeOK'
        <3>1. state' \in [Nodes -> States] BY Zenon, <1>2, <1>8 DEF States
        <3>2. registered' \subseteq Nodes /\ missed' \subseteq Inner BY Zenon, <1>2, <1>8, Types
        <3> QED BY Zenon, <1>1, <1>7, <2>4, <3>1, <3>2, Types DEF TypeOK, States, Sources
    <2> QED BY Zenon, <1>1, <1>7, <1>8, <2>3, <2>5, <2>6, <2>7, ParentMoves DEF States
<1>9. CASE /\ count[n] = 1 /\ state' = [state EXCEPT ![n] = "resumed"]
           /\ UNCHANGED <<stack, registered, missed>>
    <2>1. state'[n] = "resumed" /\ (\A m \in Nodes : m # n => state'[m] = state[m])
        BY Zenon, <1>2, <1>9
    <2>2. \A k \in KidSet(n) : state'[k] = state[k] BY Zenon, <2>1, NotOwnKid, TokenFacts
    <2>3. Family(n)'
        <3>1. Cardinality(Open(n)) = 0 BY <1>6, <1>9
        <3>2. Open(n) = {} BY Zenon, <1>5, <3>1, FS_EmptySet
        <3>3. \A k \in KidSet(n) : state'[k] = "done" BY Zenon, <2>2, <3>2 DEF Open
        <3> QED BY Zenon, <2>1, <3>3 DEF Family, Before
    <2>4. Frames'
        <3>1. \A m \in Nodes : state'[m] \in Active <=> state[m] \in Active
            BY Zenon, <1>1, <2>1 DEF Active
        <3>2. \A m \in Range(stack) : m \in Nodes BY Zenon DEF IInv, Frames
        <3>3. \A m \in Nodes : state'[m] \in {"starting", "joining", "resumed"} => m \in Inner
            BY Zenon, <2>1 DEF IInv, Frames
        <3>4. \A m \in Range(stack) \ {Head(stack)} : state'[m] = "starting"
            BY Zenon, <1>1, <2>1, <3>2 DEF IInv, Frames
        <3> QED BY Zenon, <1>9, <3>1, <3>3, <3>4 DEF IInv, Frames
    <2>5. \A m \in Nodes : Reach(m)' BY Zenon, <1>1, <1>9, <2>1 DEF IInv, Reach, Requested
    <2>6. TypeOK'
        <3>1. state' \in [Nodes -> States] BY Zenon, <1>2, <1>9 DEF States
        <3> QED BY Zenon, <1>1, <1>7, <1>9, <3>1, Types DEF TypeOK, States, Sources
    <2> QED BY Zenon, <1>1, <1>7, <1>9, <2>3, <2>4, <2>5, <2>6, ParentMoves DEF States
<1> QED BY Zenon, <1>8, <1>9 DEF TryAwait

-----------------------------------------------------------------------------
(* An awaitable ends.                                                      *)

\* A child that has begun and not ended has a parent that starts or awaits it.
LEMMA ParentWaits ==
    ASSUME IInv, NEW p \in Inner, NEW k \in KidSet(p), state[k] \notin {"new", "done"}
    PROVE  state[p] \in {"starting", "joining"}
<1>1. Family(p) /\ state[p] \in States BY Zenon, TokenFacts, Types DEF IInv
<1>2. state[p] \notin Before \cup {"resumed", "done"} BY Zenon, <1>1 DEF Family
<1> QED BY Zenon, <1>1, <1>2 DEF States, Before

\* What the others see of the end of n: its parent p may be resumed, and those
\* that wait may be woken.
LEMMA NotifyFacts ==
    ASSUME IInv, NEW n \in Nodes, NEW p \in Inner, p = TokenOf(n), n \in KidSet(p),
           state[n] \in {"entering", "running", "resumed"}, NEW bad \in BOOLEAN,
           Notify(n, p, bad), missed' = missed
    PROVE  /\ state' \in [Nodes -> States] /\ state'[n] = "done"
           /\ count[p] = 1 => state'[p] = "resumed"
           /\ count[p] # 1 => state'[p] = state[p]
           /\ \A m \in Nodes \ {n, p} :
                  state'[m] = state[m] \/ (state[m] = "waiting" /\ state'[m] = "woken")
           /\ requested \subseteq requested' /\ requested' \subseteq Sources
           /\ Decides(p, bad) => p \in requested'
           /\ registered' \subseteq Nodes
           /\ \A m \in Nodes : Reach(m)'
<1> DEFINE Fire == Decides(p, bad) /\ p \notin requested
<1>1. PICK F : F = IF Fire THEN Fired(p) ELSE {} BY Zenon
<1>2. /\ requested' = requested \cup (IF Fire THEN {p} \cup {m \in F : state[m] = "joining"} ELSE {})
      /\ registered' = registered \ (F \cup {n})
      /\ state' = [m \in Nodes |->
                        CASE m = n -> "done"
                          [] m = p /\ count[p] = 1 -> "resumed"
                          [] m \in F /\ state[m] = "waiting" -> "woken"
                          [] OTHER -> state[m]]
    BY <1>1 DEF Notify
<1>3. p \in Nodes /\ p # n /\ state[p] \in {"starting", "joining"}
    BY Zenon, TokenFacts, NotOwnKid, ParentWaits
<1>4. state \in [Nodes -> States] /\ registered \subseteq Nodes /\ requested \subseteq Sources
    BY Zenon, Types
<1>5. /\ state'[n] = "done"
      /\ count[p] = 1 => state'[p] = "resumed"
      /\ count[p] # 1 => state'[p] = state[p]
    <2>1. state[p] # "waiting" BY Zenon, <1>3
    <2> QED BY <1>2, <1>3, <2>1
<1>6. \A m \in Nodes \ {n, p} :
          state'[m] = IF m \in F /\ state[m] = "waiting" THEN "woken" ELSE state[m]
    BY <1>2
<1>7. state' \in [Nodes -> States]
    <2>1. \A m \in Nodes : state'[m] \in States
        <3> TAKE m \in Nodes
        <3>1. CASE m = n BY Zenon, <1>5, <3>1 DEF States
        <3>2. CASE m = p BY Zenon, <1>3, <1>4, <1>5, <3>2 DEF States
        <3>3. CASE m \notin {n, p} BY Zenon, <1>4, <1>6, <3>3 DEF States
        <3> QED BY Zenon, <3>1, <3>2, <3>3
    <2> QED BY Zenon, <1>2, <2>1
<1>8. requested \subseteq requested' /\ (Decides(p, bad) => p \in requested') BY Zenon, <1>2
<1>9. registered' \subseteq Nodes BY Zenon, <1>2, <1>4
<1>10. ASSUME NEW m \in Nodes \ {n, p}
       PROVE  /\ state'[m] = "waiting" => state[m] = "waiting" /\ m \notin F
              /\ state'[m] = "joining" => state[m] = "joining"
    BY Zenon, <1>6, <1>10
<1>11. state'[p] # "waiting" /\ (state'[p] = "joining" => state[p] = "joining")
    BY Zenon, <1>3, <1>5
<1>12. CASE Fire
    <2>1. /\ F = Fired(p) /\ p \in Sources /\ p \notin requested
          /\ requested' = requested \cup ({p} \cup {m \in Fired(p) : state[m] = "joining"})
        BY Zenon, <1>1, <1>2, <1>12 DEF Sources
    <2>2. /\ \A m \in Nodes : state[m] = "waiting" /\ m \notin Fired(p) =>
                 m \in registered \ Fired(p) /\ TokenOf(m) \notin requested'
          /\ \A m \in Nodes : state[m] = "joining" =>
                 m \in missed \cup requested'
                 \/ (m \in registered \ Fired(p) /\ TokenOf(m) \notin requested')
          /\ requested' \subseteq Sources
        BY ONLY IInv, <2>1, RequestReaches, SMT
    <2>3. \A m \in Nodes : Reach(m)'
        <3> TAKE m \in Nodes
        <3>1. CASE m = n BY Zenon, <1>5, <3>1 DEF Reach
        <3>2. CASE m = p BY Zenon, <1>11, <2>1, <3>2 DEF Reach
        <3>3. CASE m \notin {n, p}
            BY Zenon, <1>2, <1>10, <2>1, <2>2, <3>3 DEF Reach, Requested
        <3> QED BY Zenon, <3>1, <3>2, <3>3
    <2> QED BY Zenon, <1>5, <1>6, <1>7, <1>8, <1>9, <2>2, <2>3
<1>13. CASE ~Fire
    <2>1. F = {} /\ requested' = requested /\ registered' = registered \ {n}
        BY Zenon, <1>1, <1>2, <1>13
    <2>2. \A m \in Nodes : Reach(m)'
        <3> TAKE m \in Nodes
        <3>1. CASE m = n BY Zenon, <1>5, <3>1 DEF Reach
        <3>2. CASE m = p BY Zenon, <1>3, <1>11, <2>1, <3>2 DEF IInv, Reach, Requested
        <3>3. CASE m \notin {n, p}
            BY Zenon, <1>10, <2>1, <3>3 DEF IInv, Reach, Requested
        <3> QED BY Zenon, <3>1, <3>2, <3>3
    <2> QED BY Zenon, <1>4, <1>5, <1>6, <1>7, <1>8, <1>9, <2>1, <2>2
<1> QED BY Zenon, <1>12, <1>13

\* The one that ends has no child left and keeps its outcome.
LEMMA OwnEnd ==
    ASSUME IInv, NEW n \in Inner, state[n] \in {"entering", "running", "resumed"},
           NEW bad \in BOOLEAN, state'[n] = "done", failed'[n] = bad, KidsKept(n), type' = type,
           \A k \in KidSet(n) : failed'[k] = failed[k] /\ index'[k] = index[k],
           requested \subseteq requested', Settled(n, bad, result'[n]),
           result'[n] # None => result'[n] \in Ended(n)
    PROVE  Family(n)' /\ Outcome(n)'
<1>1. Family(n) /\ Outcome(n) BY Zenon DEF IInv
<1>2. \A k \in KidSet(n) : state[k] \in {"new", "done"} BY Zenon, <1>1 DEF Family, Before
<1>3. Family(n)' BY Zenon, <1>2 DEF Family, KidsKept, Before
<1>4. Ended(n)' = Ended(n) /\ Ended(n) \subseteq KidSet(n) BY Zenon DEF Ended, KidsKept
<1>5. Settled(n, failed[n], result[n])'
    <2>1. result'[n] # None => index'[result'[n]] = index[result'[n]] BY Zenon, <1>4
    <2>2. Requested(n) => Requested(n)' BY Zenon DEF Requested
    <2> QED BY Zenon, <2>1, <2>2 DEF Settled, KidsKept
<1>6. \A k \in Ended(n) : failed'[k] = failed[k] /\ index'[k] = index[k] BY Zenon, <1>4
<1>7. type'[n] = "one_succ" =>
        Len(Kids[n]) = 2 /\ \A k \in Ended(n)' : ~failed'[k] => n \in requested'
    <2>1. type[n] = "one_succ" => Len(Kids[n]) = 2 /\ \A k \in Ended(n) : ~failed[k] => n \in requested
        BY Zenon, <1>1 DEF Outcome
    <2> QED BY Zenon, <1>4, <1>6, <2>1
<1>8. \A k \in Ended(n)' : index'[k] < Cardinality(Ended(n)') BY Zenon, <1>1, <1>4, <1>6 DEF Outcome
<1>9. \A j, k \in Ended(n)' : index'[j] = index'[k] => j = k
    <2> SUFFICES ASSUME NEW j \in Ended(n), NEW k \in Ended(n), index'[j] = index'[k] PROVE j = k
        BY Zenon, <1>4
    <2>1. index[j] = index[k] BY Zenon, <1>6
    <2> QED BY Zenon, <1>1, <2>1 DEF Outcome
<1>10. result'[n] # None => result'[n] \in Ended(n)' BY Zenon, <1>4
<1> QED BY Zenon, <1>3, <1>5, <1>7, <1>8, <1>9, <1>10 DEF Outcome

\* The parent of the one that ends counts it, and goes on after the last.
LEMMA ParentTold ==
    ASSUME IInv, NEW n \in Nodes, NEW p \in Inner, p = TokenOf(n), n \in KidSet(p),
           state[n] \in {"entering", "running", "resumed"}, NEW bad \in BOOLEAN,
           Notify(n, p, bad), UNCHANGED <<type, pos, missed>>, result'[p] = result[p]
    PROVE  Family(p)' /\ Outcome(p)'
<1>1. /\ state'[n] = "done"
      /\ count[p] = 1 => state'[p] = "resumed"
      /\ count[p] # 1 => state'[p] = state[p]
      /\ \A m \in Nodes \ {n, p} :
             state'[m] = state[m] \/ (state[m] = "waiting" /\ state'[m] = "woken")
      /\ requested \subseteq requested' /\ (Decides(p, bad) => p \in requested')
    BY NotifyFacts, SMT
<1>2. /\ failed' = [failed EXCEPT ![n] = bad]
      /\ index' = [index EXCEPT ![n] = Cardinality(Ended(p))]
      /\ count' = [count EXCEPT ![p] = count[p] - 1]
    BY Zenon DEF Notify, Ended
<1>3. /\ failed \in [Nodes -> BOOLEAN] /\ index \in [Nodes -> 0..NoIndex]
      /\ count \in [Inner -> Nat] /\ count[p] \in Nat
    BY Zenon, Types
<1>4. /\ failed'[n] = bad /\ index'[n] = Cardinality(Ended(p)) /\ count'[p] = count[p] - 1
      /\ \A m \in Nodes : m # n => failed'[m] = failed[m] /\ index'[m] = index[m]
    BY Zenon, <1>2, <1>3
<1>5. Family(p) /\ Outcome(p) BY Zenon DEF IInv
<1>6. p \in Nodes /\ p # n /\ p \notin KidSet(p) /\ state[p] \in {"starting", "joining"}
    BY Zenon, TokenFacts, NotOwnKid, ParentWaits
<1>7. \A k \in KidSet(p) : k # n => /\ state'[k] = "new" <=> state[k] = "new"
                                    /\ state'[k] = "done" <=> state[k] = "done"
    <2> SUFFICES ASSUME NEW k \in KidSet(p), k # n
                 PROVE  /\ state'[k] = "new" <=> state[k] = "new"
                        /\ state'[k] = "done" <=> state[k] = "done"
        BY Zenon
    <2>1. k \in Nodes \ {n, p} BY Zenon, <1>6, TokenFacts
    <2>2. state'[k] = state[k] \/ (state[k] = "waiting" /\ state'[k] = "woken") BY Zenon, <1>1, <2>1
    <2> QED BY Zenon, <2>2
<1>8. Open(p)' = Open(p) \ {n} /\ n \in Open(p) BY Zenon, <1>1, <1>7 DEF Open
<1>9. Ended(p)' = Ended(p) \cup {n} /\ n \notin Ended(p) BY Zenon, <1>1, <1>7 DEF Ended
<1>10. /\ Cardinality(Open(p)') = Cardinality(Open(p)) - 1
       /\ Cardinality(Open(p)) \in Nat /\ Cardinality(Open(p)) # 0 /\ IsFiniteSet(Open(p)')
    <2>1. IsFiniteSet(Open(p)) BY Zenon, KidsFinite DEF Open
    <2>2. Cardinality(Open(p) \ {n}) = Cardinality(Open(p)) - 1 /\ IsFiniteSet(Open(p) \ {n})
        BY Zenon, <1>8, <2>1, FS_RemoveElement
    <2>3. Cardinality(Open(p)) # 0 BY Zenon, <1>8, <2>1, FS_EmptySet
    <2> QED BY Zenon, <1>8, <2>1, <2>2, <2>3, FS_CardinalityType
<1>11. Cardinality(Ended(p)') = Cardinality(Ended(p)) + 1 /\ Cardinality(Ended(p)) \in Nat
    <2>1. IsFiniteSet(Ended(p)) BY Zenon, KidsFinite DEF Ended
    <2>2. Cardinality(Ended(p) \cup {n}) = Cardinality(Ended(p)) + 1
        BY Zenon, <1>9, <2>1, FS_AddElement
    <2> QED BY Zenon, <1>9, <2>1, <2>2, FS_CardinalityType
<1>12. Family(p)'
    <2>1. CASE count[p] = 1
        <3>1. state[p] # "starting"
            <4>1. state[p] = "starting" => count[p] = Cardinality(Open(p)) + 1
                BY Zenon, <1>5 DEF Family
            <4> QED BY <1>10, <2>1, <4>1
        <3>2. count[p] = Cardinality(Open(p)) BY Zenon, <1>5, <1>6, <3>1 DEF Family
        <3>3. Cardinality(Open(p)') = 0 BY <1>10, <2>1, <3>2
        <3>4. Open(p)' = {} BY Zenon, <1>10, <3>3, FS_EmptySet
        <3>5. \A k \in KidSet(p) : state'[k] = "done" BY Zenon, <3>4 DEF Open
        <3> QED BY Zenon, <1>1, <2>1, <3>5 DEF Family, Before
    <2>2. CASE count[p] # 1 /\ state[p] = "starting"
        <3>1. /\ pos[p] \in 1..Len(Kids[p]) + 1
              /\ \A i \in 1..Len(Kids[p]) : state[Kids[p][i]] = "new" <=> i >= pos[p]
              /\ count[p] = Cardinality(Open(p)) + 1
            BY Zenon, <1>5, <2>2 DEF Family
        <3>2. count'[p] = Cardinality(Open(p)') + 1 BY <1>4, <1>10, <3>1
        <3>3. \A k \in KidSet(p) : state'[k] = "new" <=> state[k] = "new" BY Zenon, <1>1, <1>7
        <3>4. \A i \in 1..Len(Kids[p]) : Kids[p][i] \in KidSet(p)
            <4>1. KidSet(p) = {Kids[p][i] : i \in 1..Len(Kids[p])} BY Zenon, KidIndex
            <4> QED BY Zenon, <4>1
        <3>5. \A i \in 1..Len(Kids[p]) : state'[Kids[p][i]] = "new" <=> i >= pos[p]
            BY Zenon, <3>1, <3>3, <3>4
        <3>6. state'[p] = "starting" /\ pos'[p] = pos[p] BY Zenon, <1>1, <2>2
        <3> QED BY Zenon, <3>1, <3>2, <3>5, <3>6 DEF Family, Before
    <2>3. CASE count[p] # 1 /\ state[p] = "joining"
        <3>1. (\A k \in KidSet(p) : state[k] # "new") /\ count[p] = Cardinality(Open(p))
            BY Zenon, <1>5, <2>3 DEF Family
        <3>2. count'[p] = Cardinality(Open(p)') /\ count'[p] # 0
            BY <1>3, <1>4, <1>10, <2>3, <3>1
        <3>3. \A k \in KidSet(p) : state'[k] # "new" BY Zenon, <1>1, <1>7, <3>1
        <3>4. state'[p] = "joining" BY Zenon, <1>1, <2>3
        <3> QED BY Zenon, <3>2, <3>3, <3>4 DEF Family, Before
    <2> QED BY Zenon, <1>6, <2>1, <2>2, <2>3
<1>13. Outcome(p)'
    <2>1. \A k \in Ended(p) : k \in Nodes /\ k # n BY Zenon, <1>9, TokenFacts DEF Ended
    <2>2. \A k \in Ended(p) : failed'[k] = failed[k] /\ index'[k] = index[k] BY Zenon, <1>4, <2>1
    <2>3. type'[p] = "one_succ" =>
            Len(Kids[p]) = 2 /\ \A k \in Ended(p)' : ~failed'[k] => p \in requested'
        <3> SUFFICES ASSUME type[p] = "one_succ"
                     PROVE  Len(Kids[p]) = 2 /\ \A k \in Ended(p)' : ~failed'[k] => p \in requested'
            BY Zenon
        <3>1. ~bad => p \in requested' BY Zenon, <1>1 DEF Decides
        <3>2. \A k \in Ended(p) : ~failed'[k] => p \in requested'
            BY Zenon, <1>1, <1>5, <2>2 DEF Outcome
        <3> QED BY Zenon, <1>4, <1>5, <1>9, <3>1, <3>2 DEF Outcome
    <2>4. \A k \in Ended(p) : index'[k] \in Nat /\ index'[k] < Cardinality(Ended(p))
        <3>1. \A k \in Ended(p) : index[k] \in 0..NoIndex BY Zenon, <1>3, <2>1
        <3>2. \A k \in Ended(p) : index[k] < Cardinality(Ended(p)) BY Zenon, <1>5 DEF Outcome
        <3>3. \A k \in Ended(p) : index[k] \in Nat BY <3>1
        <3> QED BY Zenon, <2>2, <3>2, <3>3
    <2>5. \A k \in Ended(p)' : index'[k] < Cardinality(Ended(p)')
        <3>1. index'[n] < Cardinality(Ended(p)) + 1 BY <1>4, <1>11
        <3>2. \A k \in Ended(p) : index'[k] < Cardinality(Ended(p)) + 1 BY <1>11, <2>4
        <3> QED BY Zenon, <1>9, <1>11, <3>1, <3>2
    <2>6. \A k \in Ended(p) : index'[k] # index'[n] BY <1>4, <1>11, <2>4
    <2>7. \A j, k \in Ended(p) : index'[j] = index'[k] => j = k
        <3> SUFFICES ASSUME NEW j \in Ended(p), NEW k \in Ended(p), index'[j] = index'[k] PROVE j = k
            BY Zenon
        <3>1. index[j] = index[k] BY Zenon, <2>2
        <3> QED BY Zenon, <1>5, <3>1 DEF Outcome
    <2>8. \A j, k \in Ended(p)' : index'[j] = index'[k] => j = k
        <3> SUFFICES ASSUME NEW j \in Ended(p)', NEW k \in Ended(p)', index'[j] = index'[k]
                     PROVE  j = k
            BY Zenon
        <3>1. CASE j = n /\ k = n BY Zenon, <3>1
        <3>2. CASE j = n /\ k # n BY Zenon, <1>9, <2>6, <3>2
        <3>3. CASE j # n /\ k = n BY Zenon, <1>9, <2>6, <3>3
        <3>4. CASE j # n /\ k # n BY Zenon, <1>9, <2>7, <3>4
        <3> QED BY Zenon, <3>1, <3>2, <3>3, <3>4
    <2>9. state'[p] # "done" /\ result'[p] = None
        BY Zenon, <1>1, <1>5, <1>6 DEF Outcome
    <2> QED BY Zenon, <2>3, <2>5, <2>8, <2>9 DEF Outcome
<1> QED BY Zenon, <1>12, <1>13

\* A child ends.
LEMMA NotifyInv ==
    ASSUME IInv, NEW n \in Nodes, NEW p \in Inner, p = TokenOf(n), n \in KidSet(p),
           stack # <<>>, Head(stack) = n, state[n] \in {"entering", "running", "resumed"},
           NEW bad \in BOOLEAN, Notify(n, p, bad), UNCHANGED <<type, pos, missed>>,
           result' \in [Inner -> Nodes \cup {None}],
           \A m \in Inner : m # n => result'[m] = result[m],
           n \in Inner => /\ Settled(n, bad, result'[n])
                          /\ result'[n] # None => result'[n] \in Ended(n)
    PROVE  IInv'
<1>1. /\ state' \in [Nodes -> States] /\ state'[n] = "done"
      /\ count[p] = 1 => state'[p] = "resumed"
      /\ count[p] # 1 => state'[p] = state[p]
      /\ \A m \in Nodes \ {n, p} :
             state'[m] = state[m] \/ (state[m] = "waiting" /\ state'[m] = "woken")
      /\ requested \subseteq requested' /\ requested' \subseteq Sources
      /\ registered' \subseteq Nodes
      /\ \A m \in Nodes : Reach(m)'
    BY NotifyFacts, SMT
<1>2. /\ failed' = [failed EXCEPT ![n] = bad]
      /\ index' = [index EXCEPT ![n] = Cardinality(Ended(p))]
      /\ count' = [count EXCEPT ![p] = count[p] - 1]
      /\ stack' = IF count[p] = 1 THEN <<p>> \o Tail(stack) ELSE Tail(stack)
    BY Zenon DEF Notify, Ended
<1>3. /\ failed \in [Nodes -> BOOLEAN] /\ index \in [Nodes -> 0..NoIndex]
      /\ count \in [Inner -> Nat] /\ count[p] \in Nat
    BY Zenon, Types
<1>4. /\ failed'[n] = bad
      /\ \A m \in Nodes : m # n => failed'[m] = failed[m] /\ index'[m] = index[m]
      /\ \A m \in Inner : m # p => count'[m] = count[m]
    BY Zenon, <1>2, <1>3
<1>5. p \in Nodes /\ p # n /\ state[p] \in {"starting", "joining"}
    BY Zenon, TokenFacts, NotOwnKid, ParentWaits
<1>6. result'[p] = result[p] BY Zenon, <1>5
<1>7. Family(p)' /\ Outcome(p)' BY <1>6, ParentTold, SMT
<1>8. \A m \in Nodes \ {n} : /\ state'[m] = "new" <=> state[m] = "new"
                             /\ state'[m] = "done" <=> state[m] = "done"
    <2> TAKE m \in Nodes \ {n}
    <2>1. CASE m = p BY Zenon, <1>1, <1>5, <2>1
    <2>2. CASE m # p BY Zenon, <1>1, <2>2
    <2> QED BY Zenon, <2>1, <2>2
<1>9. \A m \in Inner : m # p => \A k \in KidSet(m) : k \in Nodes \ {n} BY Zenon, TokenFacts
<1>10. \A m \in Inner : m # p => KidsKept(m) BY Zenon, <1>8, <1>9 DEF KidsKept
<1>11. \A m \in Inner : m # p =>
          \A k \in KidSet(m) : failed'[k] = failed[k] /\ index'[k] = index[k]
    BY Zenon, <1>4, <1>9
<1>12. n \in Inner => Family(n)' /\ Outcome(n)'
    <2> SUFFICES ASSUME n \in Inner PROVE Family(n)' /\ Outcome(n)' BY Zenon
    <2>1. KidsKept(n) /\ \A k \in KidSet(n) : failed'[k] = failed[k] /\ index'[k] = index[k]
        BY Zenon, <1>5, <1>10, <1>11
    <2> QED BY Zenon, <1>1, <1>4, <2>1, OwnEnd
<1>13. ASSUME NEW m \in Inner, m # n, m # p PROVE Family(m)' /\ Outcome(m)'
    <2>1. Family(m) /\ Outcome(m) /\ m \in Nodes BY Zenon, TokenFacts DEF IInv
    <2>2. KidsKept(m) /\ (\A k \in KidSet(m) : failed'[k] = failed[k] /\ index'[k] = index[k])
        BY Zenon, <1>10, <1>11, <1>13
    <2>3. state'[m] = state[m] \/ (state[m] = "waiting" /\ state'[m] = "woken")
        BY Zenon, <1>1, <1>13, <2>1
    <2>4. Family(m)'
        <3>1. state'[m] = state[m] \/ (state[m] \in Before /\ state'[m] \in Before)
            BY Zenon, <2>3 DEF Before
        <3> QED BY Zenon, <1>4, <1>13, <2>1, <2>2, <3>1, FamilyKept
    <2>5. Outcome(m)'
        <3>1. state'[m] = "done" <=> state[m] = "done" BY Zenon, <2>3
        <3>2. \A k \in KidSet(m) : state'[k] = "done" <=> state[k] = "done"
            BY Zenon, <2>2 DEF KidsKept
        <3>3. failed'[m] = failed[m] /\ result'[m] = result[m] BY Zenon, <1>4, <1>13, <2>1
        <3> QED BY Zenon, <1>1, <2>1, <2>2, <3>1, <3>2, <3>3, OutcomeKept
    <2> QED BY Zenon, <2>4, <2>5
<1>14. \A m \in Inner : Family(m)' /\ Outcome(m)' BY Zenon, <1>7, <1>12, <1>13
<1>15. /\ Tail(stack) \in Seq(Nodes) /\ IsInjective(Tail(stack))
       /\ Range(Tail(stack)) = {m \in Nodes : state[m] \in Active} \ {n}
       /\ \A m \in Range(Tail(stack)) : state[m] = "starting"
    BY Zenon, TopFacts
<1>16. \A m \in Nodes \ {n, p} : state'[m] \in Active <=> state[m] \in Active
    BY Zenon, <1>1 DEF Active
<1>17. state'[n] \notin Active BY Zenon, <1>1 DEF Active
<1>18. \A m \in Nodes : state'[m] \in {"starting", "joining", "resumed"} => m \in Inner
    <2> TAKE m \in Nodes
    <2>1. CASE m = p BY Zenon, <2>1
    <2>2. CASE m = n BY Zenon, <1>1, <2>2
    <2>3. CASE m \notin {n, p}
        <3>1. state'[m] = state[m] \/ state'[m] = "woken" BY Zenon, <1>1, <2>3
        <3> QED BY Zenon, <3>1 DEF IInv, Frames
    <2> QED BY Zenon, <2>1, <2>2, <2>3
<1>19. \A m \in Range(Tail(stack)) : m # p => state'[m] = "starting"
    <2> TAKE m \in Range(Tail(stack))
    <2>1. m \in Nodes /\ m # n /\ state[m] = "starting" BY Zenon, <1>15
    <2> QED BY Zenon, <1>1, <2>1
<1>20. stack' \in Seq(Nodes) /\ IsInjective(stack') /\ Frames'
    <2>1. CASE count[p] = 1
        <3>1. state'[p] = "resumed" BY Zenon, <1>1, <2>1
        <3>2. state[p] = "joining"
            <4>1. Family(p) /\ n \in Open(p) BY Zenon DEF IInv, Open
            <4>2. IsFiniteSet(Open(p)) BY Zenon, KidsFinite DEF Open
            <4>3. Cardinality(Open(p)) \in Nat /\ Cardinality(Open(p)) # 0
                BY Zenon, <4>1, <4>2, FS_EmptySet, FS_CardinalityType
            <4>4. state[p] = "starting" => count[p] = Cardinality(Open(p)) + 1
                BY Zenon, <4>1 DEF Family
            <4>5. state[p] # "starting" BY <2>1, <4>3, <4>4
            <4> QED BY Zenon, <1>5, <4>5
        <3>3. p \notin Range(Tail(stack)) BY Zenon, <1>15, <3>2
        <3>4. stack' = <<p>> \o Tail(stack) BY Zenon, <1>2, <2>1
        <3>5. /\ stack' \in Seq(Nodes) /\ IsInjective(stack') /\ Head(stack') = p
              /\ Range(stack') = Range(Tail(stack)) \cup {p}
            BY Zenon, <1>5, <1>15, <3>3, <3>4, PushFacts
        <3>6. Range(stack') = {m \in Nodes : state'[m] \in Active}
            <4>1. state'[p] \in Active BY Zenon, <3>1 DEF Active
            <4>2. \A m \in Nodes : m \in Range(stack') <=> state'[m] \in Active
                <5> TAKE m \in Nodes
                <5>1. CASE m = p BY Zenon, <3>5, <4>1, <5>1
                <5>2. CASE m = n BY Zenon, <1>5, <1>15, <1>17, <3>5, <5>2
                <5>3. CASE m \notin {n, p} BY Zenon, <1>15, <1>16, <3>5, <5>3
                <5> QED BY Zenon, <5>1, <5>2, <5>3
            <4>3. \A m \in Range(stack') : m \in Nodes BY Zenon, <1>5, <1>15, <3>5
            <4> QED BY Zenon, <4>2, <4>3
        <3>7. \A m \in Range(stack') \ {p} : state'[m] = "starting" BY Zenon, <1>19, <3>5
        <3> QED BY Zenon, <1>18, <3>5, <3>6, <3>7 DEF Frames
    <2>2. CASE count[p] # 1
        <3>1. state'[p] = state[p] /\ stack' = Tail(stack) BY Zenon, <1>1, <1>2, <2>2
        <3>2. Range(stack') = {m \in Nodes : state'[m] \in Active}
            <4>1. \A m \in Nodes \ {n} : state'[m] \in Active <=> state[m] \in Active
                BY Zenon, <1>16, <3>1
            <4> QED BY Zenon, <1>15, <1>17, <3>1, <4>1
        <3>3. \A m \in Range(stack') : state'[m] = "starting" BY Zenon, <1>15, <1>19, <3>1
        <3> QED BY Zenon, <1>15, <1>18, <3>1, <3>2, <3>3 DEF Frames
    <2> QED BY Zenon, <2>1, <2>2
<1>21. TypeOK'
    <2>1. failed' \in [Nodes -> BOOLEAN] BY Zenon, <1>2, <1>3
    <2>2. index' \in [Nodes -> 0..NoIndex]
        <3>1. Cardinality(Ended(p)) \in 0..NoIndex BY Zenon, KidsFinite DEF Ended
        <3> QED BY Zenon, <1>2, <1>3, <3>1
    <2>3. count' \in [Inner -> Nat]
        <3>1. Family(p) /\ n \in Open(p) BY Zenon DEF IInv, Open
        <3>2. IsFiniteSet(Open(p)) BY Zenon, KidsFinite DEF Open
        <3>3. Cardinality(Open(p)) \in Nat BY Zenon, <3>2, FS_CardinalityType
        <3>4. count[p] = Cardinality(Open(p)) + 1 \/ count[p] # 0 BY Zenon, <1>5, <3>1 DEF Family
        <3>5. count[p] - 1 \in Nat BY <1>3, <3>3, <3>4
        <3> QED BY Zenon, <1>2, <1>3, <3>5
    <2> QED BY Zenon, <1>1, <1>20, <2>1, <2>2, <2>3, Types DEF TypeOK, States, Sources
<1> QED BY Zenon, <1>1, <1>14, <1>20, <1>21 DEF IInv

\* The root ends.
LEMMA RootEndsInv ==
    ASSUME IInv, stack # <<>>, Head(stack) = Root, state[Root] \in {"entering", "running", "resumed"},
           NEW bad \in BOOLEAN, Ends(Root, bad), UNCHANGED <<type, pos, missed>>,
           result' \in [Inner -> Nodes \cup {None}],
           \A m \in Inner : m # Root => result'[m] = result[m],
           Root \in Inner => /\ Settled(Root, bad, result'[Root])
                             /\ result'[Root] # None => result'[Root] \in Ended(Root)
    PROVE  IInv'
<1>1. /\ failed' = [failed EXCEPT ![Root] = bad] /\ state' = [state EXCEPT ![Root] = "done"]
      /\ stack' = Tail(stack) /\ registered' = registered \ {Root}
      /\ UNCHANGED <<index, count, requested>>
    BY Zenon DEF Ends
<1>2. /\ Root \in Nodes /\ state \in [Nodes -> States] /\ failed \in [Nodes -> BOOLEAN]
      /\ registered \subseteq Nodes
    BY Zenon, Types, ParallelTaskAssumption
<1>3. /\ state'[Root] = "done" /\ failed'[Root] = bad
      /\ \A m \in Nodes : m # Root => state'[m] = state[m] /\ failed'[m] = failed[m]
    BY Zenon, <1>1, <1>2
<1>4. \A m \in Inner : \A k \in KidSet(m) :
          state'[k] = state[k] /\ failed'[k] = failed[k] /\ index'[k] = index[k]
    BY Zenon, <1>1, <1>3, TokenFacts
<1>5. \A m \in Inner : KidsKept(m) BY Zenon, <1>4 DEF KidsKept
<1>6. Root \in Inner => Family(Root)' /\ Outcome(Root)'
    <2> SUFFICES ASSUME Root \in Inner PROVE Family(Root)' /\ Outcome(Root)' BY Zenon
    <2>1. /\ KidsKept(Root) /\ requested \subseteq requested'
          /\ \A k \in KidSet(Root) : failed'[k] = failed[k] /\ index'[k] = index[k]
        BY Zenon, <1>1, <1>4, <1>5
    <2> QED BY Zenon, <1>3, <2>1, OwnEnd
<1>7. ASSUME NEW m \in Inner, m # Root PROVE Family(m)' /\ Outcome(m)'
    <2>1. Family(m) /\ Outcome(m) /\ m \in Nodes BY Zenon, TokenFacts DEF IInv
    <2>2. state'[m] = state[m] /\ failed'[m] = failed[m] /\ result'[m] = result[m]
        BY Zenon, <1>3, <1>7, <2>1
    <2>3. Family(m)' BY Zenon, <1>1, <1>5, <2>1, <2>2, FamilyKept
    <2>4. /\ \A k \in KidSet(m) : state'[k] = "done" <=> state[k] = "done"
          /\ \A k \in KidSet(m) : failed'[k] = failed[k] /\ index'[k] = index[k]
          /\ requested \subseteq requested'
        BY Zenon, <1>1, <1>4
    <2>5. Outcome(m)' BY Zenon, <1>5, <2>1, <2>2, <2>4, OutcomeKept
    <2> QED BY Zenon, <2>3, <2>5
<1>8. /\ stack' \in Seq(Nodes) /\ IsInjective(stack')
      /\ Range(stack') = {m \in Nodes : state[m] \in Active} \ {Root}
      /\ \A m \in Range(stack') : state[m] = "starting"
    BY Zenon, <1>1, TopFacts
<1>9. Frames'
    <2>1. Range(stack') = {m \in Nodes : state'[m] \in Active} BY Zenon, <1>3, <1>8 DEF Active
    <2>2. \A m \in Range(stack') : state'[m] = "starting" BY Zenon, <1>3, <1>8
    <2>3. \A m \in Nodes : state'[m] \in {"starting", "joining", "resumed"} => m \in Inner
        BY Zenon, <1>3 DEF IInv, Frames
    <2> QED BY Zenon, <2>1, <2>2, <2>3 DEF Frames
<1>10. \A m \in Nodes : Reach(m)'
    <2> TAKE m \in Nodes
    <2>1. CASE m = Root BY Zenon, <1>3, <2>1 DEF Reach
    <2>2. CASE m # Root BY Zenon, <1>1, <1>3, <2>2 DEF IInv, Reach, Requested
    <2> QED BY Zenon, <2>1, <2>2
<1>11. TypeOK'
    <2>1. state' \in [Nodes -> States] BY Zenon, <1>1, <1>2 DEF States
    <2>2. failed' \in [Nodes -> BOOLEAN] /\ registered' \subseteq Nodes BY Zenon, <1>1, <1>2
    <2> QED BY Zenon, <1>1, <1>8, <2>1, <2>2, Types DEF TypeOK, States, Sources
<1> QED BY Zenon, <1>6, <1>7, <1>9, <1>10, <1>11 DEF IInv

\* An awaitable ends.
LEMMA EndsInv ==
    ASSUME IInv, NEW n \in Nodes, stack # <<>>, Head(stack) = n,
           state[n] \in {"entering", "running", "resumed"},
           NEW bad \in BOOLEAN, Ends(n, bad), UNCHANGED <<type, pos, missed>>,
           result' \in [Inner -> Nodes \cup {None}],
           \A m \in Inner : m # n => result'[m] = result[m],
           n \in Inner => /\ Settled(n, bad, result'[n])
                          /\ result'[n] # None => result'[n] \in Ended(n)
    PROVE  IInv'
<1>1. CASE n = Root BY Zenon, <1>1, RootEndsInv
<1>2. CASE n # Root
    <2>1. PICK p \in Inner : p = TokenOf(n) /\ n \in KidSet(p) BY Zenon, <1>2, TokenFacts
    <2>2. Notify(n, p, bad) BY Zenon, <1>2, <2>1 DEF Ends
    <2> QED BY <2>1, <2>2, NotifyInv, SMT
<1> QED BY Zenon, <1>1, <1>2

\* It ends before it has started any child.
LEMMA EarlyEnd ==
    ASSUME IInv, NEW n \in Nodes, stack # <<>>, Head(stack) = n, state[n] \in {"entering", "running"},
           NEW bad \in BOOLEAN, Ends(n, bad), UNCHANGED <<type, pos, result, missed>>
    PROVE  IInv'
<1>1. n \in Inner => /\ Settled(n, bad, result'[n])
                     /\ result'[n] # None => result'[n] \in Ended(n)
    <2> SUFFICES ASSUME n \in Inner
                 PROVE  Settled(n, bad, result'[n]) /\ (result'[n] # None => result'[n] \in Ended(n))
        BY Zenon
    <2>1. Family(n) /\ Outcome(n) BY Zenon DEF IInv
    <2>2. \A k \in KidSet(n) : state[k] = "new" BY Zenon, <2>1 DEF Family, Before
    <2>3. result'[n] = None BY Zenon, <2>1 DEF Outcome
    <2> QED BY Zenon, <2>2, <2>3 DEF Settled
<1>2. result' \in [Inner -> Nodes \cup {None}] BY Zenon, Types
<1>3. \A m \in Inner : m # n => result'[m] = result[m] BY Zenon
<1>4. state[n] \in {"entering", "running", "resumed"} BY Zenon
<1> QED BY Zenon, <1>1, <1>2, <1>3, <1>4, EndsInv

\* Of the two operands of ||, which have both ended, the one chosen is the first
\* that succeeded.
LEMMA ChosenFacts ==
    ASSUME IInv, NEW n \in Inner, type[n] = "one_succ", \A k \in KidSet(n) : state[k] = "done"
    PROVE  /\ Chosen(n) = None => \A k \in KidSet(n) : failed[k]
           /\ Chosen(n) # None =>
                /\ Chosen(n) \in Ended(n) /\ n \in requested
                /\ \A k \in KidSet(n) : ~failed[k] => index[Chosen(n)] <= index[k]
           /\ Chosen(n) \in Nodes \cup {None}
<1>1. Outcome(n) BY Zenon DEF IInv
<1>2. Len(Kids[n]) = 2 /\ \A k \in Ended(n) : ~failed[k] => n \in requested
    BY Zenon, <1>1 DEF Outcome
<1>3. Ended(n) = KidSet(n) BY Zenon DEF Ended
<1>4. PICK l, r : l = Kids[n][1] /\ r = Kids[n][2] BY Zenon
<1>5. 1..2 = {1, 2} /\ 1 # 2 OBVIOUS
<1>6. KidSet(n) = {l, r} /\ l # r
    <2>1. KidSet(n) = {Kids[n][i] : i \in {1, 2}} BY Zenon, <1>2, <1>5, KidIndex
    <2>2. \A i, j \in {1, 2} : Kids[n][i] = Kids[n][j] => i = j BY Zenon, <1>2, <1>5, KidIndex
    <2> QED BY Zenon, <1>4, <1>5, <2>1, <2>2
<1>7. Cardinality(Ended(n)) = 2
    <2>1. Cardinality({l}) = 1 /\ IsFiniteSet({l}) BY Zenon, FS_Singleton
    <2>2. r \notin {l} BY Zenon, <1>6
    <2>3. Cardinality({l} \cup {r}) = Cardinality({l}) + 1 BY Zenon, <2>1, <2>2, FS_AddElement
    <2>4. Ended(n) = {l} \cup {r} BY Zenon, <1>3, <1>6
    <2> QED BY <2>1, <2>3, <2>4
<1>8. l \in Nodes /\ r \in Nodes BY Zenon, <1>6, TokenFacts
<1>9. None \notin Nodes BY Zenon, ParallelTaskAssumption
<1>10. /\ index[l] \in 0..NoIndex /\ index[r] \in 0..NoIndex /\ index[l] < 2 /\ index[r] < 2
       /\ index[l] # index[r]
    <2>1. index[l] \in 0..NoIndex /\ index[r] \in 0..NoIndex BY Zenon, <1>8, Types
    <2>2. \A k \in Ended(n) : index[k] < 2 BY Zenon, <1>1, <1>7 DEF Outcome
    <2>3. \A j, k \in Ended(n) : index[j] = index[k] => j = k BY Zenon, <1>1 DEF Outcome
    <2> QED BY Zenon, <1>3, <1>6, <2>1, <2>2, <2>3
<1>11. PICK f, s : /\ f = IF index[l] = 0 THEN l ELSE r
                   /\ s = IF index[l] = 0 THEN r ELSE l
    BY Zenon
<1>12. KidSet(n) = {f, s} BY Zenon, <1>6, <1>11
<1>13. \A k \in {f, s} : index[f] <= index[k] /\ index[k] <= index[k]
    <2>1. CASE index[l] = 0 BY <1>10, <1>11, <2>1
    <2>2. CASE index[l] # 0 BY <1>10, <1>11, <2>2
    <2> QED BY Zenon, <2>1, <2>2
<1>14. Chosen(n) = IF ~failed[f] THEN f ELSE IF ~failed[s] THEN s ELSE None
    BY Zenon, <1>4, <1>11 DEF Chosen
<1>15. f \in Nodes /\ s \in Nodes BY Zenon, <1>8, <1>11
<1>16. CASE ~failed[f] BY Zenon, <1>2, <1>3, <1>9, <1>12, <1>13, <1>14, <1>15, <1>16
<1>17. CASE failed[f] /\ ~failed[s] BY Zenon, <1>2, <1>3, <1>9, <1>12, <1>13, <1>14, <1>15, <1>17
<1>18. CASE failed[f] /\ failed[s] BY Zenon, <1>12, <1>14, <1>18
<1> QED BY Zenon, <1>16, <1>17, <1>18

\* await_resume, and the end of the one that awaited.
LEMMA JoinInv ==
    ASSUME IInv, NEW n \in Inner, Join(n)
    PROVE  IInv'
<1>1. PICK chosen : chosen = IF type[n] = "one_succ" /\ ~Requested(n) THEN Chosen(n) ELSE None
    BY Zenon
<1>2. PICK bad \in BOOLEAN : bad = (\/ Requested(n)
                                    \/ type[n] = "one_fail" /\ \E k \in KidSet(n) : failed[k]
                                    \/ type[n] = "one_succ" /\ chosen = None)
    BY Zenon
<1>3. /\ stack # <<>> /\ Head(stack) = n /\ state[n] = "resumed"
      /\ result' = [result EXCEPT ![n] = chosen] /\ Ends(n, bad)
      /\ UNCHANGED <<type, pos, missed>>
    BY Zenon, <1>1, <1>2 DEF Join, OnTop
<1>4. \A k \in KidSet(n) : state[k] = "done" BY Zenon, <1>3 DEF IInv, Family
<1>5. chosen \in Nodes \cup {None} BY Zenon, <1>1, <1>4, ChosenFacts
<1>6. result \in [Inner -> Nodes \cup {None}] BY Zenon, Types
<1>7. /\ result' \in [Inner -> Nodes \cup {None}] /\ result'[n] = chosen
      /\ \A m \in Inner : m # n => result'[m] = result[m]
    BY Zenon, <1>3, <1>5, <1>6
<1>8. chosen # None => chosen \in Ended(n) BY Zenon, <1>1, <1>4, ChosenFacts
<1>9. Settled(n, bad, chosen)
    <2> SUFFICES ASSUME type[n] = "one_succ"
                 PROVE  /\ bad => Requested(n) \/ \A k \in KidSet(n) : failed[k]
                        /\ ~bad /\ chosen # None =>
                             /\ n \in requested
                             /\ \A k \in KidSet(n) : ~failed[k] => index[chosen] <= index[k]
        BY Zenon DEF Settled
    <2>1. CASE Requested(n) BY Zenon, <1>2, <2>1
    <2>2. CASE ~Requested(n)
        <3>1. chosen = Chosen(n) BY Zenon, <1>1, <2>2
        <3>2. bad => chosen = None BY Zenon, <1>2, <2>2
        <3> QED BY Zenon, <1>4, <3>1, <3>2, ChosenFacts
    <2> QED BY Zenon, <2>1, <2>2
<1>10. n \in Nodes BY Zenon, TokenFacts
<1> QED BY Zenon, <1>3, <1>7, <1>8, <1>9, <1>10, EndsInv

-----------------------------------------------------------------------------
(* The invariant.                                                          *)

\* Nothing has started.
LEMMA InitInv ==
    ASSUME Init
    PROVE  IInv
<1>1. /\ type \in [Inner -> WaitTypes] /\ state = [n \in Nodes |-> "new"] /\ stack = <<>>
      /\ \A n \in Inner : type[n] = "one_succ" => Len(Kids[n]) = 2
      /\ pos = [n \in Inner |-> 1] /\ count = [n \in Inner |-> Len(Kids[n]) + 1]
      /\ failed = [n \in Nodes |-> FALSE] /\ index = [n \in Nodes |-> NoIndex]
      /\ requested = {} /\ registered = {} /\ result = [n \in Inner |-> None] /\ missed = {}
    BY Zenon DEF Init
<1>2. NoIndex \in 0..NoIndex
    <2>1. Cardinality(Nodes) \in Nat BY Zenon, ParallelTaskAssumption, FS_CardinalityType
    <2> QED BY <2>1 DEF NoIndex
<1>3. stack \in Seq(Nodes) /\ IsInjective(stack) /\ Range(stack) = {}
    <2>1. <<>> \in Seq(Nodes) OBVIOUS
    <2> QED BY Zenon, <1>1, <2>1, EmptyFacts
<1>4. pos \in [Inner -> Nat] /\ count \in [Inner -> Nat]
    <2>1. \A n \in Inner : Len(Kids[n]) + 1 \in Nat
        <3> TAKE n \in Inner
        <3>1. Len(Kids[n]) \in Nat BY Zenon, KidIndex
        <3> QED BY <3>1
    <2>2. 1 \in Nat OBVIOUS
    <2> QED BY Zenon, <1>1, <2>1, <2>2
<1>5. TypeOK
    <2>1. state \in [Nodes -> States] BY Zenon, <1>1 DEF States
    <2>2. failed \in [Nodes -> BOOLEAN] /\ index \in [Nodes -> 0..NoIndex] BY Zenon, <1>1, <1>2
    <2>3. result \in [Inner -> Nodes \cup {None}] BY Zenon, <1>1
    <2> QED BY Zenon, <1>1, <1>3, <1>4, <2>1, <2>2, <2>3 DEF TypeOK, States
<1>6. \A n \in Nodes : state[n] = "new" BY Zenon, <1>1
<1>7. Frames BY Zenon, <1>1, <1>3, <1>6 DEF Frames, Active
<1>8. \A n \in Nodes : Reach(n) BY Zenon, <1>6 DEF Reach
<1>9. ASSUME NEW n \in Inner PROVE Family(n)
    <2>1. state[n] = "new" /\ (\A k \in KidSet(n) : state[k] = "new") /\ pos[n] = 1
        BY Zenon, <1>1, <1>6, TokenFacts
    <2>2. Open(n) = KidSet(n) BY Zenon, <2>1 DEF Open
    <2>3. Cardinality(KidSet(n)) = Len(Kids[n])
        <3>1. PICK len \in Nat : len = Len(Kids[n]) BY Zenon, KidIndex
        <3>2. Kids[n] \in Seq(Nodes \ {Root}) BY Zenon, TokenFacts, ParallelTaskAssumption
        <3>3. Kids[n] \in [1..len -> KidSet(n)]
            <4>1. DOMAIN Kids[n] = 1..len /\ Kids[n] = [i \in 1..len |-> Kids[n][i]] BY <3>1, <3>2
            <4>2. \A i \in 1..len : Kids[n][i] \in KidSet(n)
                <5>1. KidSet(n) = {Kids[n][i] : i \in 1..len} BY Zenon, <3>1, KidIndex
                <5> QED BY Zenon, <5>1
            <4> QED BY <4>1, <4>2
        <3>4. Kids[n] \in Bijection(1..len, KidSet(n))
            <4>1. \A i, j \in 1..len : Kids[n][i] = Kids[n][j] => i = j BY Zenon, <3>1, KidIndex
            <4>2. \A k \in KidSet(n) : \E i \in 1..len : Kids[n][i] = k
                <5>1. KidSet(n) = {Kids[n][i] : i \in 1..len} BY Zenon, <3>1, KidIndex
                <5> QED BY Zenon, <5>1
            <4> QED BY Zenon, <3>3, <4>1, <4>2 DEF Bijection, Injection, Surjection, IsInjective
        <3>5. ExistsBijection(1..len, KidSet(n)) BY Zenon, <3>4 DEF ExistsBijection
        <3> QED BY Zenon, <3>1, <3>5, FS_CountingElements
    <2>4. count[n] = Cardinality(Open(n)) + 1 BY Zenon, <1>1, <2>2, <2>3
    <2> QED BY Zenon, <2>1, <2>4 DEF Family, Before
<1>10. ASSUME NEW n \in Inner PROVE Outcome(n)
    <2>1. Ended(n) = {} BY Zenon, <1>6, TokenFacts DEF Ended
    <2>2. state[n] = "new" /\ result[n] = None BY Zenon, <1>1, <1>6, TokenFacts
    <2> QED BY Zenon, <1>1, <2>1, <2>2 DEF Outcome
<1> QED BY Zenon, <1>5, <1>7, <1>8, <1>9, <1>10 DEF IInv

\* Every step of the thread preserves the invariant.
LEMMA RunInv ==
    ASSUME IInv, Run
    PROVE  IInv'
<1>1. ASSUME NEW n \in Nodes, Enter(n) PROVE IInv'
    <2>1. stack # <<>> /\ Head(stack) = n /\ state[n] = "entering" BY Zenon, <1>1 DEF Enter, OnTop
    <2>2. CASE Requested(n)
        <3>1. Ends(n, TRUE) /\ UNCHANGED <<type, pos, result, missed>>
            BY Zenon, <1>1, <2>2 DEF Enter
        <3>2. TRUE \in BOOLEAN /\ state[n] \in {"entering", "running"} BY Zenon, <2>1
        <3> QED BY Zenon, <2>1, <3>1, <3>2, EarlyEnd
    <2>3. CASE ~Requested(n)
        <3>1. /\ OnTop(n, "entering") /\ state' = [state EXCEPT ![n] = "running"]
              /\ UNCHANGED <<type, stack, pos, treeVars, cancelVars, missed>>
            BY Zenon, <1>1, <2>3 DEF Enter, treeVars
        <3> QED BY Zenon, <3>1, EnterInv
    <2> QED BY Zenon, <2>2, <2>3
<1>2. ASSUME NEW n \in Nodes, NEW bad \in BOOLEAN, Return(n, bad) PROVE IInv'
    <2>1. /\ stack # <<>> /\ Head(stack) = n /\ state[n] \in {"entering", "running"}
          /\ Ends(n, bad) /\ UNCHANGED <<type, pos, result, missed>>
        BY Zenon, <1>2 DEF Return, OnTop
    <2> QED BY Zenon, <2>1, EarlyEnd
<1>3. ASSUME NEW n \in Inner, Begin(n) PROVE IInv'
    <2>1. stack # <<>> /\ Head(stack) = n /\ state[n] = "running" BY Zenon, <1>3 DEF Begin, OnTop
    <2>2. CASE Requested(n)
        <3>1. Ends(n, TRUE) /\ UNCHANGED <<type, pos, result, missed>>
            BY Zenon, <1>3, <2>2 DEF Begin
        <3>2. TRUE \in BOOLEAN /\ state[n] \in {"entering", "running"} /\ n \in Nodes
            BY Zenon, <2>1, TokenFacts
        <3> QED BY Zenon, <2>1, <3>1, <3>2, EarlyEnd
    <2>3. CASE ~Requested(n)
        <3>1. /\ OnTop(n, "running") /\ state' = [state EXCEPT ![n] = "starting"]
              /\ UNCHANGED <<type, stack, pos, treeVars, cancelVars, missed>>
            BY Zenon, <1>3, <2>3 DEF Begin, treeVars
        <3> QED BY Zenon, <3>1, BeginInv
    <2> QED BY Zenon, <2>2, <2>3
<1>4. ASSUME NEW n \in Nodes, Return(n, TRUE) \/ Return(n, FALSE) PROVE IInv'
    <2>1. \E bad \in BOOLEAN : Return(n, bad) BY Zenon, <1>4
    <2> QED BY Zenon, <1>2, <2>1
<1> QED BY Zenon, <1>1, <1>3, <1>4, ResumeWokenInv, StartKidInv, TryAwaitInv, JoinInv DEF Run

\* The invariant of parallel tasks: who is on the stack, which children each
\* when_ready has started and what its count_ counts, who hears of a
\* cancellation, and what has become of the operands of || (parallel_counter and
\* the operators of tasks).
THEOREM ParallelInvariance == Spec => []IInv
<1>1. Init => IInv BY Zenon, InitInv
<1>2. IInv /\ [Next]_vars => IInv'
    <2> SUFFICES ASSUME IInv, [Next]_vars PROVE IInv' BY Zenon
    <2>1. CASE StartRoot BY Zenon, <2>1, StartRootInv
    <2>2. CASE CancelOutside BY Zenon, <2>2, CancelOutsideInv
    <2>3. CASE Run BY Zenon, <2>3, RunInv
    <2>4. CASE \E n \in Nodes : Suspend(n) \/ Event(n) BY Zenon, <2>4, SuspendInv, EventInv
    <2>5. CASE UNCHANGED vars
        <3>1. UNCHANGED <<type, state, stack, pos, failed, index, count, result,
                          requested, registered, missed>>
            BY Zenon, <2>5 DEF vars, treeVars, cancelVars
        <3>2. Frames' /\ \A n \in Nodes : Reach(n)'
            BY Zenon, <3>1 DEF IInv, Frames, Reach, Requested
        <3>3. \A n \in Nodes : Gentle(n) BY Zenon, <3>1 DEF Gentle
        <3> QED BY Zenon, <3>1, <3>2, <3>3, Types, GentleInv
    <2> QED BY Zenon, <2>1, <2>2, <2>3, <2>4, <2>5 DEF Next
<1> QED BY <1>1, <1>2, PTL DEF Spec

\* A when_ready is resumed by its last child and by no other: while it is
\* suspended there is one to come, and once it goes on (and destroys the frames
\* of its children) none of them is suspended, woken or running.
THEOREM ParentsJoinAll == Spec => []JoinsAll
<1>1. IInv => JoinsAll
    <2> SUFFICES ASSUME IInv PROVE JoinsAll BY Zenon
    <2>1. ASSUME NEW n \in Inner, state[n] = "joining" PROVE \E k \in KidSet(n) : state[k] # "done"
        <3>1. count[n] = Cardinality(Open(n)) /\ count[n] # 0 BY Zenon, <2>1 DEF IInv, Family
        <3>2. Open(n) # {} BY Zenon, <3>1, FS_EmptySet
        <3> QED BY Zenon, <3>2 DEF Open
    <2>2. ASSUME NEW n \in Inner, state[n] \in {"resumed", "done"}
          PROVE  \A k \in KidSet(n) : state[k] \in {"new", "done"}
        BY Zenon, <2>2 DEF IInv, Family
    <2> QED BY Zenon, <2>1, <2>2 DEF IInv, JoinsAll
<1> QED BY <1>1, ParallelInvariance, PTL

\* A request for cancellation wakes every awaitable that waits below it, at any
\* depth, and is passed on by every when_ready that awaits its children, except
\* by one whose token was cancelled before it registered.
THEOREM CancellationReaches == Spec => []CancelReachesTree
<1>1. IInv => CancelReachesTree BY Zenon DEF IInv, Reach, CancelReachesTree
<1> QED BY <1>1, ParallelInvariance, PTL

\* l || r returns the operand that succeeded first, after the other was told to
\* stop, and throws only when both threw or it was cancelled itself.
THEOREM FirstSuccess == Spec => []FirstSuccessWins
<1>1. IInv => FirstSuccessWins
    <2> SUFFICES ASSUME IInv, NEW n \in Inner, type[n] = "one_succ", state[n] = "done"
                 PROVE  IF failed[n]
                        THEN Requested(n) \/ \A k \in KidSet(n) : failed[k] \/ state[k] = "new"
                        ELSE result[n] # None =>
                                /\ n \in requested
                                /\ \A k \in KidSet(n) : ~failed[k] => index[result[n]] <= index[k]
        BY Zenon DEF FirstSuccessWins
    <2>1. Settled(n, failed[n], result[n]) BY Zenon DEF IInv, Outcome
    <2> QED BY Zenon, <2>1 DEF Settled
<1> QED BY <1>1, ParallelInvariance, PTL
=============================================================================
