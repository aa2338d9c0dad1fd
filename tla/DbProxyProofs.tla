--------------------------- MODULE DbProxyProofs ----------------------------
(***************************************************************************)
(* What db_proxy tells is in the database, and no row goes back, for any   *)
(* number of users, threads, calls, versions and exceptions.               *)
(*                                                                         *)
(* The invariant follows a version of a row on its way from the owner:     *)
(* request, cache (user_infos_ and account_infos_), operation of a job,    *)
(* database, report.  At each of these it is at least what is behind it,   *)
(* because a row is in at most one job at a time, from the request that    *)
(* enters it into the cache to the end of the coroutine that takes it out. *)
(*                                                                         *)
(* The second half is the player's session, whose module is the instance P *)
(* (its constants and variables are renamed where DbProxy has the name):   *)
(* what the proxy takes of a connection gets to the logic service once and *)
(* in order.                                                               *)
(***************************************************************************)
EXTENDS DbProxy, SeqFacts

Calls == Queries \cup {"create_user"}
Codes == {None, "system", "success"}
Results == Nat \cup {None} \cup SUBSET Users

\* Some of the rows with a version each.
Versions == UNION {[D -> Nat] : D \in SUBSET Rows}

Requests == [kind : Calls, user : Users] \cup [kind : Updates, infos : Versions]
Answers == [kind : Calls, ec : Codes, user : Users, result : Results]
              \cup [kind : Updates, infos : Versions]
CallJobs == [kind : Calls, user : Users, step : Nat, ec : Codes, result : Results]
UpdateJobs == [kind : Updates, rows : Seq(Rows), step : Nat \ {0}, ec : Codes,
               output : Versions, ops : Seq(Rows \X Nat)]
Jobs == CallJobs \cup UpdateJobs

Typed ==
    /\ db \in [Rows -> Nat \cup {None}] /\ infos \in [Rows -> Nat \cup {None}]
    /\ ver \in [Rows -> Nat] /\ verdb \in [Rows -> Nat]
    /\ aiList \subseteq Users /\ known \subseteq Users
    /\ maxId \in {0, None} \cup Users /\ call \in Calls \cup {None}
    /\ budget \in [versions : [Rows -> Nat], calls : Nat, failures : Nat]
    /\ toDb \in Seq(Requests) /\ fromDb \in Seq(Answers)
    /\ jobs \in Seq(Jobs) /\ done \in Seq(Jobs) /\ work \in [Workers -> Jobs \cup {None}]

\* The owner knows a user only when both rows are there; a row in the cache is
\* one it sent, and what it was told is what is there.
RowOK(r) ==
    /\ db[r] # None => db[r] <= ver[r]
    /\ infos[r] # None => r[2] \in known /\ db[r] <= infos[r] /\ infos[r] <= ver[r]
    /\ r[2] \in known => db[r] # None /\ verdb[r] <= db[r]
    /\ r[2] \notin known => verdb[r] = 0

\* A version on its way to the database is not behind what is there or cached.
Sent(m) == IF m.kind \in Updates THEN DOMAIN m.infos ELSE {}

RequestOK(m) ==
    \A r \in Sent(m) : /\ r[2] \in known /\ db[r] <= m.infos[r] /\ m.infos[r] <= ver[r]
                       /\ infos[r] # None => infos[r] <= m.infos[r]

InOrder ==
    \A i, k \in 1..Len(toDb) :
        i < k => \A r \in Sent(toDb[i]) \cap Sent(toDb[k]) : toDb[i].infos[r] <= toDb[k].infos[r]

BothRows(u) == db[<<"user", u>>] # None /\ db[<<"account", u>>] # None

AnswerOK(a) ==
    /\ a.kind \in Updates => \A r \in DOMAIN a.infos : r[2] \in known /\ a.infos[r] <= db[r]
    /\ a.kind = "create_user" /\ a.ec = "success" => BothRows(a.user)
    /\ a.kind = "query_max_userid" /\ a.ec = "success" => a.result \in {0} \cup Users

CallOK(j) ==
    /\ j.kind = "create_user" =>
        /\ j.step >= 2 => db[<<"user", j.user>>] # None
        /\ j.step >= 3 => db[<<"account", j.user>>] # None
        /\ j.ec = "success" => BothRows(j.user)
    /\ j.kind = "query_max_userid" /\ j.ec = "success" => j.result \in {0} \cup Users

\* The rows of an update are cached until it ends.  What it will write is not
\* behind the database nor ahead of the cache; what it will report, cut to the
\* width of a cached version, is not ahead of that, and not ahead of the database
\* once the operation is executed.
Executed(j, r) == \A i \in 1..Len(j.ops) : j.ops[i][1] # r

OpOK(j, op) ==
    /\ db[op[1]] <= op[2] /\ op[2] <= infos[op[1]]
    /\ j.output[op[1]] <= op[2]

UpdateOK(j) ==
    /\ IsInjective(j.rows) /\ \A r \in Range(j.rows) : infos[r] # None
    /\ DOMAIN j.output \subseteq Range(j.rows)
    /\ \A k \in 1..Len(j.rows) : k >= j.step => j.rows[k] \notin DOMAIN j.output
    /\ \A r \in DOMAIN j.output : Executed(j, r) => j.output[r] <= db[r]
    /\ j.ec = "success" => j.ops = <<>> /\ j.step > Len(j.rows)
    /\ \A i \in 1..Len(j.ops) : j.ops[i][1] \in DOMAIN j.output /\ OpOK(j, j.ops[i])
    /\ \A i, k \in 1..Len(j.ops) : j.ops[i][1] = j.ops[k][1] => i = k

JobOK(j) == IF j.kind \in Updates THEN UpdateOK(j) ELSE CallOK(j)

\* Where a job is: waiting for a thread, in one, or waiting for its coroutine.
Slots ==
    ({"jobs"} \X (1..Len(jobs))) \cup ({"work"} \X {w \in Workers : work[w] # None})
        \cup ({"done"} \X (1..Len(done)))
JobIn(p) ==
    IF p[1] = "jobs" THEN jobs[p[2]]
    ELSE IF p[1] = "work" THEN work[p[2]] ELSE done[p[2]]
Current == Range(jobs) \cup {work[w] : w \in {w \in Workers : work[w] # None}} \cup Range(done)

Held(j) == IF j.kind \in Updates THEN Range(j.rows) ELSE {}

OneJobPerRow == \A p, q \in Slots : p # q => Held(JobIn(p)) \cap Held(JobIn(q)) = {}

IInv ==
    /\ Typed
    /\ \A r \in Rows : RowOK(r)
    /\ \A m \in Range(toDb) : RequestOK(m)
    /\ InOrder
    /\ \A a \in Range(fromDb) : AnswerOK(a)
    /\ \A j \in Current : JobOK(j)
    /\ OneJobPerRow

-----------------------------------------------------------------------------
(* Sequences, enumerations and rows.                                       *)

\* The elements behind the first one.
LEMMA TailRange ==
    ASSUME NEW S, NEW s \in Seq(S), s # <<>>
    PROVE  /\ Tail(s) \in Seq(S) /\ Len(Tail(s)) = Len(s) - 1 /\ Len(s) \in Nat \ {0}
           /\ \A i \in 1..Len(s) - 1 : Tail(s)[i] = s[i + 1] /\ i + 1 \in 1..Len(s)
           /\ Range(Tail(s)) \subseteq Range(s) /\ Head(s) \in Range(s) /\ Head(s) \in S
           /\ Head(s) = s[1] /\ 1 \in 1..Len(s)
<1>1. /\ Tail(s) \in Seq(S) /\ Len(Tail(s)) = Len(s) - 1
      /\ \A i \in 1..Len(Tail(s)) : Tail(s)[i] = s[i + 1]
    BY Zenon, TailIndex
<1>2. Len(s) \in Nat \ {0} BY Zenon, EmptyLen
<1>3. \A i \in 1..Len(s) - 1 : Tail(s)[i] = s[i + 1] /\ i + 1 \in 1..Len(s) BY <1>1, <1>2
<1>4. Range(s) = {s[i] : i \in 1..Len(s)} BY Zenon, RangeDef
<1>5. Range(Tail(s)) = {Tail(s)[i] : i \in 1..Len(s) - 1}
    <2>1. Range(Tail(s)) = {Tail(s)[i] : i \in 1..Len(Tail(s))} BY Zenon, <1>1, RangeDef
    <2> QED BY Zenon, <1>1, <2>1
<1>6. Range(Tail(s)) \subseteq Range(s) BY Zenon, <1>3, <1>4, <1>5
<1> QED BY <1>1, <1>2, <1>3, <1>6, HeadInRange

\* One more element at the end.
LEMMA AppendRange ==
    ASSUME NEW S, NEW s \in Seq(S), NEW e \in S
    PROVE  /\ Append(s, e) \in Seq(S) /\ Range(Append(s, e)) = Range(s) \cup {e}
           /\ Len(Append(s, e)) = Len(s) + 1 /\ Len(s) \in Nat
           /\ \A i \in 1..Len(s) : Append(s, e)[i] = s[i]
           /\ Append(s, e)[Len(s) + 1] = e
BY AppendFacts, AppendIndex, LenFacts

\* Rows in some order.
LEMMA OrderFacts ==
    ASSUME NEW S, NEW s \in Orders(S)
    PROVE  s \in Seq(S) /\ IsInjective(s) /\ Range(s) = S
<1>1. PICK n \in 0..MaxUser : s \in [1..n -> S] BY Zenon DEF Orders
<1>2. n \in Nat BY DbProxyAssumption
<1> QED BY <1>1, <1>2 DEF Orders

\* A row has a table and a user.
LEMMA RowFacts ==
    /\ \A r \in Rows : r[2] \in Users /\ r = <<r[1], r[2]>>
    /\ \A u \in Users : <<"user", u>> \in Rows /\ <<"account", u>> \in Rows
    /\ \A r \in Rows : r = <<"user", r[2]>> \/ r = <<"account", r[2]>>
BY DEF Rows, Tables

\* Userids are numbers.
LEMMA UsersNat == Users \subseteq Nat /\ 0 \in Nat
BY DbProxyAssumption DEF Users

\* What stands for nothing is no version and no code.
LEMMA NoneFacts == None \notin Nat /\ None # "success"
BY Zenon, DbProxyAssumption

\* Versions of some rows.
LEMMA VersionsFacts ==
    /\ \A f \in Versions : /\ DOMAIN f \subseteq Rows /\ \A r \in DOMAIN f : f[r] \in Nat
                           /\ f \in [DOMAIN f -> Nat]
    /\ \A D \in SUBSET Rows : \A f \in [D -> Nat] : f \in Versions
BY Zenon DEF Versions

\* The kinds tell calls and updates apart.
LEMMA KindFacts ==
    /\ Calls \cap Updates = {}
    /\ \A j \in Jobs : /\ j.kind \in Updates => j \in UpdateJobs
                       /\ j.kind \notin Updates => j \in CallJobs
    /\ \A m \in Requests : /\ m.kind \in Updates => m \in [kind : Updates, infos : Versions]
                           /\ m.kind \notin Updates => m \in [kind : Calls, user : Users]
    /\ \A a \in Answers :
          /\ a.kind \in Updates => a \in [kind : Updates, infos : Versions]
          /\ a.kind \notin Updates
                => a \in [kind : Calls, ec : Codes, user : Users, result : Results]
<1>1. Calls \cap Updates = {} BY Zenon DEF Calls, Queries, Updates
<1>2. ASSUME NEW j \in Jobs PROVE /\ j.kind \in Updates => j \in UpdateJobs
                                  /\ j.kind \notin Updates => j \in CallJobs
    BY Zenon, <1>1 DEF Jobs, UpdateJobs, CallJobs
<1>3. ASSUME NEW m \in Requests
      PROVE  /\ m.kind \in Updates => m \in [kind : Updates, infos : Versions]
             /\ m.kind \notin Updates => m \in [kind : Calls, user : Users]
    BY Zenon, <1>1 DEF Requests
<1>4. ASSUME NEW a \in Answers
      PROVE  /\ a.kind \in Updates => a \in [kind : Updates, infos : Versions]
             /\ a.kind \notin Updates
                => a \in [kind : Calls, ec : Codes, user : Users, result : Results]
    BY Zenon, <1>1 DEF Answers
<1> QED BY Zenon, <1>1, <1>2, <1>3, <1>4

-----------------------------------------------------------------------------
(* Jobs change places.                                                     *)

\* A row stays in one job when the jobs keep their rows and only move.
LEMMA Moved ==
    ASSUME OneJobPerRow, NEW f,
           \A p \in Slots' : f[p] \in Slots /\ Held(JobIn(p)') \subseteq Held(JobIn(f[p])),
           \A p, q \in Slots' : f[p] = f[q] => p = q
    PROVE  OneJobPerRow'
<1>1. ASSUME NEW p \in Slots', NEW q \in Slots', p # q
      PROVE  Held(JobIn(p)') \cap Held(JobIn(q)') = {}
    <2>1. f[p] # f[q] /\ f[p] \in Slots /\ f[q] \in Slots BY Zenon, <1>1
    <2>2. Held(JobIn(f[p])) \cap Held(JobIn(f[q])) = {} BY Zenon, <2>1 DEF OneJobPerRow
    <2> QED BY Zenon, <2>2
<1> QED BY Zenon, <1>1 DEF OneJobPerRow, Held

\* The jobs in the slots are the current ones.
LEMMA CurrentFacts ==
    ASSUME Typed
    PROVE  Current = {JobIn(p) : p \in Slots} /\ Current \subseteq Jobs
<1>1. /\ Range(jobs) = {jobs[i] : i \in 1..Len(jobs)} /\ Range(done) = {done[i] : i \in 1..Len(done)}
      /\ Range(jobs) \subseteq Jobs /\ Range(done) \subseteq Jobs
    BY RangeDef DEF Typed
<1>2. Current \subseteq Jobs BY Zenon, <1>1 DEF Current, Typed
<1>3. ASSUME NEW p \in Slots PROVE JobIn(p) \in Current
    BY Zenon, <1>1 DEF Slots, JobIn, Current
<1>4. ASSUME NEW j \in Current PROVE \E p \in Slots : j = JobIn(p)
    <2>1. CASE j \in Range(jobs)
        <3>1. PICK i \in 1..Len(jobs) : j = jobs[i] BY Zenon, <1>1, <2>1
        <3>2. <<"jobs", i>> \in Slots /\ JobIn(<<"jobs", i>>) = j BY Zenon, <3>1 DEF Slots, JobIn
        <3> QED BY Zenon, <3>2
    <2>2. CASE j \in Range(done)
        <3>1. PICK i \in 1..Len(done) : j = done[i] BY Zenon, <1>1, <2>2
        <3>2. <<"done", i>> \in Slots /\ JobIn(<<"done", i>>) = j BY Zenon, <3>1 DEF Slots, JobIn
        <3> QED BY Zenon, <3>2
    <2>3. CASE j \in {work[w] : w \in {w \in Workers : work[w] # None}}
        <3>1. PICK w \in Workers : j = work[w] /\ work[w] # None BY Zenon, <2>3
        <3>2. <<"work", w>> \in Slots /\ JobIn(<<"work", w>>) = j BY Zenon, <3>1 DEF Slots, JobIn
        <3> QED BY Zenon, <3>2
    <2> QED BY Zenon, <2>1, <2>2, <2>3 DEF Current
<1> QED BY Zenon, <1>2, <1>3, <1>4

\* The pool is left alone.
LEMMA SlotsSame ==
    ASSUME OneJobPerRow, UNCHANGED <<jobs, work, done>>
    PROVE  OneJobPerRow' /\ Current' = Current
<1>1. Current' = Current BY Zenon DEF Current
<1>2. Slots' = Slots BY Zenon DEF Slots
<1>3. \A p : JobIn(p)' = JobIn(p) BY Zenon DEF JobIn
<1>4. \A p, q : p \in Slots /\ q \in Slots /\ p # q => Held(JobIn(p)) \cap Held(JobIn(q)) = {}
    BY Zenon DEF OneJobPerRow
<1>5. ASSUME NEW p \in Slots', NEW q \in Slots', p # q
      PROVE  Held(JobIn(p))' \cap Held(JobIn(q))' = {}
    <2>1. Held(JobIn(p))' = Held(JobIn(p)) /\ Held(JobIn(q))' = Held(JobIn(q))
        BY Zenon, <1>3 DEF Held
    <2> QED BY Zenon, <1>2, <1>4, <1>5, <2>1
<1> QED BY Zenon, <1>1, <1>5 DEF OneJobPerRow

\* A job begins (thread_pool post): its rows are in no other job.
LEMMA SlotsBegin ==
    ASSUME Typed, OneJobPerRow, NEW j \in Jobs, jobs' = Append(jobs, j), work' = work, done' = done,
           \A i \in Current : Held(i) \cap Held(j) = {}
    PROVE  OneJobPerRow' /\ Current' = Current \cup {j} /\ jobs' \in Seq(Jobs)
<1>1. /\ jobs' \in Seq(Jobs) /\ Range(jobs') = Range(jobs) \cup {j} /\ Len(jobs') = Len(jobs) + 1
      /\ Len(jobs) \in Nat /\ \A i \in 1..Len(jobs) : jobs'[i] = jobs[i]
      /\ jobs'[Len(jobs) + 1] = j
    BY AppendRange DEF Typed
<1>2. PICK new : new = <<"jobs", Len(jobs) + 1>> BY Zenon
<1>3. ASSUME NEW p \in Slots' PROVE \/ p = new /\ JobIn(p)' = j
                                    \/ p \in Slots /\ JobIn(p)' = JobIn(p)
    <2>1. CASE p \in {"jobs"} \X (1..Len(jobs)) BY Zenon, <1>1, <2>1 DEF Slots, JobIn
    <2>2. CASE p = new BY Zenon, <1>1, <1>2, <2>2 DEF Slots, JobIn
    <2>3. CASE p \in ({"work"} \X {w \in Workers : work[w] # None}) \cup ({"done"} \X (1..Len(done)))
        BY Zenon, <2>3 DEF Slots, JobIn
    <2>4. 1..Len(jobs') = 1..Len(jobs) \cup {Len(jobs) + 1} BY <1>1
    <2> QED BY <1>2, <2>1, <2>2, <2>3, <2>4 DEF Slots
<1>4. ASSUME NEW p \in Slots PROVE JobIn(p) \in Current BY Zenon, CurrentFacts
<1>5. ASSUME NEW p \in Slots', NEW q \in Slots', p # q
      PROVE  Held(JobIn(p)') \cap Held(JobIn(q)') = {}
    <2>1. CASE p = new
        <3>1. JobIn(p)' = j /\ q \in Slots /\ JobIn(q)' = JobIn(q)
            <4>1. new \notin Slots BY <1>1, <1>2 DEF Slots
            <4> QED BY Zenon, <1>3, <1>5, <2>1, <4>1
        <3> QED BY Zenon, <1>4, <3>1
    <2>2. CASE q = new
        <3>1. JobIn(q)' = j /\ p \in Slots /\ JobIn(p)' = JobIn(p)
            <4>1. new \notin Slots BY <1>1, <1>2 DEF Slots
            <4> QED BY Zenon, <1>3, <1>5, <2>2, <4>1
        <3> QED BY Zenon, <1>4, <3>1
    <2>3. CASE p # new /\ q # new
        BY Zenon, <1>3, <1>5, <2>3 DEF OneJobPerRow
    <2> QED BY Zenon, <2>1, <2>2, <2>3
<1>6. OneJobPerRow' BY Zenon, <1>5 DEF OneJobPerRow, Held
<1> QED BY Zenon, <1>1, <1>6 DEF Current

\* A thread takes the oldest job (thread_pool::run).
LEMMA SlotsTake ==
    ASSUME Typed, OneJobPerRow, NEW w \in Workers, work[w] = None, jobs # <<>>,
           work' = [work EXCEPT ![w] = Head(jobs)], jobs' = Tail(jobs), done' = done
    PROVE  OneJobPerRow' /\ Current' \subseteq Current
           /\ jobs' \in Seq(Jobs) /\ work' \in [Workers -> Jobs \cup {None}]
<1>1. /\ jobs' \in Seq(Jobs) /\ Len(jobs') = Len(jobs) - 1 /\ Len(jobs) \in Nat \ {0}
      /\ \A i \in 1..Len(jobs) - 1 : jobs'[i] = jobs[i + 1] /\ i + 1 \in 1..Len(jobs)
      /\ Range(jobs') \subseteq Range(jobs) /\ Head(jobs) \in Range(jobs) /\ Head(jobs) \in Jobs
      /\ Head(jobs) = jobs[1] /\ 1 \in 1..Len(jobs)
    BY Zenon, TailRange DEF Typed
<1>2. work' \in [Workers -> Jobs \cup {None}] BY Zenon, <1>1 DEF Typed
<1>3. work'[w] = jobs[1] /\ \A v \in Workers \ {w} : work'[v] = work[v] BY Zenon, <1>1 DEF Typed
<1> DEFINE F(p) == IF p[1] = "jobs" THEN <<"jobs", p[2] + 1>>
                   ELSE IF p = <<"work", w>> THEN <<"jobs", 1>> ELSE p
<1>4. PICK f : \A p \in Slots' : f[p] = F(p)
    <2>1. \A p \in Slots' : [x \in Slots' |-> F(x)][p] = F(p) BY Zenon
    <2> QED BY Zenon, <2>1
<1>5. ASSUME NEW p \in Slots' PROVE F(p) \in Slots /\ JobIn(p)' = JobIn(F(p))
    <2>1. CASE p[1] = "jobs"
        <3>1. PICK i \in 1..Len(jobs) - 1 : p = <<"jobs", i>> BY <1>1, <2>1 DEF Slots
        <3>2. F(p) = <<"jobs", i + 1>> BY Zenon, <3>1
        <3> QED BY Zenon, <1>1, <3>1, <3>2 DEF Slots, JobIn
    <2>2. CASE p = <<"work", w>>
        <3>1. F(p) = <<"jobs", 1>> BY Zenon, <2>2
        <3> QED BY Zenon, <1>1, <1>3, <2>2, <3>1 DEF Slots, JobIn
    <2>3. CASE p[1] # "jobs" /\ p # <<"work", w>>
        <3>1. F(p) = p BY Zenon, <2>3
        <3> QED BY <1>3, <2>3, <3>1 DEF Slots, JobIn
    <2> QED BY Zenon, <2>1, <2>2, <2>3
<1>6. ASSUME NEW p \in Slots', NEW q \in Slots', F(p) = F(q) PROVE p = q
    <2>0. <<"work", w>> \notin Slots BY Zenon DEF Slots
    <2>1. ASSUME NEW x \in Slots', x[1] = "jobs"
          PROVE  \E i \in 1..Len(jobs) - 1 : x = <<"jobs", i>> /\ F(x) = <<"jobs", i + 1>>
        BY <1>1, <2>1 DEF Slots
    <2>2. CASE p[1] = "jobs" /\ q[1] = "jobs"
        <3>1. PICK i \in 1..Len(jobs) - 1 : p = <<"jobs", i>> /\ F(p) = <<"jobs", i + 1>>
            BY Zenon, <2>1, <2>2
        <3>2. PICK k \in 1..Len(jobs) - 1 : q = <<"jobs", k>> /\ F(q) = <<"jobs", k + 1>>
            BY Zenon, <2>1, <2>2
        <3>3. i + 1 = k + 1 BY Zenon, <1>6, <3>1, <3>2
        <3>4. i = k BY <1>1, <3>3
        <3> QED BY Zenon, <3>1, <3>2, <3>4
    <2>3. ASSUME NEW x \in Slots', NEW y \in Slots', x[1] = "jobs", y[1] # "jobs", F(x) = F(y)
          PROVE  FALSE
        <3>1. PICK i \in 1..Len(jobs) - 1 : F(x) = <<"jobs", i + 1>> BY Zenon, <2>1, <2>3
        <3>2. i + 1 # 1 BY <1>1
        <3>3. CASE y = <<"work", w>>
            <4>1. F(y) = <<"jobs", 1>> BY Zenon, <3>3
            <4> QED BY <2>3, <3>1, <3>2, <4>1
        <3>4. CASE y # <<"work", w>>
            <4>1. F(y) = y BY Zenon, <2>3, <3>4
            <4>2. y[1] = "jobs" BY <2>3, <3>1, <4>1
            <4> QED BY Zenon, <2>3, <4>2
        <3> QED BY Zenon, <3>3, <3>4
    <2>4. CASE p[1] # "jobs" /\ q[1] # "jobs"
        <3>1. \A x \in Slots' : x[1] # "jobs" /\ x # <<"work", w>> => F(x) = x BY Zenon
        <3>2. F(<<"work", w>>) = <<"jobs", 1>> BY Zenon
        <3>3. <<"jobs", 1>>[1] = "jobs" BY Zenon
        <3> QED BY Zenon, <1>6, <2>4, <3>1, <3>2, <3>3
    <2> HIDE DEF F
    <2> QED BY Zenon, <1>6, <2>2, <2>3, <2>4
<1> HIDE DEF F
<1>7. OneJobPerRow'
    <2>1. \A p \in Slots' : f[p] \in Slots /\ Held(JobIn(p)') \subseteq Held(JobIn(f[p]))
        BY Zenon, <1>4, <1>5
    <2>2. \A p, q \in Slots' : f[p] = f[q] => p = q BY Zenon, <1>4, <1>6
    <2> QED BY Zenon, <2>1, <2>2, Moved
<1>8. Current' \subseteq Current BY <1>1, <1>3 DEF Current
<1> QED BY Zenon, <1>1, <1>2, <1>7, <1>8

\* The coroutine of a finished job is resumed.
LEMMA SlotsEnd ==
    ASSUME Typed, OneJobPerRow, done # <<>>, done' = Tail(done), work' = work, jobs' = jobs
    PROVE  /\ OneJobPerRow' /\ Current' \subseteq Current /\ done' \in Seq(Jobs)
           /\ Head(done) \in Current /\ Head(done) \in Jobs
           /\ \A j \in Current' : Held(j) \cap Held(Head(done)) = {}
<1>1. /\ done' \in Seq(Jobs) /\ Len(done') = Len(done) - 1 /\ Len(done) \in Nat \ {0}
      /\ \A i \in 1..Len(done) - 1 : done'[i] = done[i + 1] /\ i + 1 \in 1..Len(done)
      /\ Range(done') \subseteq Range(done) /\ Head(done) \in Range(done) /\ Head(done) \in Jobs
      /\ Head(done) = done[1] /\ 1 \in 1..Len(done)
    BY Zenon, TailRange DEF Typed
<1>8. Range(jobs) = {jobs[i] : i \in 1..Len(jobs)}
    <2>1. jobs \in Seq(Jobs) BY Zenon DEF Typed
    <2> QED BY Zenon, <2>1, RangeDef
<1>9. Range(done') = {done'[i] : i \in 1..Len(done')}
    <2>1. PICK d \in Seq(Jobs) : d = done' BY Zenon, <1>1
    <2>2. Range(d) = {d[i] : i \in 1..Len(d)} BY Zenon, RangeDef
    <2> QED BY Zenon, <2>1, <2>2
<1> DEFINE F(p) == IF p[1] = "done" THEN <<"done", p[2] + 1>> ELSE p
<1>2. PICK f : \A p \in Slots' : f[p] = F(p)
    <2>1. \A p \in Slots' : [x \in Slots' |-> F(x)][p] = F(p) BY Zenon
    <2> QED BY Zenon, <2>1
<1>3. ASSUME NEW p \in Slots'
      PROVE  F(p) \in Slots /\ JobIn(p)' = JobIn(F(p)) /\ F(p) # <<"done", 1>>
    <2>1. CASE p[1] = "done"
        <3>1. PICK i \in 1..Len(done) - 1 : p = <<"done", i>> BY <1>1, <2>1 DEF Slots
        <3>2. F(p) = <<"done", i + 1>> BY Zenon, <3>1
        <3>3. i + 1 # 1 BY <1>1
        <3> QED BY Zenon, <1>1, <3>1, <3>2, <3>3 DEF Slots, JobIn
    <2>2. CASE p[1] # "done"
        <3>1. F(p) = p BY Zenon, <2>2
        <3> QED BY <2>2, <3>1 DEF Slots, JobIn
    <2> QED BY Zenon, <2>1, <2>2
<1>4. ASSUME NEW p \in Slots', NEW q \in Slots', F(p) = F(q) PROVE p = q
    <2>1. ASSUME NEW x \in Slots', x[1] = "done"
          PROVE  \E i \in 1..Len(done) - 1 : x = <<"done", i>> /\ F(x) = <<"done", i + 1>>
        BY <1>1, <2>1 DEF Slots
    <2>2. CASE p[1] = "done" /\ q[1] = "done"
        <3>1. PICK i \in 1..Len(done) - 1 : p = <<"done", i>> /\ F(p) = <<"done", i + 1>>
            BY Zenon, <2>1, <2>2
        <3>2. PICK k \in 1..Len(done) - 1 : q = <<"done", k>> /\ F(q) = <<"done", k + 1>>
            BY Zenon, <2>1, <2>2
        <3>3. i + 1 = k + 1 BY Zenon, <1>4, <3>1, <3>2
        <3>4. i = k BY <1>1, <3>3
        <3> QED BY Zenon, <3>1, <3>2, <3>4
    <2>3. \A x \in Slots' : F(x)[1] = x[1] /\ (x[1] # "done" => F(x) = x)
        BY Zenon, <2>1
    <2> HIDE DEF F
    <2> QED BY <1>4, <2>2, <2>3
<1> HIDE DEF F
<1>5. OneJobPerRow'
    <2>1. \A p \in Slots' : f[p] \in Slots /\ Held(JobIn(p)') \subseteq Held(JobIn(f[p]))
        BY Zenon, <1>2, <1>3
    <2>2. \A p, q \in Slots' : f[p] = f[q] => p = q BY Zenon, <1>2, <1>4
    <2> QED BY Zenon, <2>1, <2>2, Moved
<1>6. Current' \subseteq Current BY Zenon, <1>1 DEF Current
<1>7. ASSUME NEW j \in Current' PROVE Held(j) \cap Held(Head(done)) = {}
    <2>1. <<"done", 1>> \in Slots /\ JobIn(<<"done", 1>>) = Head(done) BY Zenon, <1>1 DEF Slots, JobIn
    <2>2. PICK p \in Slots : p # <<"done", 1>> /\ JobIn(p) = j
        <3>2. CASE j \in Range(jobs)
            <4>1. PICK i \in 1..Len(jobs) : j = jobs[i] BY Zenon, <1>8, <3>2
            <4>2. <<"jobs", i>> \in Slots /\ JobIn(<<"jobs", i>>) = j BY Zenon, <4>1 DEF Slots, JobIn
            <4> QED BY Zenon, <4>2
        <3>3. CASE j \in Range(done')
            <4>1. PICK i \in 1..Len(done) - 1 : j = done'[i] BY Zenon, <1>1, <1>9, <3>3
            <4>2. j = done[i + 1] /\ i + 1 \in 1..Len(done) /\ i + 1 # 1 BY <1>1, <4>1
            <4>3. <<"done", i + 1>> \in Slots /\ JobIn(<<"done", i + 1>>) = j
                BY Zenon, <4>2 DEF Slots, JobIn
            <4> QED BY Zenon, <4>2, <4>3
        <3>4. CASE j \in {work[w] : w \in {w \in Workers : work[w] # None}}
            <4>1. PICK w \in Workers : j = work[w] /\ work[w] # None BY Zenon, <3>4
            <4>2. <<"work", w>> \in Slots /\ JobIn(<<"work", w>>) = j BY Zenon, <4>1 DEF Slots, JobIn
            <4> QED BY Zenon, <4>2
        <3> QED BY Zenon, <3>2, <3>3, <3>4 DEF Current
    <2> QED BY Zenon, <2>1, <2>2 DEF OneJobPerRow
<1> QED BY Zenon, <1>1, <1>5, <1>6, <1>7 DEF Current

\* The jobs of the other threads, and those that wait, have other rows.
LEMMA Others ==
    ASSUME Typed, OneJobPerRow, NEW w \in Workers, work[w] # None
    PROVE  /\ work[w] \in Jobs /\ work[w] \in Current
           /\ \A j \in Range(jobs) \cup {work[v] : v \in {v \in Workers \ {w} : work[v] # None}}
                           \cup Range(done) :
                 j \in Current /\ Held(j) \cap Held(work[w]) = {}
<1>1. <<"work", w>> \in Slots /\ JobIn(<<"work", w>>) = work[w] BY Zenon DEF Slots, JobIn
<1>2. /\ Range(jobs) = {jobs[i] : i \in 1..Len(jobs)} /\ Range(done) = {done[i] : i \in 1..Len(done)}
    BY RangeDef DEF Typed
<1>3. ASSUME NEW j \in Range(jobs) \cup {work[v] : v \in {v \in Workers \ {w} : work[v] # None}}
                           \cup Range(done)
      PROVE  \E p \in Slots : p # <<"work", w>> /\ JobIn(p) = j
    <2>1. CASE j \in Range(jobs)
        <3>1. PICK i \in 1..Len(jobs) : j = jobs[i] BY Zenon, <1>2, <2>1
        <3>2. <<"jobs", i>> \in Slots /\ JobIn(<<"jobs", i>>) = j BY Zenon, <3>1 DEF Slots, JobIn
        <3> QED BY Zenon, <3>2
    <2>2. CASE j \in Range(done)
        <3>1. PICK i \in 1..Len(done) : j = done[i] BY Zenon, <1>2, <2>2
        <3>2. <<"done", i>> \in Slots /\ JobIn(<<"done", i>>) = j BY Zenon, <3>1 DEF Slots, JobIn
        <3> QED BY Zenon, <3>2
    <2>3. CASE j \in {work[v] : v \in {v \in Workers \ {w} : work[v] # None}}
        <3>1. PICK v \in Workers \ {w} : j = work[v] /\ work[v] # None BY Zenon, <2>3
        <3>2. <<"work", v>> \in Slots /\ JobIn(<<"work", v>>) = j /\ <<"work", v>> # <<"work", w>>
            BY Zenon, <3>1 DEF Slots, JobIn
        <3> QED BY Zenon, <3>2
    <2> QED BY Zenon, <1>3, <2>1, <2>2, <2>3
<1>4. ASSUME NEW j \in Range(jobs) \cup {work[v] : v \in {v \in Workers \ {w} : work[v] # None}}
                           \cup Range(done)
      PROVE  Held(j) \cap Held(work[w]) = {}
    <2>1. PICK p \in Slots : p # <<"work", w>> /\ JobIn(p) = j BY Zenon, <1>3
    <2> QED BY Zenon, <1>1, <2>1 DEF OneJobPerRow
<1> QED BY Zenon, <1>4 DEF Current, Typed

\* A job goes on in its thread with the same rows.
LEMMA SlotsOnward ==
    ASSUME Typed, OneJobPerRow, NEW w \in Workers, work[w] # None, NEW j \in Jobs,
           Held(j) \subseteq Held(work[w]), work' = [work EXCEPT ![w] = j], jobs' = jobs, done' = done
    PROVE  /\ OneJobPerRow' /\ work' \in [Workers -> Jobs \cup {None}]
           /\ \A i \in Current' : \/ i = j
                                  \/ i \in Current /\ Held(i) \cap Held(work[w]) = {}
<1>1. /\ work' \in [Workers -> Jobs \cup {None}] /\ work'[w] = j
      /\ \A v \in Workers \ {w} : work'[v] = work[v]
    BY Zenon DEF Typed
<1>2. PICK f : \A p \in Slots' : f[p] = p
    <2>1. \A p \in Slots' : [x \in Slots' |-> x][p] = p BY Zenon
    <2> QED BY Zenon, <2>1
<1>3. ASSUME NEW p \in Slots' PROVE p \in Slots /\ Held(JobIn(p)') \subseteq Held(JobIn(p))
    <2>1. CASE p = <<"work", w>> BY Zenon, <1>1, <2>1 DEF Slots, JobIn
    <2>2. CASE p # <<"work", w>>
        <3>1. p \in Slots /\ JobIn(p)' = JobIn(p) BY <1>1, <2>2 DEF Slots, JobIn
        <3> QED BY Zenon, <3>1
    <2> QED BY Zenon, <2>1, <2>2
<1>4. OneJobPerRow'
    <2>1. \A p \in Slots' : f[p] \in Slots /\ Held(JobIn(p)') \subseteq Held(JobIn(f[p]))
        BY Zenon, <1>2, <1>3
    <2>2. \A p, q \in Slots' : f[p] = f[q] => p = q BY Zenon, <1>2
    <2> QED BY Zenon, <2>1, <2>2, Moved
<1>5. ASSUME NEW i \in Current', i # j PROVE i \in Current /\ Held(i) \cap Held(work[w]) = {}
    <2>1. i \in Range(jobs) \cup {work[v] : v \in {v \in Workers \ {w} : work[v] # None}}
                   \cup Range(done)
        BY Zenon, <1>1, <1>5 DEF Current
    <2> QED BY Zenon, <2>1, Others
<1> QED BY Zenon, <1>1, <1>4, <1>5

\* A job ends in its thread (set_result or set_exception).
LEMMA SlotsFinish ==
    ASSUME Typed, OneJobPerRow, NEW w \in Workers, work[w] # None, NEW j \in Jobs,
           Held(j) \subseteq Held(work[w]), Finish(w, j), jobs' = jobs
    PROVE  /\ OneJobPerRow' /\ done' \in Seq(Jobs) /\ work' \in [Workers -> Jobs \cup {None}]
           /\ \A i \in Current' : \/ i = j
                                  \/ i \in Current /\ Held(i) \cap Held(work[w]) = {}
<1>1. /\ work' \in [Workers -> Jobs \cup {None}] /\ work'[w] = None
      /\ \A v \in Workers \ {w} : work'[v] = work[v]
    BY Zenon DEF Typed, Finish
<1>2. /\ done' \in Seq(Jobs) /\ Range(done') = Range(done) \cup {j}
      /\ Len(done') = Len(done) + 1 /\ Len(done) \in Nat
      /\ \A i \in 1..Len(done) : done'[i] = done[i]
      /\ done'[Len(done) + 1] = j
    BY AppendRange DEF Typed, Finish
<1>3. PICK new : new = <<"done", Len(done) + 1>> BY Zenon
<1>4. PICK f : \A p \in Slots' : f[p] = IF p = new THEN <<"work", w>> ELSE p
    <2>1. \A p \in Slots' : [x \in Slots' |-> IF x = new THEN <<"work", w>> ELSE x][p]
                               = IF p = new THEN <<"work", w>> ELSE p
        BY Zenon
    <2> QED BY Zenon, <2>1
<1>5. ASSUME NEW p \in Slots', p # new
      PROVE  p \in Slots /\ p # <<"work", w>> /\ JobIn(p)' = JobIn(p)
    <2>1. 1..Len(done') = 1..Len(done) \cup {Len(done) + 1} BY <1>2
    <2>2. CASE p[1] = "done"
        <3>1. PICK i \in 1..Len(done) : p = <<"done", i>> BY <1>3, <1>5, <2>1, <2>2 DEF Slots
        <3> QED BY Zenon, <1>2, <3>1 DEF Slots, JobIn
    <2>3. CASE p[1] # "done" BY <1>1, <2>3 DEF Slots, JobIn
    <2> QED BY Zenon, <2>2, <2>3
<1>6. <<"work", w>> \in Slots /\ JobIn(<<"work", w>>) = work[w] /\ JobIn(new)' = j
    BY Zenon, <1>2, <1>3 DEF Slots, JobIn
<1>7. OneJobPerRow'
    <2>1. ASSUME NEW p \in Slots'
          PROVE  f[p] \in Slots /\ Held(JobIn(p)') \subseteq Held(JobIn(f[p]))
        <3>1. CASE p = new
            <4>1. f[p] = <<"work", w>> BY Zenon, <1>4, <3>1
            <4> QED BY Zenon, <1>6, <3>1, <4>1
        <3>2. CASE p # new
            <4>1. f[p] = p BY Zenon, <1>4, <3>2
            <4> QED BY Zenon, <1>5, <3>2, <4>1
        <3> QED BY Zenon, <3>1, <3>2
    <2>2. \A p, q \in Slots' : f[p] = f[q] => p = q BY Zenon, <1>4, <1>5
    <2> QED BY Zenon, <2>1, <2>2, Moved
<1>8. ASSUME NEW i \in Current', i # j PROVE i \in Current /\ Held(i) \cap Held(work[w]) = {}
    <2>1. i \in Range(jobs) \cup {work[v] : v \in {v \in Workers \ {w} : work[v] # None}}
                   \cup Range(done)
        BY <1>1, <1>2, <1>8 DEF Current
    <2> QED BY Zenon, <2>1, Others
<1> QED BY Zenon, <1>1, <1>2, <1>7, <1>8

-----------------------------------------------------------------------------
(* What the steps keep.                                                    *)

\* A job stays right while the rows it holds stay in the database as they are
\* and are cached with no older version.
LEMMA JobKept ==
    ASSUME Typed, NEW j \in Jobs, JobOK(j),
           \A r \in Held(j) : db'[r] = db[r] /\ infos'[r] \in Nat /\ infos[r] <= infos'[r],
           \A r \in Rows : db[r] # None => db'[r] # None
    PROVE  JobOK(j)'
<1>1. CASE j.kind \in Updates
    <2>1. UpdateOK(j) /\ j \in UpdateJobs BY Zenon, <1>1, KindFacts DEF JobOK
    <2>2. Held(j) = Range(j.rows) BY Zenon, <1>1 DEF Held
    <2>3. Range(j.rows) \subseteq Rows /\ j.output \in Versions
        BY Zenon, <2>1, RangeDef DEF UpdateJobs
    <2>4. ASSUME NEW i \in 1..Len(j.ops) PROVE j.ops[i][1] \in DOMAIN j.output /\ OpOK(j, j.ops[i])'
        <3>1. j.ops[i][1] \in DOMAIN j.output /\ OpOK(j, j.ops[i]) BY Zenon, <2>1 DEF UpdateOK
        <3>2. j.ops[i] \in Rows \X Nat BY <2>1 DEF UpdateJobs
        <3>3. PICK r \in Rows, v \in Nat : r = j.ops[i][1] /\ v = j.ops[i][2] BY Zenon, <3>2
        <3>4. r \in Held(j) BY Zenon, <2>1, <2>2, <3>1, <3>3 DEF UpdateOK
        <3>5. infos[r] \in Nat BY <2>1, <2>2, <3>4 DEF UpdateOK, Typed
        <3>6. db'[r] = db[r] /\ infos'[r] \in Nat /\ infos[r] <= infos'[r] BY Zenon, <3>4
        <3>7. v <= infos[r] BY Zenon, <3>1, <3>3 DEF OpOK
        <3>8. v <= infos'[r] BY <3>5, <3>6, <3>7
        <3> QED BY Zenon, <3>1, <3>3, <3>6, <3>8 DEF OpOK
    <2>7. \A r \in DOMAIN j.output : db'[r] = db[r] BY Zenon, <2>1, <2>2 DEF UpdateOK
    <2>5. \A r \in Range(j.rows) : infos'[r] # None BY Zenon, <2>2, NoneFacts
    <2>6. UpdateOK(j)' BY Zenon, <2>1, <2>4, <2>5, <2>7 DEF UpdateOK, Executed
    <2> QED BY Zenon, <1>1, <2>6 DEF JobOK
<1>2. CASE j.kind \notin Updates
    <2>1. CallOK(j) /\ j \in CallJobs BY Zenon, <1>2, KindFacts DEF JobOK
    <2>2. j.user \in Users BY Zenon, <2>1 DEF CallJobs
    <2>3. /\ <<"user", j.user>> \in Rows /\ <<"account", j.user>> \in Rows BY Zenon, <2>2, RowFacts
    <2>4. CallOK(j)' BY Zenon, <2>1, <2>3 DEF CallOK, BothRows
    <2> QED BY Zenon, <1>2, <2>4 DEF JobOK
<1> QED BY Zenon, <1>1, <1>2

\* An answer stays true while no row goes back.
LEMMA AnswerKept ==
    ASSUME Typed, \A r \in Rows : RowOK(r), NEW a \in Answers, AnswerOK(a), known \subseteq known',
           \A r \in Rows : db[r] # None => db'[r] \in Nat /\ db[r] <= db'[r]
    PROVE  AnswerOK(a)'
<1>1. ASSUME a.kind \in Updates, NEW r \in DOMAIN a.infos
      PROVE  r[2] \in known' /\ a.infos[r] <= db'[r]
    <2>1. r[2] \in known /\ a.infos[r] <= db[r] BY Zenon, <1>1 DEF AnswerOK
    <2>2. a.infos \in Versions BY Zenon, <1>1, KindFacts
    <2>3. r \in Rows /\ a.infos[r] \in Nat BY Zenon, <1>1, <2>2, VersionsFacts
    <2>4. db[r] # None BY Zenon, <2>1, <2>3 DEF RowOK
    <2>5. db[r] \in Nat /\ db'[r] \in Nat /\ db[r] <= db'[r] BY Zenon, <2>3, <2>4 DEF Typed
    <2> QED BY <2>1, <2>3, <2>5
<1>2. ASSUME a.kind = "create_user", a.ec = "success" PROVE BothRows(a.user)'
    <2>1. a.kind \notin Updates BY Zenon, <1>2 DEF Updates
    <2>2. a.user \in Users BY Zenon, <2>1, KindFacts
    <2>3. <<"user", a.user>> \in Rows /\ <<"account", a.user>> \in Rows BY Zenon, <2>2, RowFacts
    <2>4. BothRows(a.user) BY Zenon, <1>2 DEF AnswerOK
    <2>5. db'[<<"user", a.user>>] \in Nat /\ db'[<<"account", a.user>>] \in Nat
        BY Zenon, <2>3, <2>4 DEF BothRows
    <2> QED BY Zenon, <2>5, NoneFacts DEF BothRows
<1> QED BY Zenon, <1>1, <1>2 DEF AnswerOK

\* Nothing about the rows changes.
Quiet == UNCHANGED <<db, infos, ver, verdb, known>>

\* A step that leaves the cache, the jobs and the messages alone.
LEMMA QuietKeeps ==
    ASSUME Quiet
    PROVE  /\ \A r : RowOK(r) => RowOK(r)'
           /\ \A m : RequestOK(m) => RequestOK(m)'
           /\ \A a : AnswerOK(a) => AnswerOK(a)'
           /\ \A j : JobOK(j) => JobOK(j)'
<1>1. \A r : RowOK(r) => RowOK(r)' BY Zenon DEF Quiet, RowOK
<1>2. \A m : RequestOK(m) => RequestOK(m)' BY Zenon DEF Quiet, RequestOK, Sent
<1>3. \A a : AnswerOK(a) => AnswerOK(a)' BY Zenon DEF Quiet, AnswerOK, BothRows
<1>4. \A j : CallOK(j) => CallOK(j)' BY Zenon DEF Quiet, CallOK, BothRows
<1>5. \A j : UpdateOK(j) => UpdateOK(j)' BY Zenon DEF Quiet, UpdateOK, OpOK, Executed
<1>6. \A j : JobOK(j) => JobOK(j)' BY Zenon, <1>4, <1>5 DEF JobOK
<1> QED BY Zenon, <1>1, <1>2, <1>3, <1>6

\* A step of a thread or of the scheduler that only moves jobs.
LEMMA PoolStep ==
    ASSUME IInv, Quiet, UNCHANGED <<toDb, fromDb>>, Typed', OneJobPerRow',
           \A j \in Current' : j \in Current \/ JobOK(j)
    PROVE  IInv'
<1>1. \A r \in Rows : RowOK(r)' BY Zenon, QuietKeeps DEF IInv
<1>2. \A m \in Range(toDb') : RequestOK(m)' BY Zenon, QuietKeeps DEF IInv
<1>3. InOrder' BY Zenon DEF IInv, InOrder, Sent
<1>4. \A a \in Range(fromDb') : AnswerOK(a)' BY Zenon, QuietKeeps DEF IInv
<1>5. \A j \in Current' : JobOK(j)' BY Zenon, QuietKeeps DEF IInv
<1> QED BY Zenon, <1>1, <1>2, <1>3, <1>4, <1>5 DEF IInv

-----------------------------------------------------------------------------
(* The threads of the pool.                                                *)

\* The job in a thread.
LEMMA WorkFacts ==
    ASSUME IInv, NEW w \in Workers, work[w] # None
    PROVE  /\ work[w] \in Jobs /\ JobOK(work[w]) /\ work[w].kind \in Calls \cup Updates
           /\ work[w].kind \in Updates => work[w] \in UpdateJobs /\ UpdateOK(work[w])
           /\ work[w].kind \notin Updates => work[w] \in CallJobs /\ CallOK(work[w])
<1>1. work[w] \in Jobs /\ work[w] \in Current BY Zenon, Others DEF IInv
<1>2. JobOK(work[w]) BY Zenon, <1>1 DEF IInv
<1> QED BY Zenon, <1>1, <1>2, KindFacts DEF JobOK, UpdateJobs, CallJobs

\* The rows of a job.
LEMMA HeldFacts ==
    ASSUME IInv, NEW j \in Current
    PROVE  \A r \in Held(j) : /\ r \in Rows /\ r[2] \in known /\ infos[r] \in Nat
                              /\ db[r] \in Nat /\ db[r] <= infos[r]
<1>1. Typed /\ j \in Jobs /\ JobOK(j) BY Zenon, CurrentFacts DEF IInv
<1>2. ASSUME NEW r \in Held(j) PROVE r \in Rows /\ infos[r] # None
    <2>1. j.kind \in Updates /\ r \in Range(j.rows) BY Zenon, <1>2 DEF Held
    <2>2. j \in UpdateJobs /\ UpdateOK(j) BY Zenon, <1>1, <2>1, KindFacts DEF JobOK
    <2>3. j.rows \in Seq(Rows) BY Zenon, <2>2 DEF UpdateJobs
    <2>4. Range(j.rows) \subseteq Rows BY Zenon, <2>3, RangeDef
    <2> QED BY Zenon, <2>1, <2>2, <2>4 DEF UpdateOK
<1>3. ASSUME NEW r \in Held(j) PROVE /\ r[2] \in known /\ infos[r] \in Nat
                                     /\ db[r] \in Nat /\ db[r] <= infos[r]
    <2>1. r \in Rows /\ infos[r] # None BY Zenon, <1>2
    <2>2. RowOK(r) BY Zenon, <2>1 DEF IInv
    <2> QED BY Zenon, <1>1, <2>1, <2>2 DEF RowOK, Typed
<1> QED BY Zenon, <1>2, <1>3

\* A job ends with a code, and nothing else of it changes but the result.
LEMMA FinishInv ==
    ASSUME IInv, NEW w \in Workers, work[w] # None, NEW j \in Jobs, JobOK(j),
           Held(j) \subseteq Held(work[w]), Finish(w, j), jobs' = jobs,
           Quiet, UNCHANGED <<toDb, fromDb>>, aiList' \subseteq Users, maxId' = maxId, call' = call,
           budget' \in [versions : [Rows -> Nat], calls : Nat, failures : Nat]
    PROVE  IInv'
<1>1. Typed /\ OneJobPerRow BY Zenon DEF IInv
<1>2. /\ OneJobPerRow' /\ done' \in Seq(Jobs) /\ work' \in [Workers -> Jobs \cup {None}]
      /\ \A i \in Current' : i = j \/ i \in Current
    BY Zenon, <1>1, SlotsFinish
<1>3. Typed' BY Zenon, <1>1, <1>2 DEF Typed, Quiet
<1>4. \A i \in Current' : i \in Current \/ JobOK(i) BY Zenon, <1>2
<1> QED BY Zenon, <1>2, <1>3, <1>4, PoolStep

\* A worker takes the first job.
LEMMA TakeJobInv == ASSUME IInv, NEW w \in Workers, TakeJob(w) PROVE IInv'
<1>1. Typed /\ OneJobPerRow BY Zenon DEF IInv
<1>2. OneJobPerRow' /\ Current' \subseteq Current
      /\ jobs' \in Seq(Jobs) /\ work' \in [Workers -> Jobs \cup {None}]
    BY Zenon, <1>1, SlotsTake DEF TakeJob
<1>3. Quiet /\ UNCHANGED <<toDb, fromDb>> BY Zenon DEF TakeJob, Quiet, owner
<1>4. Typed' BY Zenon, <1>1, <1>2 DEF Typed, TakeJob, owner
<1>5. \A i \in Current' : i \in Current \/ JobOK(i) BY Zenon, <1>2
<1> QED BY Zenon, <1>2, <1>3, <1>4, <1>5, PoolStep

\* The exception is what the session gets; rows and operations stay in the job.
LEMMA Failed ==
    ASSUME IInv, NEW w \in Workers, work[w] # None, NEW j, j = [work[w] EXCEPT !.ec = "system"]
    PROVE  j \in Jobs /\ JobOK(j) /\ Held(j) \subseteq Held(work[w])
<1>1. CASE work[w].kind \in Updates
    <2>1. work[w] \in UpdateJobs /\ UpdateOK(work[w]) BY Zenon, <1>1, WorkFacts
    <2>2. /\ j \in UpdateJobs /\ j.kind = work[w].kind /\ j.rows = work[w].rows /\ j.ops = work[w].ops
          /\ j.step = work[w].step /\ j.output = work[w].output /\ j.ec = "system"
        BY Zenon, <2>1 DEF UpdateJobs, Codes
    <2>3. UpdateOK(j) BY <2>1, <2>2 DEF UpdateOK, OpOK, Executed
    <2> QED BY Zenon, <1>1, <2>2, <2>3 DEF Jobs, JobOK, Held
<1>2. CASE work[w].kind \notin Updates
    <2>1. work[w] \in CallJobs /\ CallOK(work[w]) BY Zenon, <1>2, WorkFacts
    <2>2. /\ j \in CallJobs /\ j.kind = work[w].kind /\ j.user = work[w].user
          /\ j.step = work[w].step /\ j.ec = "system"
        BY Zenon, <2>1 DEF CallJobs, Codes
    <2>3. CallOK(j) BY Zenon, <2>1, <2>2 DEF CallOK
    <2> QED BY Zenon, <1>2, <2>2, <2>3 DEF Jobs, JobOK, Held
<1> QED BY Zenon, <1>1, <1>2

\* The database throws, the job ends with the error.
LEMMA ThrowInv == ASSUME IInv, NEW w \in Workers, Throw(w) PROVE IInv'
<1>1. Typed /\ work[w] # None BY Zenon DEF IInv, Throw
<1>2. PICK j : j = [work[w] EXCEPT !.ec = "system"] BY Zenon
<1>3. j \in Jobs /\ JobOK(j) /\ Held(j) \subseteq Held(work[w]) BY Zenon, <1>1, <1>2, Failed
<1>4. budget' \in [versions : [Rows -> Nat], calls : Nat, failures : Nat]
    <2>1. budget \in [versions : [Rows -> Nat], calls : Nat, failures : Nat] BY Zenon, <1>1 DEF Typed
    <2>2. budget.failures \in Nat /\ budget.failures > 0 BY Zenon, <2>1 DEF Throw
    <2>3. PICK n \in Nat : n = budget.failures - 1 BY <2>2
    <2>4. budget' = [budget EXCEPT !.failures = n] BY Zenon, <2>3 DEF Throw
    <2> QED BY Zenon, <2>1, <2>4
<1>5. Finish(w, j) /\ jobs' = jobs /\ Quiet /\ UNCHANGED <<toDb, fromDb, aiList, maxId, call>>
    BY Zenon, <1>2 DEF Throw, Quiet, owner
<1>6. aiList' \subseteq Users BY Zenon, <1>1, <1>5 DEF Typed
<1> QED BY Zenon, <1>1, <1>3, <1>4, <1>5, <1>6, FinishInv

\* The last step of a call that succeeds.
LEMMA Succeeded ==
    ASSUME IInv, NEW w \in Workers, work[w] # None, NEW kind \in Calls, work[w].kind = kind,
           NEW result \in Results, NEW j, j = [work[w] EXCEPT !.ec = "success", !.result = result],
           kind = "create_user" => BothRows(work[w].user),
           kind = "query_max_userid" => result \in {0} \cup Users
    PROVE  j \in Jobs /\ JobOK(j) /\ Held(j) \subseteq Held(work[w])
<1>1. work[w].kind \notin Updates BY Zenon, KindFacts
<1>2. work[w] \in CallJobs /\ CallOK(work[w]) BY Zenon, <1>1, WorkFacts
<1>3. /\ j \in CallJobs /\ j.kind = kind /\ j.user = work[w].user
      /\ j.step = work[w].step /\ j.ec = "success" /\ j.result = result
    BY Zenon, <1>2 DEF CallJobs, Codes
<1>4. CallOK(j) BY Zenon, <1>2, <1>3 DEF CallOK
<1> QED BY Zenon, <1>1, <1>3, <1>4 DEF Jobs, JobOK, Held

\* A worker reads one answer.
LEMMA QueryInv ==
    ASSUME IInv, NEW w \in Workers, NEW kind \in Queries, NEW result \in Results,
           Query(w, kind, result), kind = "query_max_userid" => result \in {0} \cup Users
    PROVE  IInv'
<1>1. Typed /\ work[w] # None /\ work[w].kind = kind BY Zenon DEF IInv, Query, At
<1>2. PICK j : j = [work[w] EXCEPT !.ec = "success", !.result = result] BY Zenon
<1>3. kind \in Calls /\ (kind = "create_user" => BothRows(work[w].user)) BY Zenon DEF Calls, Queries
<1>4. j \in Jobs /\ JobOK(j) /\ Held(j) \subseteq Held(work[w])
    BY <1>1, <1>2, <1>3, Succeeded, ZenonT(30)
<1>5. Finish(w, j) /\ jobs' = jobs /\ Quiet /\ UNCHANGED <<toDb, fromDb, aiList, maxId, call, budget>>
    BY Zenon, <1>2 DEF Query, Quiet, owner
<1>6. /\ aiList' \subseteq Users
      /\ budget' \in [versions : [Rows -> Nat], calls : Nat, failures : Nat]
    BY Zenon, <1>1, <1>5 DEF Typed
<1> QED BY Zenon, <1>1, <1>4, <1>5, <1>6, FinishInv

\* The queries read a row, the greatest userid or the third collection.
LEMMA QueriesInv ==
    ASSUME IInv, NEW w \in Workers,
           QueryUser(w) \/ QueryAccount(w) \/ QueryMaxUserid(w) \/ QueryAi(w)
    PROVE  IInv'
<1>1. Typed BY Zenon DEF IInv
<1>2. ASSUME NEW kind \in Calls, At(w, kind, 1) PROVE work[w].user \in Users
    <2>1. work[w] # None /\ work[w].kind \notin Updates BY Zenon, <1>2, KindFacts DEF At
    <2>2. work[w] \in CallJobs BY Zenon, <2>1, WorkFacts
    <2> QED BY Zenon, <2>2 DEF CallJobs
<1>3. \A r \in Rows : db[r] \in Results BY Zenon, <1>1 DEF Typed, Results
<1>4. CASE QueryUser(w)
    <2>1. work[w].user \in Users BY Zenon, <1>2, <1>4 DEF QueryUser, Query, Calls, Queries
    <2>2. db[<<"user", work[w].user>>] \in Results BY Zenon, <1>3, <2>1, RowFacts
    <2> QED BY Zenon, <1>4, <2>2, QueryInv DEF QueryUser, Queries
<1>5. CASE QueryAccount(w)
    <2>1. work[w].user \in Users BY Zenon, <1>2, <1>5 DEF QueryAccount, Query, Calls, Queries
    <2>2. db[<<"account", work[w].user>>] \in Results BY Zenon, <1>3, <2>1, RowFacts
    <2> QED BY Zenon, <1>5, <2>2, QueryInv DEF QueryAccount, Queries
<1>6. CASE QueryMaxUserid(w)
    <2>1. PICK m \in {0} \cup Users : Query(w, "query_max_userid", m) BY Zenon, <1>6 DEF QueryMaxUserid
    <2>2. m \in Results BY Zenon, UsersNat DEF Results
    <2> QED BY Zenon, <2>1, <2>2, QueryInv DEF Queries
<1>7. CASE QueryAi(w)
    <2>1. aiList \in Results BY Zenon, <1>1 DEF Typed, Results
    <2> QED BY Zenon, <1>7, <2>1, QueryInv DEF QueryAi, Queries
<1> QED BY Zenon, <1>4, <1>5, <1>6, <1>7

\* insert_one: a new row with version 0, or the exception of the unique index.
LEMMA InsertInv ==
    ASSUME IInv, NEW w \in Workers, NEW n \in {1, 2}, At(w, "create_user", n),
           NEW r \in Rows, r = IF n = 1 THEN <<"user", work[w].user>> ELSE <<"account", work[w].user>>,
           Insert(w, r), UNCHANGED <<aiList, owner, toDb, fromDb, infos, jobs, budget>>
    PROVE  IInv'
<1>1. Typed /\ OneJobPerRow /\ work[w] # None BY Zenon DEF IInv, At
<1>2. /\ work[w].kind = "create_user" /\ work[w].step = n /\ work[w].kind \notin Updates
      /\ work[w] \in CallJobs /\ CallOK(work[w])
    <2>1. work[w].kind = "create_user" /\ work[w].step = n BY Zenon DEF At
    <2>2. work[w].kind \notin Updates BY Zenon, <2>1 DEF Updates
    <2> QED BY Zenon, <1>1, <2>1, <2>2, WorkFacts
<1>3. CASE db[r] # None
    <2>1. PICK j : j = [work[w] EXCEPT !.ec = "system"] BY Zenon
    <2>2. j \in Jobs /\ JobOK(j) /\ Held(j) \subseteq Held(work[w]) BY Zenon, <1>1, <2>1, Failed
    <2>3. /\ Finish(w, j) /\ jobs' = jobs /\ Quiet
          /\ UNCHANGED <<toDb, fromDb, aiList, maxId, call, budget>>
        BY Zenon, <1>3, <2>1 DEF Insert, Quiet, owner
    <2>4. /\ aiList' \subseteq Users
          /\ budget' \in [versions : [Rows -> Nat], calls : Nat, failures : Nat]
        BY Zenon, <1>1, <2>3 DEF Typed
    <2> QED BY Zenon, <1>1, <2>2, <2>3, <2>4, FinishInv
<1>4. CASE db[r] = None
    <2>1. db' = [db EXCEPT ![r] = 0] /\ Onward(w) BY Zenon, <1>4 DEF Insert
    <2>2. PICK j : j = [work[w] EXCEPT !.step = n + 1] BY Zenon
    <2>3. /\ j \in CallJobs /\ j \in Jobs /\ j.kind = "create_user" /\ j.user = work[w].user
          /\ j.step = n + 1 /\ j.ec = work[w].ec
        BY <1>2, <2>2 DEF CallJobs, Jobs
    <2>4. work' = [work EXCEPT ![w] = j] /\ done' = done
        BY Zenon, <1>1, <1>2, <2>1, <2>2 DEF Onward
    <2>5. Held(j) = {} BY Zenon, <2>3 DEF Held, Updates
    <2>6. /\ OneJobPerRow' /\ work' \in [Workers -> Jobs \cup {None}]
          /\ \A i \in Current' : i = j \/ i \in Current
        BY Zenon, <1>1, <2>3, <2>4, <2>5, SlotsOnward
    <2>7. /\ db' \in [Rows -> Nat \cup {None}] /\ db'[r] = 0
          /\ \A x \in Rows \ {r} : db'[x] = db[x]
        BY Zenon, <1>1, <2>1 DEF Typed
    <2>8. Typed' BY Zenon, <1>1, <2>4, <2>6, <2>7 DEF Typed, owner
    <2>9. r[2] \notin known /\ infos[r] = None BY Zenon, <1>4 DEF IInv, RowOK
    <2>10. \A x \in Rows : x[2] \in known \/ infos[x] # None => db'[x] = db[x]
        BY Zenon, <2>7, <2>9
    <2>11. \A x \in Rows : RowOK(x)'
        <3>1. ASSUME NEW x \in Rows \ {r} PROVE RowOK(x)'
            BY Zenon, <2>7 DEF IInv, RowOK, owner
        <3>2. RowOK(r)'
            <4>1. RowOK(r) /\ ver[r] \in Nat BY Zenon, <1>1 DEF IInv, Typed
            <4>2. 0 <= ver[r] BY <4>1
            <4> QED BY Zenon, <2>7, <2>9, <4>1, <4>2 DEF RowOK, owner
        <3> QED BY Zenon, <3>1, <3>2
    <2>12. ASSUME NEW m \in Range(toDb') PROVE RequestOK(m)'
        <3>1. m \in Range(toDb) /\ m \in Requests BY Zenon, <1>1, RangeDef DEF Typed
        <3>2. \A x \in Sent(m) : x \in Rows BY Zenon, <3>1, KindFacts, VersionsFacts DEF Sent
        <3> QED BY Zenon, <2>10, <3>1, <3>2 DEF IInv, RequestOK, Sent, owner
    <2>13. InOrder' BY Zenon DEF IInv, InOrder, Sent
    <2>14. \A x \in Rows : db[x] # None => db'[x] \in Nat /\ db[x] <= db'[x]
        <3>1. ASSUME NEW x \in Rows, db[x] # None PROVE db'[x] \in Nat /\ db[x] <= db'[x]
            <4>1. x # r /\ db'[x] = db[x] /\ db[x] \in Nat BY Zenon, <1>1, <1>4, <2>7, <3>1 DEF Typed
            <4> QED BY <4>1
        <3> QED BY Zenon, <3>1
    <2>15. ASSUME NEW a \in Range(fromDb') PROVE AnswerOK(a)'
        <3>1. a \in Range(fromDb) /\ a \in Answers BY Zenon, <1>1, RangeDef DEF Typed
        <3> QED BY Zenon, <1>1, <2>14, <3>1, AnswerKept DEF IInv, owner
    <2>16. ASSUME NEW i \in Current' PROVE JobOK(i)'
        <3>1. CASE i = j
            <4>1. <<"user", j.user>> \in Rows /\ <<"account", j.user>> \in Rows
                BY Zenon, <2>3, RowFacts DEF CallJobs
            <4>2. db'[<<"user", j.user>>] # None
                <5>1. CASE n = 1 BY <2>3, <2>7, <5>1, NoneFacts
                <5>2. CASE n = 2
                    <6>1. db[<<"user", j.user>>] # None BY <1>2, <2>3, <5>2 DEF CallOK
                    <6> QED BY Zenon, <2>14, <4>1, <6>1, NoneFacts
                <5> QED BY Zenon, <5>1, <5>2
            <4>3. j.step >= 3 => db'[<<"account", j.user>>] # None
                <5>1. CASE n = 1 BY <2>3, <5>1
                <5>2. CASE n = 2
                    <6>1. r = <<"account", j.user>> BY <2>3, <5>2
                    <6> QED BY <2>7, <6>1, NoneFacts
                <5> QED BY Zenon, <5>1, <5>2
            <4>4. j.ec = "success" => db'[<<"account", j.user>>] # None
                BY Zenon, <1>2, <2>3, <2>14, <4>1, NoneFacts DEF CallOK, BothRows
            <4>5. CallOK(j)' BY Zenon, <2>3, <4>2, <4>3, <4>4 DEF CallOK, BothRows
            <4> QED BY Zenon, <2>3, <3>1, <4>5 DEF JobOK, Updates
        <3>2. CASE i # j
            <4>1. i \in Current /\ i \in Jobs /\ JobOK(i) BY Zenon, <1>1, <2>6, <3>2, CurrentFacts DEF IInv
            <4>2. ASSUME NEW x \in Held(i)
                  PROVE  db'[x] = db[x] /\ infos'[x] \in Nat /\ infos[x] <= infos'[x]
                <5>1. x \in Rows /\ x[2] \in known /\ infos[x] \in Nat BY Zenon, <4>1, HeldFacts
                <5> QED BY <2>10, <5>1
            <4>3. \A x \in Rows : db[x] # None => db'[x] # None BY Zenon, <2>14, NoneFacts
            <4> QED BY Zenon, <1>1, <4>1, <4>2, <4>3, JobKept
        <3> QED BY Zenon, <3>1, <3>2
    <2> QED BY Zenon, <2>6, <2>8, <2>11, <2>12, <2>13, <2>15, <2>16 DEF IInv
<1> QED BY Zenon, <1>3, <1>4

\* A worker inserts the rows of a new user.
LEMMA InsertsInv ==
    ASSUME IInv, NEW w \in Workers, InsertUser(w) \/ InsertAccount(w) \/ InsertAi(w)
    PROVE  IInv'
<1>1. ASSUME NEW n \in Nat, At(w, "create_user", n)
      PROVE  /\ work[w] # None /\ work[w].kind = "create_user" /\ work[w].step = n
             /\ work[w] \in CallJobs /\ CallOK(work[w]) /\ work[w].user \in Users
    <2>1. work[w] # None /\ work[w].kind = "create_user" /\ work[w].step = n BY Zenon, <1>1 DEF At
    <2>2. work[w].kind \notin Updates BY Zenon, <2>1 DEF Updates
    <2>3. work[w] \in CallJobs /\ CallOK(work[w]) BY Zenon, <2>1, <2>2, WorkFacts
    <2> QED BY Zenon, <2>1, <2>3 DEF CallJobs
<1>2. CASE InsertUser(w)
    <2>1. At(w, "create_user", 1) BY Zenon, <1>2 DEF InsertUser
    <2>2. PICK r \in Rows : r = <<"user", work[w].user>> BY Zenon, <1>1, <2>1, RowFacts
    <2>3. Insert(w, r) /\ UNCHANGED <<aiList, owner, toDb, fromDb, infos, jobs, budget>>
        BY Zenon, <1>2, <2>2 DEF InsertUser
    <2> QED BY Zenon, <2>1, <2>2, <2>3, InsertInv
<1>3. CASE InsertAccount(w)
    <2>1. At(w, "create_user", 2) BY Zenon, <1>3 DEF InsertAccount
    <2>2. PICK r \in Rows : r = <<"account", work[w].user>> BY Zenon, <1>1, <2>1, RowFacts
    <2>3. Insert(w, r) /\ UNCHANGED <<aiList, owner, toDb, fromDb, infos, jobs, budget>>
        BY Zenon, <1>3, <2>2 DEF InsertAccount
    <2> QED BY <2>1, <2>2, <2>3, InsertInv
<1>4. CASE InsertAi(w)
    <2>1. At(w, "create_user", 3) BY Zenon, <1>4 DEF InsertAi
    <2>2. /\ work[w] # None /\ work[w].kind = "create_user" /\ work[w].step = 3
          /\ work[w] \in CallJobs /\ CallOK(work[w]) /\ work[w].user \in Users
        BY Zenon, <1>1, <2>1
    <2>3. BothRows(work[w].user) BY <2>2 DEF CallOK, BothRows
    <2>4. PICK j : j = [work[w] EXCEPT !.ec = "success"] BY Zenon
    <2>5. j = [work[w] EXCEPT !.ec = "success", !.result = work[w].result]
        BY Zenon, <2>2, <2>4 DEF CallJobs
    <2>6. PICK kind \in Calls, result \in Results :
             kind = work[w].kind /\ kind # "query_max_userid" /\ result = work[w].result
        BY ZenonT(30), <2>2 DEF CallJobs, Calls
    <2>7. j \in Jobs /\ JobOK(j) /\ Held(j) \subseteq Held(work[w])
        <3>1. j = [work[w] EXCEPT !.ec = "success", !.result = result] BY Zenon, <2>5, <2>6
        <3>2. kind = "create_user" => BothRows(work[w].user) BY Zenon, <2>3
        <3>3. kind = "query_max_userid" => result \in {0} \cup Users BY Zenon, <2>6
        <3>4. work[w] # None /\ work[w].kind = kind BY Zenon, <2>2, <2>6
        <3> QED BY ZenonT(30), <3>1, <3>2, <3>3, <3>4, Succeeded
    <2>8. /\ Finish(w, j) /\ jobs' = jobs /\ Quiet
          /\ UNCHANGED <<toDb, fromDb, maxId, call, budget>>
        BY Zenon, <1>4, <2>4 DEF InsertAi, Quiet, owner
    <2>9. /\ aiList' \subseteq Users
          /\ budget' \in [versions : [Rows -> Nat], calls : Nat, failures : Nat]
        BY Zenon, <1>4, <2>2, <2>8 DEF InsertAi, IInv, Typed
    <2> QED BY Zenon, <2>2, <2>7, <2>8, <2>9, FinishInv
<1> QED BY Zenon, <1>2, <1>3, <1>4

\* The update in a thread.
LEMMA UpdateFacts ==
    ASSUME IInv, NEW w \in Workers, work[w] # None, work[w].kind \in Updates
    PROVE  /\ work[w] \in UpdateJobs /\ UpdateOK(work[w]) /\ Held(work[w]) = Range(work[w].rows)
           /\ work[w].rows \in Seq(Rows) /\ work[w].ops \in Seq(Rows \X Nat)
           /\ work[w].output \in Versions /\ work[w].step \in Nat \ {0}
           /\ \A r \in Range(work[w].rows) : /\ r \in Rows /\ r[2] \in known /\ infos[r] \in Nat
                                             /\ db[r] \in Nat /\ db[r] <= infos[r]
<1>1. work[w] \in UpdateJobs /\ UpdateOK(work[w]) BY Zenon, WorkFacts
<1>2. Held(work[w]) = Range(work[w].rows) BY Zenon DEF Held
<1>3. work[w] \in Current BY Zenon, Others DEF IInv
<1> QED BY Zenon, <1>1, <1>2, <1>3, HeldFacts DEF UpdateJobs

\* The version in the cache is at most that of the content.
LEMMA CutFacts ==
    ASSUME NEW v \in Nat PROVE CachedVersion(v) \in Nat /\ CachedVersion(v) <= v
<1>1. PICK n \in Nat \ {0} : n = Width BY Zenon, DbProxyAssumption
<1>2. v % n \in Nat /\ v % n <= v BY <1>1
<1> QED BY Zenon, <1>1, <1>2 DEF CachedVersion

\* Reading a row appends an operation with the cached content, and its version.
LEMMA ReadRowInv == ASSUME IInv, NEW w \in Workers, ReadRow(w) PROVE IInv'
<1>1. Typed /\ OneJobPerRow /\ work[w] # None /\ work[w].kind \in Updates
    BY Zenon DEF IInv, ReadRow
<1>2. PICK o \in UpdateJobs : o = work[w] BY Zenon, <1>1, UpdateFacts
<1>3. /\ UpdateOK(o) /\ Held(o) = Range(o.rows)
      /\ o.rows \in Seq(Rows) /\ o.ops \in Seq(Rows \X Nat)
      /\ o.output \in Versions /\ o.step \in Nat \ {0}
      /\ \A r \in Range(o.rows) : /\ r \in Rows /\ infos[r] \in Nat
                                  /\ db[r] \in Nat /\ db[r] <= infos[r]
    BY Zenon, <1>1, <1>2, UpdateFacts
<1>4. o.step \in 1..Len(o.rows) /\ Len(o.rows) \in Nat /\ o.ec # "success"
    <2>1. Len(o.rows) \in Nat /\ o.step <= Len(o.rows) BY Zenon, <1>2, <1>3, LenFacts DEF ReadRow
    <2>2. ~(o.step > Len(o.rows)) /\ o.step \in 1..Len(o.rows) BY <1>3, <2>1
    <2> QED BY Zenon, <1>3, <2>1, <2>2 DEF UpdateOK
<1>5. PICK r \in Rows : r = o.rows[o.step] /\ r \in Range(o.rows) BY <1>3, <1>4, RangeDef
<1>6. PICK v \in Nat : v = infos[r] /\ db[r] \in Nat /\ db[r] <= v BY Zenon, <1>3, <1>5
<1>21. PICK c \in Nat : c = CachedVersion(v) /\ c <= v BY Zenon, CutFacts
<1>7. r \notin DOMAIN o.output
    <2>1. o.step >= o.step BY <1>3
    <2> QED BY Zenon, <1>3, <1>4, <1>5, <2>1 DEF UpdateOK
<1>8. PICK out : out = [x \in DOMAIN o.output \cup {r} |-> IF x = r THEN c ELSE o.output[x]]
    BY Zenon
<1>9. PICK ops : ops = Append(o.ops, <<r, v>>) BY Zenon
<1>10. PICK j : j = [o EXCEPT !.step = o.step + 1, !.output = out, !.ops = ops] BY Zenon
<1>11. work' = [work EXCEPT ![w] = j]
    BY Zenon, <1>1, <1>2, <1>5, <1>6, <1>8, <1>9, <1>10, <1>21 DEF ReadRow, Typed, UpdateJobs
<1>12. /\ DOMAIN out = DOMAIN o.output \cup {r} /\ out \in Versions
       /\ out[r] = c /\ \A x \in DOMAIN o.output : out[x] = o.output[x]
    <2>1. DOMAIN o.output \subseteq Rows /\ \A x \in DOMAIN o.output : o.output[x] \in Nat
        BY Zenon, <1>3, VersionsFacts
    <2>2. out \in [DOMAIN o.output \cup {r} -> Nat] BY Zenon, <1>8, <2>1
    <2>3. out \in Versions BY Zenon, <2>1, <2>2, VersionsFacts
    <2> QED BY Zenon, <1>7, <1>8, <2>3
<1>13. /\ ops \in Seq(Rows \X Nat) /\ Len(ops) = Len(o.ops) + 1 /\ Len(o.ops) \in Nat
       /\ \A i \in 1..Len(o.ops) : ops[i] = o.ops[i]
       /\ ops[Len(o.ops) + 1] = <<r, v>>
    <2>1. <<r, v>> \in Rows \X Nat BY Zenon
    <2> QED BY <1>3, <1>9, <2>1, AppendRange
<1>14. /\ j \in UpdateJobs /\ j \in Jobs /\ j.kind = o.kind /\ j.rows = o.rows /\ j.ec = o.ec
       /\ j.step = o.step + 1 /\ j.output = out /\ j.ops = ops
    <2>1. o.step + 1 \in Nat \ {0} BY <1>3
    <2> QED BY Zenon, <1>10, <1>12, <1>13, <2>1 DEF UpdateJobs, Jobs
<1>15. UpdateOK(j)
    <2>1. IsInjective(j.rows) /\ (\A x \in Range(j.rows) : infos[x] # None)
          /\ DOMAIN j.output \subseteq Range(j.rows)
        BY <1>3, <1>5, <1>12, <1>14 DEF UpdateOK
    <2>2. ASSUME NEW k \in 1..Len(j.rows), k >= j.step PROVE j.rows[k] \notin DOMAIN j.output
        <3>1. k >= o.step /\ k # o.step /\ k \in 1..Len(o.rows) BY <1>3, <1>14, <2>2
        <3>2. o.rows[k] # r
            <4>1. \A a, b \in 1..Len(o.rows) : o.rows[a] = o.rows[b] => a = b
                BY <1>3, RangeDef DEF UpdateOK
            <4>2. o.step \in 1..Len(o.rows) /\ r = o.rows[o.step] BY Zenon, <1>4, <1>5
            <4> QED BY Zenon, <3>1, <4>1, <4>2
        <3>3. o.rows[k] \notin DOMAIN o.output BY Zenon, <1>3, <3>1 DEF UpdateOK
        <3> QED BY Zenon, <1>12, <1>14, <3>2, <3>3
    <2>3. ASSUME NEW i \in 1..Len(o.ops)
          PROVE  /\ o.ops[i][1] \in DOMAIN o.output /\ o.ops[i][1] # r
                 /\ OpOK(o, o.ops[i]) /\ ops[i] = o.ops[i]
        <3>1. o.ops[i][1] \in DOMAIN o.output /\ OpOK(o, o.ops[i]) BY Zenon, <1>3 DEF UpdateOK
        <3>2. ops[i] = o.ops[i] BY Zenon, <1>13
        <3> QED BY Zenon, <1>7, <3>1, <3>2
    <2>4. ASSUME NEW x \in DOMAIN j.output, Executed(j, x) PROVE j.output[x] <= db[x]
        <3>1. CASE x = r
            <4>1. Len(o.ops) + 1 \in 1..Len(j.ops) /\ j.ops[Len(o.ops) + 1][1] = r
                BY <1>13, <1>14
            <4> QED BY Zenon, <2>4, <3>1, <4>1 DEF Executed
        <3>2. CASE x # r
            <4>1. x \in DOMAIN o.output /\ j.output[x] = o.output[x] BY Zenon, <1>12, <1>14, <3>2
            <4>2. Executed(o, x)
                <5>1. \A i \in 1..Len(o.ops) : i \in 1..Len(j.ops) BY <1>13, <1>14
                <5> QED BY Zenon, <1>14, <2>3, <2>4, <5>1 DEF Executed
            <4> QED BY Zenon, <1>3, <4>1, <4>2 DEF UpdateOK
        <3> QED BY Zenon, <3>1, <3>2
    <2>5. ASSUME NEW i \in 1..Len(j.ops)
          PROVE  j.ops[i][1] \in DOMAIN j.output /\ OpOK(j, j.ops[i])
        <3>1. CASE i \in 1..Len(o.ops)
            <4>1. j.ops[i] = o.ops[i] /\ o.ops[i][1] \in DOMAIN o.output /\ OpOK(o, o.ops[i])
                BY Zenon, <1>14, <2>3, <3>1
            <4> QED BY Zenon, <1>12, <1>14, <4>1 DEF OpOK
        <3>2. CASE i = Len(o.ops) + 1
            <4>1. j.ops[i][1] = r /\ j.ops[i][2] = v BY <1>13, <1>14, <3>2
            <4>2. v <= v BY <1>6
            <4> QED BY Zenon, <1>6, <1>12, <1>14, <1>21, <4>1, <4>2 DEF OpOK
        <3> QED BY <1>13, <1>14, <3>1, <3>2
    <2>6. ASSUME NEW i \in 1..Len(j.ops), NEW k \in 1..Len(j.ops), j.ops[i][1] = j.ops[k][1]
          PROVE  i = k
        <3>1. CASE i \in 1..Len(o.ops) /\ k \in 1..Len(o.ops)
            BY ZenonT(30), <1>3, <1>14, <2>3, <2>6, <3>1 DEF UpdateOK
        <3>2. CASE i = Len(o.ops) + 1 /\ k \in 1..Len(o.ops)
            <4>1. j.ops[i][1] = r BY <1>13, <1>14, <3>2
            <4>2. j.ops[k][1] # r BY Zenon, <1>14, <2>3, <3>2
            <4> QED BY Zenon, <2>6, <4>1, <4>2
        <3>3. CASE k = Len(o.ops) + 1 /\ i \in 1..Len(o.ops)
            <4>1. j.ops[k][1] = r BY <1>13, <1>14, <3>3
            <4>2. j.ops[i][1] # r BY Zenon, <1>14, <2>3, <3>3
            <4> QED BY Zenon, <2>6, <4>1, <4>2
        <3>4. CASE i = Len(o.ops) + 1 /\ k = Len(o.ops) + 1 BY Zenon, <3>4
        <3>5. \A n \in 1..Len(j.ops) : n \in 1..Len(o.ops) \/ n = Len(o.ops) + 1
            BY <1>13, <1>14
        <3> QED BY Zenon, <3>1, <3>2, <3>3, <3>4, <3>5
    <2>7. j.ec # "success" BY Zenon, <1>4, <1>14
    <2> QED BY Zenon, <2>1, <2>2, <2>4, <2>5, <2>6, <2>7 DEF UpdateOK
<1>16. JobOK(j) /\ Held(j) = Held(work[w]) BY Zenon, <1>1, <1>2, <1>14, <1>15 DEF JobOK, Held
<1>17. jobs' = jobs /\ done' = done /\ Quiet /\ UNCHANGED <<toDb, fromDb>>
    BY Zenon DEF ReadRow, Quiet, owner
<1>18. /\ OneJobPerRow' /\ work' \in [Workers -> Jobs \cup {None}]
       /\ \A i \in Current' : i = j \/ i \in Current
    BY Zenon, <1>1, <1>11, <1>14, <1>16, <1>17, SlotsOnward
<1>19. Typed' BY Zenon, <1>1, <1>17, <1>18 DEF Typed, ReadRow, owner
<1>20. \A i \in Current' : i \in Current \/ JobOK(i) BY Zenon, <1>16, <1>18
<1> QED BY Zenon, <1>17, <1>18, <1>19, <1>20, PoolStep

\* One operation of the bulk write: the row gets the version that was read.
LEMMA WriteInv ==
    ASSUME IInv, NEW w \in Workers, Execute(w), work[w].ops # <<>>
    PROVE  IInv' /\ \A r \in Rows : db[r] # None => db'[r] \in Nat /\ db[r] <= db'[r]
<1>1. Typed /\ OneJobPerRow /\ work[w] # None /\ work[w].kind \in Updates
    BY Zenon DEF IInv, Execute
<1>2. PICK o \in UpdateJobs : o = work[w] BY Zenon, <1>1, UpdateFacts
<1>3. /\ UpdateOK(o) /\ Held(o) = Range(o.rows)
      /\ o.rows \in Seq(Rows) /\ o.ops \in Seq(Rows \X Nat)
      /\ o.output \in Versions /\ o.step \in Nat \ {0}
      /\ \A r \in Range(o.rows) : /\ r \in Rows /\ r[2] \in known /\ infos[r] \in Nat
                                  /\ db[r] \in Nat /\ db[r] <= infos[r]
    BY Zenon, <1>1, <1>2, UpdateFacts
<1>4. o.ops # <<>> BY Zenon, <1>2
<1>5. /\ Tail(o.ops) \in Seq(Rows \X Nat) /\ Len(Tail(o.ops)) = Len(o.ops) - 1
      /\ Len(o.ops) \in Nat \ {0}
      /\ \A i \in 1..Len(o.ops) - 1 : Tail(o.ops)[i] = o.ops[i + 1] /\ i + 1 \in 1..Len(o.ops)
      /\ Head(o.ops) = o.ops[1] /\ 1 \in 1..Len(o.ops)
    BY Zenon, <1>3, <1>4, TailRange
<1>6. PICK r \in Rows, v \in Nat :
         /\ r = o.ops[1][1] /\ v = o.ops[1][2] /\ r \in DOMAIN o.output /\ OpOK(o, o.ops[1])
         /\ r \in Range(o.rows)
    <2>1. o.ops[1][1] \in DOMAIN o.output /\ OpOK(o, o.ops[1]) BY Zenon, <1>3, <1>5 DEF UpdateOK
    <2>2. DOMAIN o.output \subseteq Range(o.rows) BY Zenon, <1>3 DEF UpdateOK
    <2>3. o.ops[1] \in Rows \X Nat BY <1>3, <1>5
    <2> QED BY Zenon, <1>3, <2>1, <2>2, <2>3
<1>7. /\ db[r] \in Nat /\ db[r] <= v /\ v <= infos[r] /\ infos[r] \in Nat /\ r[2] \in known
      /\ o.output[r] <= v
    BY Zenon, <1>3, <1>6 DEF OpOK
<1>8. db' = [db EXCEPT ![r] = v]
    <2>1. db[r] # None BY Zenon, <1>7, NoneFacts
    <2> QED BY Zenon, <1>2, <1>4, <1>5, <1>6, <2>1 DEF Execute
<1>9. /\ db' \in [Rows -> Nat \cup {None}] /\ db'[r] = v /\ \A x \in Rows \ {r} : db'[x] = db[x]
    BY Zenon, <1>1, <1>8 DEF Typed
<1>10. ASSUME NEW x \in Rows, db[x] # None PROVE db'[x] \in Nat /\ db[x] <= db'[x]
    <2>1. CASE x = r BY Zenon, <1>7, <1>9, <2>1
    <2>2. CASE x # r
        <3>1. db'[x] = db[x] /\ db[x] \in Nat BY Zenon, <1>1, <1>9, <1>10, <2>2 DEF Typed
        <3> QED BY <3>1
    <2> QED BY Zenon, <2>1, <2>2
<1>11. PICK j : j = [o EXCEPT !.ops = Tail(o.ops)] BY Zenon
<1>12. /\ work' = [work EXCEPT ![w] = j] /\ done' = done /\ jobs' = jobs
       /\ UNCHANGED <<aiList, ver, verdb, known, maxId, call, toDb, fromDb, infos, budget>>
    BY Zenon, <1>1, <1>2, <1>4, <1>11 DEF Execute, Typed, UpdateJobs, owner
<1>13. /\ j \in UpdateJobs /\ j \in Jobs /\ j.kind = o.kind /\ j.rows = o.rows /\ j.ec = o.ec
       /\ j.step = o.step /\ j.output = o.output /\ j.ops = Tail(o.ops)
    BY Zenon, <1>5, <1>11 DEF UpdateJobs, Jobs
<1>14. Held(j) = Held(work[w]) BY Zenon, <1>2, <1>13 DEF Held
<1>15. /\ OneJobPerRow' /\ work' \in [Workers -> Jobs \cup {None}]
       /\ \A i \in Current' : i = j \/ (i \in Current /\ Held(i) \cap Held(work[w]) = {})
    BY Zenon, <1>1, <1>12, <1>13, <1>14, SlotsOnward
<1>16. Typed' BY Zenon, <1>1, <1>9, <1>12, <1>15 DEF Typed
<1>17. \A x \in Rows : RowOK(x)'
    <2>1. ASSUME NEW x \in Rows \ {r} PROVE RowOK(x)' BY Zenon, <1>9, <1>12 DEF IInv, RowOK
    <2>2. RowOK(r)'
        <3>1. RowOK(r) /\ ver[r] \in Nat /\ verdb[r] \in Nat BY Zenon, <1>1 DEF IInv, Typed
        <3>2. infos[r] # None /\ db[r] # None /\ v # None BY Zenon, <1>7, NoneFacts
        <3>3. infos[r] <= ver[r] /\ verdb[r] <= db[r] BY Zenon, <1>7, <3>1, <3>2 DEF RowOK
        <3>4. v <= ver[r] /\ verdb[r] <= v BY <1>7, <3>1, <3>3
        <3> QED BY Zenon, <1>7, <1>9, <1>12, <3>2, <3>3, <3>4 DEF RowOK
    <2> QED BY Zenon, <2>1, <2>2
<1>18. ASSUME NEW m \in Range(toDb') PROVE RequestOK(m)'
    <2>1. m \in Range(toDb) /\ m \in Requests BY Zenon, <1>1, <1>12, RangeDef DEF Typed
    <2>2. RequestOK(m) BY Zenon, <2>1 DEF IInv
    <2>3. ASSUME NEW x \in Sent(m) PROVE db'[x] <= m.infos[x]
        <3>1. x \in Rows /\ m.infos[x] \in Nat BY Zenon, <2>1, <2>3, KindFacts, VersionsFacts DEF Sent
        <3>2. CASE x = r
            <4>1. infos[r] <= m.infos[r] BY Zenon, <1>7, <2>2, <2>3, <3>2, NoneFacts DEF RequestOK
            <4> QED BY <1>7, <1>9, <3>1, <3>2, <4>1
        <3>3. CASE x # r BY Zenon, <1>9, <2>2, <2>3, <3>1, <3>3 DEF RequestOK
        <3> QED BY Zenon, <3>2, <3>3
    <2> QED BY Zenon, <1>12, <2>2, <2>3 DEF RequestOK, Sent
<1>19. InOrder' BY Zenon, <1>12 DEF IInv, InOrder, Sent
<1>20. ASSUME NEW a \in Range(fromDb') PROVE AnswerOK(a)'
    <2>1. a \in Range(fromDb) /\ a \in Answers BY Zenon, <1>1, <1>12, RangeDef DEF Typed
    <2> QED BY Zenon, <1>1, <1>10, <1>12, <2>1, AnswerKept DEF IInv
<1>21. ASSUME NEW job \in Current' PROVE JobOK(job)'
    <2>0. infos' = infos BY Zenon, <1>12
    <2>1. CASE job = j
        <3>1. ASSUME NEW x \in DOMAIN o.output
              PROVE  Executed(j, x) => o.output[x] <= db'[x]
            <4>1. CASE x = r BY Zenon, <1>7, <1>9, <4>1
            <4>2. CASE x # r
                <5>1. x \in Rows BY Zenon, <1>3, VersionsFacts
                <5>2. ASSUME Executed(j, x), NEW i \in 1..Len(o.ops) PROVE o.ops[i][1] # x
                    <6>1. CASE i = 1 BY Zenon, <1>6, <4>2, <6>1
                    <6>2. CASE i # 1
                        <7>0. Len(o.ops) \in Nat BY Zenon, <1>5
                        <7>1. PICK k \in 1..Len(o.ops) - 1 : i = k + 1
                            <8>1. i - 1 \in 1..Len(o.ops) - 1 /\ i = (i - 1) + 1 BY <6>2, <7>0
                            <8> QED BY Zenon, <8>1
                        <7>2. j.ops[k] = o.ops[i] /\ k \in 1..Len(j.ops) BY Zenon, <1>5, <1>13, <7>1
                        <7> QED BY Zenon, <5>2, <7>2 DEF Executed
                    <6> QED BY Zenon, <6>1, <6>2
                <5>3. Executed(j, x) => Executed(o, x) BY Zenon, <5>2 DEF Executed
                <5> QED BY Zenon, <1>3, <1>9, <4>2, <5>1, <5>3 DEF UpdateOK
            <4> QED BY Zenon, <4>1, <4>2
        <3>2. ASSUME NEW i \in 1..Len(j.ops)
              PROVE  i + 1 \in 1..Len(o.ops) /\ j.ops[i] = o.ops[i + 1] /\ i \in Nat
            BY <1>5, <1>13
        <3>3. ASSUME NEW i \in 1..Len(j.ops)
              PROVE  j.ops[i][1] \in DOMAIN o.output /\ OpOK(j, j.ops[i])'
            <4>1. PICK k \in 1..Len(o.ops) : k = i + 1 /\ j.ops[i] = o.ops[k] BY Zenon, <3>2
            <4>2. o.ops[k][1] \in DOMAIN o.output /\ OpOK(o, o.ops[k]) BY Zenon, <1>3 DEF UpdateOK
            <4>3. o.ops[k][1] # r
                <5>1. k # 1 BY <4>1
                <5> QED BY Zenon, <1>3, <1>5, <1>6, <5>1 DEF UpdateOK
            <4>4. o.ops[k][1] \in Rows BY Zenon, <1>3, <4>2, VersionsFacts
            <4>5. db'[o.ops[k][1]] = db[o.ops[k][1]] BY Zenon, <1>9, <4>3, <4>4
            <4> QED BY Zenon, <1>13, <2>0, <4>1, <4>2, <4>5 DEF OpOK
        <3>4. ASSUME NEW i \in 1..Len(j.ops), NEW k \in 1..Len(j.ops), j.ops[i][1] = j.ops[k][1]
              PROVE  i = k
            <4>1. PICK x \in 1..Len(o.ops) : x = i + 1 /\ j.ops[i] = o.ops[x] BY Zenon, <3>2
            <4>2. PICK y \in 1..Len(o.ops) : y = k + 1 /\ j.ops[k] = o.ops[y] BY Zenon, <3>2
            <4>3. x = y BY Zenon, <1>3, <3>4, <4>1, <4>2 DEF UpdateOK
            <4> QED BY <3>2, <4>1, <4>2, <4>3
        <3>5. /\ IsInjective(o.rows) /\ \A x \in Range(o.rows) : infos'[x] # None
              /\ DOMAIN o.output \subseteq Range(o.rows)
              /\ \A k \in 1..Len(o.rows) : k >= o.step => o.rows[k] \notin DOMAIN o.output
              /\ o.ec # "success"
            BY Zenon, <1>3, <1>4, <2>0 DEF UpdateOK
        <3>6. UpdateOK(j)' BY Zenon, <1>13, <3>1, <3>3, <3>4, <3>5 DEF UpdateOK, Executed
        <3> QED BY Zenon, <1>1, <1>2, <1>13, <2>1, <3>6 DEF JobOK
    <2>2. CASE job # j
        <3>1. job \in Current /\ job \in Jobs /\ JobOK(job) /\ r \notin Held(job)
            BY Zenon, <1>1, <1>2, <1>3, <1>6, <1>15, <2>2, CurrentFacts DEF IInv
        <3>2. ASSUME NEW x \in Held(job)
              PROVE  db'[x] = db[x] /\ infos'[x] \in Nat /\ infos[x] <= infos'[x]
            <4>1. x \in Rows /\ infos[x] \in Nat /\ x # r BY Zenon, <3>1, <3>2, HeldFacts
            <4>2. infos[x] <= infos[x] BY <4>1
            <4> QED BY Zenon, <1>9, <2>0, <4>1, <4>2
        <3>3. \A x \in Rows : db[x] # None => db'[x] # None BY Zenon, <1>10, NoneFacts
        <3> QED BY Zenon, <1>1, <3>1, <3>2, <3>3, JobKept
    <2> QED BY Zenon, <2>1, <2>2
<1> QED BY Zenon, <1>10, <1>15, <1>16, <1>17, <1>18, <1>19, <1>20, <1>21 DEF IInv

\* Behind the last operation the update has succeeded.
LEMMA ExecuteInv ==
    ASSUME IInv, NEW w \in Workers, Execute(w)
    PROVE  IInv' /\ \A r \in Rows : db[r] # None => db'[r] \in Nat /\ db[r] <= db'[r]
<1>1. CASE work[w].ops # <<>> BY Zenon, <1>1, WriteInv
<1>2. CASE work[w].ops = <<>>
    <2>1. Typed /\ work[w] # None /\ work[w].kind \in Updates BY Zenon DEF IInv, Execute
    <2>2. PICK o \in UpdateJobs : o = work[w] BY Zenon, <2>1, UpdateFacts
    <2>3. UpdateOK(o) /\ o.ops = <<>> /\ o.step > Len(o.rows)
        BY Zenon, <1>2, <2>1, <2>2, UpdateFacts DEF Execute
    <2>4. PICK j : j = [o EXCEPT !.ec = "success"] BY Zenon
    <2>5. /\ j \in UpdateJobs /\ j \in Jobs /\ j.kind = o.kind /\ j.rows = o.rows /\ j.ops = o.ops
          /\ j.step = o.step /\ j.output = o.output /\ j.ec = "success"
        BY Zenon, <2>4 DEF UpdateJobs, Jobs, Codes
    <2>6. UpdateOK(j) BY <2>3, <2>5 DEF UpdateOK, OpOK, Executed
    <2>7. JobOK(j) /\ Held(j) \subseteq Held(work[w])
        BY Zenon, <2>1, <2>2, <2>5, <2>6 DEF JobOK, Held
    <2>8. /\ Finish(w, j) /\ jobs' = jobs /\ Quiet
          /\ UNCHANGED <<toDb, fromDb, aiList, maxId, call, budget>>
        BY Zenon, <1>2, <2>2, <2>4 DEF Execute, Quiet, owner
    <2>9. /\ aiList' \subseteq Users
          /\ budget' \in [versions : [Rows -> Nat], calls : Nat, failures : Nat]
        BY Zenon, <2>1, <2>8 DEF Typed
    <2>10. IInv' BY Zenon, <2>1, <2>5, <2>7, <2>8, <2>9, FinishInv
    <2>11. ASSUME NEW r \in Rows, db[r] # None PROVE db'[r] \in Nat /\ db[r] <= db'[r]
        <3>1. db[r] \in Nat /\ db'[r] = db[r] BY Zenon, <2>1, <2>8, <2>11 DEF Typed, Quiet
        <3> QED BY <3>1
    <2> QED BY Zenon, <2>10, <2>11
<1> QED BY Zenon, <1>1, <1>2

-----------------------------------------------------------------------------
(* The scheduler thread.                                                   *)

\* The first request of the channel.
LEMMA RequestFacts ==
    ASSUME IInv, toDb # <<>>, toDb' = Tail(toDb)
    PROVE  /\ Request \in Requests /\ RequestOK(Request) /\ toDb' \in Seq(Requests)
           /\ Range(toDb') \subseteq Range(toDb) /\ Range(toDb) \subseteq Requests
           /\ InOrder'
           /\ \A m \in Range(toDb'), r \in Sent(Request) :
                 r \in Sent(m) => Request.infos[r] <= m.infos[r]
<1>1. Typed /\ InOrder /\ toDb \in Seq(Requests) BY Zenon DEF IInv, Typed
<1>2. /\ Tail(toDb) \in Seq(Requests) /\ Len(Tail(toDb)) = Len(toDb) - 1 /\ Len(toDb) \in Nat \ {0}
      /\ \A i \in 1..Len(toDb) - 1 : Tail(toDb)[i] = toDb[i + 1] /\ i + 1 \in 1..Len(toDb)
      /\ Range(Tail(toDb)) \subseteq Range(toDb) /\ Head(toDb) \in Range(toDb)
      /\ Head(toDb) \in Requests /\ Head(toDb) = toDb[1] /\ 1 \in 1..Len(toDb)
    BY Zenon, <1>1, TailRange
<1>3. Request \in Requests /\ RequestOK(Request) BY Zenon, <1>2 DEF IInv, Request
<1>4. InOrder'
    <2>1. ASSUME NEW i \in 1..Len(toDb'), NEW k \in 1..Len(toDb'), i < k,
                 NEW r \in Sent(toDb'[i]) \cap Sent(toDb'[k])
          PROVE  toDb'[i].infos[r] <= toDb'[k].infos[r]
        <3>1. /\ toDb'[i] = toDb[i + 1] /\ toDb'[k] = toDb[k + 1] /\ i + 1 < k + 1
              /\ i + 1 \in 1..Len(toDb) /\ k + 1 \in 1..Len(toDb)
            BY <1>2, <2>1
        <3> QED BY Zenon, <1>1, <2>1, <3>1 DEF InOrder
    <2> QED BY Zenon, <2>1 DEF InOrder, Sent
<1>5. ASSUME NEW m \in Range(toDb'), NEW r \in Sent(Request), r \in Sent(m)
      PROVE  Request.infos[r] <= m.infos[r]
    <2>1. PICK t \in Seq(Requests) : t = toDb' BY Zenon, <1>2
    <2>0. Range(t) = {t[i] : i \in 1..Len(t)} BY Zenon, RangeDef
    <2>2. PICK i \in 1..Len(t) : m = t[i] BY Zenon, <1>5, <2>0, <2>1
    <2>3. m = toDb[i + 1] /\ i + 1 \in 1..Len(toDb) /\ 1 < i + 1 BY <1>2, <2>1, <2>2
    <2>4. Request = toDb[1] BY Zenon, <1>2 DEF Request
    <2> QED BY Zenon, <1>1, <1>2, <1>5, <2>3, <2>4 DEF InOrder
<1>6. Range(toDb) \subseteq Requests BY Zenon, <1>1, RangeDef
<1> QED BY Zenon, <1>2, <1>3, <1>4, <1>5, <1>6

\* The proxy hands a call to its workers.
LEMMA BeginCallInv == ASSUME IInv, BeginCall PROVE IInv'
<1>1. Typed /\ OneJobPerRow /\ toDb # <<>> /\ toDb' = Tail(toDb)
    BY Zenon DEF IInv, BeginCall, Begin
<1>2. /\ Request \in Requests /\ toDb' \in Seq(Requests) /\ Range(toDb') \subseteq Range(toDb)
      /\ InOrder'
    BY Zenon, <1>1, RequestFacts
<1>3. Request.kind \in Calls /\ Request.kind \notin Updates
    BY Zenon, KindFacts DEF BeginCall, Begin, Calls
<1>4. Request.user \in Users BY Zenon, <1>2, <1>3, KindFacts
<1>5. PICK j : /\ j = [kind |-> Request.kind, user |-> Request.user, step |-> 1, ec |-> None,
                       result |-> None]
               /\ jobs' = Append(jobs, j)
    BY Zenon DEF BeginCall, Begin
<1>6. /\ j \in CallJobs /\ j \in Jobs /\ j.kind \notin Updates /\ j.step = 1 /\ j.ec = None
    BY Zenon, <1>3, <1>4, <1>5 DEF CallJobs, Jobs, Codes, Results
<1>7. JobOK(j) /\ Held(j) = {}
    <2>1. ~(j.step >= 2) /\ ~(j.step >= 3) BY <1>6
    <2>2. CallOK(j) BY Zenon, <1>6, <2>1, NoneFacts DEF CallOK
    <2> QED BY Zenon, <1>6, <2>2 DEF JobOK, Held
<1>8. /\ work' = work /\ done' = done /\ Quiet
      /\ UNCHANGED <<aiList, maxId, call, fromDb, budget>>
    BY Zenon DEF BeginCall, Begin, Quiet, owner
<1>9. OneJobPerRow' /\ Current' = Current \cup {j} /\ jobs' \in Seq(Jobs)
    BY Zenon, <1>1, <1>5, <1>6, <1>7, <1>8, SlotsBegin
<1>10. Typed' BY Zenon, <1>1, <1>2, <1>8, <1>9 DEF Typed, Quiet
<1>11. \A r \in Rows : RowOK(r)' BY Zenon, <1>8, QuietKeeps DEF IInv
<1>12. \A m \in Range(toDb') : RequestOK(m)' BY Zenon, <1>2, <1>8, QuietKeeps DEF IInv
<1>13. \A a \in Range(fromDb') : AnswerOK(a)' BY Zenon, <1>8, QuietKeeps DEF IInv
<1>14. \A i \in Current' : JobOK(i)' BY Zenon, <1>7, <1>8, <1>9, QuietKeeps DEF IInv
<1> QED BY Zenon, <1>2, <1>9, <1>10, <1>11, <1>12, <1>13, <1>14 DEF IInv

\* The rows of an update enter the cache, or are changed in it; those that were
\* not cached get a job.
LEMMA BeginUpdateInv ==
    ASSUME IInv, NEW kind \in Updates, BeginUpdate(kind) PROVE IInv'
<1>1. Typed /\ OneJobPerRow /\ toDb # <<>> /\ toDb' = Tail(toDb)
    BY Zenon DEF IInv, BeginUpdate, Begin
<1>2. /\ Request \in Requests /\ toDb' \in Seq(Requests) /\ Range(toDb') \subseteq Range(toDb)
      /\ Range(toDb) \subseteq Requests /\ InOrder' /\ RequestOK(Request)
      /\ \A m \in Range(toDb'), r \in Sent(Request) :
            r \in Sent(m) => Request.infos[r] <= m.infos[r]
    BY Zenon, <1>1, RequestFacts
<1>3. PICK g \in Versions : g = Request.infos /\ Sent(Request) = DOMAIN g
    BY Zenon, <1>2, KindFacts DEF BeginUpdate, Sent
<1>4. DOMAIN g \subseteq Rows /\ \A r \in DOMAIN g : g[r] \in Nat BY Zenon, VersionsFacts
<1>5. \A r \in DOMAIN g : /\ r[2] \in known /\ db[r] <= g[r] /\ g[r] <= ver[r]
                          /\ infos[r] # None => infos[r] <= g[r]
    BY Zenon, <1>2, <1>3 DEF RequestOK
<1>6. /\ infos' \in [Rows -> Nat \cup {None}]
      /\ \A r \in DOMAIN g : infos'[r] = g[r]
      /\ \A r \in Rows \ DOMAIN g : infos'[r] = infos[r]
    BY Zenon, <1>1, <1>3, <1>4 DEF BeginUpdate, Typed
<1>7. UNCHANGED <<db, aiList, owner, fromDb, work, done, budget>>
    BY Zenon DEF BeginUpdate, Begin, pool
<1>8. UNCHANGED <<db, aiList, ver, verdb, known, maxId, call, fromDb, work, done, budget>>
    BY Zenon, <1>7 DEF owner
<1>9. \A r \in Rows : RowOK(r)'
    <2>1. ASSUME NEW r \in Rows \ DOMAIN g PROVE RowOK(r)' BY Zenon, <1>6, <1>8 DEF IInv, RowOK
    <2>2. ASSUME NEW r \in DOMAIN g PROVE RowOK(r)'
        <3>1. RowOK(r) BY Zenon, <1>4 DEF IInv
        <3> QED BY Zenon, <1>5, <1>6, <1>8, <3>1 DEF RowOK
    <2> QED BY Zenon, <2>1, <2>2
<1>10. ASSUME NEW m \in Range(toDb') PROVE RequestOK(m)'
    <2>1. RequestOK(m) /\ m \in Requests BY Zenon, <1>2 DEF IInv
    <2>2. ASSUME NEW r \in Sent(m) PROVE infos'[r] # None => infos'[r] <= m.infos[r]
        <3>1. r \in Rows BY Zenon, <2>1, <2>2, KindFacts, VersionsFacts DEF Sent
        <3>2. CASE r \in DOMAIN g BY Zenon, <1>2, <1>3, <1>6, <2>2, <3>2
        <3>3. CASE r \notin DOMAIN g BY Zenon, <1>6, <2>1, <2>2, <3>1, <3>3 DEF RequestOK
        <3> QED BY Zenon, <3>2, <3>3
    <2> QED BY Zenon, <1>8, <2>1, <2>2 DEF RequestOK, Sent
<1>11. ASSUME NEW a \in Range(fromDb') PROVE AnswerOK(a)' BY Zenon, <1>8 DEF IInv, AnswerOK, BothRows
<1>12. ASSUME NEW i \in Current PROVE JobOK(i)'
    <2>1. i \in Jobs /\ JobOK(i) BY Zenon, <1>1, CurrentFacts DEF IInv
    <2>2. ASSUME NEW r \in Held(i)
          PROVE  db'[r] = db[r] /\ infos'[r] \in Nat /\ infos[r] <= infos'[r]
        <3>1. r \in Rows /\ infos[r] \in Nat /\ infos[r] # None BY Zenon, <2>2, HeldFacts, NoneFacts
        <3>2. CASE r \in DOMAIN g BY Zenon, <1>4, <1>5, <1>6, <1>8, <3>1, <3>2
        <3>3. CASE r \notin DOMAIN g BY <1>6, <1>8, <3>1, <3>3
        <3> QED BY Zenon, <3>2, <3>3
    <2> QED BY Zenon, <1>1, <1>8, <2>1, <2>2, JobKept
<1>13. CASE Fresh(Request.infos) = {}
    <2>1. jobs' = jobs BY Zenon, <1>13 DEF BeginUpdate, pool
    <2>2. OneJobPerRow' /\ Current' = Current BY Zenon, <1>1, <1>8, <2>1, SlotsSame
    <2>3. Typed' BY Zenon, <1>1, <1>2, <1>6, <1>8, <2>1 DEF Typed
    <2> QED BY Zenon, <1>2, <1>9, <1>10, <1>11, <1>12, <2>2, <2>3 DEF IInv
<1>14. CASE Fresh(Request.infos) # {}
    <2>1. PICK F : F = Fresh(Request.infos) BY Zenon
    <2>2. F \subseteq Rows /\ F \subseteq DOMAIN g /\ \A r \in F : infos[r] = None
        BY Zenon, <1>3, <1>4, <2>1 DEF Fresh
    <2>3. PICK rows \in Orders(F) : jobs' = Append(jobs, UpdateJob(kind, rows))
        BY Zenon, <1>14, <2>1 DEF BeginUpdate, Begin
    <2>4. rows \in Seq(F) /\ IsInjective(rows) /\ Range(rows) = F BY Zenon, OrderFacts
    <2>5. PICK j : j = UpdateJob(kind, rows) /\ jobs' = Append(jobs, j) BY Zenon, <2>3
    <2>6. /\ j.kind = kind /\ j.rows = rows /\ j.step = 1 /\ j.ec = None
          /\ j.output = [r \in {} |-> 0] /\ j.ops = <<>>
        BY Zenon, <2>5 DEF UpdateJob
    <2>7. j \in UpdateJobs /\ j \in Jobs
        <3>1. rows \in Seq(Rows) BY Zenon, <2>2, <2>4, WiderSeq
        <3>2. PICK g0 \in Versions : g0 = [r \in {} |-> 0]
            <4>1. {} \in SUBSET Rows /\ [r \in {} |-> 0] \in [{} -> Nat] BY Zenon
            <4> QED BY Zenon, <4>1, VersionsFacts
        <3>3. PICK e \in Seq(Rows \X Nat) : e = <<>> BY Zenon, EmptyLen
        <3>4. j = [kind |-> kind, rows |-> rows, step |-> 1, ec |-> None, output |-> g0, ops |-> e]
            BY Zenon, <2>5, <3>2, <3>3 DEF UpdateJob
        <3>5. j \in UpdateJobs BY <3>1, <3>4 DEF UpdateJobs, Codes
        <3> QED BY Zenon, <3>5 DEF Jobs
    <2>8. Held(j) \subseteq F BY Zenon, <2>4, <2>6 DEF Held
    <2>9. ASSUME NEW i \in Current PROVE Held(i) \cap Held(j) = {}
        BY Zenon, <2>2, <2>8, HeldFacts, NoneFacts
    <2>10. OneJobPerRow' /\ Current' = Current \cup {j} /\ jobs' \in Seq(Jobs)
        BY Zenon, <1>1, <1>8, <2>5, <2>7, <2>9, SlotsBegin
    <2>11. JobOK(j)'
        <3>1. \A r \in Range(j.rows) : infos'[r] # None
            BY Zenon, <1>4, <1>6, <2>2, <2>4, <2>6, NoneFacts
        <3>2. DOMAIN j.output = {} /\ Len(j.ops) = 0 /\ 1..0 = {} BY <2>6
        <3>3. UpdateOK(j)' BY Zenon, <2>4, <2>6, <3>1, <3>2, NoneFacts DEF UpdateOK
        <3> QED BY Zenon, <2>6, <3>3 DEF JobOK
    <2>12. Typed' BY Zenon, <1>1, <1>2, <1>6, <1>8, <2>10 DEF Typed
    <2> QED BY Zenon, <1>2, <1>9, <1>10, <1>11, <1>12, <2>10, <2>11, <2>12 DEF IInv
<1> QED BY Zenon, <1>13, <1>14

\* The coroutine of a finished call answers.
LEMMA AnswerCallInv == ASSUME IInv, AnswerCall PROVE IInv'
<1>1. Typed /\ OneJobPerRow BY Zenon DEF IInv
<1>2. /\ done # <<>> /\ done' = Tail(done) /\ UNCHANGED <<work, jobs, toDb>> /\ Quiet
      /\ UNCHANGED <<aiList, maxId, call, budget>>
    BY Zenon DEF AnswerCall, Quiet, owner
<1>3. /\ OneJobPerRow' /\ Current' \subseteq Current /\ done' \in Seq(Jobs)
      /\ Head(done) \in Current /\ Head(done) \in Jobs
    BY Zenon, <1>1, <1>2, SlotsEnd
<1>4. PICK j \in Jobs : j = Head(done) /\ j.kind \notin Updates /\ JobOK(j)
    BY Zenon, <1>3 DEF AnswerCall, IInv
<1>5. j \in CallJobs /\ CallOK(j) BY Zenon, <1>4, KindFacts DEF JobOK
<1>6. PICK a : /\ a = [kind |-> j.kind, ec |-> j.ec, user |-> j.user, result |-> j.result]
               /\ fromDb' = Append(fromDb, a)
    BY Zenon, <1>4 DEF AnswerCall
<1>7. /\ a \in Answers /\ a.kind = j.kind /\ a.ec = j.ec /\ a.user = j.user /\ a.result = j.result
    BY Zenon, <1>5, <1>6 DEF CallJobs, Answers
<1>8. AnswerOK(a) BY Zenon, <1>4, <1>5, <1>7 DEF AnswerOK, CallOK
<1>9. fromDb' \in Seq(Answers) /\ Range(fromDb') = Range(fromDb) \cup {a}
    BY <1>1, <1>6, <1>7, AppendRange DEF Typed
<1>10. Typed' BY Zenon, <1>1, <1>2, <1>3, <1>9 DEF Typed, Quiet
<1>11. \A r \in Rows : RowOK(r)' BY Zenon, <1>2, QuietKeeps DEF IInv
<1>12. \A m \in Range(toDb') : RequestOK(m)' BY Zenon, <1>2, QuietKeeps DEF IInv
<1>13. InOrder' BY Zenon, <1>2 DEF IInv, InOrder, Sent
<1>14. \A b \in Range(fromDb') : AnswerOK(b)' BY Zenon, <1>2, <1>8, <1>9, QuietKeeps DEF IInv
<1>15. \A i \in Current' : JobOK(i)' BY Zenon, <1>2, <1>3, QuietKeeps DEF IInv
<1> QED BY Zenon, <1>3, <1>10, <1>11, <1>12, <1>13, <1>14, <1>15 DEF IInv

\* The rows of a finished update leave the cache; no other job has them.
LEMMA EndUpdateInv ==
    ASSUME IInv, NEW kind \in Updates, EndUpdate(kind) PROVE IInv'
<1>1. Typed /\ OneJobPerRow BY Zenon DEF IInv
<1>2. /\ done # <<>> /\ done' = Tail(done)
      /\ UNCHANGED <<db, aiList, ver, verdb, known, maxId, call, toDb, jobs, work, budget>>
    BY Zenon DEF EndUpdate, owner
<1>3. /\ OneJobPerRow' /\ Current' \subseteq Current /\ done' \in Seq(Jobs)
      /\ Head(done) \in Current /\ Head(done) \in Jobs
      /\ \A i \in Current' : Held(i) \cap Held(Head(done)) = {}
    BY Zenon, <1>1, <1>2, SlotsEnd
<1>4. PICK j \in Jobs : j = Head(done) /\ j.kind = kind /\ JobOK(j)
    BY Zenon, <1>3 DEF EndUpdate, IInv
<1>5. j \in UpdateJobs /\ UpdateOK(j) /\ Held(j) = Range(j.rows)
    BY Zenon, <1>4, KindFacts DEF JobOK, Held
<1>6. \A r \in Held(j) : r \in Rows /\ r[2] \in known BY Zenon, <1>3, <1>4, HeldFacts
<1>7. /\ infos' \in [Rows -> Nat \cup {None}]
      /\ \A r \in Held(j) : infos'[r] = None
      /\ \A r \in Rows \ Held(j) : infos'[r] = infos[r]
    BY Zenon, <1>1, <1>4, <1>5, <1>6 DEF EndUpdate, Typed
<1>8. \A r \in Rows : RowOK(r)'
    <2>1. ASSUME NEW r \in Rows PROVE RowOK(r)' BY Zenon, <1>2, <1>7 DEF IInv, RowOK
    <2> QED BY Zenon, <2>1
<1>9. ASSUME NEW m \in Range(toDb') PROVE RequestOK(m)'
    <2>1. m \in Range(toDb) /\ m \in Requests BY Zenon, <1>1, <1>2, RangeDef DEF Typed
    <2>2. \A r \in Sent(m) : r \in Rows BY Zenon, <2>1, KindFacts, VersionsFacts DEF Sent
    <2> QED BY Zenon, <1>2, <1>7, <2>1, <2>2 DEF IInv, RequestOK, Sent
<1>10. InOrder' BY Zenon, <1>2 DEF IInv, InOrder, Sent
<1>11. ASSUME NEW i \in Current' PROVE JobOK(i)'
    <2>1. i \in Current /\ i \in Jobs /\ JobOK(i) BY Zenon, <1>1, <1>3, CurrentFacts DEF IInv
    <2>2. ASSUME NEW r \in Held(i)
          PROVE  db'[r] = db[r] /\ infos'[r] \in Nat /\ infos[r] <= infos'[r]
        <3>1. r \in Rows /\ infos[r] \in Nat BY Zenon, <2>1, <2>2, HeldFacts
        <3>2. infos'[r] = infos[r] BY Zenon, <1>3, <1>4, <1>7, <2>2, <3>1
        <3> QED BY <1>2, <3>1, <3>2
    <2> QED BY Zenon, <1>1, <1>2, <2>1, <2>2, JobKept
<1>12. \A a : AnswerOK(a) => AnswerOK(a)' BY Zenon, <1>2 DEF AnswerOK, BothRows
<1>13. CASE j.ec = "success"
    <2>1. PICK a : a = [kind |-> kind, infos |-> j.output] /\ fromDb' = Append(fromDb, a)
        BY Zenon, <1>4, <1>13 DEF EndUpdate
    <2>2. a \in Answers /\ a.kind = kind /\ a.infos = j.output
        BY Zenon, <1>5, <2>1 DEF UpdateJobs, Answers
    <2>3. ASSUME NEW r \in DOMAIN a.infos PROVE r[2] \in known /\ a.infos[r] <= db[r]
        <3>1. r \in DOMAIN j.output /\ r \in Held(j) /\ j.ops = <<>>
            BY Zenon, <1>5, <1>13, <2>2, <2>3 DEF UpdateOK
        <3>2. Len(j.ops) = 0 /\ 1..0 = {} BY <3>1
        <3>3. Executed(j, r) BY Zenon, <3>2 DEF Executed
        <3>4. j.output[r] <= db[r] BY Zenon, <1>5, <3>1, <3>3 DEF UpdateOK
        <3> QED BY Zenon, <1>6, <2>2, <3>1, <3>4
    <2>4. AnswerOK(a) BY Zenon, <2>2, <2>3 DEF AnswerOK, Updates
    <2>5. fromDb' \in Seq(Answers) /\ Range(fromDb') = Range(fromDb) \cup {a}
        BY <1>1, <2>1, <2>2, AppendRange DEF Typed
    <2>6. \A b \in Range(fromDb') : AnswerOK(b)' BY Zenon, <1>12, <2>4, <2>5 DEF IInv
    <2>7. Typed' BY Zenon, <1>1, <1>2, <1>3, <1>7, <2>5 DEF Typed
    <2> QED BY Zenon, <1>3, <1>8, <1>9, <1>10, <1>11, <2>6, <2>7 DEF IInv
<1>14. CASE j.ec # "success"
    <2>1. fromDb' = fromDb BY Zenon, <1>4, <1>14 DEF EndUpdate
    <2>2. \A b \in Range(fromDb') : AnswerOK(b)' BY Zenon, <1>12, <2>1 DEF IInv
    <2>3. Typed' BY Zenon, <1>1, <1>2, <1>3, <1>7, <2>1 DEF Typed
    <2> QED BY Zenon, <1>3, <1>8, <1>9, <1>10, <1>11, <2>2, <2>3 DEF IInv
<1> QED BY Zenon, <1>13, <1>14

-----------------------------------------------------------------------------
(* The owner.                                                              *)

\* The owner changes a row.
LEMMA ChangeInv == ASSUME IInv, NEW r \in Rows, Change(r) PROVE IInv'
<1>1. Typed /\ OneJobPerRow BY Zenon DEF IInv
<1>2. UNCHANGED <<db, aiList, verdb, known, maxId, call, toDb, fromDb, infos, jobs, work, done>>
    BY Zenon DEF Change, pool
<1>3. /\ ver' \in [Rows -> Nat] /\ \A x \in Rows : ver[x] \in Nat /\ ver[x] <= ver'[x]
    BY SMTT(30), <1>1 DEF Change, Typed
<1>4. budget' \in [versions : [Rows -> Nat], calls : Nat, failures : Nat]
    <2>1. budget \in [versions : [Rows -> Nat], calls : Nat, failures : Nat] BY Zenon, <1>1 DEF Typed
    <2>2. budget.versions[r] \in Nat /\ budget.versions[r] > 0 BY Zenon, <2>1 DEF Change
    <2>3. PICK n \in Nat : n = budget.versions[r] - 1 BY <2>2
    <2>4. budget' = [budget EXCEPT !.versions = [budget.versions EXCEPT ![r] = n]]
        BY Zenon, <2>1, <2>3 DEF Change
    <2> QED BY Zenon, <2>1, <2>4
<1>5. Typed' BY Zenon, <1>1, <1>2, <1>3, <1>4 DEF Typed
<1>6. OneJobPerRow' /\ Current' = Current BY Zenon, <1>1, <1>2, SlotsSame
<1>7. ASSUME NEW x \in Rows PROVE RowOK(x)'
    <2>1. RowOK(x) /\ db[x] \in Nat \cup {None} /\ infos[x] \in Nat \cup {None} /\ ver'[x] \in Nat
        BY Zenon, <1>1, <1>3 DEF IInv, Typed
    <2>2. db[x] # None => db[x] <= ver'[x] BY <1>3, <2>1 DEF RowOK
    <2>3. infos[x] # None => infos[x] <= ver'[x] BY <1>3, <2>1 DEF RowOK
    <2> QED BY Zenon, <1>2, <2>1, <2>2, <2>3 DEF RowOK
<1>8. ASSUME NEW m \in Range(toDb') PROVE RequestOK(m)'
    <2>1. m \in Range(toDb) /\ m \in Requests BY Zenon, <1>1, <1>2, RangeDef DEF Typed
    <2>2. RequestOK(m) BY Zenon, <2>1 DEF IInv
    <2>3. ASSUME NEW x \in Sent(m) PROVE m.infos[x] <= ver'[x]
        <3>1. x \in Rows /\ m.infos[x] \in Nat BY Zenon, <2>1, <2>3, KindFacts, VersionsFacts DEF Sent
        <3>2. m.infos[x] <= ver[x] BY Zenon, <2>2, <2>3 DEF RequestOK
        <3>3. ver[x] \in Nat /\ ver'[x] \in Nat /\ ver[x] <= ver'[x] BY Zenon, <1>3, <3>1
        <3> QED BY <3>1, <3>2, <3>3
    <2> QED BY Zenon, <1>2, <2>2, <2>3 DEF RequestOK, Sent
<1>9. InOrder' BY Zenon, <1>2 DEF IInv, InOrder, Sent
<1>10. ASSUME NEW a \in Range(fromDb') PROVE AnswerOK(a)' BY Zenon, <1>2 DEF IInv, AnswerOK, BothRows
<1>11. ASSUME NEW i \in Current' PROVE JobOK(i)'
    BY Zenon, <1>2, <1>6 DEF IInv, JobOK, CallOK, UpdateOK, OpOK, Executed, BothRows
<1> QED BY Zenon, <1>5, <1>6, <1>7, <1>8, <1>9, <1>10, <1>11 DEF IInv

\* The owner sends a request that is not behind those it sent before.
LEMMA RequestSent ==
    ASSUME IInv, NEW m \in Requests, RequestOK(m), toDb' = Append(toDb, m), Quiet,
           \A r \in Sent(m) : m.infos[r] = ver[r],
           UNCHANGED <<aiList, fromDb, jobs, work, done>>,
           maxId' \in {0, None} \cup Users, call' \in Calls \cup {None},
           budget' \in [versions : [Rows -> Nat], calls : Nat, failures : Nat]
    PROVE  IInv'
<1>1. Typed /\ OneJobPerRow /\ toDb \in Seq(Requests) BY Zenon DEF IInv, Typed
<1>2. /\ toDb' \in Seq(Requests) /\ Range(toDb') = Range(toDb) \cup {m}
      /\ Len(toDb') = Len(toDb) + 1 /\ Len(toDb) \in Nat
      /\ \A i \in 1..Len(toDb) : toDb'[i] = toDb[i]
      /\ toDb'[Len(toDb) + 1] = m
    BY <1>1, AppendRange
<1>3. Typed' BY Zenon, <1>1, <1>2 DEF Typed, Quiet
<1>4. OneJobPerRow' /\ Current' = Current BY Zenon, <1>1, SlotsSame
<1>5. ASSUME NEW i \in 1..Len(toDb'), NEW k \in 1..Len(toDb'), i < k,
             NEW r \in Sent(toDb'[i]) \cap Sent(toDb'[k])
      PROVE  toDb'[i].infos[r] <= toDb'[k].infos[r]
    <2>1. i \in 1..Len(toDb) /\ toDb'[i] = toDb[i] BY <1>2, <1>5
    <2>2. CASE k \in 1..Len(toDb)
        <3>1. toDb'[k] = toDb[k] BY Zenon, <1>2, <2>2
        <3> QED BY Zenon, <1>5, <2>1, <2>2, <3>1 DEF IInv, InOrder
    <2>3. CASE k = Len(toDb) + 1
        <3>1. toDb'[k] = m BY Zenon, <1>2, <2>3
        <3>2. toDb[i] \in Range(toDb) BY <1>1, <2>1, RangeDef
        <3>3. toDb[i].infos[r] <= ver[r] BY Zenon, <1>5, <2>1, <3>2 DEF IInv, RequestOK
        <3> QED BY Zenon, <1>5, <2>1, <3>1, <3>3
    <2> QED BY <1>2, <2>2, <2>3
<1>6. InOrder' BY Zenon, <1>5 DEF InOrder, Sent
<1>7. \A r \in Rows : RowOK(r)' BY Zenon, QuietKeeps DEF IInv
<1>8. \A n \in Range(toDb') : RequestOK(n)' BY Zenon, <1>2, QuietKeeps DEF IInv
<1>9. \A a \in Range(fromDb') : AnswerOK(a)' BY Zenon, QuietKeeps DEF IInv
<1>10. \A j \in Current' : JobOK(j)' BY Zenon, <1>4, QuietKeeps DEF IInv
<1> QED BY Zenon, <1>3, <1>4, <1>6, <1>7, <1>8, <1>9, <1>10 DEF IInv

\* The owner sends its rows.
LEMMA SendUpdateInv == ASSUME IInv, NEW kind \in Updates, SendUpdate(kind) PROVE IInv'
<1>1. Typed BY Zenon DEF IInv
<1>2. PICK rows : rows = Dirty(TableOf(kind)) BY Zenon
<1>3. rows \subseteq Rows /\ \A r \in rows : r[2] \in known
    BY Zenon, <1>2 DEF Dirty, RowsOf, Rows, Tables, TableOf
<1>4. PICK g : g = [r \in rows |-> ver[r]] BY Zenon
<1>5. g \in [rows -> Nat] /\ g \in Versions /\ DOMAIN g = rows /\ \A r \in rows : g[r] = ver[r]
    <2>1. g \in [rows -> Nat] BY Zenon, <1>1, <1>3, <1>4 DEF Typed
    <2> QED BY Zenon, <1>3, <1>4, <2>1, VersionsFacts
<1>6. PICK m : m = [kind |-> kind, infos |-> g] /\ toDb' = Append(toDb, m)
    BY Zenon, <1>2, <1>4 DEF SendUpdate
<1>7. m \in Requests /\ Sent(m) = rows /\ m.infos = g BY Zenon, <1>5, <1>6 DEF Requests, Sent
<1>8. RequestOK(m)
    <2>1. ASSUME NEW r \in rows
          PROVE  /\ r[2] \in known /\ db[r] <= ver[r]
                 /\ infos[r] # None => infos[r] <= ver[r]
        BY Zenon, <1>3 DEF IInv, RowOK
    <2>2. \A r \in rows : ver[r] <= ver[r] BY <1>1, <1>3 DEF Typed
    <2> QED BY Zenon, <1>5, <1>7, <2>1, <2>2 DEF RequestOK
<1>9. /\ Quiet /\ UNCHANGED <<aiList, fromDb, jobs, work, done, maxId, call, budget>>
    BY Zenon DEF SendUpdate, Quiet, owner, pool
<1>10. /\ maxId' \in {0, None} \cup Users /\ call' \in Calls \cup {None}
       /\ budget' \in [versions : [Rows -> Nat], calls : Nat, failures : Nat]
    BY Zenon, <1>1, <1>9 DEF Typed
<1>11. \A r \in Sent(m) : m.infos[r] = ver[r] BY Zenon, <1>5, <1>7
<1> QED BY Zenon, <1>6, <1>7, <1>8, <1>9, <1>10, <1>11, RequestSent

\* The owner asks for a query or for a new user.
LEMMA CallInv == ASSUME IInv, NEW kind \in Calls, NEW u \in Users, Call(kind, u) PROVE IInv'
<1>1. Typed BY Zenon DEF IInv
<1>2. PICK m : m = [kind |-> kind, user |-> u] /\ toDb' = Append(toDb, m) BY Zenon DEF Call
<1>3. m \in Requests /\ Sent(m) = {} BY Zenon, <1>2, KindFacts DEF Requests, Sent
<1>4. RequestOK(m) BY Zenon, <1>3 DEF RequestOK
<1>5. Quiet /\ UNCHANGED <<aiList, fromDb, jobs, work, done>> BY Zenon DEF Call, Quiet, pool
<1>6. maxId' \in {0, None} \cup Users /\ call' \in Calls \cup {None} BY Zenon, <1>1 DEF Call, Typed
<1>7. budget' \in [versions : [Rows -> Nat], calls : Nat, failures : Nat]
    <2>1. budget \in [versions : [Rows -> Nat], calls : Nat, failures : Nat] BY Zenon, <1>1 DEF Typed
    <2>2. budget.calls \in Nat /\ budget.calls > 0 BY Zenon, <2>1 DEF Call
    <2>3. PICK n \in Nat : n = budget.calls - 1 BY <2>2
    <2>4. budget' = [budget EXCEPT !.calls = n] BY Zenon, <2>3 DEF Call
    <2> QED BY Zenon, <2>1, <2>4
<1> QED BY Zenon, <1>2, <1>3, <1>4, <1>5, <1>6, <1>7, RequestSent

\* A report sets version_db, an answer ends the call and may make a user known.
LEMMA OwnerReceivesInv == ASSUME IInv, OwnerReceives PROVE IInv'
<1>1. Typed /\ OneJobPerRow /\ fromDb # <<>> /\ fromDb \in Seq(Answers)
    BY Zenon DEF IInv, OwnerReceives, Typed
<1>2. /\ fromDb' \in Seq(Answers) /\ Range(fromDb') \subseteq Range(fromDb)
      /\ Head(fromDb) \in Range(fromDb) /\ Head(fromDb) \in Answers
    BY Zenon, <1>1, TailRange DEF OwnerReceives
<1>3. PICK a \in Answers : a = Head(fromDb) /\ AnswerOK(a) BY Zenon, <1>2 DEF IInv
<1>4. UNCHANGED <<db, aiList, ver, toDb, infos, jobs, work, done, budget>>
    BY Zenon DEF OwnerReceives, pool
<1>5. OneJobPerRow' /\ Current' = Current BY Zenon, <1>1, <1>4, SlotsSame
<1>6. InOrder' BY Zenon, <1>4 DEF IInv, InOrder, Sent
<1>7. ASSUME known \subseteq known'
      PROVE  /\ \A m \in Range(toDb') : RequestOK(m)'
             /\ \A b \in Range(fromDb') : AnswerOK(b)'
             /\ \A j \in Current' : JobOK(j)'
    <2>1. \A m : RequestOK(m) => RequestOK(m)' BY Zenon, <1>4, <1>7 DEF RequestOK, Sent
    <2>2. \A b : AnswerOK(b) => AnswerOK(b)' BY Zenon, <1>4, <1>7 DEF AnswerOK, BothRows
    <2>3. \A j : CallOK(j) => CallOK(j)' BY Zenon, <1>4 DEF CallOK, BothRows
    <2>4. \A j : UpdateOK(j) => UpdateOK(j)' BY Zenon, <1>4 DEF UpdateOK, OpOK, Executed
    <2>5. \A j : JobOK(j) => JobOK(j)' BY Zenon, <2>3, <2>4 DEF JobOK
    <2> QED BY Zenon, <1>2, <1>4, <1>5, <2>1, <2>2, <2>5 DEF IInv
<1>8. CASE a.kind \in Updates
    <2>1. /\ verdb' = [r \in Rows |-> IF r \in DOMAIN a.infos THEN a.infos[r] ELSE verdb[r]]
          /\ UNCHANGED <<known, maxId, call>>
        BY Zenon, <1>3, <1>8 DEF OwnerReceives
    <2>2. a.infos \in Versions BY Zenon, <1>8, KindFacts
    <2>3. \A r \in DOMAIN a.infos : /\ r \in Rows /\ a.infos[r] \in Nat
                                    /\ r[2] \in known /\ a.infos[r] <= db[r]
        BY Zenon, <1>3, <1>8, <2>2, VersionsFacts DEF AnswerOK
    <2>4. verdb' \in [Rows -> Nat] BY Zenon, <1>1, <2>1, <2>3 DEF Typed
    <2>5. Typed' BY Zenon, <1>1, <1>2, <1>4, <2>1, <2>4 DEF Typed
    <2>6. ASSUME NEW r \in Rows PROVE RowOK(r)'
        <3>1. RowOK(r) BY Zenon DEF IInv
        <3>2. CASE r \in DOMAIN a.infos BY Zenon, <1>4, <2>1, <2>3, <3>1, <3>2 DEF RowOK
        <3>3. CASE r \notin DOMAIN a.infos BY Zenon, <1>4, <2>1, <3>1, <3>3 DEF RowOK
        <3> QED BY Zenon, <3>2, <3>3
    <2> QED BY Zenon, <1>5, <1>6, <1>7, <2>1, <2>5, <2>6 DEF IInv
<1>9. CASE a.kind \notin Updates
    <2>1. /\ call' = None /\ verdb' = verdb
          /\ known' = IF a.kind = "create_user" /\ a.ec = "success" THEN known \cup {a.user} ELSE known
          /\ maxId' = IF a.kind = "query_max_userid" /\ a.ec = "success" THEN a.result ELSE maxId
        BY Zenon, <1>3, <1>9 DEF OwnerReceives
    <2>2. a.user \in Users BY Zenon, <1>9, KindFacts
    <2>3. known \subseteq known' /\ known' \subseteq Users BY Zenon, <1>1, <2>1, <2>2 DEF Typed
    <2>4. maxId' \in {0, None} \cup Users BY Zenon, <1>1, <1>3, <2>1 DEF Typed, AnswerOK
    <2>5. Typed' BY Zenon, <1>1, <1>2, <1>4, <2>1, <2>3, <2>4 DEF Typed
    <2>6. ASSUME NEW r \in Rows PROVE RowOK(r)'
        <3>1. RowOK(r) /\ db[r] \in Nat \cup {None} BY Zenon, <1>1 DEF IInv, Typed
        <3>2. CASE r[2] \in known \/ r[2] \notin known'
            BY Zenon, <1>4, <2>1, <2>3, <3>1, <3>2 DEF RowOK
        <3>3. CASE r[2] \notin known /\ r[2] \in known'
            <4>1. BothRows(a.user) /\ r[2] = a.user BY Zenon, <1>3, <2>1, <3>3 DEF AnswerOK
            <4>2. db[r] # None BY Zenon, <4>1, RowFacts DEF BothRows
            <4>3. verdb[r] = 0 /\ 0 <= db[r] BY <3>1, <3>3, <4>2 DEF RowOK
            <4> QED BY Zenon, <1>4, <2>1, <3>1, <3>3, <4>2, <4>3 DEF RowOK
        <3> QED BY Zenon, <3>2, <3>3
    <2> QED BY Zenon, <1>5, <1>6, <1>7, <2>3, <2>5, <2>6 DEF IInv
<1> QED BY Zenon, <1>8, <1>9

-----------------------------------------------------------------------------
(* The theorems.                                                           *)

\* The proxy starts with an empty cache.
LEMMA InitInv == ASSUME Init PROVE IInv
<1>1. /\ Range(<<>>) = {} /\ Len(<<>>) = 0 /\ 1..0 = {} BY EmptyFacts
<1>2. toDb = <<>> /\ fromDb = <<>> /\ jobs = <<>> /\ done = <<>>
      /\ \A w \in Workers : work[w] = None
    BY Zenon DEF Init
<1>3. /\ toDb \in Seq(Requests) /\ fromDb \in Seq(Answers) /\ jobs \in Seq(Jobs) /\ done \in Seq(Jobs)
    BY <1>2
<1>4. budget \in [versions : [Rows -> Nat], calls : Nat, failures : Nat]
    BY Zenon, DbProxyAssumption DEF Init, Rows, Tables, Users
<1>5. known \subseteq Users BY Zenon, DbProxyAssumption DEF Init, Users
<1>6. Typed BY Zenon, <1>3, <1>4, <1>5 DEF Init, Typed
<1>7. \A r \in Rows : RowOK(r) BY NoneFacts DEF Init, RowOK
<1>8. Slots = {} /\ Current = {} BY Zenon, <1>1, <1>2 DEF Slots, Current
<1>9. OneJobPerRow /\ \A j \in Current : JobOK(j) BY Zenon, <1>8 DEF OneJobPerRow
<1>10. InOrder BY Zenon, <1>1, <1>2 DEF InOrder
<1> QED BY Zenon, <1>1, <1>2, <1>6, <1>7, <1>9, <1>10 DEF IInv

\* The steps of a worker.
LEMMA WorkerInv ==
    ASSUME IInv, NEW w \in Workers, WorkerStep(w) \/ Throw(w)
    PROVE  IInv'
BY Zenon, TakeJobInv, InsertsInv, QueriesInv, ReadRowInv, ExecuteInv, ThrowInv DEF WorkerStep

\* Every step keeps the invariant.
LEMMA NextInv == ASSUME IInv, Next PROVE IInv'
<1>1. CASE \E r \in Rows : Change(r) BY Zenon, <1>1, ChangeInv
<1>2. CASE \E kind \in Updates : SendUpdate(kind) BY Zenon, <1>2, SendUpdateInv
<1>3. CASE \E kind \in Queries \cup {"create_user"}, u \in Users : Call(kind, u)
    BY Zenon, <1>3, CallInv DEF Calls
<1>4. CASE OwnerReceives BY Zenon, <1>4, OwnerReceivesInv
<1>5. CASE BeginStep
    <2>1. "update_user" \in Updates /\ "update_account" \in Updates BY Zenon DEF Updates
    <2> QED BY Zenon, <1>5, <2>1, BeginCallInv, BeginUpdateInv
            DEF BeginStep, BeginUpdateUser, BeginUpdateAccount
<1>6. CASE EndStep
    <2>1. "update_user" \in Updates /\ "update_account" \in Updates BY Zenon DEF Updates
    <2> QED BY Zenon, <1>6, <2>1, AnswerCallInv, EndUpdateInv
            DEF EndStep, EndUpdateUser, EndUpdateAccount
<1>7. CASE \E w \in Workers : WorkerStep(w) \/ Throw(w) BY Zenon, <1>7, WorkerInv
<1> QED BY Zenon, <1>1, <1>2, <1>3, <1>4, <1>5, <1>6, <1>7 DEF Next

\* A step that changes nothing keeps it.
LEMMA StutterInv == ASSUME IInv, UNCHANGED vars PROVE IInv'
<1>1. Typed /\ OneJobPerRow BY Zenon DEF IInv
<1>2. /\ UNCHANGED <<db, aiList, ver, verdb, known, maxId, call, toDb, fromDb, infos>>
      /\ UNCHANGED <<jobs, work, done, budget>>
    BY Zenon DEF vars, owner, pool
<1>3. Typed' BY Zenon, <1>1, <1>2 DEF Typed
<1>4. OneJobPerRow' /\ Current' = Current BY Zenon, <1>1, <1>2, SlotsSame
<1>5. Quiet BY Zenon, <1>2 DEF Quiet
<1>6. InOrder' BY Zenon, <1>2 DEF IInv, InOrder, Sent
<1> QED BY Zenon, <1>2, <1>3, <1>4, <1>5, <1>6, QuietKeeps DEF IInv

\* Only a thread of the pool writes: a new row, or a version that is not behind.
LEMMA Forward ==
    ASSUME IInv, Next
    PROVE  \A r \in Rows : db[r] # None => db'[r] # None /\ db[r] <= db'[r]
<1>1. db \in [Rows -> Nat \cup {None}] BY Zenon DEF IInv, Typed
<1>2. \A r \in Rows : db[r] # None => db[r] \in Nat /\ db[r] <= db[r] BY <1>1
<1>3. CASE db' = db BY Zenon, <1>2, <1>3
<1>4. ASSUME NEW w \in Workers, NEW x, Insert(w, x)
      PROVE  \A r \in Rows : db[r] # None => db'[r] = db[r]
    BY Zenon, <1>1, <1>4 DEF Insert
<1>5. CASE \E w \in Workers : InsertUser(w) \/ InsertAccount(w)
    BY Zenon, <1>2, <1>4, <1>5 DEF InsertUser, InsertAccount
<1>6. CASE \E w \in Workers : Execute(w) BY Zenon, <1>6, ExecuteInv, NoneFacts
<1>7. ASSUME NEW w \in Workers, WorkerStep(w) \/ Throw(w)
      PROVE  db' = db \/ InsertUser(w) \/ InsertAccount(w) \/ Execute(w)
    BY Zenon, <1>7 DEF WorkerStep, Throw, TakeJob, InsertAi, QueryUser, QueryAccount,
                QueryMaxUserid, QueryAi, Query, ReadRow
<1>8. ASSUME BeginStep \/ EndStep PROVE db' = db
    BY Zenon, <1>8 DEF BeginStep, EndStep, BeginCall, BeginUpdateUser, BeginUpdateAccount, BeginUpdate,
                Begin, AnswerCall, EndUpdateUser, EndUpdateAccount, EndUpdate
<1>9. db' = db \/ \E w \in Workers : WorkerStep(w) \/ Throw(w)
    BY Zenon, <1>8 DEF Next, Change, SendUpdate, Call, OwnerReceives
<1> QED BY Zenon, <1>3, <1>5, <1>6, <1>7, <1>9

\* The invariant says of every answer what ToldTheTruth asks for.
LEMMA Truth == ASSUME IInv PROVE ToldTheTruth
<1>1. Typed BY Zenon DEF IInv
<1>2. ASSUME NEW r \in Rows
      PROVE  /\ db[r] \in Nat \cup {None} /\ infos[r] \in Nat \cup {None}
             /\ ver[r] \in Nat /\ verdb[r] \in 0..ver[r]
             /\ r[2] \in known => db[r] # None /\ verdb[r] <= db[r]
    <2>1. /\ db[r] \in Nat \cup {None} /\ infos[r] \in Nat \cup {None}
          /\ ver[r] \in Nat /\ verdb[r] \in Nat
        BY Zenon, <1>1 DEF Typed
    <2>2. RowOK(r) BY Zenon DEF IInv
    <2>3. verdb[r] <= ver[r] BY <2>1, <2>2 DEF RowOK
    <2>4. r[2] \in known => db[r] # None /\ verdb[r] <= db[r] BY Zenon, <2>2 DEF RowOK
    <2> QED BY <2>1, <2>3, <2>4
<1>3. \A u \in known : db[<<"user", u>>] # None /\ db[<<"account", u>>] # None
    <2>1. \A u \in known : <<"user", u>> \in Rows /\ <<"account", u>> \in Rows
        BY Zenon, <1>1, RowFacts DEF Typed
    <2> QED BY Zenon, <1>2, <2>1
<1>4. call \in Queries \cup {"create_user", None} BY Zenon, <1>1 DEF Typed, Calls
<1>5. budget.calls \in Nat /\ budget.failures \in Nat BY Zenon, <1>1 DEF Typed
<1> QED BY Zenon, <1>1, <1>2, <1>3, <1>4, <1>5 DEF ToldTheTruth, TypeOK, Typed

\* Whatever the threads of the pool do, and at whatever operation the database
\* throws, a version on its way from the owner (a request on the channel, the
\* cache, an operation of a job, the database, a report) is never behind one
\* that was sent before it, and a row is in at most one job.
THEOREM DbProxyInvariance == Spec => []IInv
<1>1. Init => IInv BY Zenon, InitInv
<1>2. IInv /\ [Next]_vars => IInv' BY Zenon, NextInv, StutterInv
<1> QED BY <1>1, <1>2, PTL DEF Spec

\* What update_user, update_account and create_user report to the owner is in
\* the database: version_db is never ahead of it, and a user that was created
\* has both rows.
THEOREM OwnerToldTheTruth == Spec => []ToldTheTruth
<1>1. IInv => ToldTheTruth BY Zenon, Truth
<1> QED BY <1>1, DbProxyInvariance, PTL

\* The threads of the pool never write an older version of a row over a newer
\* one, although the bulk of an update is executed outside of any lock.
THEOREM RowsNeverGoBack == Spec => UpdatesInOrder
<1>1. IInv /\ [Next]_vars => [\A r \in Rows : db[r] # None => db'[r] # None /\ db[r] <= db'[r]]_vars
    BY Zenon, Forward
<1> QED BY <1>1, DbProxyInvariance, PTL DEF Spec, UpdatesInOrder

-----------------------------------------------------------------------------
(* The player's session: PlayerSession for any number of connections and   *)
(* any budgets.  Of its constants and variables those that have a name of  *)
(* DbProxy's are renamed.                                                  *)

CONSTANTS MaxConns, PlayerBudgets

VARIABLES
    link, up, down, session,
    pbudget, ws, lpc, awaited, woken, croom, turn, afterTurn, inputs, pings,
    sock, subscribed, lg, lack,
    asked, online, fg, room, rturn, entered, moves, kicks,
    others, logicGot, answered, overtaken

P == INSTANCE PlayerSession WITH Budgets <- PlayerBudgets, budget <- pbudget

\* What PlayerSession assumes of its constants.
PlayerConstants ==
    /\ MaxConns \in Nat
    /\ PlayerBudgets \subseteq [prog : {"game", "eager"}, conns : P!Conns, requests : Nat,
                                pings : Nat, moves : Nat, kicks : Nat]

\* What a client sends, what it gets, and what the proxy forwards for it.
Calling == [id : {"login", "match", "enter", "move", "ping"}, session : Nat]
Acks == [id : {"login", "pong", "no_match", "match", "enter", "move", "brd"}, session : Nat,
         ok : BOOLEAN, room : 0..1, turn : BOOLEAN, over : BOOLEAN, invalid : BOOLEAN]
Forwards == [session : Nat, userid : {1}]

SocketRecords == [st : {"none", "open", "gone"}, userid : 0..1, wait : BOOLEAN, logic : 0..1, room : 0..1,
                  cache : Seq(Calling)]

\* Where logic() may be.
Waits == {"none", "login", "match", "enter", "turn", "input", "move", "next", "end",
          "loggedIn", "matched", "entered", "refused"}

\* A wake-up that is no answer is one to the client's turn.
Playing ==
    /\ link \in [P!Conns -> {"none", "up", "down"}] /\ pbudget \in PlayerBudgets /\ ws \in 0..MaxConns
    /\ lpc \in Waits
    /\ croom \in 0..1 /\ turn \in BOOLEAN /\ afterTurn \in BOOLEAN /\ pings \in Nat
    /\ down \in [P!Conns -> Seq(Acks)]
    /\ woken = None \/ woken \in Acks \/ lpc \in {"turn", "end"}

\* The login service, and what is on its way to and from the services behind.
LoginRecords == [step : {"none", "center", "master", "logic", "late", "done"}, session : Nat]
Asking == [id : {"login", "match", "enter", "move", "ping"}, session : Nat, conn : P!Conns]
GameMessages == [conn : P!Conns, msg : Acks \cup [id : {"kick"}]]

Behind ==
    /\ lg \in [P!Conns -> LoginRecords]
    /\ lack \in [P!Conns -> Acks \cup {None}]
    /\ asked \subseteq Asking
    /\ online \subseteq P!Conns /\ answered \subseteq P!Conns
    /\ fg \in Seq(GameMessages)
    /\ room \in 0..1 /\ rturn \in {"me", "opponent", "nobody"} /\ entered \in 0..MaxConns

\* The requests the proxy took are those it has passed on and those it keeps.
Taken(o, g, c) ==
    /\ Len(o) = Len(g) + Len(c)
    /\ \A i \in 1..Len(g) : o[i] = g[i].session
    /\ \A i \in 1..Len(c) : o[Len(g) + i] = c[i].session

\* What was taken and what is on its way have rising numbers, n at most.
Rising(o, u, n) ==
    /\ \A i, j \in 1..Len(o) : i < j => o[i] < o[j]
    /\ \A i, j \in 1..Len(u) : i < j => u[i].session < u[j].session
    /\ \A i \in 1..Len(o), j \in 1..Len(u) : o[i] < u[j].session
    /\ \A i \in 1..Len(o) : o[i] <= n
    /\ \A j \in 1..Len(u) : u[j].session <= n

StreamTypes ==
    /\ session \in Nat /\ up \in [P!Conns -> Seq(Calling)] /\ sock \in [P!Conns -> SocketRecords]
    /\ others \in [P!Conns -> Seq(Nat)] /\ logicGot \in [P!Conns -> Seq(Forwards)]

\* The proxy keeps requests only while it waits for the login's answer.
Stream ==
    /\ StreamTypes
    /\ \A k \in P!Conns : /\ Taken(others[k], logicGot[k], sock[k].cache)
                          /\ ~sock[k].wait => sock[k].cache = <<>>
                          /\ Rising(others[k], up[k], session)

PInv == Playing /\ Behind /\ Stream

-----------------------------------------------------------------------------
(* The streams *)

\* The number of a request.
LEMMA Numbered ==
    ASSUME NEW u \in Seq(Calling) PROVE \A j \in 1..Len(u) : u[j].session \in Nat
<1> SUFFICES ASSUME NEW j \in 1..Len(u) PROVE u[j].session \in Nat OBVIOUS
<1>1. u[j] \in Calling BY Zenon, ElementFacts
<1> QED BY <1>1 DEF Calling

\* Later numbers are larger.
LEMMA RisingMore ==
    ASSUME NEW o \in Seq(Nat), NEW u \in Seq(Calling), NEW n \in Nat, NEW m \in Nat, n <= m, Rising(o, u, n)
    PROVE  Rising(o, u, m)
<1>1. \A i \in 1..Len(o) : o[i] \in Nat BY Zenon, ElementFacts
<1>2. \A j \in 1..Len(u) : u[j].session \in Nat BY Zenon, Numbered
<1>3. \A x \in Nat : x <= n => x <= m OBVIOUS
<1> QED BY Zenon, <1>1, <1>2, <1>3 DEF Rising

\* A request sent under the next number.
LEMMA RisingPush ==
    ASSUME NEW o \in Seq(Nat), NEW u \in Seq(Calling), NEW n \in Nat, Rising(o, u, n),
           NEW r \in Calling, r.session = n + 1
    PROVE  Append(u, r) \in Seq(Calling) /\ Rising(o, Append(u, r), n + 1)
<1>1. PICK v \in Seq(Calling) : v = Append(u, r) BY Zenon, AppendIndex
<1>2. Len(v) = Len(u) + 1 /\ v[Len(u) + 1] = r /\ \A i \in 1..Len(u) : v[i] = u[i] BY <1>1, AppendIndex
<1>3. Len(u) \in Nat BY Zenon, LenFacts
<1>4. Rising(o, u, n + 1) BY <1>3, RisingMore
<1>5. \A i \in 1..Len(o) : o[i] \in Nat /\ o[i] <= n BY Zenon, ElementFacts DEF Rising
<1>6. \A j \in 1..Len(u) : u[j].session \in Nat /\ u[j].session <= n BY Zenon, Numbered DEF Rising
<1>7. \A x \in Nat : x <= n => x < n + 1 OBVIOUS
<1>8. \A j \in 1..Len(v) : j \in 1..Len(u) \/ j = Len(u) + 1 BY <1>2, <1>3
<1>9. \A i, j \in 1..Len(v) : i < j => i \in 1..Len(u) BY <1>2, <1>3
<1>10. ASSUME NEW i \in 1..Len(v), NEW j \in 1..Len(v), i < j PROVE v[i].session < v[j].session
  <2>1. i \in 1..Len(u) /\ v[i] = u[i] BY Zenon, <1>2, <1>9, <1>10
  <2>2. CASE j \in 1..Len(u) BY Zenon, <1>2, <1>10, <2>1, <2>2 DEF Rising
  <2>3. CASE j = Len(u) + 1 BY Zenon, <1>2, <1>6, <1>7, <2>1, <2>3
  <2> QED BY Zenon, <1>8, <2>2, <2>3
<1>11. ASSUME NEW i \in 1..Len(o), NEW j \in 1..Len(v) PROVE o[i] < v[j].session
  <2>1. CASE j \in 1..Len(u) BY Zenon, <1>2, <2>1 DEF Rising
  <2>2. CASE j = Len(u) + 1 BY Zenon, <1>2, <1>5, <1>7, <2>2
  <2> QED BY Zenon, <1>8, <2>1, <2>2
<1>12. \A j \in 1..Len(v) : v[j].session <= n + 1
  <2>1. n + 1 <= n + 1 OBVIOUS
  <2> QED BY Zenon, <1>2, <1>4, <1>8, <2>1 DEF Rising
<1>13. Rising(o, v, n + 1) BY Zenon, <1>4, <1>10, <1>11, <1>12 DEF Rising
<1> QED BY Zenon, <1>1, <1>13

\* The first request of a connection.
LEMMA RisingFirst ==
    ASSUME NEW o \in Seq(Nat), NEW u \in Seq(Calling), NEW n \in Nat, Rising(o, u, n),
           NEW r \in Calling, r.session = n + 1
    PROVE  <<r>> \in Seq(Calling) /\ Rising(o, <<r>>, n + 1)
<1>1. Rising(o, <<>>, n) BY DEF Rising
<1>2. <<>> \in Seq(Calling) /\ Append(<<>>, r) = <<r>> OBVIOUS
<1> QED BY Zenon, <1>1, <1>2, RisingPush

\* The proxy reads a request and leaves it.
LEMMA RisingTail ==
    ASSUME NEW o \in Seq(Nat), NEW u \in Seq(Calling), NEW n \in Nat, Rising(o, u, n), u # <<>>
    PROVE  /\ Tail(u) \in Seq(Calling) /\ Rising(o, Tail(u), n)
           /\ Head(u) \in Calling /\ Append(o, Head(u).session) \in Seq(Nat)
           /\ Rising(Append(o, Head(u).session), Tail(u), n)
<1>1. PICK v \in Seq(Calling) : v = Tail(u) BY Zenon, TailIndex
<1>2. Len(v) = Len(u) - 1 /\ \A i \in 1..Len(v) : v[i] = u[i + 1] BY <1>1, TailIndex
<1>3. Len(u) \in Nat \ {0} /\ Len(v) \in Nat BY Zenon, LenFacts, EmptyLen
<1>4. PICK h \in Calling : h = Head(u) /\ h = u[1] BY TailIndex
<1>5. \A i \in 1..Len(v) : i + 1 \in 1..Len(u) BY <1>2, <1>3
<1>6. \A i, j \in 1..Len(v) : i < j => i + 1 < j + 1 BY <1>3
<1>7. Rising(o, v, n) BY Zenon, <1>2, <1>5, <1>6 DEF Rising
<1>8. h.session \in Nat BY DEF Calling
<1>9. PICK p \in Seq(Nat) : p = Append(o, h.session) BY Zenon, <1>8, AppendIndex
<1>10. Len(p) = Len(o) + 1 /\ p[Len(o) + 1] = h.session /\ \A i \in 1..Len(o) : p[i] = o[i]
  BY <1>8, <1>9, AppendIndex
<1>11. Len(o) \in Nat BY Zenon, LenFacts
<1>12. \A i \in 1..Len(p) : i \in 1..Len(o) \/ i = Len(o) + 1 BY <1>10, <1>11
<1>13. \A i, j \in 1..Len(p) : i < j => i \in 1..Len(o) BY <1>10, <1>11
<1>14. 1 \in 1..Len(u) /\ \A i \in 1..Len(v) : 1 < i + 1 BY <1>3
<1>15. \A i, j \in 1..Len(p) : i < j => p[i] < p[j] BY ZenonT(30), <1>4, <1>10, <1>12, <1>13, <1>14 DEF Rising
<1>16. \A i \in 1..Len(p), j \in 1..Len(v) : p[i] < v[j].session
  BY ZenonT(30), <1>2, <1>4, <1>5, <1>7, <1>10, <1>12, <1>14 DEF Rising
<1>17. \A i \in 1..Len(p) : p[i] <= n BY Zenon, <1>4, <1>10, <1>12, <1>14 DEF Rising
<1>18. Rising(p, v, n) BY Zenon, <1>7, <1>15, <1>16, <1>17 DEF Rising
<1> QED BY Zenon, <1>1, <1>4, <1>7, <1>9, <1>18

\* A request is kept.
LEMMA TakenKept ==
    ASSUME NEW o \in Seq(Nat), NEW g \in Seq(Forwards), NEW c \in Seq(Calling), Taken(o, g, c), NEW m \in Calling
    PROVE  Taken(Append(o, m.session), g, Append(c, m))
<1>1. m.session \in Nat BY DEF Calling
<1>2. /\ Len(Append(o, m.session)) = Len(o) + 1 /\ Append(o, m.session)[Len(o) + 1] = m.session
      /\ \A i \in 1..Len(o) : Append(o, m.session)[i] = o[i]
  BY <1>1, AppendIndex
<1>3. /\ Len(Append(c, m)) = Len(c) + 1 /\ Append(c, m)[Len(c) + 1] = m
      /\ \A i \in 1..Len(c) : Append(c, m)[i] = c[i]
  BY AppendIndex
<1>4. Len(o) = Len(g) + Len(c) /\ Len(g) \in Nat /\ Len(c) \in Nat BY Zenon, LenFacts DEF Taken
<1>5. Len(o) + 1 = Len(g) + (Len(c) + 1) BY <1>4
<1>6. \A i \in 1..Len(g) : i \in 1..Len(o) BY <1>4
<1>7. \A i \in 1..Len(c) : Len(g) + i \in 1..Len(o) BY <1>4
<1>8. \A i \in 1..Len(c) + 1 : i \in 1..Len(c) \/ i = Len(c) + 1 BY <1>4
<1>9. \A i \in 1..Len(g) : Append(o, m.session)[i] = g[i].session BY Zenon, <1>2, <1>6 DEF Taken
<1>10. \A i \in 1..Len(Append(c, m)) : Append(o, m.session)[Len(g) + i] = Append(c, m)[i].session
  <2> SUFFICES ASSUME NEW i \in 1..Len(c) + 1
               PROVE  Append(o, m.session)[Len(g) + i] = Append(c, m)[i].session
    BY Zenon, <1>3
  <2>1. CASE i \in 1..Len(c) BY Zenon, <1>2, <1>3, <1>7, <2>1 DEF Taken
  <2>2. CASE i = Len(c) + 1 BY Zenon, <1>2, <1>3, <1>4, <1>5, <2>2
  <2> QED BY Zenon, <1>8, <2>1, <2>2
<1> QED BY Zenon, <1>2, <1>3, <1>4, <1>5, <1>9, <1>10 DEF Taken

\* A request is passed on at once.
LEMMA TakenNow ==
    ASSUME NEW o \in Seq(Nat), NEW g \in Seq(Forwards), Taken(o, g, <<>>), NEW f \in Forwards
    PROVE  Append(g, f) \in Seq(Forwards) /\ Taken(Append(o, f.session), Append(g, f), <<>>)
<1>1. f.session \in Nat BY DEF Forwards
<1>2. /\ Len(Append(o, f.session)) = Len(o) + 1 /\ Append(o, f.session)[Len(o) + 1] = f.session
      /\ \A i \in 1..Len(o) : Append(o, f.session)[i] = o[i]
  BY <1>1, AppendIndex
<1>3. /\ Append(g, f) \in Seq(Forwards) /\ Len(Append(g, f)) = Len(g) + 1 /\ Append(g, f)[Len(g) + 1] = f
      /\ \A i \in 1..Len(g) : Append(g, f)[i] = g[i]
  BY AppendIndex
<1>4. Len(o) = Len(g) + 0 /\ Len(g) \in Nat /\ Len(<<>>) = 0 BY Zenon, LenFacts, EmptyLen DEF Taken
<1>5. Len(o) = Len(g) /\ Len(g) + 1 = (Len(g) + 1) + 0 /\ 1..0 = {} BY <1>4
<1>6. \A i \in 1..Len(g) + 1 : i \in 1..Len(g) \/ i = Len(g) + 1 BY <1>4
<1>7. \A i \in 1..Len(g) + 1 : Append(o, f.session)[i] = Append(g, f)[i].session
  BY Zenon, <1>2, <1>3, <1>5, <1>6 DEF Taken
<1> QED BY Zenon, <1>2, <1>3, <1>4, <1>5, <1>7 DEF Taken

\* What is passed on later comes behind.
LEMMA PassedOn ==
    ASSUME NEW g \in Seq(Forwards), NEW f \in Seq(Forwards)
    PROVE  /\ g \o f \in Seq(Forwards) /\ Len(g \o f) = Len(g) + Len(f)
           /\ \A i \in 1..Len(g) + Len(f) : (g \o f)[i] = IF i <= Len(g) THEN g[i] ELSE f[i - Len(g)]
BY Zenon, ConcatIndex

\* Everything that was kept is passed on.
LEMMA TakenLogin ==
    ASSUME NEW o \in Seq(Nat), NEW g \in Seq(Forwards), NEW c \in Seq(Calling), Taken(o, g, c),
           NEW f \in Seq(Forwards), Len(f) = Len(c), \A i \in 1..Len(c) : f[i].session = c[i].session
    PROVE  g \o f \in Seq(Forwards) /\ Taken(o, g \o f, <<>>)
<1>0. /\ g \o f \in Seq(Forwards) /\ Len(g \o f) = Len(g) + Len(f)
      /\ \A i \in 1..Len(g) + Len(f) : (g \o f)[i] = IF i <= Len(g) THEN g[i] ELSE f[i - Len(g)]
  BY Zenon, PassedOn
<1>1. PICK r \in Seq(Forwards) : r = g \o f BY Zenon, <1>0
<1>2. /\ Len(r) = Len(g) + Len(f)
      /\ \A i \in 1..Len(g) + Len(f) : r[i] = IF i <= Len(g) THEN g[i] ELSE f[i - Len(g)]
  BY Zenon, <1>0, <1>1
<1>3. Len(o) = Len(g) + Len(c) /\ Len(g) \in Nat /\ Len(c) \in Nat /\ Len(<<>>) = 0
  BY Zenon, LenFacts, EmptyLen DEF Taken
<1>4. Len(o) = Len(r) + 0 /\ 1..0 = {} BY <1>2, <1>3
<1>5. ASSUME NEW i \in 1..Len(r) PROVE o[i] = r[i].session
  <2>1. CASE i <= Len(g)
    <3>1. i \in 1..Len(g) BY <1>2, <1>3, <2>1
    <3> QED BY Zenon, <1>2, <2>1, <3>1 DEF Taken
  <2>2. CASE ~(i <= Len(g))
    <3>1. i - Len(g) \in 1..Len(c) /\ Len(g) + (i - Len(g)) = i BY <1>2, <1>3, <2>2
    <3>2. o[Len(g) + (i - Len(g))] = c[i - Len(g)].session BY Zenon, <3>1 DEF Taken
    <3> QED BY Zenon, <1>2, <2>2, <3>1, <3>2
  <2> QED BY Zenon, <2>1, <2>2
<1>6. Taken(o, r, <<>>) BY Zenon, <1>3, <1>4, <1>5 DEF Taken
<1> QED BY Zenon, <1>1, <1>6

-----------------------------------------------------------------------------
(* The steps *)

\* One connection's stream moves.
LEMMA StreamMoves ==
    ASSUME Stream, NEW k \in P!Conns, StreamTypes', session <= session',
           \A j \in P!Conns : j # k => /\ up'[j] = up[j] /\ others'[j] = others[j] /\ logicGot'[j] = logicGot[j]
                                       /\ sock'[j] = sock[j],
           Taken(others'[k], logicGot'[k], sock'[k].cache),
           ~sock'[k].wait => sock'[k].cache = <<>>,
           Rising(others'[k], up'[k], session')
    PROVE  Stream'
<1>1. StreamTypes BY Zenon DEF Stream
<1>2. ASSUME NEW j \in P!Conns, j # k PROVE Rising(others'[j], up'[j], session')
  <2>1. session \in Nat /\ session' \in Nat /\ up[j] \in Seq(Calling) /\ others[j] \in Seq(Nat)
    BY Zenon, <1>1 DEF StreamTypes
  <2>2. Rising(others[j], up[j], session) BY Zenon DEF Stream
  <2>3. Rising(others[j], up[j], session') BY Zenon, <2>1, <2>2, RisingMore
  <2> QED BY Zenon, <1>2, <2>3
<1>3. ASSUME NEW j \in P!Conns, j # k
      PROVE  Taken(others'[j], logicGot'[j], sock'[j].cache) /\ (~sock'[j].wait => sock'[j].cache = <<>>)
  BY Zenon, <1>3 DEF Stream
<1>4. ASSUME NEW j \in P!Conns
      PROVE  /\ Taken(others'[j], logicGot'[j], sock'[j].cache)
             /\ ~sock'[j].wait => sock'[j].cache = <<>>
             /\ Rising(others'[j], up'[j], session')
  <2>1. CASE j = k BY Zenon, <2>1
  <2>2. CASE j # k BY Zenon, <1>2, <1>3, <2>2
  <2> QED BY Zenon, <2>1, <2>2
<1> QED BY Zenon, <1>4 DEF Stream, P!Conns

\* Nothing of the streams changes.
LEMMA SameStream ==
    ASSUME Stream, UNCHANGED <<session, up, sock, others, logicGot>> PROVE Stream'
BY Zenon DEF Stream, StreamTypes

LEMMA SamePlaying ==
    ASSUME Playing, UNCHANGED <<link, down, pbudget, ws, lpc, woken, croom, turn, afterTurn, pings>> PROVE Playing'
BY Zenon DEF Playing

LEMMA SameBehind ==
    ASSUME Behind, UNCHANGED <<lg, lack, asked, online, answered, fg, room, rturn, entered>> PROVE Behind'
BY Zenon DEF Behind

\* The client sends a request over connection k, if there is such a connection.
LEMMA PushInv ==
    ASSUME Stream, NEW k, NEW r \in Calling, r.session = session + 1,
           up' = [up EXCEPT ![k] = Append(@, r)], session' = session + 1, UNCHANGED <<sock, others, logicGot>>
    PROVE  Stream'
<1>1. StreamTypes /\ session \in Nat /\ session + 1 \in Nat /\ session <= session + 1
  <2>1. StreamTypes BY Zenon DEF Stream
  <2>2. session \in Nat BY Zenon, <2>1 DEF StreamTypes
  <2> QED BY <2>1, <2>2
<1>2. CASE k \in P!Conns
  <2>1. up[k] \in Seq(Calling) /\ others[k] \in Seq(Nat) BY Zenon, <1>1, <1>2 DEF StreamTypes
  <2>2. Rising(others[k], up[k], session) BY Zenon, <1>2 DEF Stream
  <2>3. Append(up[k], r) \in Seq(Calling) /\ Rising(others[k], Append(up[k], r), session + 1)
    BY Zenon, <1>1, <2>1, <2>2, RisingPush
  <2>4. /\ up' \in [P!Conns -> Seq(Calling)] /\ up'[k] = Append(up[k], r)
        /\ \A j \in P!Conns : j # k => up'[j] = up[j]
    BY <1>1, <1>2, <2>3 DEF StreamTypes
  <2>5. StreamTypes' BY Zenon, <1>1, <2>4 DEF StreamTypes, P!Conns
  <2>6. Taken(others'[k], logicGot'[k], sock'[k].cache) /\ (~sock'[k].wait => sock'[k].cache = <<>>)
    BY Zenon, <1>2 DEF Stream
  <2> QED BY Zenon, <1>1, <1>2, <2>3, <2>4, <2>5, <2>6, StreamMoves
<1>3. CASE k \notin P!Conns
  <2>1. up' = up BY <1>1, <1>3 DEF StreamTypes
  <2>2. StreamTypes' BY Zenon, <1>1, <2>1 DEF StreamTypes, P!Conns
  <2>3. ASSUME NEW j \in P!Conns PROVE Rising(others'[j], up'[j], session')
    <3>1. up[j] \in Seq(Calling) /\ others[j] \in Seq(Nat) BY Zenon, <1>1 DEF StreamTypes
    <3>2. Rising(others[j], up[j], session) BY Zenon DEF Stream
    <3>3. Rising(others[j], up[j], session + 1) BY Zenon, <1>1, <3>1, <3>2, RisingMore
    <3> QED BY Zenon, <2>1, <3>3
  <2> QED BY Zenon, <2>2, <2>3 DEF Stream, P!Conns
<1> QED BY Zenon, <1>2, <1>3

\* A request of the client.
LEMMA ReqFacts ==
    ASSUME session \in Nat
    PROVE  \A id \in {"login", "match", "enter", "move", "ping"} :
              P!Req(id) \in Calling /\ P!Req(id).session = session + 1
BY DEF P!Req, Calling

\* What logic() does to the connection: it calls, stops the program or neither.
LEMMA LogicLinks ==
    ASSUME Stream, Playing, UNCHANGED <<sock, others, logicGot>>,
           \/ \E id \in {"login", "match", "enter", "move", "ping"} : P!Call(id)
           \/ P!StopClient
           \/ UNCHANGED P!links
    PROVE  Stream' /\ link' \in [P!Conns -> {"none", "up", "down"}] /\ down' = down
<1>0. session \in Nat /\ link \in [P!Conns -> {"none", "up", "down"}] BY Zenon DEF Stream, StreamTypes, Playing
<1>1. ASSUME NEW id \in {"login", "match", "enter", "move", "ping"}, P!Call(id)
      PROVE  Stream' /\ link' \in [P!Conns -> {"none", "up", "down"}] /\ down' = down
  <2>1. P!Req(id) \in Calling /\ P!Req(id).session = session + 1 BY Zenon, <1>0, ReqFacts
  <2>2. /\ up' = [up EXCEPT ![ws] = Append(@, P!Req(id))] /\ session' = session + 1
        /\ UNCHANGED <<link, down>>
    BY Zenon, <1>1 DEF P!Call
  <2>3. Stream' BY Zenon, <2>1, <2>2, PushInv
  <2> QED BY Zenon, <1>0, <2>2, <2>3
<1>2. CASE P!StopClient
  <2>1. link' = [link EXCEPT ![ws] = "down"] /\ UNCHANGED <<up, down, session>> BY Zenon, <1>2 DEF P!StopClient
  <2>2. Stream' BY Zenon, <2>1, SameStream
  <2>3. link' \in [P!Conns -> {"none", "up", "down"}] BY Zenon, <1>0, <2>1
  <2> QED BY Zenon, <2>1, <2>2, <2>3
<1>3. CASE UNCHANGED P!links
  <2>1. UNCHANGED <<link, up, down, session>> BY Zenon, <1>3 DEF P!links
  <2>2. Stream' BY Zenon, <2>1, SameStream
  <2> QED BY Zenon, <1>0, <2>1, <2>2
<1> QED BY Zenon, <1>1, <1>2, <1>3

\* The parts of the invariant.
LEMMA Parts ==
    ASSUME PlayerConstants, PInv
    PROVE  /\ Playing /\ Behind /\ Stream /\ StreamTypes
           /\ \A k \in P!Conns : k \in 0..MaxConns /\ k # 0
           /\ \A k \in 0..MaxConns : k # 0 => k \in P!Conns
<1>1. Playing /\ Behind /\ Stream /\ StreamTypes BY Zenon DEF PInv, Stream
<1>2. MaxConns \in Nat BY Zenon DEF PlayerConstants
<1> QED BY <1>1, <1>2 DEF P!Conns

\* The proxy changes one field of a socket and not its cache.
LEMMA SocketSet ==
    ASSUME StreamTypes, NEW k \in P!Conns, NEW v \in SocketRecords, v.cache = sock[k].cache
    PROVE  /\ [sock EXCEPT ![k] = v] \in [P!Conns -> SocketRecords]
           /\ [sock EXCEPT ![k] = v][k] = v /\ [sock EXCEPT ![k] = v][k].cache = sock[k].cache
           /\ \A j \in P!Conns : j # k => [sock EXCEPT ![k] = v][j] = sock[j]
BY DEF StreamTypes

LEMMA SocketState ==
    ASSUME StreamTypes, NEW k \in P!Conns, NEW x \in {"open", "gone"}, sock' = [sock EXCEPT ![k].st = x]
    PROVE  /\ sock' \in [P!Conns -> SocketRecords] /\ sock'[k].cache = sock[k].cache
           /\ \A j \in P!Conns : j # k => sock'[j] = sock[j]
           /\ ~sock'[k].wait => ~sock[k].wait
<1>1. sock[k] \in SocketRecords BY Zenon DEF StreamTypes
<1>2. /\ [sock[k] EXCEPT !.st = x] \in SocketRecords /\ [sock[k] EXCEPT !.st = x].cache = sock[k].cache
      /\ [sock[k] EXCEPT !.st = x].wait = sock[k].wait
  BY <1>1 DEF SocketRecords
<1> QED BY ZenonT(30), <1>2, SocketSet

LEMMA SocketRoom ==
    ASSUME StreamTypes, NEW k \in P!Conns, NEW r \in 0..1, sock' = [sock EXCEPT ![k].room = r]
    PROVE  /\ sock' \in [P!Conns -> SocketRecords] /\ sock'[k].cache = sock[k].cache
           /\ \A j \in P!Conns : j # k => sock'[j] = sock[j]
           /\ ~sock'[k].wait => ~sock[k].wait
<1>1. sock[k] \in SocketRecords BY Zenon DEF StreamTypes
<1>2. /\ [sock[k] EXCEPT !.room = r] \in SocketRecords /\ [sock[k] EXCEPT !.room = r].cache = sock[k].cache
      /\ [sock[k] EXCEPT !.room = r].wait = sock[k].wait
  BY <1>1 DEF SocketRecords
<1> QED BY ZenonT(30), <1>2, SocketSet

LEMMA SocketWaits ==
    ASSUME StreamTypes, NEW k \in P!Conns, sock' = [sock EXCEPT ![k].wait = TRUE]
    PROVE  /\ sock' \in [P!Conns -> SocketRecords] /\ sock'[k].cache = sock[k].cache
           /\ \A j \in P!Conns : j # k => sock'[j] = sock[j]
           /\ ~sock'[k].wait => ~sock[k].wait
<1>1. sock[k] \in SocketRecords BY Zenon DEF StreamTypes
<1>2. /\ [sock[k] EXCEPT !.wait = TRUE] \in SocketRecords /\ [sock[k] EXCEPT !.wait = TRUE].cache = sock[k].cache
      /\ [sock[k] EXCEPT !.wait = TRUE].wait
  BY Zenon, <1>1 DEF SocketRecords
<1> QED BY Zenon, <1>2, SocketSet

\* A socket changes that keeps its cache, and the rest of the streams does not.
LEMMA SocketInv ==
    ASSUME Stream, NEW k \in P!Conns, sock' \in [P!Conns -> SocketRecords], sock'[k].cache = sock[k].cache,
           \A j \in P!Conns : j # k => sock'[j] = sock[j],
           ~sock'[k].wait => ~sock[k].wait,
           up' \in [P!Conns -> Seq(Calling)], \A j \in P!Conns : j # k => up'[j] = up[j],
           session' \in Nat, session <= session', Rising(others[k], up'[k], session'),
           UNCHANGED <<others, logicGot>>
    PROVE  Stream'
<1>1. StreamTypes BY Zenon DEF Stream
<1>2. StreamTypes' BY Zenon, <1>1 DEF StreamTypes, P!Conns
<1>3. Taken(others'[k], logicGot'[k], sock'[k].cache) /\ (~sock'[k].wait => sock'[k].cache = <<>>)
  BY Zenon DEF Stream
<1> QED BY Zenon, <1>2, <1>3, StreamMoves

\* run: the client connects.
LEMMA ConnectPlayer ==
    ASSUME PlayerConstants, PInv, NEW k \in P!Conns, P!Connect(k)
    PROVE  PInv'
<1>0. /\ Playing /\ Behind /\ Stream /\ StreamTypes /\ k \in 0..MaxConns BY Zenon, Parts
<1>1. /\ lpc = "none" /\ ws' = k /\ link' = [link EXCEPT ![k] = "up"] /\ sock' = [sock EXCEPT ![k].st = "open"]
      /\ \/ /\ lpc' = "login" /\ session' = session + 1 /\ up' = [up EXCEPT ![k] = <<P!Req("login")>>]
         \/ UNCHANGED <<lpc, session, up>>
      /\ UNCHANGED <<down, pbudget, woken, croom, turn, afterTurn, pings, lg, lack,
                     asked, online, fg, room, rturn, entered, others, logicGot, answered>>
  BY Zenon DEF P!Connect, P!login, P!services
<1>2. Playing'
  <2>1. link' \in [P!Conns -> {"none", "up", "down"}] BY <1>0, <1>1 DEF Playing
  <2>2. lpc' \in {"none", "login"} BY Zenon, <1>1
  <2>3. woken = None \/ woken \in Acks BY <1>0, <1>1 DEF Playing
  <2> QED BY Zenon, <1>0, <1>1, <2>1, <2>2, <2>3 DEF Playing, Waits, P!Conns
<1>3. Behind' BY Zenon, <1>0, <1>1, SameBehind
<1>4. /\ sock' \in [P!Conns -> SocketRecords] /\ sock'[k].cache = sock[k].cache
      /\ \A j \in P!Conns : j # k => sock'[j] = sock[j]
      /\ ~sock'[k].wait => ~sock[k].wait
  BY Zenon, <1>0, <1>1, SocketState
<1>5. /\ session \in Nat /\ session + 1 \in Nat /\ session <= session /\ session <= session + 1
  <2>1. session \in Nat BY Zenon, <1>0 DEF StreamTypes
  <2> QED BY <2>1
<1>6. up \in [P!Conns -> Seq(Calling)] /\ up[k] \in Seq(Calling) /\ others[k] \in Seq(Nat)
  BY Zenon, <1>0 DEF StreamTypes
<1>7. Rising(others[k], up[k], session) BY Zenon, <1>0 DEF Stream
<1>8. ASSUME session' = session + 1, up' = [up EXCEPT ![k] = <<P!Req("login")>>] PROVE Stream'
  <2>1. P!Req("login") \in Calling /\ P!Req("login").session = session + 1 BY Zenon, <1>5, ReqFacts
  <2>2. PICK r \in Calling : r = P!Req("login") /\ r.session = session + 1 BY Zenon, <2>1
  <2>3. <<r>> \in Seq(Calling) /\ Rising(others[k], <<r>>, session + 1)
    BY Zenon, <1>5, <1>6, <1>7, <2>2, RisingFirst
  <2>4. up' = [up EXCEPT ![k] = <<r>>] BY Zenon, <1>8, <2>2
  <2>5. up' \in [P!Conns -> Seq(Calling)] /\ up'[k] = <<r>> /\ \A j \in P!Conns : j # k => up'[j] = up[j]
    BY <1>6, <2>3, <2>4
  <2>6. session' \in Nat /\ session <= session' /\ Rising(others[k], up'[k], session')
    BY Zenon, <1>5, <1>8, <2>3, <2>5
  <2>7. UNCHANGED <<others, logicGot>> BY Zenon, <1>1
  <2> QED BY Zenon, <1>0, <1>4, <2>5, <2>6, <2>7, SocketInv
<1>9. ASSUME UNCHANGED <<session, up>> PROVE Stream'
  <2>1. UNCHANGED <<others, logicGot>> BY Zenon, <1>1
  <2> QED BY Zenon, <1>0, <1>4, <1>5, <1>6, <1>7, <1>9, <2>1, SocketInv
<1>10. Stream' BY Zenon, <1>1, <1>8, <1>9
<1> QED BY Zenon, <1>2, <1>3, <1>10 DEF PInv

\* A client that does not wait sends a request; a ping is sent.
LEMMA SendPlayer ==
    ASSUME PlayerConstants, PInv,
           (\E id \in {"login", "match", "enter", "ping"} : P!SendEagerly(id)) \/ P!Ping
    PROVE  PInv'
<1>0. Playing /\ Behind /\ Stream /\ StreamTypes /\ session \in Nat BY Zenon, Parts DEF StreamTypes
<1>1. PICK id \in {"login", "match", "enter", "move", "ping"} :
         /\ up' = [up EXCEPT ![ws] = Append(@, P!Req(id))] /\ session' = session + 1
         /\ pings' = pings \/ pings' = pings + 1
         /\ UNCHANGED <<sock, others, logicGot, link, down, pbudget, ws, lpc, woken, croom, turn, afterTurn,
                        lg, lack, asked, online, answered, fg, room, rturn, entered>>
  BY Zenon DEF P!SendEagerly, P!Ping, P!client, P!proxy, P!login, P!services, P!history
<1>2. P!Req(id) \in Calling /\ P!Req(id).session = session + 1 BY Zenon, <1>0, ReqFacts
<1>3. Stream'
  <2>1. UNCHANGED <<sock, others, logicGot>> BY Zenon, <1>1
  <2> QED BY Zenon, <1>0, <1>1, <1>2, <2>1, PushInv
<1>4. Behind' BY Zenon, <1>0, <1>1, SameBehind
<1>5. Playing'
  <2>1. pings \in Nat BY Zenon, <1>0 DEF Playing
  <2>2. pings' \in Nat BY <1>1, <2>1
  <2> QED BY Zenon, <1>0, <1>1, <2>2 DEF Playing, P!Conns
<1> QED BY Zenon, <1>3, <1>4, <1>5 DEF PInv

\* A connection breaks; the end of one is noticed by the client; a login
\* service is known.
LEMMA BreakPlayer ==
    ASSUME PlayerConstants, PInv, (\E k \in P!Conns : P!Break(k)) \/ P!LoseConnection \/ P!Subscribe
    PROVE  PInv'
<1>0. Playing /\ Behind /\ Stream BY Zenon, Parts
<1>1. UNCHANGED <<session, up, sock, others, logicGot, pbudget, croom, turn, pings,
                  lg, lack, asked, online, answered, fg, room, rturn, entered>>
  BY Zenon DEF P!Break, P!LoseConnection, P!Subscribe, P!links, P!client, P!proxy, P!login, P!services, P!history
<1>2. Stream' BY Zenon, <1>0, <1>1, SameStream
<1>3. Behind' BY Zenon, <1>0, <1>1, SameBehind
<1>4. Playing'
  <2>0. link \in [P!Conns -> {"none", "up", "down"}] /\ down \in [P!Conns -> Seq(Acks)] BY Zenon, <1>0 DEF Playing
  <2>1. ASSUME NEW k \in P!Conns, P!Break(k) PROVE Playing'
    <3>1. link' \in [P!Conns -> {"none", "up", "down"}] BY <2>0, <2>1 DEF P!Break
    <3>2. UNCHANGED <<down, pbudget, ws, lpc, woken, croom, turn, afterTurn, pings>>
      BY Zenon, <2>1 DEF P!Break, P!client
    <3> QED BY Zenon, <1>0, <3>1, <3>2 DEF Playing, P!Conns
  <2>2. CASE P!LoseConnection
    <3>1. /\ ws' = 0 /\ woken' = None /\ afterTurn' = FALSE /\ link' = link /\ lpc' \in {"none", lpc}
          /\ down' = [down EXCEPT ![ws] = <<>>]
      BY Zenon, <2>2 DEF P!LoseConnection
    <3>2. down' \in [P!Conns -> Seq(Acks)] BY Zenon, <2>0, <3>1, EmptyLen
    <3>3. 0 \in 0..MaxConns BY DEF PlayerConstants
    <3>4. lpc' \in Waits BY Zenon, <1>0, <3>1 DEF Playing, Waits
    <3> QED BY Zenon, <1>0, <1>1, <3>1, <3>2, <3>3, <3>4 DEF Playing, P!Conns
  <2>3. CASE P!Subscribe
    <3>1. UNCHANGED <<link, down, pbudget, ws, lpc, woken, croom, turn, afterTurn, pings>>
      BY Zenon, <2>3 DEF P!Subscribe, P!links, P!client
    <3> QED BY Zenon, <1>0, <3>1, SamePlaying
  <2> QED BY Zenon, <2>1, <2>2, <2>3
<1> QED BY Zenon, <1>2, <1>3, <1>4 DEF PInv

\* run: the client gets a message.
LEMMA ReceivePlayer ==
    ASSUME PlayerConstants, PInv, P!Receive
    PROVE  PInv'
<1>0. /\ Playing /\ Behind /\ Stream /\ \A k \in 0..MaxConns : k # 0 => k \in P!Conns BY Zenon, Parts
<1>1. /\ ws # 0 /\ down[ws] # <<>> /\ down' = [down EXCEPT ![ws] = Tail(@)]
      /\ UNCHANGED <<link, up, session, pbudget, ws, lpc, afterTurn, pings, sock, lg, lack,
                     asked, online, fg, room, rturn, entered, others, logicGot, answered>>
  BY Zenon DEF P!Receive, P!proxy, P!login, P!services
<1>2. Stream' BY Zenon, <1>0, <1>1, SameStream
<1>3. Behind' BY Zenon, <1>0, <1>1, SameBehind
<1>4. ws \in P!Conns /\ down \in [P!Conns -> Seq(Acks)] /\ down[ws] \in Seq(Acks)
  <2>1. ws \in 0..MaxConns /\ down \in [P!Conns -> Seq(Acks)] BY Zenon, <1>0 DEF Playing
  <2> QED BY Zenon, <1>0, <1>1, <2>1
<1>5. PICK m \in Acks : m = Head(down[ws]) BY Zenon, <1>1, <1>4, HeadInRange
<1>6. down' \in [P!Conns -> Seq(Acks)]
  <2>1. Tail(down[ws]) \in Seq(Acks) BY Zenon, <1>1, <1>4, TailIndex
  <2> QED BY <1>1, <1>4, <2>1
<1>7. \/ /\ turn' = TRUE /\ croom' \in {0, croom}
         /\ woken' = (IF lpc = "turn" /\ woken = None THEN [id |-> "cv"] ELSE woken)
      \/ woken' = m /\ UNCHANGED <<turn, croom>>
      \/ UNCHANGED <<turn, croom, woken>>
  BY Zenon, <1>5 DEF P!Receive, P!ReceiveMove
<1>8. woken = None \/ woken \in Acks \/ lpc \in {"turn", "end"} BY Zenon, <1>0 DEF Playing
<1>9. woken' = None \/ woken' \in Acks \/ lpc' \in {"turn", "end"} BY Zenon, <1>1, <1>7, <1>8
<1>10. turn \in BOOLEAN /\ croom \in 0..1 BY Zenon, <1>0 DEF Playing
<1>11. turn' \in BOOLEAN BY Zenon, <1>7, <1>10
<1>12. 0 \in 0..1 OBVIOUS
<1>13. croom' \in 0..1 BY Zenon, <1>7, <1>10, <1>12
<1>14. Playing' BY Zenon, <1>0, <1>1, <1>6, <1>9, <1>11, <1>13 DEF Playing, P!Conns
<1> QED BY Zenon, <1>2, <1>3, <1>14 DEF PInv

\* What logic() does with its connection when it goes on.
Onwards ==
    \/ \E id \in {"login", "match", "enter", "move", "ping"} : P!Call(id)
    \/ P!StopClient
    \/ UNCHANGED P!links

\* It goes on to one of the places where it waits.
LEMMA OnwardFacts ==
    /\ \A id \in {"match", "enter", "move"} : P!Call(id) => Onwards /\ lpc' \in Waits
    /\ P!StopClient => Onwards /\ lpc' = "end" /\ lpc' \in Waits
    /\ \A b : P!TakeTurn(b) => Onwards /\ lpc' \in Waits
    /\ P!AskNext => Onwards /\ lpc' \in Waits
    /\ \A where \in P!Sleeps : P!Sleep(where) => Onwards /\ lpc' \in Waits
<1>1. \A id \in {"match", "enter", "move"} : P!Call(id) => Onwards /\ lpc' \in Waits
  BY Zenon DEF P!Call, Onwards, Waits
<1>2. P!StopClient => Onwards /\ lpc' = "end" /\ lpc' \in Waits BY Zenon DEF P!StopClient, Onwards, Waits
<1>3. \A b : P!TakeTurn(b) => Onwards /\ lpc' \in Waits
  <2> SUFFICES ASSUME NEW b, P!TakeTurn(b) PROVE Onwards /\ lpc' \in Waits BY Zenon
  <2>1. UNCHANGED P!links /\ lpc' \in {"input", "turn"} BY Zenon DEF P!TakeTurn
  <2> QED BY Zenon, <2>1 DEF Onwards, Waits
<1>4. P!AskNext => Onwards /\ lpc' \in Waits BY Zenon DEF P!AskNext, Onwards, Waits
<1>5. \A where \in P!Sleeps : P!Sleep(where) => Onwards /\ lpc' \in Waits
  BY Zenon DEF P!Sleep, P!Sleeps, Onwards, Waits
<1> QED BY Zenon, <1>1, <1>2, <1>3, <1>4, <1>5

\* logic() is resumed.
LEMMA ResumeFacts ==
    ASSUME Playing, woken # None,
           P!ResumeLogin \/ P!ResumeMatch \/ P!ResumeEnter \/ P!ResumeMove \/ P!ResumeTurn
    PROVE  Onwards /\ lpc' \in Waits /\ croom' \in 0..1 /\ turn' \in BOOLEAN /\ afterTurn' \in BOOLEAN
<1>0. /\ croom \in 0..1 /\ turn \in BOOLEAN /\ afterTurn \in BOOLEAN
      /\ woken \in Acks \/ lpc \in {"turn", "end"}
  BY Zenon DEF Playing
<1>1. woken \in Acks => woken.room \in 0..1 /\ woken.turn \in BOOLEAN BY DEF Acks
<1>2. 0 \in 0..1 OBVIOUS
<1>3. CASE P!ResumeLogin
  <2>1. lpc = "login" /\ UNCHANGED <<turn, afterTurn>> BY Zenon, <1>3 DEF P!ResumeLogin
  <2>2. woken \in Acks BY <1>0, <2>1
  <2>3. croom' \in {croom, woken.room} BY Zenon, <1>3 DEF P!ResumeLogin
  <2>4. Onwards /\ lpc' \in Waits BY Zenon, <1>3, OnwardFacts DEF P!ResumeLogin, P!Sleeps
  <2> QED BY Zenon, <1>0, <1>1, <2>1, <2>2, <2>3, <2>4
<1>4. CASE P!ResumeMatch
  <2>1. lpc = "match" /\ UNCHANGED <<turn, afterTurn>> BY Zenon, <1>4 DEF P!ResumeMatch
  <2>2. woken \in Acks BY <1>0, <2>1
  <2>3. croom' \in {croom, woken.room} BY Zenon, <1>4 DEF P!ResumeMatch
  <2>4. Onwards /\ lpc' \in Waits BY Zenon, <1>4, OnwardFacts DEF P!ResumeMatch, P!Sleeps
  <2> QED BY Zenon, <1>0, <1>1, <2>1, <2>2, <2>3, <2>4
<1>5. CASE P!ResumeEnter
  <2>1. lpc = "enter" /\ UNCHANGED <<croom, afterTurn>> BY Zenon, <1>5 DEF P!ResumeEnter
  <2>2. woken \in Acks BY <1>0, <2>1
  <2>3. turn' \in {turn, woken.turn} BY Zenon, <1>5 DEF P!ResumeEnter
  <2>4. Onwards /\ lpc' \in Waits BY Zenon, <1>5, OnwardFacts DEF P!ResumeEnter, P!Sleeps
  <2> QED BY Zenon, <1>0, <1>1, <2>1, <2>2, <2>3, <2>4
<1>6. CASE P!ResumeMove
  <2>1. afterTurn' = afterTurn /\ croom' \in {0, croom} /\ turn' \in {FALSE, turn} BY Zenon, <1>6 DEF P!ResumeMove
  <2>2. Onwards /\ lpc' \in Waits BY Zenon, <1>6, OnwardFacts DEF P!ResumeMove
  <2> QED BY Zenon, <1>0, <1>2, <2>1, <2>2
<1>7. CASE P!ResumeTurn
  <2>1. UNCHANGED <<turn, croom>> /\ afterTurn' \in {TRUE, afterTurn} BY Zenon, <1>7 DEF P!ResumeTurn
  <2>2. Onwards /\ lpc' \in Waits BY Zenon, <1>7, OnwardFacts DEF P!ResumeTurn
  <2> QED BY Zenon, <1>0, <2>1, <2>2
<1> QED BY Zenon, <1>3, <1>4, <1>5, <1>6, <1>7

\* The scheduler resumes logic().
LEMMA ResumePlayer ==
    ASSUME PlayerConstants, PInv, P!Resume
    PROVE  PInv'
<1>0. Playing /\ Behind /\ Stream BY Zenon, Parts
<1>1. /\ woken # None /\ woken' = None
      /\ P!ResumeLogin \/ P!ResumeMatch \/ P!ResumeEnter \/ P!ResumeMove \/ P!ResumeTurn
      /\ UNCHANGED <<pbudget, ws, pings, sock, lg, lack, asked, online, fg, room, rturn, entered,
                     others, logicGot, answered>>
  BY Zenon DEF P!Resume, P!proxy, P!login, P!services, P!history
<1>2. Onwards /\ lpc' \in Waits /\ croom' \in 0..1 /\ turn' \in BOOLEAN /\ afterTurn' \in BOOLEAN
  BY Zenon, <1>0, <1>1, ResumeFacts
<1>3. Stream' /\ link' \in [P!Conns -> {"none", "up", "down"}] /\ down' = down
  <2>1. UNCHANGED <<sock, others, logicGot>> BY Zenon, <1>1
  <2> QED BY Zenon, <1>0, <1>2, <2>1, LogicLinks DEF Onwards
<1>4. Behind' BY Zenon, <1>0, <1>1, SameBehind
<1>5. Playing' BY Zenon, <1>0, <1>1, <1>2, <1>3 DEF Playing, P!Conns, Waits
<1> QED BY Zenon, <1>3, <1>4, <1>5 DEF PInv

\* A sleep of logic() ends.
LEMMA SleepEndsPlayer ==
    ASSUME PlayerConstants, PInv, P!SleepEnds
    PROVE  PInv'
<1>0. Playing /\ Behind /\ Stream BY Zenon, Parts
<1>1. UNCHANGED <<pbudget, ws, woken, croom, turn, pings, sock, lg, lack,
                  asked, online, fg, room, rturn, entered, others, logicGot, answered>>
  BY Zenon DEF P!SleepEnds, P!proxy, P!login, P!services, P!history
<1>2. /\ Onwards /\ lpc' \in Waits /\ afterTurn' \in {FALSE, afterTurn}
      /\ lpc \in {"loggedIn", "matched", "entered", "refused"}
  <2>1. CASE lpc = "loggedIn" /\ P!Call(IF croom = 0 THEN "match" ELSE "enter") /\ UNCHANGED afterTurn
    <3>1. PICK id \in {"match", "enter", "move"} : id = (IF croom = 0 THEN "match" ELSE "enter") BY Zenon
    <3> QED BY Zenon, <2>1, <3>1, OnwardFacts
  <2>2. CASE lpc = "matched" /\ P!Call("enter") /\ UNCHANGED afterTurn BY Zenon, <2>2, OnwardFacts
  <2>3. CASE lpc = "entered" /\ P!TakeTurn(turn \/ afterTurn) /\ afterTurn' = FALSE BY Zenon, <2>3, OnwardFacts
  <2>4. CASE lpc = "refused" /\ P!TakeTurn(turn) /\ UNCHANGED afterTurn BY Zenon, <2>4, OnwardFacts
  <2> QED BY Zenon, <2>1, <2>2, <2>3, <2>4 DEF P!SleepEnds
<1>3. Stream' /\ link' \in [P!Conns -> {"none", "up", "down"}] /\ down' = down
  <2>1. UNCHANGED <<sock, others, logicGot>> BY Zenon, <1>1
  <2> QED BY Zenon, <1>0, <1>2, <2>1, LogicLinks DEF Onwards
<1>4. Behind' BY Zenon, <1>0, <1>1, SameBehind
<1>5. woken' = None \/ woken' \in Acks \/ lpc' \in {"turn", "end"}
  <2>1. woken = None \/ woken \in Acks \/ lpc \in {"turn", "end"} BY Zenon, <1>0 DEF Playing
  <2> QED BY Zenon, <1>1, <1>2, <2>1
<1>6. afterTurn' \in BOOLEAN BY Zenon, <1>0, <1>2 DEF Playing
<1>7. Playing' BY Zenon, <1>0, <1>1, <1>2, <1>3, <1>5, <1>6 DEF Playing, P!Conns, Waits
<1> QED BY Zenon, <1>3, <1>4, <1>7 DEF PInv

\* A line is read from the console.
LEMMA TypePlayer ==
    ASSUME PlayerConstants, PInv, NEW reader \in inputs, P!Type(reader)
    PROVE  PInv'
<1>0. Playing /\ Behind /\ Stream /\ lpc \in Waits BY Zenon, Parts DEF Playing, Waits
<1>1. UNCHANGED <<pbudget, ws, woken, croom, turn, afterTurn, pings, sock, lg, lack,
                  asked, online, fg, room, rturn, entered, others, logicGot, answered>>
  BY Zenon DEF P!Type, P!proxy, P!login, P!services, P!history
<1>2. Onwards /\ lpc' \in Waits /\ (lpc' = lpc \/ lpc' = "end" \/ lpc \in {"input", "next"})
  <2>1. CASE lpc = "input" /\ (P!Call("move") \/ P!Sleep("refused"))
    BY Zenon, <2>1, OnwardFacts DEF P!Sleeps
  <2>2. CASE lpc = "next" /\ (P!Call("match") \/ P!StopClient)
    BY Zenon, <2>2, OnwardFacts
  <2>3. CASE UNCHANGED P!links /\ lpc' \in {lpc, "end"}
    BY Zenon, <1>0, <2>3 DEF Onwards, Waits
  <2> QED BY Zenon, <2>1, <2>2, <2>3 DEF P!Type
<1>3. Stream' /\ link' \in [P!Conns -> {"none", "up", "down"}] /\ down' = down
  <2>1. UNCHANGED <<sock, others, logicGot>> BY Zenon, <1>1
  <2> QED BY Zenon, <1>0, <1>2, <2>1, LogicLinks DEF Onwards
<1>4. Behind' BY Zenon, <1>0, <1>1, SameBehind
<1>5. woken' = None \/ woken' \in Acks \/ lpc' \in {"turn", "end"}
  <2>1. woken = None \/ woken \in Acks \/ lpc \in {"turn", "end"} BY Zenon, <1>0 DEF Playing
  <2>2. lpc \in {"input", "next"} => lpc \notin {"turn", "end"} BY Zenon
  <2> QED BY Zenon, <1>1, <1>2, <2>1, <2>2
<1>6. Playing' BY Zenon, <1>0, <1>1, <1>2, <1>3, <1>5 DEF Playing, P!Conns, Waits
<1> QED BY Zenon, <1>3, <1>4, <1>6 DEF PInv

\* The proxy reads a request.
LEMMA ReadRequest ==
    ASSUME Stream, NEW k \in P!Conns, up[k] # <<>>, up' = [up EXCEPT ![k] = Tail(@)]
    PROVE  /\ Head(up[k]) \in Calling /\ others[k] \in Seq(Nat)
           /\ up' \in [P!Conns -> Seq(Calling)] /\ \A j \in P!Conns : j # k => up'[j] = up[j]
           /\ Rising(others[k], up'[k], session)
           /\ Append(others[k], Head(up[k]).session) \in Seq(Nat)
           /\ Rising(Append(others[k], Head(up[k]).session), up'[k], session)
           /\ session \in Nat /\ session <= session
<1>1. /\ StreamTypes /\ up \in [P!Conns -> Seq(Calling)] /\ up[k] \in Seq(Calling) /\ others[k] \in Seq(Nat)
      /\ session \in Nat /\ Rising(others[k], up[k], session)
  BY Zenon DEF Stream, StreamTypes
<1>2. /\ Tail(up[k]) \in Seq(Calling) /\ Rising(others[k], Tail(up[k]), session)
      /\ Head(up[k]) \in Calling /\ Append(others[k], Head(up[k]).session) \in Seq(Nat)
      /\ Rising(Append(others[k], Head(up[k]).session), Tail(up[k]), session)
  BY Zenon, <1>1, RisingTail
<1>3. up' \in [P!Conns -> Seq(Calling)] /\ up'[k] = Tail(up[k]) /\ \A j \in P!Conns : j # k => up'[j] = up[j]
  BY <1>1, <1>2
<1>4. session <= session BY <1>1
<1> QED BY Zenon, <1>1, <1>2, <1>3, <1>4

\* A message to the client.
LEMMA ReplyFacts ==
    ASSUME Playing, NEW k, NEW m \in Acks, P!Reply(k, m)
    PROVE  down' \in [P!Conns -> Seq(Acks)]
<1>1. down \in [P!Conns -> Seq(Acks)] BY Zenon DEF Playing
<1>2. \A q \in Seq(Acks) : Append(q, m) \in Seq(Acks) BY Zenon, AppendIndex
<1> QED BY Zenon, <1>1, <1>2 DEF P!Reply

\* The messages to a client.
LEMMA AckFacts ==
    ASSUME NEW id \in {"login", "pong", "no_match", "match", "enter", "move", "brd"}, NEW n \in Nat, NEW ok \in BOOLEAN
    PROVE  /\ P!Ack(id, n, ok) \in Acks
           /\ \A r \in 0..1 : [P!Ack(id, n, ok) EXCEPT !.room = r] \in Acks
           /\ \A b \in BOOLEAN : /\ [P!Ack(id, n, ok) EXCEPT !.turn = b] \in Acks
                                 /\ [P!Ack(id, n, ok) EXCEPT !.over = b] \in Acks
                                 /\ [P!Ack(id, n, ok) EXCEPT !.invalid = b] \in Acks
<1>1. P!Ack(id, n, ok) \in Acks BY DEF P!Ack, Acks
<1>2. ASSUME NEW a \in Acks
      PROVE  /\ \A r \in 0..1 : [a EXCEPT !.room = r] \in Acks
             /\ \A b \in BOOLEAN : /\ [a EXCEPT !.turn = b] \in Acks /\ [a EXCEPT !.over = b] \in Acks
                                   /\ [a EXCEPT !.invalid = b] \in Acks
  BY DEF Acks
<1> QED BY Zenon, <1>1, <1>2

\* What the proxy asks the services for a client.
LEMMA AskedFacts ==
    ASSUME NEW k \in P!Conns, NEW m \in Calling
    PROVE  P!Asked(k, m) \in Asking
BY DEF P!Asked, Calling, Asking

\* client_register: the login goes to the login service, or closes the socket.
LEMMA ClientRegisterPlayer ==
    ASSUME PlayerConstants, PInv, NEW k \in P!Conns, P!ClientRegister(k)
    PROVE  PInv'
<1>0. Playing /\ Behind /\ Stream /\ StreamTypes BY Zenon, Parts
<1>1. /\ up[k] # <<>> /\ up' = [up EXCEPT ![k] = Tail(@)]
      /\ link' = link \/ link' = [link EXCEPT ![k] = "down"]
      /\ sock' = sock \/ sock' = [sock EXCEPT ![k].wait = TRUE]
      /\ lg' = lg \/ lg' = [lg EXCEPT ![k] = [step |-> "center", session |-> Head(up[k]).session]]
      /\ UNCHANGED <<session, pbudget, ws, lpc, woken, croom, turn, afterTurn, pings, down, lack, asked, online,
                     fg, room, rturn, entered, answered, others, logicGot>>
  BY Zenon DEF P!ClientRegister, P!LoginStarts, P!Read, P!client
<1>2. /\ Head(up[k]) \in Calling /\ up' \in [P!Conns -> Seq(Calling)] /\ \A j \in P!Conns : j # k => up'[j] = up[j]
      /\ Rising(others[k], up'[k], session) /\ session \in Nat /\ session <= session
  BY Zenon, <1>0, <1>1, ReadRequest
<1>3. Stream'
  <2>1. UNCHANGED <<others, logicGot>> BY Zenon, <1>1
  <2>2. /\ sock' \in [P!Conns -> SocketRecords] /\ sock'[k].cache = sock[k].cache
        /\ \A j \in P!Conns : j # k => sock'[j] = sock[j]
        /\ ~sock'[k].wait => ~sock[k].wait
    <3>1. sock \in [P!Conns -> SocketRecords] BY Zenon, <1>0 DEF StreamTypes
    <3> QED BY Zenon, <1>0, <1>1, <3>1, SocketWaits
  <2> QED BY Zenon, <1>0, <1>1, <1>2, <2>1, <2>2, SocketInv
<1>4. Behind'
  <2>1. Head(up[k]).session \in Nat BY <1>2 DEF Calling
  <2>2. PICK r \in LoginRecords : r = [step |-> "center", session |-> Head(up[k]).session]
    BY Zenon, <2>1 DEF LoginRecords
  <2>3. lg \in [P!Conns -> LoginRecords] /\ (lg' = lg \/ lg' = [lg EXCEPT ![k] = r])
    BY Zenon, <1>0, <1>1, <2>2 DEF Behind
  <2>4. lg' \in [P!Conns -> LoginRecords] BY <2>3
  <2> QED BY Zenon, <1>0, <1>1, <2>4 DEF Behind, P!Conns
<1>5. Playing'
  <2>1. link' \in [P!Conns -> {"none", "up", "down"}] BY SMTT(30), <1>0, <1>1 DEF Playing
  <2> QED BY Zenon, <1>0, <1>1, <2>1 DEF Playing, P!Conns
<1> QED BY Zenon, <1>3, <1>4, <1>5 DEF PInv

\* client_room: to the room the client is in.
LEMMA ClientRoomPlayer ==
    ASSUME PlayerConstants, PInv, NEW k \in P!Conns, P!ClientRoom(k)
    PROVE  PInv'
<1>0. Playing /\ Behind /\ Stream /\ StreamTypes BY Zenon, Parts
<1>1. /\ up[k] # <<>> /\ up' = [up EXCEPT ![k] = Tail(@)]
      /\ asked' = asked \/ asked' = asked \cup {P!Asked(k, Head(up[k]))}
      /\ down' = down \/ P!Reply(k, P!Ack("no_match", Head(up[k]).session, FALSE))
      /\ UNCHANGED <<session, pbudget, ws, lpc, woken, croom, turn, afterTurn, pings, link, sock, lg, lack, online,
                     fg, room, rturn, entered, answered, others, logicGot>>
  BY Zenon DEF P!ClientRoom, P!Read, P!client
<1>2. /\ Head(up[k]) \in Calling /\ up' \in [P!Conns -> Seq(Calling)] /\ \A j \in P!Conns : j # k => up'[j] = up[j]
      /\ Rising(others[k], up'[k], session) /\ session \in Nat /\ session <= session
  BY Zenon, <1>0, <1>1, ReadRequest
<1>3. Stream'
  <2>1. UNCHANGED <<others, logicGot>> BY Zenon, <1>1
  <2>2. sock' \in [P!Conns -> SocketRecords] BY Zenon, <1>0, <1>1 DEF StreamTypes
  <2> QED BY Zenon, <1>0, <1>1, <1>2, <2>1, <2>2, SocketInv
<1>4. Behind'
  <2>0. asked \subseteq Asking /\ P!Asked(k, Head(up[k])) \in Asking BY Zenon, <1>0, <1>2, AskedFacts DEF Behind
  <2>1. asked' \subseteq Asking BY Zenon, <1>1, <2>0
  <2> QED BY Zenon, <1>0, <1>1, <2>1 DEF Behind, P!Conns
<1>5. Playing'
  <2>1. Head(up[k]).session \in Nat BY <1>2 DEF Calling
  <2>2. P!Ack("no_match", Head(up[k]).session, FALSE) \in Acks BY Zenon, <2>1, AckFacts
  <2>3. down \in [P!Conns -> Seq(Acks)] BY Zenon, <1>0 DEF Playing
  <2>4. down' \in [P!Conns -> Seq(Acks)] BY Zenon, <1>0, <1>1, <2>2, <2>3, ReplyFacts
  <2> QED BY Zenon, <1>0, <1>1, <2>4 DEF Playing, P!Conns
<1> QED BY Zenon, <1>3, <1>4, <1>5 DEF PInv

\* A request that the proxy takes for the logic service.
LEMMA TakeInv ==
    ASSUME Stream, NEW k \in P!Conns, up[k] # <<>>, up' = [up EXCEPT ![k] = Tail(@)], session' = session,
           others' = [others EXCEPT ![k] = Append(@, Head(up[k]).session)],
           \/ /\ sock[k].wait /\ sock' = [sock EXCEPT ![k].cache = Append(@, Head(up[k]))] /\ logicGot' = logicGot
           \/ /\ ~sock[k].wait /\ sock[k].userid # 0 /\ sock' = sock
              /\ logicGot' = [logicGot EXCEPT ![k] = Append(@, P!Forwarded(k, Head(up[k])))]
    PROVE  Stream'
<1>0. /\ StreamTypes /\ sock \in [P!Conns -> SocketRecords] /\ sock[k] \in SocketRecords
      /\ others \in [P!Conns -> Seq(Nat)] /\ logicGot \in [P!Conns -> Seq(Forwards)] /\ logicGot[k] \in Seq(Forwards)
      /\ Taken(others[k], logicGot[k], sock[k].cache) /\ (~sock[k].wait => sock[k].cache = <<>>)
  BY Zenon DEF Stream, StreamTypes
<1>1. PICK m \in Calling : m = Head(up[k]) BY Zenon, ReadRequest
<1>2. /\ up' \in [P!Conns -> Seq(Calling)] /\ \A j \in P!Conns : j # k => up'[j] = up[j]
      /\ session \in Nat /\ session <= session /\ others[k] \in Seq(Nat)
      /\ Append(others[k], m.session) \in Seq(Nat) /\ Rising(Append(others[k], m.session), up'[k], session)
  BY Zenon, <1>1, ReadRequest
<1>3. /\ others' \in [P!Conns -> Seq(Nat)] /\ others'[k] = Append(others[k], m.session)
      /\ \A j \in P!Conns : j # k => others'[j] = others[j]
  BY <1>0, <1>1, <1>2
<1>4. Rising(others'[k], up'[k], session') BY Zenon, <1>2, <1>3
<1>5. CASE sock[k].wait /\ sock' = [sock EXCEPT ![k].cache = Append(@, m)] /\ logicGot' = logicGot
  <2>1. sock[k].cache \in Seq(Calling) BY <1>0 DEF SocketRecords
  <2>2. Append(sock[k].cache, m) \in Seq(Calling) BY Zenon, <2>1, AppendIndex
  <2>3. PICK c \in Seq(Calling) : c = Append(sock[k].cache, m) BY Zenon, <2>2
  <2>4. PICK v \in SocketRecords : v = [sock[k] EXCEPT !.cache = c] /\ v.cache = c /\ v.wait = sock[k].wait
    <3>1. /\ [sock[k] EXCEPT !.cache = c] \in SocketRecords /\ [sock[k] EXCEPT !.cache = c].cache = c
          /\ [sock[k] EXCEPT !.cache = c].wait = sock[k].wait
      BY Zenon, <1>0 DEF SocketRecords
    <3> QED BY Zenon, <3>1
  <2>5. sock' = [sock EXCEPT ![k] = v] BY Zenon, <1>5, <2>3, <2>4
  <2>6. /\ sock' \in [P!Conns -> SocketRecords] /\ sock'[k] = v
        /\ \A j \in P!Conns : j # k => sock'[j] = sock[j]
    BY <1>0, <2>5
  <2>7. Taken(others'[k], logicGot'[k], sock'[k].cache)
    <3>1. Taken(Append(others[k], m.session), logicGot[k], Append(sock[k].cache, m))
      BY Zenon, <1>0, <1>2, <2>1, TakenKept
    <3> QED BY Zenon, <1>3, <1>5, <2>3, <2>4, <2>6, <3>1
  <2>8. sock'[k].wait BY Zenon, <1>5, <2>4, <2>6
  <2>9. StreamTypes' BY Zenon, <1>0, <1>2, <1>3, <1>5, <2>6 DEF StreamTypes, P!Conns
  <2>10. session <= session' /\ \A j \in P!Conns : j # k => logicGot'[j] = logicGot[j] BY Zenon, <1>2, <1>5
  <2> QED BY Zenon, <1>2, <1>3, <1>4, <2>6, <2>7, <2>8, <2>9, <2>10, StreamMoves
<1>6. CASE /\ ~sock[k].wait /\ sock[k].userid # 0 /\ sock' = sock
           /\ logicGot' = [logicGot EXCEPT ![k] = Append(@, P!Forwarded(k, m))]
  <2>1. sock[k].userid = 1 BY <1>0, <1>6 DEF SocketRecords
  <2>2. P!Forwarded(k, m) = [session |-> m.session, userid |-> 1] BY Zenon, <1>6, <2>1 DEF P!Forwarded
  <2>3. PICK f \in Forwards : f = P!Forwarded(k, m) /\ f.session = m.session BY <2>2 DEF Forwards, Calling
  <2>4. Taken(others[k], logicGot[k], <<>>) BY Zenon, <1>0, <1>6
  <2>5. /\ Append(logicGot[k], f) \in Seq(Forwards)
        /\ Taken(Append(others[k], f.session), Append(logicGot[k], f), <<>>)
    BY Zenon, <1>0, <1>2, <2>4, TakenNow
  <2>6. /\ logicGot' \in [P!Conns -> Seq(Forwards)] /\ logicGot'[k] = Append(logicGot[k], f)
        /\ \A j \in P!Conns : j # k => logicGot'[j] = logicGot[j]
    <3>1. logicGot' = [logicGot EXCEPT ![k] = Append(@, f)] BY Zenon, <1>6, <2>3
    <3> QED BY <1>0, <2>5, <3>1
  <2>7. sock'[k].cache = <<>> BY Zenon, <1>0, <1>6
  <2>8. Taken(others'[k], logicGot'[k], sock'[k].cache) BY Zenon, <1>3, <2>3, <2>5, <2>6, <2>7
  <2>9. StreamTypes' BY Zenon, <1>0, <1>2, <1>3, <1>6, <2>6 DEF StreamTypes, P!Conns
  <2>10. session <= session' /\ \A j \in P!Conns : j # k => sock'[j] = sock[j] BY Zenon, <1>2, <1>6
  <2>11. ~sock'[k].wait => sock'[k].cache = <<>> BY Zenon, <2>7
  <2> QED BY ZenonT(30), <1>2, <1>3, <1>4, <2>6, <2>8, <2>9, <2>10, <2>11, StreamMoves
<1> QED BY Zenon, <1>1, <1>5, <1>6

\* client_other_msg: a ping is answered, a request is kept, dropped or passed on.
LEMMA ClientOtherPlayer ==
    ASSUME PlayerConstants, PInv, NEW k \in P!Conns, P!ClientOther(k)
    PROVE  PInv'
<1>0. Playing /\ Behind /\ Stream /\ StreamTypes BY Zenon, Parts
<1>1. /\ up[k] # <<>> /\ up' = [up EXCEPT ![k] = Tail(@)]
      /\ UNCHANGED <<session, pbudget, ws, lpc, woken, croom, turn, afterTurn, pings, link, lg, lack, online,
                     fg, room, rturn, entered, answered>>
  BY Zenon DEF P!ClientOther, P!Read, P!client
<1>2. /\ Head(up[k]) \in Calling /\ up' \in [P!Conns -> Seq(Calling)] /\ \A j \in P!Conns : j # k => up'[j] = up[j]
      /\ Rising(others[k], up'[k], session) /\ session \in Nat /\ session <= session
  BY Zenon, <1>0, <1>1, ReadRequest
<1>3. PICK m \in Calling : m = Head(up[k]) BY Zenon, <1>2
<1>4. /\ asked' = asked \/ asked' = asked \cup {P!Asked(k, m)}
      /\ down' = down \/ P!Reply(k, P!Ack("pong", m.session, TRUE))
      /\ \/ UNCHANGED <<sock, others, logicGot>>
         \/ /\ others' = [others EXCEPT ![k] = Append(@, m.session)]
            /\ \/ /\ sock[k].wait /\ sock' = [sock EXCEPT ![k].cache = Append(@, m)] /\ logicGot' = logicGot
               \/ /\ ~sock[k].wait /\ sock[k].userid # 0 /\ sock' = sock
                  /\ logicGot' = [logicGot EXCEPT ![k] = Append(@, P!Forwarded(k, m))]
  BY Zenon, <1>3 DEF P!ClientOther
<1>5. Stream'
  <2>1. CASE UNCHANGED <<sock, others, logicGot>>
    <3>1. sock' \in [P!Conns -> SocketRecords] BY Zenon, <1>0, <2>1 DEF StreamTypes
    <3> QED BY Zenon, <1>0, <1>1, <1>2, <2>1, <3>1, SocketInv
  <2>2. CASE /\ others' = [others EXCEPT ![k] = Append(@, m.session)]
             /\ \/ /\ sock[k].wait /\ sock' = [sock EXCEPT ![k].cache = Append(@, m)] /\ logicGot' = logicGot
                \/ /\ ~sock[k].wait /\ sock[k].userid # 0 /\ sock' = sock
                   /\ logicGot' = [logicGot EXCEPT ![k] = Append(@, P!Forwarded(k, m))]
    <3>1. session' = session BY Zenon, <1>1
    <3> QED BY Zenon, <1>0, <1>1, <1>3, <2>2, <3>1, TakeInv
  <2> QED BY Zenon, <1>4, <2>1, <2>2
<1>6. Behind'
  <2>0. asked \subseteq Asking /\ P!Asked(k, m) \in Asking BY Zenon, <1>0, AskedFacts DEF Behind
  <2>1. asked' \subseteq Asking BY Zenon, <1>4, <2>0
  <2> QED BY Zenon, <1>0, <1>1, <2>1 DEF Behind, P!Conns
<1>7. Playing'
  <2>1. m.session \in Nat BY DEF Calling
  <2>2. P!Ack("pong", m.session, TRUE) \in Acks BY Zenon, <2>1, AckFacts
  <2>3. down \in [P!Conns -> Seq(Acks)] BY Zenon, <1>0 DEF Playing
  <2>4. down' \in [P!Conns -> Seq(Acks)] BY Zenon, <1>0, <1>4, <2>2, <2>3, ReplyFacts
  <2> QED BY Zenon, <1>0, <1>1, <2>4 DEF Playing, P!Conns
<1> QED BY Zenon, <1>5, <1>6, <1>7 DEF PInv

\* One element of a function is replaced.
LEMMA OnePut ==
    ASSUME NEW S, NEW T, NEW f \in [S -> T], NEW k \in S, NEW v \in T
    PROVE  [f EXCEPT ![k] = v] \in [S -> T] /\ [f EXCEPT ![k] = v][k] = v
OBVIOUS

\* The socket of a client that has logged in.
LEMMA LoggedIn ==
    ASSUME NEW s \in SocketRecords, NEW r \in 0..1, NEW v,
           v = [s EXCEPT !.logic = 1, !.wait = FALSE, !.room = r, !.userid = 1, !.cache = <<>>]
    PROVE  v \in SocketRecords /\ v.cache = <<>> /\ v.userid = 1
<1>1. v = [st |-> s.st, userid |-> 1, wait |-> FALSE, logic |-> 1, room |-> r, cache |-> <<>>]
  BY Zenon DEF SocketRecords
<1>2. <<>> \in Seq(Calling) BY Zenon, EmptyLen
<1>3. s.st \in {"none", "open", "gone"} /\ 1 \in 0..1 BY DEF SocketRecords
<1>4. v \in SocketRecords BY Zenon, <1>1, <1>2, <1>3 DEF SocketRecords
<1>5. v.cache = <<>> /\ v.userid = 1 BY <1>1
<1> QED BY Zenon, <1>4, <1>5

\* client_login_ack: what was kept is passed on.
LEMMA LoginInv ==
    ASSUME Stream, NEW k \in P!Conns, NEW ack \in Acks,
           sock' = [sock EXCEPT ![k].logic = 1, ![k].wait = FALSE, ![k].room = ack.room,
                                ![k].userid = 1, ![k].cache = <<>>],
           logicGot' = [logicGot EXCEPT ![k] =
                           @ \o [i \in DOMAIN sock[k].cache |-> P!Forwarded(k, sock[k].cache[i])]],
           UNCHANGED <<session, up, others>>
    PROVE  Stream'
<1>0. /\ StreamTypes /\ sock \in [P!Conns -> SocketRecords] /\ sock[k] \in SocketRecords /\ session \in Nat
      /\ others[k] \in Seq(Nat) /\ logicGot \in [P!Conns -> Seq(Forwards)] /\ logicGot[k] \in Seq(Forwards)
      /\ Taken(others[k], logicGot[k], sock[k].cache) /\ Rising(others[k], up[k], session)
  BY Zenon DEF Stream, StreamTypes
<1>1. PICK c \in Seq(Calling) : c = sock[k].cache BY <1>0 DEF SocketRecords
<1>2. ack.room \in 0..1 BY DEF Acks
<1>3. <<>> \in Seq(Calling) BY Zenon, EmptyLen
<1>4. /\ sock' \in [P!Conns -> SocketRecords] /\ sock'[k].cache = <<>> /\ sock'[k].userid = 1
      /\ \A j \in P!Conns : j # k => sock'[j] = sock[j]
  <2>1. PICK v : v = [sock[k] EXCEPT !.logic = 1, !.wait = FALSE, !.room = ack.room, !.userid = 1, !.cache = <<>>]
    BY Zenon
  <2>2. v \in SocketRecords /\ v.cache = <<>> /\ v.userid = 1 BY Zenon, <1>0, <1>2, <2>1, LoggedIn
  <2>3. sock' = [sock EXCEPT ![k] = v] BY Zenon, <1>0, <2>1
  <2>4. [sock EXCEPT ![k] = v] \in [P!Conns -> SocketRecords] /\ [sock EXCEPT ![k] = v][k] = v
    BY Zenon, <1>0, <2>2, OnePut
  <2>5. \A j \in P!Conns : j # k => sock'[j] = sock[j] BY Zenon, <1>0, <2>3
  <2>6. sock' \in [P!Conns -> SocketRecords] /\ sock'[k] = v BY Zenon, <2>3, <2>4
  <2> QED BY Zenon, <2>2, <2>5, <2>6
<1>5. DOMAIN c = 1..Len(c) /\ Len(c) \in Nat BY Zenon, LenFacts
<1>6. PICK f : f = [i \in 1..Len(c) |-> P!Forwarded(k, c[i])] BY Zenon
<1>7. \A i \in 1..Len(c) : f[i] = [session |-> c[i].session, userid |-> 1] /\ c[i].session \in Nat
  BY Zenon, <1>4, <1>6, Numbered DEF P!Forwarded
<1>8. \A i \in 1..Len(c) : f[i] \in Forwards /\ f[i].session = c[i].session
  <2>1. \A n \in Nat : [session |-> n, userid |-> 1] \in Forwards /\ [session |-> n, userid |-> 1].session = n
    BY DEF Forwards
  <2> QED BY Zenon, <1>7, <2>1
<1>9. f \in Seq(Forwards) /\ Len(f) = Len(c) BY <1>5, <1>6, <1>8
<1>10. logicGot[k] \o f \in Seq(Forwards) /\ Taken(others[k], logicGot[k] \o f, <<>>)
  BY Zenon, <1>0, <1>1, <1>8, <1>9, TakenLogin
<1>11. logicGot' = [logicGot EXCEPT ![k] = @ \o f] BY Zenon, <1>1, <1>5, <1>6
<1>12. /\ logicGot' \in [P!Conns -> Seq(Forwards)] /\ logicGot'[k] = logicGot[k] \o f
       /\ \A j \in P!Conns : j # k => logicGot'[j] = logicGot[j]
  BY Zenon, <1>0, <1>10, <1>11
<1>13. StreamTypes' BY Zenon, <1>0, <1>4, <1>12 DEF StreamTypes, P!Conns
<1>14. Taken(others'[k], logicGot'[k], sock'[k].cache) BY Zenon, <1>4, <1>10, <1>12
<1>15. ~sock'[k].wait => sock'[k].cache = <<>> BY Zenon, <1>4
<1>16. Rising(others'[k], up'[k], session') BY Zenon, <1>0
<1>17. session <= session BY <1>0
<1>18. session <= session' /\ \A j \in P!Conns : j # k => up'[j] = up[j] /\ others'[j] = others[j] BY Zenon, <1>17
<1> QED BY Zenon, <1>4, <1>12, <1>13, <1>14, <1>15, <1>16, <1>18, StreamMoves

\* client_forward_brd for the login's answer.
LEMMA ForwardLoginPlayer ==
    ASSUME PlayerConstants, PInv, NEW k \in P!Conns, P!ForwardLogin(k)
    PROVE  PInv'
<1>0. Playing /\ Behind /\ Stream /\ StreamTypes BY Zenon, Parts
<1>1. /\ lack[k] # None /\ lack' = [lack EXCEPT ![k] = None]
      /\ UNCHANGED <<link, up, session, pbudget, ws, lpc, woken, croom, turn, afterTurn, pings, lg, online,
                     fg, room, rturn, entered, others>>
  BY Zenon DEF P!ForwardLogin, P!client
<1>2. lack \in [P!Conns -> Acks \cup {None}] /\ lack[k] \in Acks
  <2>1. lack \in [P!Conns -> Acks \cup {None}] BY Zenon, <1>0 DEF Behind
  <2> QED BY Zenon, <1>1, <2>1
<1>3. PICK ack \in Acks : ack = lack[k] BY Zenon, <1>2
<1>4. \/ /\ sock' = [sock EXCEPT ![k].logic = 1, ![k].wait = FALSE, ![k].room = ack.room,
                                 ![k].userid = 1, ![k].cache = <<>>]
         /\ logicGot' = [logicGot EXCEPT ![k] =
                            @ \o [i \in DOMAIN sock[k].cache |-> P!Forwarded(k, sock[k].cache[i])]]
         /\ asked' = asked \cup {P!Asked(k, sock[k].cache[i]) : i \in DOMAIN sock[k].cache}
      \/ UNCHANGED <<sock, logicGot, asked>>
  BY Zenon, <1>3 DEF P!ForwardLogin, P!ClientLoginAck
<1>5. (down' = down \/ P!Reply(k, ack)) /\ (answered' = answered \/ answered' = answered \cup {k})
  BY Zenon, <1>3 DEF P!ForwardLogin
<1>6. Stream'
  <2>1. UNCHANGED <<session, up, others>> BY Zenon, <1>1
  <2>2. CASE UNCHANGED <<sock, logicGot, asked>> BY Zenon, <1>0, <2>1, <2>2, SameStream
  <2> QED BY Zenon, <1>0, <1>4, <2>1, <2>2, LoginInv
<1>7. Behind'
  <2>1. lack' \in [P!Conns -> Acks \cup {None}] BY <1>1, <1>2
  <2>2. answered' \subseteq P!Conns BY Zenon, <1>0, <1>5 DEF Behind
  <2>3. \A i \in DOMAIN sock[k].cache : sock[k].cache[i] \in Calling
    <3>1. sock[k].cache \in Seq(Calling) BY <1>0 DEF StreamTypes, SocketRecords
    <3> QED BY Zenon, <3>1, LenFacts, ElementFacts
  <2>4. {P!Asked(k, sock[k].cache[i]) : i \in DOMAIN sock[k].cache} \subseteq Asking BY Zenon, <2>3, AskedFacts
  <2>5. asked' \subseteq Asking BY Zenon, <1>0, <1>4, <2>4 DEF Behind
  <2> QED BY Zenon, <1>0, <1>1, <2>1, <2>2, <2>5 DEF Behind, P!Conns
<1>8. Playing'
  <2>1. down \in [P!Conns -> Seq(Acks)] BY Zenon, <1>0 DEF Playing
  <2>2. down' \in [P!Conns -> Seq(Acks)] BY Zenon, <1>0, <1>5, <2>1, ReplyFacts
  <2> QED BY Zenon, <1>0, <1>1, <2>2 DEF Playing, P!Conns
<1> QED BY Zenon, <1>6, <1>7, <1>8 DEF PInv

\* The next message of the game.
LEMMA GameFacts ==
    ASSUME Behind, fg # <<>>
    PROVE  /\ Tail(fg) \in Seq(GameMessages) /\ Head(fg).conn \in P!Conns
           /\ Head(fg).msg.id # "kick" => Head(fg).msg \in Acks
<1>1. fg \in Seq(GameMessages) BY Zenon DEF Behind
<1>2. Head(fg) \in GameMessages /\ Tail(fg) \in Seq(GameMessages) BY Zenon, <1>1, TailIndex
<1> QED BY <1>2 DEF GameMessages

\* client_forward_brd for what the logic and the room services send.
LEMMA ForwardGamePlayer ==
    ASSUME PlayerConstants, PInv, P!ForwardGame
    PROVE  PInv'
<1>0. Playing /\ Behind /\ Stream /\ StreamTypes BY Zenon, Parts
<1>1. /\ fg # <<>> /\ fg' = Tail(fg) /\ Head(fg).msg.id # "kick"
      /\ UNCHANGED <<link, up, session, pbudget, ws, lpc, woken, croom, turn, afterTurn, pings, lg, lack, asked,
                     online, room, rturn, entered, others, logicGot, answered>>
  BY Zenon DEF P!ForwardGame, P!client, P!login, P!history
<1>2. PICK k \in P!Conns, m \in Acks : k = Head(fg).conn /\ m = Head(fg).msg BY Zenon, <1>0, <1>1, GameFacts
<1>3. /\ sock' = sock \/ sock' = [sock EXCEPT ![k].room = P!RoomAfter(k, m)]
      /\ down' = down \/ P!Reply(k, m)
  BY Zenon, <1>2 DEF P!ForwardGame
<1>4. P!RoomAfter(k, m) \in 0..1
  <2>1. sock[k].room \in 0..1 /\ m.room \in 0..1 /\ 0 \in 0..1 BY <1>0 DEF StreamTypes, SocketRecords, Acks
  <2> QED BY Zenon, <2>1 DEF P!RoomAfter
<1>5. Stream'
  <2>1. UNCHANGED <<session, up, others, logicGot>> BY Zenon, <1>1
  <2>2. CASE sock' = sock BY Zenon, <1>0, <2>1, <2>2, SameStream
  <2>3. CASE sock' = [sock EXCEPT ![k].room = P!RoomAfter(k, m)]
    <3>1. /\ sock' \in [P!Conns -> SocketRecords] /\ sock'[k].cache = sock[k].cache
          /\ \A j \in P!Conns : j # k => sock'[j] = sock[j]
          /\ ~sock'[k].wait => ~sock[k].wait
      BY Zenon, <1>0, <1>4, <2>3, SocketRoom
    <3>2. /\ up \in [P!Conns -> Seq(Calling)] /\ session \in Nat /\ Rising(others[k], up[k], session)
      BY Zenon, <1>0 DEF Stream, StreamTypes
    <3>3. session <= session BY <3>2
    <3> QED BY Zenon, <1>0, <2>1, <3>1, <3>2, <3>3, SocketInv
  <2> QED BY Zenon, <1>3, <2>2, <2>3
<1>6. Behind'
  <2>1. fg' \in Seq(GameMessages) BY Zenon, <1>0, <1>1, GameFacts
  <2> QED BY Zenon, <1>0, <1>1, <2>1 DEF Behind, P!Conns, GameMessages
<1>7. Playing'
  <2>1. down \in [P!Conns -> Seq(Acks)] BY Zenon, <1>0 DEF Playing
  <2>2. down' \in [P!Conns -> Seq(Acks)] BY Zenon, <1>0, <1>3, <2>1, ReplyFacts
  <2> QED BY Zenon, <1>0, <1>1, <2>2 DEF Playing, P!Conns
<1> QED BY Zenon, <1>5, <1>6, <1>7 DEF PInv

\* kick_client: the proxy closes a connection.
LEMMA KickClientPlayer ==
    ASSUME PlayerConstants, PInv, P!KickClient
    PROVE  PInv'
<1>0. Playing /\ Behind /\ Stream BY Zenon, Parts
<1>1. /\ fg # <<>> /\ fg' = Tail(fg) /\ (link' = link \/ link' = [link EXCEPT ![Head(fg).conn] = "down"])
      /\ UNCHANGED <<up, down, session, pbudget, ws, lpc, woken, croom, turn, afterTurn, pings, sock, lg, lack,
                     asked, online, room, rturn, entered, others, logicGot, answered>>
  BY Zenon DEF P!KickClient, P!client, P!proxy, P!login, P!history
<1>2. Stream' BY Zenon, <1>0, <1>1, SameStream
<1>3. Behind'
  <2>1. fg' \in Seq(GameMessages) BY Zenon, <1>0, <1>1, GameFacts
  <2> QED BY Zenon, <1>0, <1>1, <2>1 DEF Behind, P!Conns, GameMessages
<1>4. Playing'
  <2>1. link' \in [P!Conns -> {"none", "up", "down"}] BY SMTT(30), <1>0, <1>1 DEF Playing
  <2> QED BY Zenon, <1>0, <1>1, <2>1 DEF Playing, P!Conns
<1> QED BY Zenon, <1>2, <1>3, <1>4 DEF PInv

\* socket_start: the proxy notices the end of a connection.
LEMMA SocketEndsPlayer ==
    ASSUME PlayerConstants, PInv, NEW k \in P!Conns, P!SocketEnds(k)
    PROVE  PInv'
<1>0. Playing /\ Behind /\ Stream /\ StreamTypes BY Zenon, Parts
<1>1. /\ sock' = [sock EXCEPT ![k].st = "gone"] /\ up' = [up EXCEPT ![k] = <<>>]
      /\ online' = online \/ online' = online \ {k}
      /\ UNCHANGED <<link, down, session, pbudget, ws, lpc, woken, croom, turn, afterTurn, pings, lg, lack,
                     asked, fg, room, rturn, entered, others, logicGot, answered>>
  BY Zenon DEF P!SocketEnds, P!client, P!login, P!history
<1>2. Stream'
  <2>1. /\ sock' \in [P!Conns -> SocketRecords] /\ sock'[k].cache = sock[k].cache
        /\ \A j \in P!Conns : j # k => sock'[j] = sock[j]
        /\ ~sock'[k].wait => ~sock[k].wait
    BY Zenon, <1>0, <1>1, SocketState
  <2>2. up \in [P!Conns -> Seq(Calling)] /\ session \in Nat /\ Rising(others[k], up[k], session)
    BY Zenon, <1>0 DEF Stream, StreamTypes
  <2>3. <<>> \in Seq(Calling) /\ Rising(others[k], <<>>, session) BY <2>2, EmptyLen DEF Rising
  <2>4. up' \in [P!Conns -> Seq(Calling)] /\ up'[k] = <<>> /\ \A j \in P!Conns : j # k => up'[j] = up[j]
    BY <1>1, <2>2, <2>3
  <2>5. session' \in Nat /\ session <= session' BY <1>1, <2>2
  <2>6. Rising(others[k], up'[k], session') /\ UNCHANGED <<others, logicGot>> BY Zenon, <1>1, <2>3, <2>4
  <2> QED BY Zenon, <1>0, <2>1, <2>4, <2>5, <2>6, SocketInv
<1>3. Behind'
  <2>1. online' \subseteq P!Conns BY Zenon, <1>0, <1>1 DEF Behind
  <2> QED BY Zenon, <1>0, <1>1, <2>1 DEF Behind, P!Conns
<1>4. Playing' BY Zenon, <1>0, <1>1, SamePlaying
<1> QED BY Zenon, <1>2, <1>3, <1>4 DEF PInv

\* A step of the services, seen from the streams: nothing moves there.
LEMMA ServiceInv ==
    ASSUME PInv, UNCHANGED <<P!links, P!client, P!proxy, P!history>>, Behind'
    PROVE  PInv'
<1>0. Playing /\ Stream BY Zenon DEF PInv
<1>1. UNCHANGED <<session, up, sock, others, logicGot>> BY Zenon DEF P!links, P!proxy, P!history
<1>2. UNCHANGED <<link, down, pbudget, ws, lpc, woken, croom, turn, afterTurn, pings>>
  BY Zenon DEF P!links, P!client
<1>3. Stream' BY Zenon, <1>0, <1>1, SameStream
<1>4. Playing' BY Zenon, <1>0, <1>2, SamePlaying
<1> QED BY Zenon, <1>3, <1>4 DEF PInv

\* The login service goes on to its next step, and perhaps answers.
LEMMA StepFacts ==
    ASSUME Behind, NEW k \in P!Conns, NEW t \in {"master", "logic", "late", "done"},
           lg' = [lg EXCEPT ![k].step = t]
    PROVE  lg' \in [P!Conns -> LoginRecords]
<1>1. lg \in [P!Conns -> LoginRecords] /\ lg[k] \in LoginRecords BY Zenon DEF Behind
<1>2. [lg[k] EXCEPT !.step = t] \in LoginRecords BY <1>1 DEF LoginRecords
<1> QED BY <1>1, <1>2

LEMMA AnswerFacts ==
    ASSUME Behind, NEW k \in P!Conns, NEW ok \in BOOLEAN, NEW t \in {"late", "done"}, P!AnswerLogin(k, ok, t)
    PROVE  lg' \in [P!Conns -> LoginRecords] /\ lack' \in [P!Conns -> Acks \cup {None}]
<1>1. lg' \in [P!Conns -> LoginRecords] BY Zenon, StepFacts DEF P!AnswerLogin
<1>2. lg[k] \in LoginRecords /\ lack \in [P!Conns -> Acks \cup {None}] /\ room \in 0..1 BY Zenon DEF Behind
<1>3. lg[k].session \in Nat BY <1>2 DEF LoginRecords
<1>4. PICK r \in 0..1 : r = (IF ok THEN room ELSE 0) BY <1>2
<1>5. PICK a \in Acks : a = [P!Ack("login", lg[k].session, ok) EXCEPT !.room = r] BY Zenon, <1>3, AckFacts
<1>6. lack' = [lack EXCEPT ![k] = a] BY Zenon, <1>4, <1>5 DEF P!AnswerLogin
<1>7. lack' \in [P!Conns -> Acks \cup {None}] BY Zenon, <1>2, <1>6
<1> QED BY Zenon, <1>1, <1>7

\* The coroutine of client_login, and a request that comes late.
LEMMA LoginPlayer ==
    ASSUME PlayerConstants, PInv, NEW k \in P!Conns,
           P!InternalLogin(k) \/ P!InternalGetLogic(k) \/ P!InternalLoginLogic(k) \/ P!RpcTimeout(k) \/ P!LogsInLate(k)
    PROVE  PInv'
<1>0. Behind BY Zenon DEF PInv
<1>1. /\ \/ \E t \in {"master", "logic", "late", "done"} : lg' = [lg EXCEPT ![k].step = t] /\ lack' = lack
         \/ \E ok \in BOOLEAN, t \in {"late", "done"} : P!AnswerLogin(k, ok, t)
      /\ online' = online \/ online' = online \cup {k}
      /\ UNCHANGED <<asked, fg, room, rturn, entered>>
      /\ UNCHANGED <<P!links, P!client, P!proxy, P!history>>
  <2>1. CASE P!InternalLogin(k)
    <3>1. UNCHANGED <<asked, online, fg, room, rturn, entered>> /\ UNCHANGED <<P!links, P!client, P!proxy, P!history>>
      BY Zenon, <2>1 DEF P!InternalLogin, P!services
    <3>2. \/ lg' = [lg EXCEPT ![k].step = "master"] /\ lack' = lack
          \/ P!AnswerLogin(k, FALSE, "done")
      BY Zenon, <2>1 DEF P!InternalLogin
    <3> QED BY Zenon, <3>1, <3>2
  <2>2. CASE P!InternalGetLogic(k)
    <3>1. UNCHANGED <<asked, online, fg, room, rturn, entered>> /\ UNCHANGED <<P!links, P!client, P!proxy, P!history>>
      BY Zenon, <2>2 DEF P!InternalGetLogic, P!services
    <3>2. \/ lg' = [lg EXCEPT ![k].step = "logic"] /\ lack' = lack
          \/ P!AnswerLogin(k, FALSE, "done")
      BY Zenon, <2>2 DEF P!InternalGetLogic
    <3> QED BY Zenon, <3>1, <3>2
  <2>3. CASE P!InternalLoginLogic(k)
    <3>1. UNCHANGED <<asked, fg, room, rturn, entered>> /\ UNCHANGED <<P!links, P!client, P!proxy, P!history>>
      BY Zenon, <2>3 DEF P!InternalLoginLogic
    <3>2. \/ P!AnswerLogin(k, TRUE, "done") /\ online' = online \cup {k}
          \/ P!AnswerLogin(k, FALSE, "done") /\ online' = online
      BY Zenon, <2>3 DEF P!InternalLoginLogic
    <3> QED BY Zenon, <3>1, <3>2
  <2>4. CASE P!RpcTimeout(k)
    <3>1. UNCHANGED <<asked, online, fg, room, rturn, entered>> /\ UNCHANGED <<P!links, P!client, P!proxy, P!history>>
      BY Zenon, <2>4 DEF P!RpcTimeout, P!services
    <3>2. P!AnswerLogin(k, FALSE, IF lg[k].step = "logic" THEN "late" ELSE "done") BY Zenon, <2>4 DEF P!RpcTimeout
    <3>3. PICK t \in {"late", "done"} : t = (IF lg[k].step = "logic" THEN "late" ELSE "done") BY Zenon
    <3> QED BY Zenon, <3>1, <3>2, <3>3
  <2>5. CASE P!LogsInLate(k)
    <3>1. UNCHANGED <<asked, fg, room, rturn, entered>> /\ UNCHANGED <<P!links, P!client, P!proxy, P!history>>
      BY Zenon, <2>5 DEF P!LogsInLate
    <3>2. lg' = [lg EXCEPT ![k].step = "done"] /\ lack' = lack /\ online' = online \cup {k}
      BY Zenon, <2>5 DEF P!LogsInLate
    <3> QED BY Zenon, <3>1, <3>2
  <2> QED BY Zenon, <2>1, <2>2, <2>3, <2>4, <2>5
<1>2. lack \in [P!Conns -> Acks \cup {None}] BY Zenon, <1>0 DEF Behind
<1>3. lg' \in [P!Conns -> LoginRecords] /\ lack' \in [P!Conns -> Acks \cup {None}]
  BY Zenon, <1>0, <1>1, <1>2, StepFacts, AnswerFacts
<1>4. online' \subseteq P!Conns BY Zenon, <1>0, <1>1 DEF Behind
<1>5. answered' = answered BY Zenon, <1>1 DEF P!history
<1>6. Behind' BY Zenon, <1>0, <1>1, <1>3, <1>4, <1>5 DEF Behind, P!Conns
<1> QED BY Zenon, <1>1, <1>6, ServiceInv

\* The services behind send a message to a client.
LEMMA SendFacts ==
    ASSUME Behind, NEW k \in P!Conns, NEW m \in Acks \cup [id : {"kick"}], P!Send(k, m)
    PROVE  fg' \in Seq(GameMessages)
<1>1. fg \in Seq(GameMessages) BY Zenon DEF Behind
<1>2. PICK g \in GameMessages : g = [conn |-> k, msg |-> m] BY Zenon DEF GameMessages
<1>3. fg' = Append(fg, g) BY Zenon, <1>2 DEF P!Send
<1> QED BY Zenon, <1>1, <1>3, AppendIndex

\* What the services may do with what they have.
LEMMA BehindMoves ==
    ASSUME PInv, UNCHANGED <<P!links, P!client, P!proxy, P!history>>, UNCHANGED <<lg, lack, online>>,
           asked' \subseteq asked, fg' \in Seq(GameMessages), room' \in 0..1, rturn' \in {"me", "opponent", "nobody"},
           entered' \in 0..MaxConns
    PROVE  PInv'
<1>1. Behind BY Zenon DEF PInv
<1>2. answered' = answered BY Zenon DEF P!history
<1>3. Behind' BY Zenon, <1>1, <1>2 DEF Behind, P!Conns
<1> QED BY Zenon, <1>3, ServiceInv

\* A request that waits for its answer.
LEMMA AskerFacts ==
    ASSUME Behind, NEW req \in asked
    PROVE  req.conn \in P!Conns /\ req.session \in Nat
<1>1. req \in Asking BY Zenon DEF Behind
<1> QED BY <1>1 DEF Asking

\* The logic service answers.
LEMMA LogicAnswersPlayer ==
    ASSUME PlayerConstants, PInv, NEW req \in asked, P!LogicAnswers(req)
    PROVE  PInv'
<1>0. Behind BY Zenon DEF PInv
<1>1. /\ UNCHANGED <<P!links, P!client, P!proxy, P!history>> /\ UNCHANGED <<lg, lack, online>> /\ asked' \subseteq asked
  BY Zenon DEF P!LogicAnswers, P!login
<1>2. req.conn \in P!Conns /\ req.session \in Nat BY Zenon, <1>0, AskerFacts
<1>3. /\ P!Ack("pong", req.session, TRUE) \in Acks /\ P!Ack("match", req.session, FALSE) \in Acks
      /\ [P!Ack("match", req.session, TRUE) EXCEPT !.room = 1] \in Acks
  <2>1. 1 \in 0..1 OBVIOUS
  <2> QED BY Zenon, <1>2, <2>1, AckFacts
<1>4. \E m \in Acks : P!Send(req.conn, m) BY Zenon, <1>3 DEF P!LogicAnswers
<1>5. fg' \in Seq(GameMessages) BY Zenon, <1>0, <1>2, <1>4, SendFacts
<1>6. /\ room' = room \/ room' = 1
      /\ rturn' = rturn \/ rturn' \in {"me", "opponent"}
      /\ entered' = entered \/ entered' = 0
  BY Zenon DEF P!LogicAnswers
<1>7. 1 \in 0..1 /\ 0 \in 0..MaxConns BY DEF PlayerConstants
<1>8. room \in 0..1 /\ rturn \in {"me", "opponent", "nobody"} /\ entered \in 0..MaxConns BY Zenon, <1>0 DEF Behind
<1>9. room' \in 0..1 /\ rturn' \in {"me", "opponent", "nobody"} /\ entered' \in 0..MaxConns
  BY Zenon, <1>6, <1>7, <1>8
<1> QED BY Zenon, <1>1, <1>5, <1>9, BehindMoves

\* The room lets the player in.
LEMMA RoomEnterPlayer ==
    ASSUME PlayerConstants, PInv, NEW req \in asked, P!RoomAnswersEnter(req)
    PROVE  PInv'
<1>0. Behind BY Zenon DEF PInv
<1>1. /\ UNCHANGED <<P!links, P!client, P!proxy, P!history>> /\ UNCHANGED <<lg, lack, online>> /\ asked' \subseteq asked
      /\ UNCHANGED <<room, rturn>>
  BY Zenon DEF P!RoomAnswersEnter, P!login
<1>2. req.conn \in P!Conns /\ req.session \in Nat BY Zenon, <1>0, AskerFacts
<1>3. PICK b \in BOOLEAN : b = (rturn = "me") BY Zenon
<1>4. /\ P!Ack("enter", req.session, FALSE) \in Acks
      /\ [P!Ack("enter", req.session, TRUE) EXCEPT !.turn = b] \in Acks
  BY Zenon, <1>2, AckFacts
<1>5. \E m \in Acks : P!Send(req.conn, m) BY Zenon, <1>3, <1>4 DEF P!RoomAnswersEnter
<1>6. fg' \in Seq(GameMessages) BY Zenon, <1>0, <1>2, <1>5, SendFacts
<1>7. entered' = entered \/ entered' = req.conn BY Zenon DEF P!RoomAnswersEnter
<1>8. room \in 0..1 /\ rturn \in {"me", "opponent", "nobody"} /\ entered \in 0..MaxConns BY Zenon, <1>0 DEF Behind
<1>9. room' \in 0..1 /\ rturn' \in {"me", "opponent", "nobody"} /\ entered' \in 0..MaxConns
  BY Zenon, <1>1, <1>2, <1>7, <1>8, Parts
<1> QED BY Zenon, <1>1, <1>6, <1>9, BehindMoves

\* The room takes a move of the player.
LEMMA RoomMovePlayer ==
    ASSUME PlayerConstants, PInv, NEW req \in asked, P!RoomAnswersMove(req)
    PROVE  PInv'
<1>0. Behind BY Zenon DEF PInv
<1>1. /\ UNCHANGED <<P!links, P!client, P!proxy, P!history>> /\ UNCHANGED <<lg, lack, online>> /\ asked' \subseteq asked
      /\ UNCHANGED entered
  BY Zenon DEF P!RoomAnswersMove, P!login
<1>2. req.conn \in P!Conns /\ req.session \in Nat BY Zenon, <1>0, AskerFacts
<1>3. /\ P!Ack("move", req.session, FALSE) \in Acks
      /\ \A b \in BOOLEAN : [P!Ack("move", req.session, TRUE) EXCEPT !.over = b] \in Acks
      /\ [P!Ack("move", req.session, TRUE) EXCEPT !.invalid = TRUE] \in Acks
  BY Zenon, <1>2, AckFacts
<1>4. \E m \in Acks : P!Send(req.conn, m) BY Zenon, <1>3 DEF P!RoomAnswersMove
<1>5. fg' \in Seq(GameMessages) BY Zenon, <1>0, <1>2, <1>4, SendFacts
<1>6. (room' = room \/ room' = 0 \/ room' = 1) /\ (rturn' = rturn \/ rturn' = "nobody" \/ rturn' = "opponent")
  BY Zenon DEF P!RoomAnswersMove
<1>7. 0 \in 0..1 /\ 1 \in 0..1 OBVIOUS
<1>8. room \in 0..1 /\ rturn \in {"me", "opponent", "nobody"} /\ entered \in 0..MaxConns BY Zenon, <1>0 DEF Behind
<1>9. room' \in 0..1 /\ rturn' \in {"me", "opponent", "nobody"} /\ entered' \in 0..MaxConns
  BY Zenon, <1>1, <1>6, <1>7, <1>8
<1> QED BY Zenon, <1>1, <1>5, <1>9, BehindMoves

\* The opponent moves.
LEMMA OpponentPlayer ==
    ASSUME PlayerConstants, PInv, P!OpponentMoves
    PROVE  PInv'
<1>0. Behind BY Zenon DEF PInv
<1>1. UNCHANGED <<P!links, P!client, P!proxy, P!history>> /\ UNCHANGED <<lg, lack, online>> /\ UNCHANGED <<asked, entered>>
  BY Zenon DEF P!OpponentMoves, P!login
<1>2. 0 \in Nat OBVIOUS
<1>3. \A b \in BOOLEAN : [P!Ack("brd", 0, TRUE) EXCEPT !.over = b] \in Acks BY Zenon, <1>2, AckFacts
<1>4. fg' = fg \/ \E m \in Acks : entered \in online /\ P!Send(entered, m) BY Zenon, <1>3 DEF P!OpponentMoves
<1>5. fg \in Seq(GameMessages) /\ online \subseteq P!Conns BY Zenon, <1>0 DEF Behind
<1>6. fg' \in Seq(GameMessages) BY Zenon, <1>0, <1>4, <1>5, SendFacts
<1>7. (room' = 0 \/ room' = 1) /\ (rturn' = "nobody" \/ rturn' = "me") BY Zenon DEF P!OpponentMoves
<1>8. 0 \in 0..1 /\ 1 \in 0..1 OBVIOUS
<1>9. entered \in 0..MaxConns BY Zenon, <1>0 DEF Behind
<1>10. room' \in 0..1 /\ rturn' \in {"me", "opponent", "nobody"} /\ entered' \in 0..MaxConns /\ asked' \subseteq asked
  BY Zenon, <1>1, <1>7, <1>8, <1>9
<1> QED BY Zenon, <1>1, <1>6, <1>10, BehindMoves

\* The logic service has a connection closed.
LEMMA KickPlayer ==
    ASSUME PlayerConstants, PInv, NEW k \in P!Conns, P!Kick(k)
    PROVE  PInv'
<1>0. Behind BY Zenon DEF PInv
<1>1. UNCHANGED <<P!links, P!client, P!proxy, P!history>> /\ UNCHANGED <<lg, lack, online>>
      /\ UNCHANGED <<asked, room, rturn, entered>>
  BY Zenon DEF P!Kick, P!login
<1>2. [id |-> "kick"] \in [id : {"kick"}] OBVIOUS
<1>3. fg' \in Seq(GameMessages) BY Zenon, <1>0, <1>2, SendFacts DEF P!Kick
<1>4. room \in 0..1 /\ rturn \in {"me", "opponent", "nobody"} /\ entered \in 0..MaxConns BY Zenon, <1>0 DEF Behind
<1>5. room' \in 0..1 /\ rturn' \in {"me", "opponent", "nobody"} /\ entered' \in 0..MaxConns /\ asked' \subseteq asked
  BY Zenon, <1>1, <1>4
<1> QED BY Zenon, <1>1, <1>3, <1>5, BehindMoves

\* At the start nothing is on its way.
LEMMA InitPlayer == ASSUME PlayerConstants, P!Init PROVE PInv
<1>1. MaxConns \in Nat BY Zenon DEF PlayerConstants
<1>2. 0 \in 0..1 /\ 0 \in 0..MaxConns /\ 0 \in Nat BY <1>1
<1>3. \A S : <<>> \in Seq(S) BY Zenon, EmptyLen
<1>4. Playing BY Zenon, <1>2, <1>3 DEF Playing, Waits, P!Init
<1>5. Behind
  <2>1. [step |-> "none", session |-> 0] \in LoginRecords BY DEF LoginRecords
  <2> QED BY Zenon, <1>2, <1>3, <2>1 DEF Behind, P!Init
<1>6. StreamTypes
  <2>1. P!Closed \in SocketRecords BY <1>3 DEF P!Closed, SocketRecords
  <2> QED BY ZenonT(30), <1>2, <1>3, <2>1 DEF StreamTypes, P!Init
<1>7. ASSUME NEW k \in P!Conns
      PROVE  /\ Taken(others[k], logicGot[k], sock[k].cache) /\ (~sock[k].wait => sock[k].cache = <<>>)
             /\ Rising(others[k], up[k], session)
  <2>1. P!Closed.cache = <<>> BY DEF P!Closed
  <2>2. others[k] = <<>> /\ logicGot[k] = <<>> /\ sock[k].cache = <<>> /\ up[k] = <<>> BY Zenon, <2>1 DEF P!Init
  <2>3. Taken(<<>>, <<>>, <<>>) /\ Rising(<<>>, <<>>, session) BY DEF Taken, Rising
  <2> QED BY Zenon, <2>2, <2>3
<1>8. Stream BY Zenon, <1>6, <1>7 DEF Stream
<1> QED BY Zenon, <1>4, <1>5, <1>8 DEF PInv

\* Every step keeps the invariant.
LEMMA NextPlayer == ASSUME PlayerConstants, PInv, P!Next PROVE PInv'
<1>1. CASE P!ClientNext
    BY Zenon, <1>1, ConnectPlayer, SendPlayer, ReceivePlayer, ResumePlayer, BreakPlayer, TypePlayer, SleepEndsPlayer DEF P!ClientNext
<1>2. CASE P!ProxyNext
    BY Zenon, <1>2, ClientRegisterPlayer, ClientRoomPlayer, ClientOtherPlayer, ForwardLoginPlayer, SocketEndsPlayer,
       ForwardGamePlayer, KickClientPlayer, BreakPlayer DEF P!ProxyNext
<1>3. CASE P!LoginNext BY Zenon, <1>3, LoginPlayer DEF P!LoginNext
<1>4. CASE P!ServicesNext
    BY Zenon, <1>4, LoginPlayer, KickPlayer, LogicAnswersPlayer, RoomEnterPlayer, RoomMovePlayer, OpponentPlayer
    DEF P!ServicesNext
<1>5. CASE \E k \in P!Conns : P!Break(k) BY Zenon, <1>5, BreakPlayer
<1> QED BY Zenon, <1>1, <1>2, <1>3, <1>4, <1>5 DEF P!Next

LEMMA StutterPlayer == ASSUME PInv, UNCHANGED P!vars PROVE PInv'
<1>0. Behind BY Zenon DEF PInv
<1>1. UNCHANGED <<P!links, P!client, P!proxy, P!history>> /\ UNCHANGED <<P!login, P!services>> BY Zenon DEF P!vars
<1>2. UNCHANGED <<lg, lack, asked, online, answered, fg, room, rturn, entered>>
  BY Zenon, <1>1 DEF P!login, P!services, P!history
<1>3. Behind' BY Zenon, <1>0, <1>2, SameBehind
<1> QED BY Zenon, <1>1, <1>3, ServiceInv

\* A sequence that goes through one and then through another.
LEMMA JoinedIs ==
    ASSUME NEW S, NEW s \in Seq(S), NEW t \in Seq(S), NEW o \in Seq(S), Len(o) = Len(s) + Len(t),
           \A i \in 1..Len(s) : o[i] = s[i],
           \A i \in 1..Len(t) : o[Len(s) + i] = t[i]
    PROVE  o = s \o t
<1>1. /\ s \o t \in Seq(S) /\ Len(s \o t) = Len(s) + Len(t)
      /\ \A i \in 1..Len(s) + Len(t) : (s \o t)[i] = IF i <= Len(s) THEN s[i] ELSE t[i - Len(s)]
  BY Zenon, ConcatIndex
<1>2. Len(s) \in Nat /\ Len(t) \in Nat BY Zenon, LenFacts
<1>3. ASSUME NEW i \in 1..Len(o) PROVE o[i] = (s \o t)[i]
  <2>1. (s \o t)[i] = IF i <= Len(s) THEN s[i] ELSE t[i - Len(s)] BY Zenon, <1>1
  <2>2. CASE i <= Len(s)
    <3>1. i \in 1..Len(s) BY <1>2, <2>2
    <3> QED BY Zenon, <2>1, <2>2, <3>1
  <2>3. CASE ~(i <= Len(s))
    <3>1. i - Len(s) \in 1..Len(t) /\ Len(s) + (i - Len(s)) = i BY <1>2, <2>3
    <3> QED BY Zenon, <2>1, <2>3, <3>1
  <2> QED BY Zenon, <2>2, <2>3
<1> QED BY Zenon, <1>1, <1>3, SameSeq

\* The numbers of what was passed on and of what is kept, one after the other.
LEMMA TakenIs ==
    ASSUME NEW o \in Seq(Nat), NEW g \in Seq(Forwards), NEW c \in Seq(Calling), Taken(o, g, c)
    PROVE  o = [i \in DOMAIN g |-> g[i].session] \o [i \in DOMAIN c |-> c[i].session]
<1>1. /\ DOMAIN g = 1..Len(g) /\ Len(g) \in Nat /\ DOMAIN c = 1..Len(c) /\ Len(c) \in Nat BY Zenon, LenFacts
<1>2. \A i \in 1..Len(c) : c[i].session \in Nat BY Zenon, Numbered
<1>3. \A i \in 1..Len(g) : g[i].session \in Nat
  <2> SUFFICES ASSUME NEW i \in 1..Len(g) PROVE g[i].session \in Nat OBVIOUS
  <2>1. g[i] \in Forwards BY Zenon, ElementFacts
  <2> QED BY <2>1 DEF Forwards
<1>4. PICK s \in Seq(Nat) : s = [i \in 1..Len(g) |-> g[i].session] /\ Len(s) = Len(g)
  <2>1. PICK q : q = [i \in 1..Len(g) |-> g[i].session] BY Zenon
  <2>2. q \in Seq(Nat) /\ Len(q) = Len(g) BY <1>1, <1>3, <2>1
  <2> QED BY Zenon, <2>1, <2>2
<1>5. PICK t \in Seq(Nat) : t = [i \in 1..Len(c) |-> c[i].session] /\ Len(t) = Len(c)
  <2>1. PICK q : q = [i \in 1..Len(c) |-> c[i].session] BY Zenon
  <2>2. q \in Seq(Nat) /\ Len(q) = Len(c) BY <1>1, <1>2, <2>1
  <2> QED BY Zenon, <2>1, <2>2
<1>6. /\ \A i \in 1..Len(s) : o[i] = s[i]
      /\ \A i \in 1..Len(t) : o[Len(s) + i] = t[i]
      /\ Len(o) = Len(s) + Len(t)
  BY Zenon, <1>4, <1>5 DEF Taken
<1>7. o = s \o t BY Zenon, <1>6, JoinedIs
<1> QED BY Zenon, <1>1, <1>4, <1>5, <1>7

\* The invariant says of the streams what RequestsInOrder asks for.
LEMMA PlayerOrder == ASSUME PInv PROVE P!RequestsInOrder
<1>0. Playing /\ Behind /\ Stream /\ StreamTypes BY Zenon DEF PInv, Stream
<1>1. P!TypeOK
  <2>1. ASSUME NEW k \in P!Conns PROVE sock[k].st \in {"none", "open", "gone"} /\ sock[k].wait \in BOOLEAN
    <3>1. sock[k] \in SocketRecords BY Zenon, <1>0 DEF StreamTypes
    <3> QED BY <3>1 DEF SocketRecords
  <2>2. ASSUME NEW k \in P!Conns PROVE lg[k].step \in {"none", "center", "master", "logic", "late", "done"}
    <3>1. lg[k] \in LoginRecords BY Zenon, <1>0 DEF Behind
    <3> QED BY <3>1 DEF LoginRecords
  <2> QED BY Zenon, <1>0, <2>1, <2>2 DEF P!TypeOK, Playing, Behind, Waits, P!Sleeps
<1>2. ASSUME NEW k \in P!Conns
      PROVE  /\ others[k] = [i \in DOMAIN logicGot[k] |-> logicGot[k][i].session]
                            \o [i \in DOMAIN sock[k].cache |-> sock[k].cache[i].session]
             /\ \A i, j \in DOMAIN others[k] : i < j => others[k][i] < others[k][j]
             /\ \A i \in DOMAIN logicGot[k] : logicGot[k][i].userid = 1
  <2>1. /\ others[k] \in Seq(Nat) /\ logicGot[k] \in Seq(Forwards) /\ sock[k] \in SocketRecords
        /\ Taken(others[k], logicGot[k], sock[k].cache) /\ Rising(others[k], up[k], session)
    BY Zenon, <1>0 DEF Stream, StreamTypes
  <2>2. sock[k].cache \in Seq(Calling) BY <2>1 DEF SocketRecords
  <2>3. DOMAIN others[k] = 1..Len(others[k]) /\ DOMAIN logicGot[k] = 1..Len(logicGot[k]) BY Zenon, <2>1, LenFacts
  <2>4. \A i \in DOMAIN logicGot[k] : logicGot[k][i].userid = 1
    <3>1. \A f \in Forwards : f.userid = 1 BY DEF Forwards
    <3> QED BY Zenon, <2>1, <2>3, <3>1, ElementFacts
  <2>5. \A i, j \in DOMAIN others[k] : i < j => others[k][i] < others[k][j] BY Zenon, <2>1, <2>3 DEF Rising
  <2>6. others[k] = [i \in DOMAIN logicGot[k] |-> logicGot[k][i].session]
                    \o [i \in DOMAIN sock[k].cache |-> sock[k].cache[i].session]
    BY Zenon, <2>1, <2>2, TakenIs
  <2> QED BY Zenon, <2>4, <2>5, <2>6
<1> QED BY Zenon, <1>1, <1>2 DEF P!RequestsInOrder

\* Whatever a client sends before its login is answered, however often it
\* connects, and whatever the services behind the proxy answer or do not answer,
\* what client_other_msg has taken of a connection gets to the logic service
\* once, in the order the client sent it and under the user's id; what has not
\* got there is in the cache of the socket.
THEOREM PlayerRequestsInOrder ==
    ASSUME PlayerConstants PROVE P!Spec => []P!RequestsInOrder
<1>1. P!Init => PInv BY Zenon, InitPlayer
<1>2. PInv /\ [P!Next]_(P!vars) => PInv' BY Zenon, NextPlayer, StutterPlayer
<1>3. PInv => P!RequestsInOrder BY Zenon, PlayerOrder
<1> QED BY <1>1, <1>2, <1>3, PTL DEF P!Spec
=============================================================================
