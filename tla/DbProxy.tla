------------------------------- MODULE DbProxy ------------------------------
(***************************************************************************)
(* db_proxy stands between the services and the database.  Requests arrive *)
(* over its channel; each starts a coroutine on the scheduler thread that  *)
(* posts a job to the thread pool and waits for its session.  Updates come *)
(* without an answer: the service that owns the data (center for accounts, *)
(* a logic service for users; neither handles this in the repository, so   *)
(* the owner is modelled from the messages) counts versions, sends what is *)
(* not yet written again and again, and is told the versions written.      *)
(*                                                                         *)
(* The content of a row is the version it was written with.  A job may end *)
(* in an exception at any of its database operations.                      *)
(***************************************************************************)
EXTENDS Naturals, Sequences, Functions

CONSTANTS
    MaxUser,        \* the greatest userid there may be
    Existing,       \* users already in the database
    Workers,        \* threads of the pool
    Budgets,        \* what may happen in one behaviour, one of several bounds:
                    \*   the versions of each row, the calls, the exceptions
    Width,          \* the versions that cache_info::version tells apart, 2^16
    MaxReports,     \* bound on the reports on their way when an update is sent
    None

ASSUME DbProxyAssumption ==
    /\ MaxUser \in Nat /\ Existing \subseteq 1..MaxUser
    /\ Budgets \subseteq [versions : [{"user", "account"} \X (1..MaxUser) -> Nat],
                          calls : Nat, failures : Nat]
    /\ Width \in Nat \ {0} /\ MaxReports \in Nat
    /\ None \notin Nat /\ None # "success"

Users == 1..MaxUser
Tables == {"user", "account"}
Rows == Tables \X Users
RowsOf(t) == {t} \X Users

VARIABLES
    db,             \* the two collections: version of each row, or None
    aiList,         \* the third one
    ver, verdb,     \* owner: version and version_db of its rows
    known,          \* owner: users it knows to exist
    maxId,          \* owner: the last answer to query_max_userid, or None
    call,           \* owner: the request it waits for, or None
    toDb, fromDb,   \* the channel, both ways
    infos,          \* user_infos_ and account_infos_: cached content, or None
    jobs,           \* the queue of the thread pool
    work,           \* the job of each worker, or None
    done,           \* finished jobs whose coroutines are to be resumed
    budget          \* what is left of the bounds

owner == <<ver, verdb, known, maxId, call>>
pool == <<jobs, work, done>>
vars == <<db, aiList, owner, toDb, fromDb, infos, pool, budget>>

Queries == {"query_user", "query_account", "query_max_userid", "query_ai"}
Updates == {"update_user", "update_account"}
TableOf(kind) == IF kind = "update_user" THEN "user" ELSE "account"

TypeOK ==
    /\ aiList \subseteq Users
    /\ \A r \in Rows :
        /\ db[r] \in Nat \cup {None} /\ infos[r] \in Nat \cup {None}
        /\ ver[r] \in Nat /\ verdb[r] \in 0..ver[r]
    /\ known \subseteq Users /\ maxId \in {0, None} \cup Users
    /\ call \in Queries \cup {"create_user", None}
    /\ budget.calls \in Nat /\ budget.failures \in Nat

Init ==
    /\ db = [r \in Rows |-> IF r[2] \in Existing THEN 0 ELSE None]
    /\ aiList = {} /\ known = Existing /\ maxId = None /\ call = None
    /\ ver = [r \in Rows |-> 0] /\ verdb = [r \in Rows |-> 0]
    /\ toDb = <<>> /\ fromDb = <<>>
    /\ infos = [r \in Rows |-> None]
    /\ jobs = <<>> /\ work = [w \in Workers |-> None] /\ done = <<>>
    /\ budget \in Budgets

-----------------------------------------------------------------------------
(* The service that owns the data *)

Change(r) ==
    /\ r[2] \in known /\ budget.versions[r] > 0
    /\ budget' = [budget EXCEPT !.versions[r] = @ - 1]
    /\ ver' = [ver EXCEPT ![r] = @ + 1]
    /\ UNCHANGED <<db, aiList, verdb, known, maxId, call, toDb, fromDb, infos, pool>>

Dirty(t) == {r \in RowsOf(t) : r[2] \in known /\ ver[r] # verdb[r]}

\* Now and then it sends every row of a table that is not yet written.
SendUpdate(kind) ==
    LET rows == Dirty(TableOf(kind)) IN
    /\ rows # {} /\ Len(fromDb) <= MaxReports /\ \A k \in DOMAIN toDb : toDb[k].kind # kind
    /\ toDb' = Append(toDb, [kind |-> kind, infos |-> [r \in rows |-> ver[r]]])
    /\ UNCHANGED <<db, aiList, owner, fromDb, infos, pool, budget>>

\* It calls db_proxy and waits for the answer; a new user takes the next userid.
Call(kind, u) ==
    /\ call = None /\ budget.calls > 0
    /\ kind = "create_user" => maxId # None /\ u = maxId + 1
    /\ kind \in {"query_max_userid", "query_ai"} => u = 1
    /\ call' = kind /\ budget' = [budget EXCEPT !.calls = @ - 1]
    /\ maxId' = IF kind = "create_user" THEN None ELSE maxId
    /\ toDb' = Append(toDb, [kind |-> kind, user |-> u])
    /\ UNCHANGED <<db, aiList, ver, verdb, known, fromDb, infos, pool>>

OwnerReceives ==
    /\ fromDb # <<>> /\ fromDb' = Tail(fromDb)
    /\ LET a == Head(fromDb) IN
       \/ /\ a.kind \in Updates
          /\ verdb' = [r \in Rows |-> IF r \in DOMAIN a.infos THEN a.infos[r] ELSE verdb[r]]
          /\ UNCHANGED <<known, maxId, call>>
       \/ /\ a.kind \notin Updates /\ call' = None
          /\ known' = IF a.kind = "create_user" /\ a.ec = "success" THEN known \cup {a.user} ELSE known
          /\ maxId' = IF a.kind = "query_max_userid" /\ a.ec = "success" THEN a.result ELSE maxId
          /\ UNCHANGED verdb
    /\ UNCHANGED <<db, aiList, ver, toDb, infos, pool, budget>>

-----------------------------------------------------------------------------
(* The scheduler thread of db_proxy *)

Request == Head(toDb)

\* forward_shm starts the coroutine, which runs up to its co_await.
Begin(kinds, job) ==
    /\ toDb # <<>> /\ Request.kind \in kinds /\ toDb' = Tail(toDb)
    /\ jobs' = Append(jobs, job)
    /\ UNCHANGED <<db, aiList, owner, fromDb, work, done, budget>>

BeginCall ==
    /\ Begin(Queries \cup {"create_user"},
             [kind |-> Request.kind, user |-> Request.user, step |-> 1, ec |-> None, result |-> None])
    /\ UNCHANGED infos

\* Rows of an update that are being written already are only changed in place.
Fresh(m) == {r \in DOMAIN m : infos[r] = None}

\* Rows in the orders in which a message may hold them.
Orders(S) == {s \in UNION {[1..n -> S] : n \in 0..MaxUser} : IsInjective(s) /\ Range(s) = S}

UpdateJob(kind, rows) ==
    [kind |-> kind, rows |-> rows, step |-> 1, ec |-> None,
     output |-> [r \in {} |-> 0], ops |-> <<>>]

\* The version kept with a content: static_cast<uint16_t> of a uint32.
CachedVersion(content) == content % Width

\* Mutant of BeginUpdate: no cache, every update gets a job with what it holds.
BeginEveryUpdate(kind) ==
    /\ toDb # <<>> /\ Request.kind = kind
    /\ LET m == Request.infos IN
       \E rows \in Orders(DOMAIN m) :
          Begin({kind}, [UpdateJob(kind, rows) EXCEPT !.step = Len(rows) + 1,
                                !.output = [r \in DOMAIN m |-> CachedVersion(m[r])],
                                !.ops = [k \in 1..Len(rows) |-> <<rows[k], m[rows[k]]>>]])
    /\ UNCHANGED infos

\* A row that is being written already gets the new content in its cache entry,
\* the others get an entry and a job.
BeginUpdate(kind) ==
    /\ toDb # <<>> /\ Request.kind = kind
    /\ infos' = [r \in Rows |-> IF r \in DOMAIN Request.infos THEN Request.infos[r] ELSE infos[r]]
    /\ \/ /\ Fresh(Request.infos) # {}
          /\ \E rows \in Orders(Fresh(Request.infos)) : Begin({kind}, UpdateJob(kind, rows))
       \/ /\ Fresh(Request.infos) = {} /\ toDb' = Tail(toDb)
          /\ UNCHANGED <<db, aiList, owner, fromDb, pool, budget>>

BeginUpdateUser == BeginUpdate("update_user")
BeginUpdateAccount == BeginUpdate("update_account")

\* Mutant of AnswerCall: an exception ends the coroutine without an answer.
AnswerGoodCall ==
    LET j == Head(done) IN
    /\ done # <<>> /\ j.kind \notin Updates /\ done' = Tail(done)
    /\ fromDb' = IF j.ec = "success"
                 THEN Append(fromDb, [kind |-> j.kind, ec |-> j.ec, user |-> j.user, result |-> j.result])
                 ELSE fromDb
    /\ UNCHANGED <<db, aiList, owner, toDb, infos, jobs, work, budget>>

\* The coroutine of a finished job: an answer, whatever happened.
AnswerCall ==
    LET j == Head(done) IN
    /\ done # <<>> /\ j.kind \notin Updates /\ done' = Tail(done)
    /\ fromDb' = Append(fromDb, [kind |-> j.kind, ec |-> j.ec, user |-> j.user, result |-> j.result])
    /\ UNCHANGED <<db, aiList, owner, toDb, infos, jobs, work, budget>>

\* Mutant of EndUpdate: after an exception the rows stay cached.
EndUpdateKeeps(kind) ==
    LET j == Head(done) IN
    /\ done # <<>> /\ j.kind = kind /\ done' = Tail(done)
    /\ infos' = [r \in Rows |-> IF j.ec = "success" /\ r \in Range(j.rows) THEN None ELSE infos[r]]
    /\ fromDb' = IF j.ec = "success" THEN Append(fromDb, [kind |-> kind, infos |-> j.output]) ELSE fromDb
    /\ UNCHANGED <<db, aiList, owner, toDb, jobs, work, budget>>

\* Mutant of EndUpdate: it reports the versions cached by now.
EndUpdateReports(kind) ==
    LET j == Head(done) IN
    /\ done # <<>> /\ j.kind = kind /\ done' = Tail(done)
    /\ infos' = [r \in Rows |-> IF r \in Range(j.rows) THEN None ELSE infos[r]]
    /\ fromDb' = IF j.ec = "success"
                 THEN Append(fromDb, [kind |-> kind, infos |-> [r \in DOMAIN j.output |-> CachedVersion(infos[r])]])
                 ELSE fromDb
    /\ UNCHANGED <<db, aiList, owner, toDb, jobs, work, budget>>

\* The rows leave the cache, changed meanwhile or not; the owner learns the
\* versions that were written, nothing after an exception.
EndUpdate(kind) ==
    LET j == Head(done) IN
    /\ done # <<>> /\ j.kind = kind /\ done' = Tail(done)
    /\ infos' = [r \in Rows |-> IF r \in Range(j.rows) THEN None ELSE infos[r]]
    /\ fromDb' = IF j.ec = "success" THEN Append(fromDb, [kind |-> kind, infos |-> j.output]) ELSE fromDb
    /\ UNCHANGED <<db, aiList, owner, toDb, jobs, work, budget>>

EndUpdateUser == EndUpdate("update_user")
EndUpdateAccount == EndUpdate("update_account")

-----------------------------------------------------------------------------
(* The threads of the pool *)

\* thread_pool::run: a free thread takes the oldest job.
TakeJob(w) ==
    /\ work[w] = None /\ jobs # <<>>
    /\ work' = [work EXCEPT ![w] = Head(jobs)] /\ jobs' = Tail(jobs)
    /\ UNCHANGED <<db, aiList, owner, toDb, fromDb, infos, done, budget>>

At(w, kind, step) == work[w] # None /\ work[w].kind = kind /\ work[w].step = step

\* session.set_result or set_exception: the coroutine will be resumed.
Finish(w, job) ==
    /\ done' = Append(done, job) /\ work' = [work EXCEPT ![w] = None]

Onward(w) == work' = [work EXCEPT ![w].step = @ + 1] /\ UNCHANGED done

\* An exception of the database driver.
Throw(w) ==
    /\ work[w] # None /\ budget.failures > 0
    /\ budget' = [budget EXCEPT !.failures = @ - 1]
    /\ Finish(w, [work[w] EXCEPT !.ec = "system"])
    /\ UNCHANGED <<db, aiList, owner, toDb, fromDb, infos, jobs>>

\* insert_one under a unique index: a userid that exists is an exception.
Insert(w, r) ==
    \/ /\ db[r] = None /\ db' = [db EXCEPT ![r] = 0] /\ Onward(w)
    \/ /\ db[r] # None /\ Finish(w, [work[w] EXCEPT !.ec = "system"]) /\ UNCHANGED db

InsertUser(w) ==
    /\ At(w, "create_user", 1) /\ Insert(w, <<"user", work[w].user>>)
    /\ UNCHANGED <<aiList, owner, toDb, fromDb, infos, jobs, budget>>

InsertAccount(w) ==
    /\ At(w, "create_user", 2) /\ Insert(w, <<"account", work[w].user>>)
    /\ UNCHANGED <<aiList, owner, toDb, fromDb, infos, jobs, budget>>

InsertAi(w) ==
    /\ At(w, "create_user", 3)
    /\ aiList' \in {aiList, aiList \cup {work[w].user}}
    /\ Finish(w, [work[w] EXCEPT !.ec = "success"])
    /\ UNCHANGED <<db, owner, toDb, fromDb, infos, jobs, budget>>

\* A query reads; ec_no_data of a missing row is overwritten with ec_success when
\* the coroutine goes on.
Query(w, kind, result) ==
    /\ At(w, kind, 1)
    /\ Finish(w, [work[w] EXCEPT !.ec = "success", !.result = result])
    /\ UNCHANGED <<db, aiList, owner, toDb, fromDb, infos, jobs, budget>>

QueryUser(w) == Query(w, "query_user", db[<<"user", work[w].user>>])
QueryAccount(w) == Query(w, "query_account", db[<<"account", work[w].user>>])
QueryAi(w) == Query(w, "query_ai", aiList)

\* The greatest userid of the account collection, 0 when it is empty.
QueryMaxUserid(w) ==
    LET ids == {u \in Users : db[<<"account", u>>] # None}
    IN \E m \in {0} \cup ids : (\A u \in ids : u <= m) /\ Query(w, "query_max_userid", m)

\* One row of an update: content and version are read under its lock.
ReadRow(w) ==
    /\ work[w] # None /\ work[w].kind \in Updates /\ work[w].step <= Len(work[w].rows)
    /\ LET r == work[w].rows[work[w].step] IN
       work' = [work EXCEPT ![w].step = @ + 1,
                            ![w].output = [x \in DOMAIN @ \cup {r} |->
                                                IF x = r THEN CachedVersion(infos[r]) ELSE @[x]],
                            ![w].ops = Append(@, <<r, infos[r]>>)]
    /\ UNCHANGED <<db, aiList, owner, toDb, fromDb, infos, jobs, done, budget>>

\* bulk.execute, one operation after the other; a row that is not there is not
\* made by an update.
Execute(w) ==
    /\ work[w] # None /\ work[w].kind \in Updates /\ work[w].step > Len(work[w].rows)
    /\ \/ /\ work[w].ops # <<>>
          /\ LET op == Head(work[w].ops)
             IN db' = IF db[op[1]] # None THEN [db EXCEPT ![op[1]] = op[2]] ELSE db
          /\ work' = [work EXCEPT ![w].ops = Tail(@)] /\ UNCHANGED done
       \/ /\ work[w].ops = <<>>
          /\ Finish(w, [work[w] EXCEPT !.ec = "success"]) /\ UNCHANGED db
    /\ UNCHANGED <<aiList, owner, toDb, fromDb, infos, jobs, budget>>

-----------------------------------------------------------------------------

BeginStep == BeginCall \/ BeginUpdateUser \/ BeginUpdateAccount
EndStep == AnswerCall \/ EndUpdateUser \/ EndUpdateAccount

WorkerStep(w) ==
    \/ TakeJob(w) \/ InsertUser(w) \/ InsertAccount(w) \/ InsertAi(w)
    \/ QueryUser(w) \/ QueryAccount(w) \/ QueryMaxUserid(w) \/ QueryAi(w)
    \/ ReadRow(w) \/ Execute(w)

Next ==
    \/ \E r \in Rows : Change(r)
    \/ \E kind \in Updates : SendUpdate(kind)
    \/ \E kind \in Queries \cup {"create_user"}, u \in Users : Call(kind, u)
    \/ OwnerReceives
    \/ BeginStep \/ EndStep
    \/ \E w \in Workers : WorkerStep(w) \/ Throw(w)

\* The threads go on, the scheduler serves its channel and what is posted to it,
\* and the owner sends what is not written again.  Its timer does not wait for
\* reports: SendUpdate's bounds hold it up only in the model, hence SF.
Spec ==
    /\ Init /\ [][Next]_vars
    /\ WF_vars(OwnerReceives) /\ WF_vars(BeginStep) /\ WF_vars(EndStep)
    /\ \A w \in Workers : WF_vars(WorkerStep(w))
    /\ \A kind \in Updates : SF_vars(SendUpdate(kind))

-----------------------------------------------------------------------------

\* What the owner has been told is true: version_db is in the database, and a
\* user it was told of has both rows, whatever is thrown in between.
ToldTheTruth ==
    /\ TypeOK
    /\ \A u \in known : db[<<"user", u>>] # None /\ db[<<"account", u>>] # None
    /\ \A r \in Rows : r[2] \in known => verdb[r] <= db[r]

\* A row never goes back to an older content, whichever threads of the pool
\* execute the updates (the order that the comment at db_proxy.h promises).
UpdatesInOrder == [][\A r \in Rows : db[r] # None => db'[r] # None /\ db[r] <= db'[r]]_vars

\* Every call is answered, every job finished, an exception included.
CallsAnswered == (call # None) ~> (call = None)

\* What the owner has changed is written in the end and the owner is told,
\* although updates that meet a cached row are dropped and updates that throw are
\* not reported.  A version that cache_info::version cannot hold is the exception:
\* its content is written, but the report never names it, so that the owner sends
\* the row again for ever.
WrittenBack ==
    \A r \in Rows : (verdb[r] # ver[r]) ~>
        (verdb[r] = ver[r] \/ (ver[r] >= Width /\ db[r] = ver[r]))
=============================================================================
