------------------------------ MODULE DbRequest -----------------------------
(***************************************************************************)
(* Asynchronous database requests: the cookie table and timer of           *)
(* scripts/server/daemons/dbd.lua, the jobs of src/lua_custom/lua_db.rs on *)
(* their thread pool, the connections of src/db (db_pool.rs, db_mysql.rs,  *)
(* db_sqlite.rs) and the event queue of src/lua_engine.rs.                 *)
(*                                                                         *)
(* Lua runs on one thread: Ask, NotifyOperationResult and TimerHandle are  *)
(* atomic.  (The timer event itself goes through exec_list; it may be at   *)
(* its head at any moment.)  The worker threads interleave with it and     *)
(* with each other at every call they make of the database.                *)
(*                                                                         *)
(* A request is its number, which is also its cookie: the 32-bit counter   *)
(* of new_cookie does not come round within a request's life.  Times are   *)
(* abstracted: any waiting request may be found older than TIMEOUT, any    *)
(* idle connection older than MAX_KEEP_CONN.  Statements are their place   *)
(* in the request.                                                         *)
(*                                                                         *)
(* An operator marked "slip" is not part of the model: it is a likely      *)
(* mistake in the definition after it, which the properties must notice.   *)
(***************************************************************************)
EXTENDS Naturals, Sequences, FiniteSets

CONSTANTS
    DbTypes,        \* the values DB_TYPE may have: "mysql", "sqlite"
    Workers,        \* the threads of the mysql pool
    SqliteWorker,   \* the one of the sqlite pool
    Shapes,         \* the requests the scripts make
    MaxRequests     \* bound: how many

Ops == {"select", "execute", "insert", "transaction", "batch"}
Lists == {"transaction", "batch"}

ASSUME DbAssumption ==
    /\ DbTypes \subseteq {"mysql", "sqlite"}
    /\ IsFiniteSet(Workers)
    /\ SqliteWorker \in Workers
    /\ Shapes \subseteq [op : Ops, callback : BOOLEAN]
    /\ MaxRequests \in Nat

Ids == 1..MaxRequests
Stmts == 1..2       \* a transaction or batch has two statements

VARIABLES
    dbType,     \* get_db_type()
    reqs,       \* the requests made
    waiting,    \* keys of cookie_map
    answer,     \* history: what each callback was called with
    jobs,       \* the thread pool's queue
    busy,       \* what each worker is doing
    pool,       \* idle connections, the last released last
    events,     \* DbResult entries of exec_list
    done,       \* statements of each request the database has committed
    cut         \* history: requests whose session was replaced under them

luaVars == <<reqs, waiting, answer>>
vars == <<dbType, reqs, waiting, answer, jobs, busy, pool, events, done, cut>>

\* up is is_connect and err says whether error is set; alive, open and pending
\* are the server's side: the session, its transaction and what that has done.
Conn == [up : BOOLEAN, err : BOOLEAN, alive : BOOLEAN, open : BOOLEAN,
         pending : SUBSET Stmts]

NewConn == [up |-> TRUE, err |-> FALSE, alive |-> TRUE, open |-> FALSE,
            pending |-> {}]

Job == [id : Ids \cup {0}, at : {"idle", "begin", "stmt", "commit", "rollback", "report"},
        k : Stmts, ret : {"ok", "error"}, failed : BOOLEAN, conn : Conn]

Idle == [id |-> 0, at |-> "idle", k |-> 1, ret |-> "ok", failed |-> FALSE,
         conn |-> NewConn]

TypeOK ==
    /\ dbType \in DbTypes
    /\ reqs \in Seq(Shapes) /\ Len(reqs) <= MaxRequests
    /\ waiting \subseteq {i \in DOMAIN reqs : reqs[i].callback}
    /\ answer \in [Ids -> {"none", "ok", "error", "timeout"}]
    /\ jobs \in Seq(DOMAIN reqs)
    /\ busy \in [Workers -> Job]
    /\ \A w \in Workers : busy[w].id \in DOMAIN reqs \/ busy[w] = Idle
    /\ pool \in Seq(Conn)
    /\ events \in Seq([cookie : Ids, ret : {"ok", "error"}])
    /\ done \in [Ids -> SUBSET Stmts]
    /\ cut \subseteq Ids

Init ==
    /\ dbType \in DbTypes
    /\ reqs = <<>>
    /\ waiting = {}
    /\ answer = [i \in Ids |-> "none"]
    /\ jobs = <<>>
    /\ busy = [w \in Workers |-> Idle]
    /\ pool = <<>>
    /\ events = <<>>
    /\ done = [i \in Ids |-> {}]
    /\ cut = {}

ThreadsSame == Workers                      \* slip: the same pool for both
Threads == IF dbType = "mysql" THEN Workers ELSE {SqliteWorker}

-----------------------------------------------------------------------------
(***************************************************************************)
(* One call of the database, on connection c: begin, the k-th statement,   *)
(* commit or rollback.  Its outcomes are records of the connection after   *)
(* it, the result (res), whether the session was replaced first, and the   *)
(* statements it commits.                                                  *)
(***************************************************************************)
EndTx(c) == [c EXCEPT !.open = FALSE, !.pending = {}]
Renew(c) == [EndTx(c) EXCEPT !.up = TRUE, !.alive = TRUE]
Lost(c) == [EndTx(c) EXCEPT !.alive = FALSE]
Dead(c) == [EndTx(c) EXCEPT !.up = FALSE, !.alive = FALSE]

\* The server did it.
Succeed(c, at, k) ==
    CASE at = "begin" -> [c EXCEPT !.open = TRUE, !.pending = {}]
      [] at = "stmt"  -> [c EXCEPT !.pending = IF c.open THEN @ \cup {k} ELSE @]
      [] OTHER        -> EndTx(c)

Lands(c, at, k) ==
    CASE at = "commit"           -> c.pending
      [] at = "stmt" /\ ~c.open  -> {k}
      [] OTHER                   -> {}

\* check_connect: the session answers the ping, or a new one takes its place.
Sessions(c) ==
    (IF c.alive THEN {[conn |-> c, replaced |-> FALSE]} ELSE {})
        \cup {[conn |-> Renew(c), replaced |-> TRUE]}

\* A session does the call, or refuses it (not begin and rollback), or is lost
\* on the way, before or after it did.
OnSession(d, replaced, at, k) ==
    LET result(conn, res, lands) ==
            [conn |-> conn, res |-> res, lands |-> lands, replaced |-> replaced]
    IN  { result(Succeed(d, at, k), "ok", Lands(d, at, k)),
          result(Lost(d), "lost", {}),
          result(Lost(d), "lost", Lands(d, at, k)) }
        \cup (IF at = "stmt" THEN {result(d, "refused", {})} ELSE {})
        \cup (IF at = "commit" THEN {result(EndTx(d), "refused", {})} ELSE {})

\* DbMysql: with a session, or "dead" when none is to be had.
MysqlCall(c, at, k) ==
    (UNION {OnSession(s.conn, s.replaced, at, k) : s \in Sessions(c)})
        \cup {[conn |-> Dead(c), res |-> "dead", lands |-> {}, replaced |-> FALSE]}

\* DbSqlite: "START TRANSACTION" is not in SQLite's language, so it is refused
\* and there is no transaction to end.  "other" is an error of rusqlite itself.
SqliteCall(c, at, k) ==
    LET result(res, lands) ==
            [conn |-> c, res |-> res, lands |-> lands, replaced |-> FALSE]
    IN  IF at = "stmt"
        THEN {result("ok", {k}), result("refused", {}), result("other", {})}
        ELSE {result("refused", {})}

\* Slip: rollback_transaction does nothing.
DbCallNoRollback(c, at, k) ==
    IF at = "rollback" THEN {[conn |-> c, res |-> "ok", lands |-> {}, replaced |-> FALSE]}
    ELSE IF dbType = "mysql" THEN MysqlCall(c, at, k) ELSE SqliteCall(c, at, k)

DbCall(c, at, k) ==
    IF dbType = "mysql" THEN MysqlCall(c, at, k) ELSE SqliteCall(c, at, k)

\* The field error after the call: the mysql calls that fail set it in insert only.
ErrAfter(r, op, at) ==
    IF dbType = "sqlite" THEN FALSE
    ELSE IF r.res = "ok" THEN FALSE
    ELSE IF op = "insert" /\ r.res \in {"refused", "lost"} THEN TRUE
    ELSE r.conn.err

\* execute failed, as thread_db_transaction and thread_db_batch_execute see it:
\* an Err, or a negative code; sqlite's own codes are positive.
FailingNegative(r) == r.res = "other"       \* slip: an Err does not count
Failing(r) == IF dbType = "mysql" THEN r.res # "ok" ELSE r.res = "other"

Code(r) == IF r.res = "ok" THEN "ok" ELSE "error"

GetErrorCode(err) == IF err THEN "error" ELSE "ok"

\* The values ret may have after the statement of a single request.
SingleRets(op, r, err) ==
    CASE op = "select" /\ r.res = "other" -> {"ok", "error"}  \* in prepare, in query
      [] dbType = "mysql" /\ op = "execute" /\ r.res # "ok" -> {GetErrorCode(err)}
      [] dbType = "mysql" /\ op = "insert" /\ r.res = "dead" -> {GetErrorCode(err)}
      [] OTHER -> {Code(r)}

-----------------------------------------------------------------------------
(***************************************************************************)
(* The script.                                                             *)
(***************************************************************************)

\* read_db, execute_db, insert_db, transaction_db, batch_execute_db.
Ask(shape) ==
    LET id == Len(reqs) + 1
    IN  /\ id \in Ids
        /\ reqs' = Append(reqs, shape)
        /\ waiting' = IF shape.callback THEN waiting \cup {id} ELSE waiting
        /\ jobs' = Append(jobs, id)
        /\ UNCHANGED <<dbType, answer, busy, pool, events, done, cut>>

\* Slip: the cookie stays in the table.
NotifyAndKeep ==
    /\ events # <<>>
    /\ Head(events).cookie \in waiting
    /\ answer' = [answer EXCEPT ![Head(events).cookie] = Head(events).ret]
    /\ events' = Tail(events)
    /\ UNCHANGED <<dbType, reqs, waiting, jobs, busy, pool, done, cut>>

\* A result for a cookie that is not in the table is dropped.
NotifyOperationResult ==
    /\ events # <<>>
    /\ LET e == Head(events)
       IN  IF e.cookie \in waiting
           THEN /\ waiting' = waiting \ {e.cookie}
                /\ answer' = [answer EXCEPT ![e.cookie] = e.ret]
           ELSE UNCHANGED <<waiting, answer>>
    /\ events' = Tail(events)
    /\ UNCHANGED <<dbType, reqs, jobs, busy, pool, done, cut>>

\* Slip: the same of the timer.
TimerHandleAndKeep(S) ==
    /\ S # {}
    /\ S \subseteq waiting
    /\ answer' = [i \in Ids |-> IF i \in S THEN "timeout" ELSE answer[i]]
    /\ UNCHANGED <<dbType, reqs, waiting, jobs, busy, pool, events, done, cut>>

\* The one-second timer finds the requests of S too old.
TimerHandle(S) ==
    /\ S # {}
    /\ S \subseteq waiting
    /\ waiting' = waiting \ S
    /\ answer' = [i \in Ids |-> IF i \in S THEN "timeout" ELSE answer[i]]
    /\ UNCHANGED <<dbType, reqs, jobs, busy, pool, events, done, cut>>

-----------------------------------------------------------------------------
(***************************************************************************)
(* A worker.                                                               *)
(***************************************************************************)

\* Slip: a new connection for every job.
TakeJobFresh(w) ==
    /\ w \in Threads
    /\ busy[w] = Idle
    /\ jobs # <<>>
    /\ jobs' = Tail(jobs)
    /\ busy' = [busy EXCEPT ![w] = [Idle EXCEPT !.id = Head(jobs), !.at = "stmt"]]
    /\ UNCHANGED <<dbType, luaVars, pool, events, done, cut>>

\* The job's connection: the last one released, else a new one; when none can be
\* made, the job ends there and then, without a result.
TakeJob(w) ==
    /\ w \in Threads
    /\ busy[w] = Idle
    /\ jobs # <<>>
    /\ jobs' = Tail(jobs)
    /\ LET id == Head(jobs)
           start(c) == [Idle EXCEPT !.id = id, !.conn = c,
                            !.at = IF reqs[id].op \in Lists THEN "begin" ELSE "stmt"]
       IN  \/ /\ pool # <<>>
              /\ busy' = [busy EXCEPT ![w] = start(pool[Len(pool)])]
              /\ pool' = SubSeq(pool, 1, Len(pool) - 1)
           \/ /\ pool = <<>>
              /\ busy' = [busy EXCEPT ![w] = start(NewConn)]
              /\ UNCHANGED pool
           \/ /\ pool = <<>>
              /\ UNCHANGED <<busy, pool>>
    /\ UNCHANGED <<dbType, luaVars, events, done, cut>>

\* How w's job goes on after a call that gave r.
GoOn(w, r) ==
    LET j == busy[w]
        op == reqs[j.id].op
        err == ErrAfter(r, op, j.at)
        b == [j EXCEPT !.conn = [r.conn EXCEPT !.err = err]]
        next == IF j.k = 1 THEN [b EXCEPT !.k = 2] ELSE [b EXCEPT !.at = "commit"]
        becomes(g) == busy' = [busy EXCEPT ![w] = g]
    IN  \/ /\ j.at = "begin"
           /\ becomes([b EXCEPT !.at = "stmt"])
        \/ /\ j.at = "stmt"
           /\ op \notin Lists
           /\ \E ret \in SingleRets(op, r, err) :
                 becomes([b EXCEPT !.at = "report", !.ret = ret])
        \/ /\ j.at = "stmt"
           /\ op = "transaction"
           /\ Failing(r)
           /\ becomes([b EXCEPT !.at = "rollback",
                                !.ret = IF dbType = "sqlite" THEN "error" ELSE j.ret])
        \/ /\ j.at = "stmt"
           /\ op = "transaction"
           /\ ~Failing(r)
           /\ becomes([next EXCEPT !.ret = Code(r)])
        \/ /\ j.at = "stmt"
           /\ op = "batch"
           /\ becomes([next EXCEPT !.failed = j.failed \/ Failing(r)])
        \/ /\ j.at = "rollback" \/ (j.at = "commit" /\ op = "transaction")
           /\ becomes([b EXCEPT !.at = "report"])
        \/ /\ j.at = "commit"
           /\ op = "batch"
           /\ becomes([b EXCEPT !.at = "report",
                                !.ret = IF j.failed THEN "error" ELSE Code(r)])

\* The next call of the database that w's job makes.
Perform(w) ==
    LET j == busy[w]
    IN  /\ j.at \in {"begin", "stmt", "commit", "rollback"}
        /\ \E r \in DbCall(j.conn, j.at, j.k) :
              /\ GoOn(w, r)
              /\ done' = [done EXCEPT ![j.id] = @ \cup r.lands]
              /\ cut' = IF r.replaced THEN cut \cup {j.id} ELSE cut
        /\ UNCHANGED <<dbType, luaVars, jobs, pool, events>>

\* A row that cannot be read makes a mysql select panic: the thread pool goes on
\* with a new thread, the connection is dropped and there is no result.
Panic(w) ==
    /\ dbType = "mysql"
    /\ busy[w].at = "stmt"
    /\ reqs[busy[w].id].op = "select"
    /\ busy' = [busy EXCEPT ![w] = Idle]
    /\ UNCHANGED <<dbType, luaVars, jobs, pool, events, done, cut>>

\* apply_db_result for a job with a cookie, then release_db_trait, which keeps
\* the connection unless it is known to be lost.  (Nobody can tell the moment
\* between the two.)
Report(w) ==
    LET j == busy[w]
    IN  /\ j.at = "report"
        /\ events' = IF reqs[j.id].callback
                     THEN Append(events, [cookie |-> j.id, ret |-> j.ret])
                     ELSE events
        /\ pool' = IF j.conn.up THEN Append(pool, j.conn) ELSE pool
        /\ busy' = [busy EXCEPT ![w] = Idle]
        /\ UNCHANGED <<dbType, luaVars, jobs, done, cut>>

\* The five-minute timer drops the n connections released longest ago.
CheckConnectTimeout(n) ==
    /\ dbType = "mysql"
    /\ n \in 1..Len(pool)
    /\ pool' = SubSeq(pool, n + 1, Len(pool))
    /\ UNCHANGED <<dbType, luaVars, jobs, busy, events, done, cut>>

-----------------------------------------------------------------------------
Next ==
    \/ \E shape \in Shapes : Ask(shape)
    \/ NotifyOperationResult
    \/ \E S \in SUBSET Ids : TimerHandle(S)
    \/ \E w \in Workers : TakeJob(w) \/ Perform(w) \/ Panic(w) \/ Report(w)
    \/ \E n \in 1..MaxRequests : CheckConnectTimeout(n)

Spec == Init /\ [][Next]_vars

\* The timer runs every second, and a request that goes on waiting gets old.
\* Nothing is assumed of the workers: the database may hang.
FairSpec ==
    Spec /\ \A i \in Ids : WF_vars(\E S \in SUBSET Ids : i \in S /\ TimerHandle(S))

-----------------------------------------------------------------------------
(***************************************************************************)
(* What the requests promise.                                              *)
(***************************************************************************)

Promise == INSTANCE DbPromise WITH
    call <- [i \in Ids |->
                IF answer[i] # "none" THEN answer[i]
                ELSE IF i \in waiting THEN "waiting" ELSE "unasked"]

\* A callback is called at most once, with the answer of its request or with the
\* timeout, whatever becomes of connection, worker, result and timer: a result
\* that comes after the timeout is dropped.
CalledOnce == Promise!Spec

\* A callback is called at last: a request whose result is lost, with a job that
\* found no connection, a thread that died or a database that hangs, times out.
EveryoneCalled == \A i \in Ids : i \in waiting ~> i \notin waiting

\* A worker is through with request i.
Finished(i) ==
    /\ i \in DOMAIN reqs
    /\ \A n \in DOMAIN jobs : jobs[n] # i
    /\ \A w \in Workers : busy[w].id # i

\* A connection in the pool carries no transaction into its next request, which
\* would run inside it and be undone or committed with it.
PoolIsClean ==
    \A n \in DOMAIN pool : ~pool[n].open

PoolInv == TypeOK /\ PoolIsClean

Busy == {w \in Workers : busy[w] # Idle}

\* The pool grows with the threads, not with the requests: connections in use
\* and idle together are never more than the threads.
ConnectionsBounded ==
    Len(pool) + Cardinality(Busy) <= Cardinality(Threads)

\* transaction_db is all or nothing on mysql when its session was not replaced:
\* a statement that fails takes back the ones before it.
TransactionsUndone ==
    dbType = "mysql" =>
        \A i \in DOMAIN reqs \ cut :
            reqs[i].op = "transaction" /\ Finished(i) => done[i] \in {{}, Stmts}

\* With the single thread of the sqlite pool a request sees the effects of all
\* that the script asked before it, the save of a user before its load.
SqliteKeepsOrder ==
    dbType = "sqlite" =>
        \A i, k \in DOMAIN reqs : i < k /\ done[k] # {} => Finished(i)

-----------------------------------------------------------------------------
(***************************************************************************)
(* What the source says and the code does not do.                          *)
(***************************************************************************)

\* transaction_db, of which batch_execute_db is said to differ in that it
\* commits even when a statement fails: all of its statements or none.
TransactionsAllOrNothing ==
    \A i \in DOMAIN reqs :
        reqs[i].op = "transaction" /\ Finished(i) => done[i] \in {{}, Stmts}

\* notify_operation_result passes ret on as the result of the request: a
\* callback that is told 0 belongs to statements that were executed.
ZeroMeansDone ==
    \A i \in DOMAIN reqs :
        answer[i] = "ok" => done[i] = IF reqs[i].op \in Lists THEN Stmts ELSE {1}
=============================================================================
