--------------------------- MODULE DbRequestProofs --------------------------
(***************************************************************************)
(* What module DbRequest keeps whatever the number of requests and         *)
(* threads: its types, the once-only callback (as a refinement of          *)
(* DbPromise, without its fairness), clean connections in the pool, a pool *)
(* no larger than its threads, the order of SQLite and whole transactions. *)
(***************************************************************************)
EXTENDS DbRequest, FiniteSetTheorems, SequenceTheorems, TLAPS

-----------------------------------------------------------------------------
(***************************************************************************)
(* The calls of the database.                                              *)
(***************************************************************************)
Calls == {"begin", "stmt", "commit", "rollback"}

Result == [conn : Conn, res : {"ok", "refused", "lost", "dead", "other"},
           lands : SUBSET Stmts, replaced : BOOLEAN]

\* What becomes of a connection is a connection; its transaction is over.
LEMMA ConnType ==
    ASSUME NEW c \in Conn
    PROVE  /\ EndTx(c) \in Conn /\ ~EndTx(c).open
           /\ Renew(c) \in Conn /\ ~Renew(c).open
           /\ Lost(c) \in Conn  /\ ~Lost(c).open
           /\ Dead(c) \in Conn  /\ ~Dead(c).open
<1>1. EndTx(c) \in Conn /\ ~EndTx(c).open
  BY DEF EndTx, Conn
<1>2. ASSUME NEW d \in Conn, ~d.open, NEW u \in BOOLEAN, NEW a \in BOOLEAN
      PROVE  /\ [d EXCEPT !.alive = a] \in Conn
             /\ ~[d EXCEPT !.alive = a].open
             /\ [d EXCEPT !.up = u, !.alive = a] \in Conn
             /\ ~[d EXCEPT !.up = u, !.alive = a].open
  BY <1>2 DEF Conn
<1> QED
  BY <1>1, <1>2 DEF Renew, Lost, Dead

LEMMA SessionsType ==
    ASSUME NEW c \in Conn, NEW s \in Sessions(c)
    PROVE  /\ s.conn \in Conn
           /\ s.replaced \in BOOLEAN
           /\ s.conn.open => c.open
<1>1. CASE s = [conn |-> c, replaced |-> FALSE]
  BY <1>1
<1>2. CASE s = [conn |-> Renew(c), replaced |-> TRUE]
  BY <1>2, ConnType
<1> QED
  BY <1>1, <1>2 DEF Sessions

LEMMA SucceedType ==
    ASSUME NEW c \in Conn, NEW at \in Calls, NEW k \in Stmts
    PROVE  /\ Succeed(c, at, k) \in Conn
           /\ Lands(c, at, k) \in SUBSET Stmts
           /\ at \in {"commit", "rollback"} => ~Succeed(c, at, k).open
           /\ at = "stmt" => (Succeed(c, at, k).open => c.open)
<1>1. c.pending \in SUBSET Stmts /\ c.open \in BOOLEAN
  BY DEF Conn
<1>2. CASE at = "begin"
  BY <1>1, <1>2 DEF Succeed, Lands, Conn
<1>3. CASE at = "stmt"
  <2>1. Succeed(c, at, k) = [c EXCEPT !.pending = IF c.open THEN c.pending \cup {k} ELSE c.pending]
    BY <1>3 DEF Succeed
  <2>2. (IF c.open THEN c.pending \cup {k} ELSE c.pending) \in SUBSET Stmts
    BY <1>1
  <2>3. Succeed(c, at, k) \in Conn /\ (Succeed(c, at, k).open => c.open)
    BY <2>1, <2>2 DEF Conn
  <2>4. Lands(c, at, k) \in SUBSET Stmts
    BY <1>3 DEF Lands
  <2> QED
    BY <1>3, <2>3, <2>4
<1>4. CASE at \in {"commit", "rollback"}
  <2>1. Succeed(c, at, k) = EndTx(c)
    BY <1>4 DEF Succeed
  <2>2. Lands(c, at, k) \in SUBSET Stmts
    BY <1>1, <1>4 DEF Lands
  <2> QED
    BY <2>1, <2>2, <1>4, ConnType
<1> QED
  BY <1>2, <1>3, <1>4 DEF Calls

\* Every outcome of a call of either database is a result of this shape.  A
\* call of mysql that ends a transaction leaves none open, whatever happens to
\* it, and a statement, or any call of sqlite, opens none.
LEMMA CallType ==
    ASSUME NEW c \in Conn, NEW at \in Calls, NEW k \in Stmts,
           NEW r \in DbCall(c, at, k)
    PROVE  /\ r \in Result
           /\ at \in {"commit", "rollback"} /\ dbType = "mysql" => ~r.conn.open
           /\ at = "stmt" \/ dbType # "mysql" => (r.conn.open => c.open)
<1>1. CASE dbType = "mysql"
  <2>1. CASE r = [conn |-> Dead(c), res |-> "dead", lands |-> {}, replaced |-> FALSE]
    BY <2>1, <1>1, ConnType DEF Result
  <2>2. CASE \E s \in Sessions(c) : r \in OnSession(s.conn, s.replaced, at, k)
    <3>1. PICK s \in Sessions(c) : r \in OnSession(s.conn, s.replaced, at, k)
      BY <2>2
    <3> DEFINE d == s.conn
    <3>2. d \in Conn /\ s.replaced \in BOOLEAN /\ (d.open => c.open)
      BY SessionsType
    <3>3. /\ Succeed(d, at, k) \in Conn
          /\ Lands(d, at, k) \in SUBSET Stmts
          /\ at \in {"commit", "rollback"} => ~Succeed(d, at, k).open
          /\ at = "stmt" => (Succeed(d, at, k).open => d.open)
      BY <3>2, SucceedType
    <3>4. EndTx(d) \in Conn /\ ~EndTx(d).open /\ Lost(d) \in Conn /\ ~Lost(d).open
      BY <3>2, ConnType
    <3>5. \/ r = [conn |-> Succeed(d, at, k), res |-> "ok",
                  lands |-> Lands(d, at, k), replaced |-> s.replaced]
          \/ r = [conn |-> Lost(d), res |-> "lost", lands |-> {}, replaced |-> s.replaced]
          \/ r = [conn |-> Lost(d), res |-> "lost",
                  lands |-> Lands(d, at, k), replaced |-> s.replaced]
          \/ at = "stmt" /\ r = [conn |-> d, res |-> "refused",
                                 lands |-> {}, replaced |-> s.replaced]
          \/ r = [conn |-> EndTx(d), res |-> "refused",
                  lands |-> {}, replaced |-> s.replaced]
      BY <3>1 DEF OnSession
    <3> HIDE DEF d
    <3>6. CASE r = [conn |-> Succeed(d, at, k), res |-> "ok",
                    lands |-> Lands(d, at, k), replaced |-> s.replaced]
      BY <1>1, <3>2, <3>3, <3>6 DEF Result
    <3>7. CASE \E lands \in SUBSET Stmts :
                  r = [conn |-> Lost(d), res |-> "lost",
                       lands |-> lands, replaced |-> s.replaced]
      BY <3>2, <3>4, <3>7 DEF Result
    <3>8. CASE at = "stmt" /\ r = [conn |-> d, res |-> "refused",
                                   lands |-> {}, replaced |-> s.replaced]
      BY <3>2, <3>8 DEF Result
    <3>9. CASE r = [conn |-> EndTx(d), res |-> "refused",
                    lands |-> {}, replaced |-> s.replaced]
      BY <3>2, <3>4, <3>9 DEF Result
    <3> QED
      BY <3>3, <3>5, <3>6, <3>7, <3>8, <3>9
  <2> QED
    BY <1>1, <2>1, <2>2 DEF DbCall, MysqlCall
<1>2. CASE dbType # "mysql"
  <2>1. \E res \in {"ok", "refused", "other"}, lands \in SUBSET Stmts :
            r = [conn |-> c, res |-> res, lands |-> lands, replaced |-> FALSE]
    BY <1>2 DEF DbCall, SqliteCall
  <2> QED
    BY <1>2, <2>1 DEF Result
<1> QED
  BY <1>1, <1>2

-----------------------------------------------------------------------------
(***************************************************************************)
(* The steps of a job.                                                     *)
(***************************************************************************)

\* A job goes on as a job of the same request, with the connection the call left
\* it; it reports after its only statement or after the end of its transaction.
LEMMA GoOnType ==
    ASSUME NEW w \in Workers, NEW r \in Result, GoOn(w, r),
           busy[w] \in Job, busy[w].at \in Calls
    PROVE  \E g \in Job :
              /\ busy' = [busy EXCEPT ![w] = g]
              /\ g.id = busy[w].id
              /\ g.conn.open = r.conn.open
              /\ g.at \in {"stmt", "commit", "rollback", "report"}
              /\ g.at \in {"commit", "rollback"} => reqs[g.id].op \in Lists
              /\ g.at = "stmt" => busy[w].at \in {"begin", "stmt"}
              /\ g.at = "stmt" /\ busy[w].at = "stmt" => reqs[g.id].op \in Lists
              /\ \/ g.at # "report"
                 \/ busy[w].at \in {"commit", "rollback"}
                 \/ busy[w].at = "stmt" /\ reqs[g.id].op \notin Lists
<1> DEFINE j == busy[w]
           op == reqs[j.id].op
           err == ErrAfter(r, op, j.at)
           c == [r.conn EXCEPT !.err = err]
           b == [j EXCEPT !.conn = c]
           next == IF j.k = 1 THEN [b EXCEPT !.k = 2] ELSE [b EXCEPT !.at = "commit"]
<1>1. err \in BOOLEAN
  BY ZenonT(60) DEF ErrAfter, Result, Conn
<1>2. c \in Conn /\ c.open = r.conn.open
  BY <1>1 DEF Result, Conn
<1>3. /\ b \in Job
      /\ b.id = j.id /\ b.at = j.at /\ b.k = j.k /\ b.ret = j.ret
      /\ b.failed = j.failed /\ b.conn = c
  <2> HIDE DEF c
  <2> QED
    BY <1>2 DEF Job
<1>4. /\ next \in Job
      /\ next.id = j.id /\ next.at \in {j.at, "commit"} /\ next.conn = c
  <2> HIDE DEF b
  <2>1. LET n == [b EXCEPT !.k = 2]
        IN  n \in Job /\ n.id = j.id /\ n.at = j.at /\ n.conn = c
    BY <1>3 DEF Job, Stmts
  <2>2. LET n == [b EXCEPT !.at = "commit"]
        IN  n \in Job /\ n.id = j.id /\ n.at = "commit" /\ n.conn = c
    BY <1>3 DEF Job
  <2> QED
    BY <2>1, <2>2
<1>5. Code(r) \in {"ok", "error"} /\ Failing(r) \in BOOLEAN /\ j.failed \in BOOLEAN
  BY DEF Code, Failing, Job
<1>6. SingleRets(op, r, err) \subseteq {"ok", "error"}
  BY <1>5 DEF SingleRets, GetErrorCode
<1>7. \/ /\ j.at = "begin"
         /\ busy' = [busy EXCEPT ![w] = [b EXCEPT !.at = "stmt"]]
      \/ /\ j.at = "stmt" /\ op \notin Lists
         /\ \E ret \in {"ok", "error"} :
               busy' = [busy EXCEPT ![w] = [b EXCEPT !.at = "report", !.ret = ret]]
      \/ /\ j.at = "stmt" /\ op \in Lists
         /\ \E ret \in {"ok", "error"} :
               busy' = [busy EXCEPT ![w] = [b EXCEPT !.at = "rollback", !.ret = ret]]
      \/ /\ j.at = "stmt" /\ op \in Lists
         /\ \E ret \in {"ok", "error"} :
               busy' = [busy EXCEPT ![w] = [next EXCEPT !.ret = ret]]
      \/ /\ j.at = "stmt" /\ op \in Lists
         /\ \E failed \in BOOLEAN :
               busy' = [busy EXCEPT ![w] = [next EXCEPT !.failed = failed]]
      \/ /\ j.at \in {"commit", "rollback"}
         /\ busy' = [busy EXCEPT ![w] = [b EXCEPT !.at = "report"]]
      \/ /\ j.at \in {"commit", "rollback"}
         /\ \E ret \in {"ok", "error"} :
               busy' = [busy EXCEPT ![w] = [b EXCEPT !.at = "report", !.ret = ret]]
  <2>1. j.ret \in {"ok", "error"}
    BY DEF Job
  <2> QED
    BY <1>5, <1>6, <2>1 DEF GoOn, Lists
<1> HIDE DEF b, next, c, err
<1>8. ASSUME NEW ret \in {"ok", "error"}, NEW failed \in BOOLEAN, NEW at \in Calls \cup {"report"}
      PROVE  /\ LET g == [b EXCEPT !.at = at]
                IN  g \in Job /\ g.id = j.id /\ g.at = at /\ g.conn = c
             /\ LET g == [b EXCEPT !.at = at, !.ret = ret]
                IN  g \in Job /\ g.id = j.id /\ g.at = at /\ g.conn = c
             /\ LET g == [next EXCEPT !.ret = ret]
                IN  g \in Job /\ g.id = j.id /\ g.at \in {j.at, "commit"} /\ g.conn = c
             /\ LET g == [next EXCEPT !.failed = failed]
                IN  g \in Job /\ g.id = j.id /\ g.at \in {j.at, "commit"} /\ g.conn = c
  BY <1>3, <1>4 DEF Job, Calls
<1>9. CASE /\ j.at = "begin"
           /\ busy' = [busy EXCEPT ![w] = [b EXCEPT !.at = "stmt"]]
  <2> DEFINE g == [b EXCEPT !.at = "stmt"]
  <2>2. g \in Job /\ g.id = j.id /\ g.at = "stmt" /\ g.conn = c
    BY <1>8, <1>9 DEF Calls
  <2>3. busy' = [busy EXCEPT ![w] = g]
    BY <1>9
  <2> HIDE DEF g
  <2> QED
    BY <1>2, <2>2, <2>3, <1>9
<1>10. CASE /\ j.at = "stmt" /\ op \notin Lists
            /\ \E ret \in {"ok", "error"} :
                  busy' = [busy EXCEPT ![w] = [b EXCEPT !.at = "report", !.ret = ret]]
  <2>1. PICK ret \in {"ok", "error"} :
            busy' = [busy EXCEPT ![w] = [b EXCEPT !.at = "report", !.ret = ret]]
    BY <1>10
  <2> DEFINE g == [b EXCEPT !.at = "report", !.ret = ret]
  <2>2. g \in Job /\ g.id = j.id /\ g.at = "report" /\ g.conn = c
    BY ZenonT(60), <1>8, <1>10 DEF Calls
  <2>3. busy' = [busy EXCEPT ![w] = g]
    BY <2>1
  <2> HIDE DEF g
  <2> QED
    BY <1>2, <2>2, <2>3, <1>10
<1>11. CASE /\ j.at = "stmt" /\ op \in Lists
            /\ \E ret \in {"ok", "error"} :
                  busy' = [busy EXCEPT ![w] = [b EXCEPT !.at = "rollback", !.ret = ret]]
  <2>1. PICK ret \in {"ok", "error"} :
            busy' = [busy EXCEPT ![w] = [b EXCEPT !.at = "rollback", !.ret = ret]]
    BY <1>11
  <2> DEFINE g == [b EXCEPT !.at = "rollback", !.ret = ret]
  <2>2. g \in Job /\ g.id = j.id /\ g.at = "rollback" /\ g.conn = c
    BY ZenonT(60), <1>8, <1>11 DEF Calls
  <2>3. busy' = [busy EXCEPT ![w] = g]
    BY <2>1
  <2> HIDE DEF g
  <2> QED
    BY <1>2, <2>2, <2>3, <1>11
<1>12. CASE /\ j.at = "stmt" /\ op \in Lists
            /\ \E ret \in {"ok", "error"} :
                  busy' = [busy EXCEPT ![w] = [next EXCEPT !.ret = ret]]
  <2>1. PICK ret \in {"ok", "error"} :
            busy' = [busy EXCEPT ![w] = [next EXCEPT !.ret = ret]]
    BY <1>12
  <2> DEFINE g == [next EXCEPT !.ret = ret]
  <2>2. g \in Job /\ g.id = j.id /\ g.at \in {"stmt", "commit"} /\ g.conn = c
    BY <1>8, <1>12 DEF Calls
  <2>3. busy' = [busy EXCEPT ![w] = g]
    BY <2>1
  <2> HIDE DEF g
  <2> QED
    BY <1>2, <2>2, <2>3, <1>12
<1>13. CASE /\ j.at = "stmt" /\ op \in Lists
            /\ \E failed \in BOOLEAN :
                  busy' = [busy EXCEPT ![w] = [next EXCEPT !.failed = failed]]
  <2>1. PICK failed \in BOOLEAN :
            busy' = [busy EXCEPT ![w] = [next EXCEPT !.failed = failed]]
    BY <1>13
  <2> DEFINE g == [next EXCEPT !.failed = failed]
  <2>2. g \in Job /\ g.id = j.id /\ g.at \in {"stmt", "commit"} /\ g.conn = c
    BY <1>8, <1>13 DEF Calls
  <2>3. busy' = [busy EXCEPT ![w] = g]
    BY <2>1
  <2> HIDE DEF g
  <2> QED
    BY <1>2, <2>2, <2>3, <1>13
<1>14. CASE /\ j.at \in {"commit", "rollback"}
            /\ busy' = [busy EXCEPT ![w] = [b EXCEPT !.at = "report"]]
  <2> DEFINE g == [b EXCEPT !.at = "report"]
  <2>2. g \in Job /\ g.id = j.id /\ g.at = "report" /\ g.conn = c
    BY <1>8, <1>14 DEF Calls
  <2>3. busy' = [busy EXCEPT ![w] = g]
    BY <1>14
  <2> HIDE DEF g
  <2> QED
    BY <1>2, <2>2, <2>3, <1>14
<1>15. CASE /\ j.at \in {"commit", "rollback"}
            /\ \E ret \in {"ok", "error"} :
                  busy' = [busy EXCEPT ![w] = [b EXCEPT !.at = "report", !.ret = ret]]
  <2>1. PICK ret \in {"ok", "error"} :
            busy' = [busy EXCEPT ![w] = [b EXCEPT !.at = "report", !.ret = ret]]
    BY <1>15
  <2> DEFINE g == [b EXCEPT !.at = "report", !.ret = ret]
  <2>2. g \in Job /\ g.id = j.id /\ g.at = "report" /\ g.conn = c
    BY ZenonT(60), <1>8, <1>15 DEF Calls
  <2>3. busy' = [busy EXCEPT ![w] = g]
    BY <2>1
  <2> HIDE DEF g
  <2> QED
    BY <1>2, <2>2, <2>3, <1>15
<1> QED
  BY <1>7, <1>9, <1>10, <1>11, <1>12, <1>13, <1>14, <1>15

-----------------------------------------------------------------------------
(***************************************************************************)
(* The types.                                                              *)
(***************************************************************************)

\* Only lists of statements begin, commit and roll back.
JobsFit ==
    \A w \in Workers :
        busy[w].at \in {"begin", "commit", "rollback"} => reqs[busy[w].id].op \in Lists

TypeInv == TypeOK /\ JobsFit

LEMMA JobTypes ==
    /\ NewConn \in Conn /\ ~NewConn.open
    /\ Idle \in Job /\ Idle.at = "idle" /\ Idle.id = 0 /\ ~Idle.conn.open
<1>1. NewConn \in Conn /\ ~NewConn.open
  BY DEF NewConn, Conn
<1> QED
  BY <1>1 DEF Idle, Job, Stmts

\* What is queued for the requests made so far is queued for those made later.
LEMMA SeqGrows ==
    ASSUME NEW S, NEW T, S \subseteq T, NEW s \in Seq(S)
    PROVE  s \in Seq(T)
    OBVIOUS

LEMMA FrontType ==
    ASSUME NEW S, NEW s \in Seq(S), s # <<>>
    PROVE  /\ Len(s) \in Nat /\ Len(s) > 0
           /\ s[Len(s)] \in S
           /\ SubSeq(s, 1, Len(s) - 1) \in Seq(S)
           /\ Len(SubSeq(s, 1, Len(s) - 1)) = Len(s) - 1
<1>1. /\ Len(s) \in Nat /\ Len(s) > 0
      /\ \A i \in 1..Len(s) : s[i] \in S
  BY LenProperties, ElementOfSeq, EmptySeq
<1>2. /\ SubSeq(s, 1, Len(s) - 1) \in Seq(S)
      /\ Len(SubSeq(s, 1, Len(s) - 1)) = IF 1 <= Len(s) - 1 THEN Len(s) - 1 ELSE 0
  <2>1. \A i \in 1..(Len(s) - 1) : s[i] \in S
    BY <1>1
  <2>2. Len(s) - 1 \in Int
    BY <1>1
  <2> QED
    BY <2>1, <2>2, SubSeqProperties
<1> DEFINE f == SubSeq(s, 1, Len(s) - 1)
           n == Len(s)
<1>3. n \in Nat /\ n > 0 /\ s[n] \in S /\ f \in Seq(S) /\ Len(f) = IF 1 <= n - 1 THEN n - 1 ELSE 0
  BY <1>1, <1>2
<1> HIDE DEF f, n
<1>4. Len(f) = n - 1
  BY <1>3
<1> QED
  BY Zenon, <1>3, <1>4 DEF f, n

LEMMA TypeInvInit == Init => TypeInv
    BY JobTypes, DbAssumption DEF Init, TypeInv, TypeOK, JobsFit, Ids

LEMMA AskType ==
    ASSUME TypeInv, NEW shape \in Shapes, Ask(shape)
    PROVE  TypeInv'
<1> DEFINE id == Len(reqs) + 1
<1>1. /\ reqs' \in Seq(Shapes)
      /\ DOMAIN reqs' = 1..id
      /\ DOMAIN reqs = 1..(id - 1)
      /\ \A i \in DOMAIN reqs : reqs'[i] = reqs[i]
      /\ reqs'[id] = shape
      /\ Len(reqs') <= MaxRequests
      /\ id \in Nat /\ DOMAIN reqs \subseteq DOMAIN reqs' /\ id \in DOMAIN reqs'
  BY DbAssumption DEF TypeInv, TypeOK, Ask, Ids
<1>2. waiting' \subseteq {i \in DOMAIN reqs' : reqs'[i].callback}
  BY <1>1 DEF TypeInv, TypeOK, Ask
<1>3. jobs' \in Seq(DOMAIN reqs')
  <2>1. jobs \in Seq(DOMAIN reqs')
    BY <1>1, SeqGrows DEF TypeInv, TypeOK
  <2> QED
    BY <1>1, <2>1 DEF Ask
<1>4. \A w \in Workers : busy'[w].id \in DOMAIN reqs' \/ busy'[w] = Idle
  BY <1>1 DEF TypeInv, TypeOK, Ask
<1>5. JobsFit'
  BY <1>1, JobTypes DEF TypeInv, TypeOK, JobsFit, Ask
<1> QED
  BY <1>1, <1>2, <1>3, <1>4, <1>5 DEF TypeInv, TypeOK, Ask

LEMMA TakeJobType ==
    ASSUME TypeInv, NEW w \in Workers, TakeJob(w)
    PROVE  TypeInv'
<1> DEFINE id == Head(jobs)
           at == IF reqs[id].op \in Lists THEN "begin" ELSE "stmt"
           start(c) == [Idle EXCEPT !.id = id, !.conn = c, !.at = at]
<1>1. id \in DOMAIN reqs /\ jobs' \in Seq(DOMAIN reqs) /\ DOMAIN reqs \subseteq Ids
  <2>1. jobs \in Seq(DOMAIN reqs) /\ jobs # <<>> /\ jobs' = Tail(jobs)
    BY DEF TypeInv, TypeOK, TakeJob
  <2>2. DOMAIN reqs \subseteq Ids
    BY DbAssumption DEF TypeInv, TypeOK, Ids
  <2> QED
    BY <2>1, <2>2, HeadTailProperties
<1>2. CASE busy' = busy /\ pool' = pool
  BY <1>1, <1>2 DEF TypeInv, TypeOK, JobsFit, TakeJob, luaVars
<1>3. CASE \E c \in Conn : busy' = [busy EXCEPT ![w] = start(c)] /\ pool' \in Seq(Conn)
  <2>1. PICK c \in Conn : busy' = [busy EXCEPT ![w] = start(c)]
    BY <1>3
  <2> DEFINE g == start(c)
  <2>2. g \in Job /\ g.id = id /\ g.at = at
    <3>1. id \in Ids /\ at \in {"begin", "stmt"}
      BY <1>1
    <3> HIDE DEF id, at
    <3> QED
      BY <3>1, JobTypes DEF Job
  <2>3. busy' = [busy EXCEPT ![w] = g]
    BY <2>1
  <2> HIDE DEF g
  <2>4. /\ busy' \in [Workers -> Job]
        /\ \A v \in Workers : busy'[v].id \in DOMAIN reqs \/ busy'[v] = Idle
    BY <1>1, <2>2, <2>3 DEF TypeInv, TypeOK
  <2>5. JobsFit'
    BY <2>2, <2>3 DEF TypeInv, TypeOK, JobsFit, TakeJob, luaVars
  <2> QED
    BY <1>1, <1>3, <2>4, <2>5 DEF TypeInv, TypeOK, TakeJob, luaVars
<1>4. CASE pool # <<>>
  <2>1. pool[Len(pool)] \in Conn /\ SubSeq(pool, 1, Len(pool) - 1) \in Seq(Conn)
    BY <1>4 DEF TypeInv, TypeOK
  <2> QED
    BY <1>4, <2>1, <1>3 DEF TakeJob
<1>5. CASE pool = <<>>
  BY <1>2, <1>3, <1>5, JobTypes DEF TakeJob, TypeInv, TypeOK
<1> QED
  BY <1>4, <1>5

LEMMA PerformType ==
    ASSUME TypeInv, NEW w \in Workers, Perform(w)
    PROVE  TypeInv'
<1> DEFINE j == busy[w]
<1>1. /\ j \in Job /\ j.at \in Calls /\ j # Idle
      /\ j.id \in DOMAIN reqs /\ DOMAIN reqs \subseteq Ids /\ j.id \in Ids
      /\ j.conn \in Conn /\ j.k \in Stmts
  BY JobTypes, DbAssumption DEF TypeInv, TypeOK, Perform, Calls, Job, Ids
<1>2. PICK r \in DbCall(j.conn, j.at, j.k) :
          /\ GoOn(w, r)
          /\ done' = [done EXCEPT ![j.id] = @ \cup r.lands]
          /\ cut' = IF r.replaced THEN cut \cup {j.id} ELSE cut
  BY DEF Perform
<1>3. r \in Result
  BY <1>1, CallType
<1>4. PICK g \in Job :
          /\ busy' = [busy EXCEPT ![w] = g]
          /\ g.id = j.id
          /\ g.at \in {"stmt", "commit", "rollback", "report"}
          /\ g.at \in {"commit", "rollback"} => reqs[g.id].op \in Lists
  BY <1>1, <1>2, <1>3, GoOnType
<1>5. done' \in [Ids -> SUBSET Stmts] /\ cut' \subseteq Ids
  BY <1>1, <1>2, <1>3 DEF TypeInv, TypeOK, Result
<1>6. /\ busy' \in [Workers -> Job]
      /\ \A v \in Workers : busy'[v].id \in DOMAIN reqs \/ busy'[v] = Idle
  BY <1>1, <1>4 DEF TypeInv, TypeOK
<1>7. JobsFit'
  BY <1>4 DEF TypeInv, TypeOK, JobsFit, Perform, luaVars
<1> QED
  BY <1>5, <1>6, <1>7 DEF TypeInv, TypeOK, Perform, luaVars

LEMMA ReportType ==
    ASSUME TypeInv, NEW w \in Workers, Report(w)
    PROVE  TypeInv'
<1>1. /\ busy[w].id \in Ids
      /\ busy[w].ret \in {"ok", "error"}
      /\ busy[w].conn \in Conn
  BY JobTypes, DbAssumption DEF TypeInv, TypeOK, Report, Job, Ids
<1>2. events' \in Seq([cookie : Ids, ret : {"ok", "error"}]) /\ pool' \in Seq(Conn)
  <2> DEFINE e == [cookie |-> busy[w].id, ret |-> busy[w].ret]
  <2>1. e \in [cookie : Ids, ret : {"ok", "error"}]
    BY <1>1
  <2>2. events' = IF reqs[busy[w].id].callback THEN Append(events, e) ELSE events
    BY DEF Report
  <2>3. pool' = IF busy[w].conn.up THEN Append(pool, busy[w].conn) ELSE pool
    BY DEF Report
  <2> HIDE DEF e
  <2> DEFINE Event == [cookie : Ids, ret : {"ok", "error"}]
  <2>4. events \in Seq(Event) /\ pool \in Seq(Conn) /\ e \in Event
    BY <2>1 DEF TypeInv, TypeOK
  <2> HIDE DEF Event
  <2>5. Append(events, e) \in Seq(Event) /\ Append(pool, busy[w].conn) \in Seq(Conn)
    BY <1>1, <2>4
  <2>6. events' \in Seq(Event) /\ pool' \in Seq(Conn)
    BY <2>2, <2>3, <2>4, <2>5
  <2> QED
    BY <2>6 DEF Event
<1> QED
  BY <1>2, JobTypes DEF TypeInv, TypeOK, JobsFit, Report, luaVars

LEMMA TypeInvNext ==
    TypeInv /\ [Next]_vars => TypeInv'
<1> SUFFICES ASSUME TypeInv, [Next]_vars PROVE TypeInv'
  OBVIOUS
<1>1. ASSUME NEW shape \in Shapes, Ask(shape) PROVE TypeInv'
  BY <1>1, AskType
<1>2. CASE NotifyOperationResult
  <2>1. /\ Head(events) \in [cookie : Ids, ret : {"ok", "error"}]
        /\ events' \in Seq([cookie : Ids, ret : {"ok", "error"}])
    BY <1>2, HeadTailProperties DEF NotifyOperationResult, TypeInv, TypeOK
  <2>2. waiting' \subseteq waiting /\ answer' \in [Ids -> {"none", "ok", "error", "timeout"}]
    <3> DEFINE e == Head(events)
    <3>1. IF e.cookie \in waiting
          THEN /\ waiting' = waiting \ {e.cookie}
               /\ answer' = [answer EXCEPT ![e.cookie] = e.ret]
          ELSE waiting' = waiting /\ answer' = answer
      BY <1>2 DEF NotifyOperationResult
    <3>2. e.ret \in {"ok", "error"}
      BY <2>1
    <3> HIDE DEF e
    <3>3. answer \in [Ids -> {"none", "ok", "error", "timeout"}]
      BY DEF TypeInv, TypeOK
    <3> QED
      BY <3>1, <3>2, <3>3
  <2> QED
    BY <1>2, <2>1, <2>2 DEF NotifyOperationResult, TypeInv, TypeOK, JobsFit
<1>3. ASSUME NEW S \in SUBSET Ids, TimerHandle(S) PROVE TypeInv'
  BY <1>3 DEF TimerHandle, TypeInv, TypeOK, JobsFit
<1>4. ASSUME NEW w \in Workers, Panic(w) PROVE TypeInv'
  BY <1>4, JobTypes DEF Panic, TypeInv, TypeOK, JobsFit, luaVars
<1>5. ASSUME NEW n \in 1..MaxRequests, CheckConnectTimeout(n) PROVE TypeInv'
  <2>1. SubSeq(pool, n + 1, Len(pool)) \in Seq(Conn)
    BY <1>5 DEF CheckConnectTimeout, TypeInv, TypeOK
  <2> QED
    BY <1>5, <2>1 DEF CheckConnectTimeout, TypeInv, TypeOK, JobsFit, luaVars
<1>6. CASE UNCHANGED vars
  BY <1>6 DEF vars, TypeInv, TypeOK, JobsFit
<1> QED
  BY <1>1, <1>2, <1>3, <1>4, <1>5, <1>6, TakeJobType, PerformType, ReportType DEF Next

LEMMA TypeInvHolds == Spec => []TypeInv
    BY TypeInvInit, TypeInvNext, PTL DEF Spec

\* The variables keep their types.
THEOREM TypesHold == Spec => []TypeOK
<1>1. TypeInv => TypeOK
  BY DEF TypeInv
<1> QED
  BY <1>1, TypeInvHolds, PTL

-----------------------------------------------------------------------------
(***************************************************************************)
(* Clean connections: a transaction is open only while a job of statements *)
(* on mysql is between its begin and its end.                              *)
(***************************************************************************)
CleanInv ==
    /\ PoolIsClean
    /\ \A w \in Workers :
          busy[w].conn.open =>
              /\ dbType = "mysql"
              /\ busy[w].at \in {"stmt", "commit", "rollback"}
              /\ reqs[busy[w].id].op \in Lists

LEMMA PerformClean ==
    ASSUME TypeInv, CleanInv, NEW w \in Workers, Perform(w)
    PROVE  CleanInv'
<1> DEFINE j == busy[w]
<1>1. /\ j \in Job /\ j.at \in Calls
      /\ j.conn \in Conn /\ j.k \in Stmts
  BY DEF TypeInv, TypeOK, Perform, Calls, Job
<1>2. PICK r \in DbCall(j.conn, j.at, j.k) : GoOn(w, r)
  BY DEF Perform
<1>3. /\ r \in Result
      /\ j.at \in {"commit", "rollback"} /\ dbType = "mysql" => ~r.conn.open
      /\ j.at = "stmt" \/ dbType # "mysql" => (r.conn.open => j.conn.open)
  BY <1>1, CallType
<1>4. PICK g \in Job :
          /\ busy' = [busy EXCEPT ![w] = g]
          /\ g.id = j.id
          /\ g.conn.open = r.conn.open
          /\ g.at \in {"stmt", "commit", "rollback", "report"}
          /\ \/ g.at # "report"
             \/ j.at \in {"commit", "rollback"}
             \/ j.at = "stmt" /\ reqs[g.id].op \notin Lists
  BY <1>1, <1>2, <1>3, GoOnType
<1>5. g.conn.open => /\ dbType = "mysql"
                     /\ g.at \in {"stmt", "commit", "rollback"}
                     /\ reqs[g.id].op \in Lists
  BY <1>1, <1>3, <1>4 DEF CleanInv, TypeInv, JobsFit, Calls
<1> QED
  BY <1>4, <1>5 DEF CleanInv, PoolIsClean, TypeInv, TypeOK, Perform, luaVars

LEMMA TakeJobClean ==
    ASSUME TypeInv, CleanInv, NEW w \in Workers, TakeJob(w)
    PROVE  CleanInv'
<1>1. pool \in Seq(Conn) /\ busy \in [Workers -> Job]
  BY DEF TypeInv, TypeOK
<1>2. PoolIsClean'
  BY SMTT(30), <1>1 DEF TakeJob, CleanInv, PoolIsClean
<1>3. CASE busy' = busy
  BY <1>2, <1>3 DEF CleanInv, TakeJob, luaVars
<1>4. CASE \E g : busy' = [busy EXCEPT ![w] = g] /\ ~g.conn.open
  BY <1>1, <1>2, <1>4 DEF CleanInv, TakeJob, luaVars
<1>5. ASSUME NEW c \in Conn, ~c.open, NEW i, NEW at
      PROVE  ~[Idle EXCEPT !.id = i, !.conn = c, !.at = at].conn.open
  BY <1>5, JobTypes DEF Job
<1>6. CASE pool # <<>>
  <2>1. pool[Len(pool)] \in Conn /\ ~pool[Len(pool)].open
    BY <1>1, <1>6 DEF CleanInv, PoolIsClean
  <2> QED
    <3> DEFINE g == [Idle EXCEPT !.id = Head(jobs), !.conn = pool[Len(pool)],
                         !.at = IF reqs[Head(jobs)].op \in Lists THEN "begin" ELSE "stmt"]
    <3>1. busy' = [busy EXCEPT ![w] = g]
      BY <1>6 DEF TakeJob
    <3>2. ~g.conn.open
      BY <1>5, <2>1
    <3> QED
      BY <1>4, <3>1, <3>2
<1>7. CASE pool = <<>>
  <2> DEFINE g == [Idle EXCEPT !.id = Head(jobs), !.conn = NewConn,
                       !.at = IF reqs[Head(jobs)].op \in Lists THEN "begin" ELSE "stmt"]
  <2>1. busy' = busy \/ busy' = [busy EXCEPT ![w] = g]
    BY <1>7 DEF TakeJob
  <2>2. ~g.conn.open
    BY <1>5, JobTypes
  <2> QED
    BY <1>3, <1>4, <2>1, <2>2
<1> QED
  BY <1>6, <1>7

LEMMA CleanInvNext ==
    TypeInv /\ CleanInv /\ [Next]_vars => CleanInv'
<1> SUFFICES ASSUME TypeInv, CleanInv, [Next]_vars PROVE CleanInv'
  OBVIOUS
<1> USE DEF CleanInv, PoolIsClean
<1>1. ASSUME NEW shape \in Shapes, Ask(shape) PROVE CleanInv'
  <2>1. \A i \in DOMAIN reqs : reqs'[i] = reqs[i]
    BY <1>1 DEF Ask, TypeInv, TypeOK
  <2>2. \A w \in Workers : busy[w].id \in DOMAIN reqs \/ ~busy[w].conn.open
    BY JobTypes DEF TypeInv, TypeOK
  <2> QED
    BY <1>1, <2>1, <2>2 DEF Ask
<1>2. CASE NotifyOperationResult
  BY <1>2 DEF NotifyOperationResult
<1>3. ASSUME NEW S \in SUBSET Ids, TimerHandle(S) PROVE CleanInv'
  BY <1>3 DEF TimerHandle
<1>4. ASSUME NEW w \in Workers, Panic(w) PROVE CleanInv'
  BY <1>4, JobTypes DEF Panic, TypeInv, TypeOK, luaVars
<1>5. ASSUME NEW w \in Workers, Report(w) PROVE CleanInv'
  <2>1. ~busy[w].conn.open /\ busy[w].conn \in Conn
    BY <1>5 DEF Report, TypeInv, TypeOK, Job
  <2>2. PoolIsClean'
    BY <1>5, <2>1 DEF Report, TypeInv, TypeOK
  <2> QED
    BY <1>5, <2>2, JobTypes DEF Report, TypeInv, TypeOK, luaVars
<1>6. ASSUME NEW n \in 1..MaxRequests, CheckConnectTimeout(n) PROVE CleanInv'
  BY <1>6 DEF CheckConnectTimeout, TypeInv, TypeOK, luaVars
<1>7. CASE UNCHANGED vars
  BY <1>7 DEF vars
<1> QED
  BY <1>1, <1>2, <1>3, <1>4, <1>5, <1>6, <1>7, TakeJobClean, PerformClean DEF Next

\* No connection is put back into the pool with a transaction open, however many
\* calls fail and whichever sessions are lost on the way.
THEOREM PoolStaysClean == Spec => []PoolInv
<1>1. Init => CleanInv
  BY JobTypes DEF Init, CleanInv, PoolIsClean
<1>2. TypeInv /\ CleanInv => PoolInv
  BY DEF TypeInv, CleanInv, PoolInv
<1> QED
  BY <1>1, <1>2, TypeInvHolds, CleanInvNext, PTL DEF Spec

-----------------------------------------------------------------------------
(***************************************************************************)
(* The size of the pool.  A connection is opened only when the pool is     *)
(* empty, so only for a thread that has none.                              *)
(***************************************************************************)
BoundInv == ConnectionsBounded /\ Busy \subseteq Threads

LEMMA ThreadsFinite ==
    ASSUME TypeInv, BoundInv
    PROVE  /\ IsFiniteSet(Threads) /\ IsFiniteSet(Busy)
           /\ Cardinality(Threads) \in Nat /\ Cardinality(Busy) \in Nat
           /\ Len(pool) \in Nat
           /\ Cardinality(Busy) <= Cardinality(Threads)
<1>1. IsFiniteSet(Threads)
  BY DbAssumption, FS_Singleton DEF Threads
<1> QED
  BY <1>1, FS_Subset, FS_CardinalityType DEF BoundInv, TypeInv, TypeOK

LEMMA FreedBound ==
    ASSUME TypeInv, BoundInv, NEW w \in Workers, busy[w] # Idle,
           busy' = [busy EXCEPT ![w] = Idle], UNCHANGED dbType,
           pool' = pool \/ \E c : pool' = Append(pool, c)
    PROVE  BoundInv'
<1>1. Busy' = Busy \ {w} /\ w \in Busy
  BY DEF Busy, TypeInv, TypeOK
<1>2. Cardinality(Busy') = Cardinality(Busy) - 1
  BY <1>1, ThreadsFinite, FS_RemoveElement
<1>3. Len(pool') \in Nat /\ Len(pool') <= Len(pool) + 1
  BY DEF TypeInv, TypeOK
<1>4. Threads' = Threads
  BY DEF Threads
<1> HIDE DEF Busy
<1>5. ConnectionsBounded'
  <2>1. Len(pool) + Cardinality(Busy) <= Cardinality(Threads)
    BY DEF BoundInv, ConnectionsBounded
  <2>2. Len(pool') + Cardinality(Busy') <= Cardinality(Threads')
    BY <1>2, <1>3, <1>4, <2>1, ThreadsFinite
  <2> QED
    BY <2>2 DEF ConnectionsBounded
<1> QED
  BY <1>1, <1>4, <1>5 DEF BoundInv

LEMMA TakeJobBound ==
    ASSUME TypeInv, BoundInv, NEW w \in Workers, TakeJob(w)
    PROVE  BoundInv'
<1>1. Threads' = Threads /\ w \in Threads /\ w \notin Busy
  BY DEF TakeJob, Threads, Busy
<1>2. CASE busy' = busy /\ pool' = pool
  BY <1>1, <1>2 DEF BoundInv, ConnectionsBounded, Busy
<1>3. CASE /\ \E g : busy' = [busy EXCEPT ![w] = g] /\ g # Idle
           /\ \/ Len(pool) > 0 /\ Len(pool') = Len(pool) - 1
              \/ Len(pool') = 0
  <2>1. Busy' = Busy \cup {w}
    BY <1>3 DEF Busy, TypeInv, TypeOK
  <2>2. Cardinality(Busy') = Cardinality(Busy) + 1 /\ Busy' \subseteq Threads'
    BY <1>1, <2>1, ThreadsFinite, FS_AddElement DEF BoundInv
  <2>3. Cardinality(Busy') <= Cardinality(Threads')
    BY <1>1, <2>2, ThreadsFinite, FS_Subset
  <2>4. Len(pool') + Cardinality(Busy') <= Cardinality(Threads')
    <3>1. Len(pool) + Cardinality(Busy) <= Cardinality(Threads)
      BY DEF BoundInv, ConnectionsBounded
    <3>2. Cardinality(Threads') = Cardinality(Threads)
      BY <1>1
    <3> QED
      BY <1>3, <2>2, <2>3, <3>1, <3>2, ThreadsFinite
  <2> QED
    BY <2>2, <2>4 DEF BoundInv, ConnectionsBounded
<1> DEFINE g(c) == [Idle EXCEPT !.id = Head(jobs), !.conn = c,
                        !.at = IF reqs[Head(jobs)].op \in Lists THEN "begin" ELSE "stmt"]
<1>4. \A c : g(c) # Idle
  <2>1. \A c : g(c).at \in {"begin", "stmt"}
    BY JobTypes DEF Job
  <2> QED
    BY <2>1, JobTypes
<1>5. CASE /\ pool # <<>>
           /\ pool' = SubSeq(pool, 1, Len(pool) - 1)
           /\ busy' = [busy EXCEPT ![w] = g(pool[Len(pool)])]
  <2>1. Len(pool) > 0 /\ Len(pool') = Len(pool) - 1
    <3>1. pool \in Seq(Conn) /\ pool # <<>> /\ pool' = SubSeq(pool, 1, Len(pool) - 1)
      BY <1>5 DEF TypeInv, TypeOK
    <3> QED
      BY <3>1, FrontType
  <2> HIDE DEF g
  <2> QED
    BY <1>3, <1>4, <1>5, <2>1
<1>6. CASE /\ pool = <<>> /\ pool' = pool
           /\ busy' = [busy EXCEPT ![w] = g(NewConn)]
  <2> HIDE DEF g
  <2> QED
    BY <1>3, <1>4, <1>6
<1> QED
  BY <1>2, <1>5, <1>6 DEF TakeJob

LEMMA BoundInvNext ==
    TypeInv /\ BoundInv /\ [Next]_vars => BoundInv'
<1> SUFFICES ASSUME TypeInv, BoundInv, [Next]_vars PROVE BoundInv'
  OBVIOUS
<1>1. ASSUME busy' = busy, pool' = pool, dbType' = dbType PROVE BoundInv'
  BY <1>1 DEF BoundInv, ConnectionsBounded, Busy, Threads
<1>2. ASSUME NEW shape \in Shapes, Ask(shape) PROVE BoundInv'
  BY <1>1, <1>2 DEF Ask
<1>3. CASE NotifyOperationResult
  BY <1>1, <1>3 DEF NotifyOperationResult
<1>4. ASSUME NEW S \in SUBSET Ids, TimerHandle(S) PROVE BoundInv'
  BY <1>1, <1>4 DEF TimerHandle
<1>5. ASSUME NEW w \in Workers, Perform(w) PROVE BoundInv'
  <2>1. busy[w] \in Job /\ busy[w].at \in Calls /\ busy[w] # Idle
    BY <1>5, JobTypes DEF Perform, Calls, TypeInv, TypeOK
  <2>2. \E r \in Result : GoOn(w, r)
    <3>1. busy[w].conn \in Conn /\ busy[w].k \in Stmts
      BY <2>1 DEF Job
    <3> QED
      BY <1>5, <2>1, <3>1, CallType DEF Perform
  <2>3. PICK g \in Job : /\ busy' = [busy EXCEPT ![w] = g]
                         /\ g.at \in {"stmt", "commit", "rollback", "report"}
    BY <2>1, <2>2, GoOnType
  <2>4. g # Idle
    BY <2>3, JobTypes
  <2>5. Busy' = Busy
    BY <2>1, <2>3, <2>4 DEF Busy, TypeInv, TypeOK
  <2> QED
    BY <1>5, <2>5 DEF Perform, BoundInv, ConnectionsBounded, Threads
<1>6. ASSUME NEW w \in Workers, Panic(w) PROVE BoundInv'
  BY <1>6, FreedBound, JobTypes DEF Panic
<1>7. ASSUME NEW w \in Workers, Report(w) PROVE BoundInv'
  BY <1>7, FreedBound, JobTypes DEF Report
<1>8. ASSUME NEW n \in 1..MaxRequests, CheckConnectTimeout(n) PROVE BoundInv'
  <2>1. Len(pool') \in Nat /\ Len(pool') <= Len(pool)
    BY <1>8 DEF CheckConnectTimeout, TypeInv, TypeOK
  <2>2. Busy' = Busy /\ Threads' = Threads
    BY <1>8 DEF CheckConnectTimeout, Busy, Threads
  <2>3. Len(pool') + Cardinality(Busy) <= Cardinality(Threads)
    BY <2>1, ThreadsFinite DEF BoundInv, ConnectionsBounded
  <2> QED
    BY <2>2, <2>3 DEF BoundInv, ConnectionsBounded
<1>9. CASE UNCHANGED vars
  BY <1>1, <1>9 DEF vars
<1> QED
  BY <1>2, <1>3, <1>4, <1>5, <1>6, <1>7, <1>8, <1>9, TakeJobBound DEF Next

\* Connections in use and idle are never more than the threads, however many
\* requests there are.
THEOREM PoolStaysSmall == Spec => []ConnectionsBounded
<1>1. Init => BoundInv
  <2> SUFFICES ASSUME Init PROVE BoundInv
    OBVIOUS
  <2>1. Busy = {} /\ Len(pool) = 0
    BY DEF Init, Busy
  <2>2. IsFiniteSet(Threads) /\ Cardinality(Threads) \in Nat
    BY DbAssumption, FS_Singleton, FS_CardinalityType DEF Threads
  <2> QED
    BY <2>1, <2>2, FS_EmptySet DEF BoundInv, ConnectionsBounded
<1>2. BoundInv => ConnectionsBounded
  BY DEF BoundInv
<1> QED
  BY <1>1, <1>2, BoundInvNext, TypeInvHolds, PTL DEF Spec

-----------------------------------------------------------------------------
(***************************************************************************)
(* The promise.  Whatever the workers do, answers change only together     *)
(* with the cookie table.                                                  *)
(***************************************************************************)
AnswerInv ==
    \A i \in Ids : answer[i] # "none" => i \in DOMAIN reqs /\ i \notin waiting

calls == [i \in Ids |->
            IF answer[i] # "none" THEN answer[i]
            ELSE IF i \in waiting THEN "waiting" ELSE "unasked"]

LEMMA AnswerInvNext ==
    TypeInv /\ AnswerInv /\ [Next]_vars => AnswerInv'
<1> SUFFICES ASSUME TypeInv, AnswerInv, [Next]_vars PROVE AnswerInv'
  OBVIOUS
<1> USE DEF AnswerInv
<1>1. ASSUME NEW shape \in Shapes, Ask(shape) PROVE AnswerInv'
  <2>1. DOMAIN reqs' = DOMAIN reqs \cup {Len(reqs) + 1} /\ Len(reqs) + 1 \notin DOMAIN reqs
    BY <1>1 DEF Ask, TypeInv, TypeOK
  <2> QED
    BY <1>1, <2>1 DEF Ask
<1>2. CASE NotifyOperationResult
  BY <1>2 DEF NotifyOperationResult, TypeInv, TypeOK
<1>3. ASSUME NEW S \in SUBSET Ids, TimerHandle(S) PROVE AnswerInv'
  BY <1>3 DEF TimerHandle, TypeInv, TypeOK
<1>4. ASSUME UNCHANGED luaVars PROVE AnswerInv'
  BY <1>4 DEF luaVars
<1> QED
  BY <1>1, <1>2, <1>3, <1>4 DEF Next, vars, TakeJob, Perform, Panic, Report,
                                CheckConnectTimeout, luaVars

LEMMA PromiseStep ==
    TypeInv /\ AnswerInv /\ [Next]_vars => [Promise!Next]_calls
<1> SUFFICES ASSUME TypeInv, AnswerInv, [Next]_vars PROVE Promise!Next \/ calls' = calls
  OBVIOUS
<1>1. ASSUME NEW shape \in Shapes, Ask(shape) PROVE Promise!Next \/ calls' = calls
  <2>0. PICK id \in Ids : id = Len(reqs) + 1
    BY <1>1 DEF Ask
  <2>1. id \notin DOMAIN reqs /\ id \notin waiting /\ answer[id] = "none"
    BY <2>0 DEF TypeInv, TypeOK, AnswerInv
  <2>2. CASE shape.callback
    <3>1. Promise!Ask(id)
      BY <1>1, <2>0, <2>1, <2>2 DEF Promise!Ask, Ask
    <3> QED
      BY <3>1 DEF Promise!Next
  <2>3. CASE ~shape.callback
    BY <1>1, <2>3 DEF Ask, calls
  <2> QED
    BY <2>2, <2>3
<1>2. CASE NotifyOperationResult
  <2>1. PICK i \in Ids, ret \in {"ok", "error"} :
            i = Head(events).cookie /\ ret = Head(events).ret
    <3>1. Head(events) \in [cookie : Ids, ret : {"ok", "error"}]
      BY <1>2, HeadTailProperties DEF NotifyOperationResult, TypeInv, TypeOK
    <3> QED
      BY <3>1
  <2>2. CASE i \in waiting
    <3>1. Promise!Answer(i, ret)
      BY <1>2, <2>1, <2>2 DEF Promise!Answer, NotifyOperationResult, AnswerInv, TypeInv, TypeOK
    <3> QED
      BY <3>1 DEF Promise!Next
  <2>3. CASE i \notin waiting
    BY <1>2, <2>1, <2>3 DEF NotifyOperationResult, calls
  <2> QED
    BY <2>2, <2>3
<1>3. ASSUME NEW S \in SUBSET Ids, TimerHandle(S) PROVE Promise!Next \/ calls' = calls
  <2>1. Promise!GiveUp(S)
    BY <1>3 DEF Promise!GiveUp, TimerHandle, AnswerInv, TypeInv, TypeOK
  <2> QED
    BY <2>1 DEF Promise!Next
<1>4. ASSUME UNCHANGED luaVars PROVE calls' = calls
  BY <1>4 DEF luaVars, calls
<1> QED
  BY <1>1, <1>2, <1>3, <1>4 DEF Next, vars, TakeJob, Perform, Panic, Report,
                                CheckConnectTimeout, luaVars

\* A callback is called at most once, and with "timeout" or with the answer of
\* its request, whatever becomes of worker, connection and result.
THEOREM CallbacksOnce == Spec => CalledOnce
<1>1. Init => AnswerInv /\ Promise!Init
  BY DEF Init, AnswerInv, Promise!Init
<1>2. TypeInv /\ AnswerInv /\ [Next]_vars => [Promise!Next]_calls
  BY PromiseStep
<1> QED
  BY <1>1, <1>2, AnswerInvNext, TypeInvHolds, PTL DEF Spec, CalledOnce, Promise!Spec, calls

-----------------------------------------------------------------------------
(***************************************************************************)
(* The queue.  Requests are begun in the order they were asked, each by    *)
(* one thread.                                                             *)
(***************************************************************************)
Begun == Len(reqs) - Len(jobs)

\* Those that wait are the last ones, in their order, and nothing was done for
\* them; no two threads have the same; the sqlite thread has the last one begun.
QueueInv ==
    /\ Begun \in Nat
    /\ \A n \in DOMAIN jobs : jobs[n] = Begun + n
    /\ \A w \in Workers : busy[w].id <= Begun
    /\ \A v, w \in Workers : busy[v].id = busy[w].id /\ busy[v].id # 0 => v = w
    /\ \A i \in Ids : i > Begun => done[i] = {}
    /\ dbType = "sqlite" =>
          \A w \in Workers : busy[w].id # 0 => w = SqliteWorker /\ busy[w].id = Begun

\* How far a transaction has come whose session is the one it began with: until
\* it commits, what it did is pending in that session or undone.
Whole(j) ==
    /\ j.at = "begin" => j.k = 1
    /\ j.at = "stmt" /\ j.conn.alive =>
          j.conn.open /\ j.conn.pending = IF j.k = 1 THEN {} ELSE {1}
    /\ j.at = "commit" /\ j.conn.alive => j.conn.open /\ j.conn.pending = Stmts

WholeInv ==
    dbType = "mysql" =>
        \A i \in DOMAIN reqs \ cut :
            reqs[i].op = "transaction" =>
                /\ done[i] \in {{}, Stmts}
                /\ \A w \in Workers :
                      busy[w].id = i =>
                          Whole(busy[w]) /\ (busy[w].at # "report" => done[i] = {})

LEMMA QueueFacts ==
    ASSUME TypeInv, QueueInv
    PROVE  /\ Len(reqs) \in Nat /\ Len(jobs) \in Nat /\ Begun \in Nat
           /\ Len(reqs) = Begun + Len(jobs)
           /\ DOMAIN reqs = 1..Len(reqs) /\ DOMAIN jobs = 1..Len(jobs)
           /\ DOMAIN reqs \subseteq Ids
           /\ \A w \in Workers : busy[w] \in Job /\ busy[w].id \in Nat
<1>1. /\ Len(reqs) \in Nat /\ DOMAIN reqs = 1..Len(reqs) /\ Len(reqs) <= MaxRequests
      /\ Len(jobs) \in Nat /\ DOMAIN jobs = 1..Len(jobs)
  BY LenProperties DEF TypeInv, TypeOK
<1>2. MaxRequests \in Nat /\ Ids \subseteq Nat
  BY DbAssumption DEF Ids
<1>3. \A w \in Workers : busy[w] \in Job /\ busy[w].id \in Ids \cup {0}
  BY DEF TypeInv, TypeOK, Job
<1>4. Len(reqs) = Begun + Len(jobs) /\ Begun \in Nat
  BY <1>1 DEF Begun, QueueInv
<1>5. DOMAIN reqs \subseteq Ids /\ \A w \in Workers : busy[w].id \in Nat
  BY <1>1, <1>2, <1>3 DEF Ids
<1> QED
  BY <1>1, <1>3, <1>4, <1>5

LEMMA QueueAsk ==
    ASSUME TypeInv, QueueInv, NEW shape \in Shapes, Ask(shape)
    PROVE  QueueInv' /\ Begun' = Begun
<1> DEFINE id == Len(reqs) + 1
           m == Len(jobs)
<1>1. /\ reqs \in Seq(Shapes) /\ jobs \in Seq(Nat) /\ m \in Nat /\ Len(reqs) \in Nat
      /\ reqs' = Append(reqs, shape) /\ jobs' = Append(jobs, id)
      /\ UNCHANGED <<dbType, busy, done>>
  <2>1. DOMAIN reqs \subseteq Nat /\ jobs \in Seq(DOMAIN reqs)
    BY QueueFacts DEF TypeInv, TypeOK
  <2>2. jobs \in Seq(Nat)
    BY <2>1, SeqMonotonic
  <2> QED
    BY <2>2, QueueFacts DEF Ask, TypeInv, TypeOK
<1>2. /\ Len(reqs') = Len(reqs) + 1 /\ Len(jobs') = m + 1 /\ DOMAIN jobs' = 1..(m + 1)
      /\ \A n \in 1..m : jobs'[n] = jobs[n]
      /\ jobs'[m + 1] = id
  BY <1>1, AppendProperties, LenProperties
<1>3. Begun' = Begun
  BY <1>1, <1>2 DEF Begun
<1>4. \A n \in 1..m : jobs[n] = Begun + n
  BY QueueFacts DEF QueueInv
<1>5. id = Begun + (m + 1)
  BY QueueFacts
<1> HIDE DEF id, m
<1>6. \A n \in DOMAIN jobs' : jobs'[n] = Begun' + n
  BY <1>1, <1>2, <1>3, <1>4, <1>5
<1> QED
  BY <1>1, <1>3, <1>6 DEF QueueInv

\* A worker's job may go on, and then only what it does changes.
LEMMA QueueGoesOn ==
    ASSUME TypeInv, QueueInv, UNCHANGED <<dbType, reqs, jobs>>,
           NEW w \in Workers, NEW g, busy' = [busy EXCEPT ![w] = g],
           g.id = busy[w].id \/ g.id = 0,
           \A i \in Ids : done'[i] # done[i] => i = busy[w].id
    PROVE  QueueInv'
<1>1. Begun' = Begun
  BY DEF Begun
<1>2. \A v \in Workers : busy'[v] = IF v = w THEN g ELSE busy[v]
  BY DEF TypeInv, TypeOK
<1>3. /\ Begun \in Nat /\ busy[w].id <= Begun /\ 0 <= Begun
      /\ \A v \in Workers : busy[v].id \in Nat /\ busy[v].id <= Begun
  BY QueueFacts DEF QueueInv
<1>4. \A v \in Workers : busy'[v].id <= Begun /\ busy'[v].id \in {busy[v].id, 0}
  BY <1>2, <1>3
<1>5. \A i \in Ids : i > Begun => done'[i] = {}
  <2> SUFFICES ASSUME NEW i \in Ids, i > Begun
               PROVE  done'[i] = {}
    OBVIOUS
  <2>1. i \in Nat
    BY DbAssumption DEF Ids
  <2>2. i # busy[w].id
    BY <1>3, <2>1
  <2> QED
    BY <2>2 DEF QueueInv
<1>6. \A u, v \in Workers : busy'[u].id = busy'[v].id /\ busy'[u].id # 0 => u = v
  BY <1>4 DEF QueueInv
<1>7. dbType' = "sqlite" =>
          \A v \in Workers : busy'[v].id # 0 => v = SqliteWorker /\ busy'[v].id = Begun
  BY <1>4 DEF QueueInv
<1> QED
  BY <1>1, <1>3, <1>4, <1>5, <1>6, <1>7 DEF QueueInv

\* What a worker that takes a job is to do.
Started(i, c) == [Idle EXCEPT !.id = i, !.conn = c,
                      !.at = IF reqs[i].op \in Lists THEN "begin" ELSE "stmt"]

LEMMA TakeJobFacts ==
    ASSUME TypeInv, QueueInv, NEW w \in Workers, TakeJob(w)
    PROVE  /\ Begun + 1 \in DOMAIN reqs /\ Begun' = Begun + 1
           /\ Len(jobs') = Len(jobs) - 1 /\ DOMAIN jobs' = 1..(Len(jobs) - 1)
           /\ \A n \in DOMAIN jobs' : jobs'[n] = Begun' + n
           /\ busy[w] = Idle /\ w \in Threads
           /\ \/ busy' = busy
              \/ \E c \in Conn : busy' = [busy EXCEPT ![w] = Started(Begun + 1, c)]
           /\ UNCHANGED <<dbType, reqs, done, cut>>
<1> DEFINE m == Len(jobs)
<1>1. jobs \in Seq(DOMAIN reqs) /\ jobs # <<>> /\ reqs' = reqs /\ jobs' = Tail(jobs)
  BY DEF TakeJob, TypeInv, TypeOK, luaVars
<1>2. /\ m \in Nat \ {0} /\ Len(jobs') = m - 1 /\ DOMAIN jobs' = 1..(m - 1)
      /\ Head(jobs) = jobs[1] /\ Head(jobs) \in DOMAIN reqs
      /\ \A n \in 1..(m - 1) : jobs'[n] = jobs[n + 1]
  BY <1>1, EmptySeq, HeadTailProperties, LenProperties
<1>3. /\ \A n \in 1..m : jobs[n] = Begun + n
      /\ Len(reqs) = Begun + m /\ Begun \in Nat
  BY QueueFacts DEF QueueInv
<1>4. Head(jobs) = Begun + 1
  BY <1>2, <1>3
<1>5. Begun' = Begun + 1
  BY <1>1, <1>2, <1>3 DEF Begun
<1>6. \A n \in 1..(m - 1) : n + 1 \in 1..m /\ jobs[n + 1] = Begun' + n
  BY <1>2, <1>3, <1>5
<1>7. \/ busy' = busy
      \/ \E c \in Conn : busy' = [busy EXCEPT ![w] = Started(Begun + 1, c)]
  <2>1. CASE pool # <<>>
    <3>1. pool[Len(pool)] \in Conn
      BY <2>1, FrontType DEF TypeInv, TypeOK
    <3>2. busy' = [busy EXCEPT ![w] = Started(Begun + 1, pool[Len(pool)])]
      BY <1>4, <2>1 DEF TakeJob, Started
    <3> QED
      BY <3>1, <3>2
  <2>2. CASE pool = <<>>
    <3>1. busy' = busy \/ busy' = [busy EXCEPT ![w] = Started(Begun + 1, NewConn)]
      BY <1>4, <2>2 DEF TakeJob, Started
    <3> QED
      BY <3>1, JobTypes
  <2> QED
    BY <2>1, <2>2
<1> QED
  BY <1>1, <1>2, <1>4, <1>5, <1>6, <1>7 DEF TakeJob, luaVars

LEMMA StartedFacts ==
    ASSUME NEW i, NEW c
    PROVE  /\ Started(i, c).id = i /\ Started(i, c).k = 1 /\ Started(i, c).conn = c
           /\ Started(i, c).at = IF reqs[i].op \in Lists THEN "begin" ELSE "stmt"
  BY DEF Started, Idle

LEMMA QueueTakeJob ==
    ASSUME TypeInv, QueueInv, NEW w \in Workers, TakeJob(w)
    PROVE  QueueInv'
<1>1. /\ Begun' = Begun + 1 /\ busy[w] = Idle /\ w \in Threads
      /\ \A n \in DOMAIN jobs' : jobs'[n] = Begun' + n
      /\ \/ busy' = busy
         \/ \E c \in Conn : busy' = [busy EXCEPT ![w] = Started(Begun + 1, c)]
      /\ UNCHANGED <<dbType, done>>
  BY TakeJobFacts
<1>2. Begun \in Nat /\ \A v \in Workers : busy[v].id \in Nat /\ busy[v].id <= Begun
  BY QueueFacts DEF QueueInv
<1>3. \A i \in Ids : i > Begun' => done'[i] = {}
  <2>1. \A i \in Ids : i \in Nat
    BY DbAssumption DEF Ids
  <2> QED
    BY <1>1, <1>2, <2>1 DEF QueueInv
<1>4. \A v \in Workers : \/ busy'[v].id = busy[v].id
                         \/ v = w /\ busy'[v].id = Begun + 1
  BY <1>1, StartedFacts DEF TypeInv, TypeOK
<1>5. \A v \in Workers : busy'[v].id <= Begun'
  BY <1>1, <1>2, <1>4
<1>6. \A u, v \in Workers : busy'[u].id = busy'[v].id /\ busy'[u].id # 0 => u = v
  <2>1. \A v \in Workers : busy[v].id # Begun + 1
    BY <1>2
  <2> QED
    BY <1>4, <2>1 DEF QueueInv
<1>7. dbType = "sqlite" =>
          \A v \in Workers : busy'[v].id # 0 => v = SqliteWorker /\ busy'[v].id = Begun'
  <2> SUFFICES ASSUME dbType = "sqlite", NEW v \in Workers, busy'[v].id # 0
               PROVE  v = SqliteWorker /\ busy'[v].id = Begun'
    OBVIOUS
  <2>1. w = SqliteWorker
    BY <1>1 DEF Threads
  <2>2. busy[w].id = 0
    BY <1>1, JobTypes
  <2>3. \A u \in Workers : busy[u].id = 0
    BY <2>1, <2>2 DEF QueueInv
  <2> QED
    BY <1>1, <1>4, <2>1, <2>3
<1> QED
  BY <1>1, <1>2, <1>3, <1>5, <1>6, <1>7 DEF QueueInv

\* What Perform does, as far as the request is concerned.
LEMMA PerformFacts ==
    ASSUME TypeInv, NEW w \in Workers, Perform(w)
    PROVE  /\ busy[w] \in Job /\ busy[w].at \in Calls /\ busy[w].id \in DOMAIN reqs
           /\ busy[w].conn \in Conn /\ busy[w].k \in Stmts
           /\ \E r \in DbCall(busy[w].conn, busy[w].at, busy[w].k) :
                 /\ r \in Result /\ GoOn(w, r)
                 /\ done' = [done EXCEPT ![busy[w].id] = @ \cup r.lands]
                 /\ cut' = IF r.replaced THEN cut \cup {busy[w].id} ELSE cut
           /\ UNCHANGED <<dbType, reqs, jobs>>
<1>1. /\ busy[w] \in Job /\ busy[w].at \in Calls /\ busy[w] # Idle
      /\ busy[w].conn \in Conn /\ busy[w].k \in Stmts
  BY JobTypes DEF Perform, Calls, TypeInv, TypeOK, Job
<1>2. busy[w].id \in DOMAIN reqs
  BY <1>1 DEF TypeInv, TypeOK
<1> QED
  BY <1>1, <1>2, CallType DEF Perform, luaVars

LEMMA QueueInvNext ==
    TypeInv /\ QueueInv /\ [Next]_vars => QueueInv'
<1> SUFFICES ASSUME TypeInv, QueueInv, [Next]_vars PROVE QueueInv'
  OBVIOUS
<1>1. ASSUME UNCHANGED <<dbType, reqs, jobs, busy, done>> PROVE QueueInv'
  BY <1>1 DEF QueueInv, Begun
<1>2. ASSUME NEW w \in Workers, Perform(w) PROVE QueueInv'
  <2>1. PICK r \in Result : /\ GoOn(w, r)
                            /\ done' = [done EXCEPT ![busy[w].id] = @ \cup r.lands]
    BY <1>2, PerformFacts
  <2>2. PICK g \in Job : busy' = [busy EXCEPT ![w] = g] /\ g.id = busy[w].id
    BY <1>2, <2>1, PerformFacts, GoOnType
  <2>3. \A i \in Ids : done'[i] # done[i] => i = busy[w].id
    BY <2>1 DEF TypeInv, TypeOK
  <2> QED
    BY <1>2, <2>2, <2>3, PerformFacts, QueueGoesOn
<1>3. ASSUME NEW w \in Workers, Panic(w) \/ Report(w) PROVE QueueInv'
  <2>1. busy' = [busy EXCEPT ![w] = Idle] /\ UNCHANGED <<dbType, reqs, jobs, done>>
    BY <1>3 DEF Panic, Report, luaVars
  <2> QED
    BY <2>1, JobTypes, QueueGoesOn
<1>4. CASE NotifyOperationResult
  BY <1>1, <1>4 DEF NotifyOperationResult
<1>5. ASSUME NEW S \in SUBSET Ids, TimerHandle(S) PROVE QueueInv'
  BY <1>1, <1>5 DEF TimerHandle
<1>6. ASSUME NEW n \in 1..MaxRequests, CheckConnectTimeout(n) PROVE QueueInv'
  BY <1>1, <1>6 DEF CheckConnectTimeout, luaVars
<1>7. CASE UNCHANGED vars
  BY <1>1, <1>7 DEF vars
<1>8. ASSUME NEW shape \in Shapes, Ask(shape) PROVE QueueInv'
  BY <1>8, QueueAsk
<1>9. ASSUME NEW w \in Workers, TakeJob(w) PROVE QueueInv'
  BY <1>9, QueueTakeJob
<1> QED
  BY <1>2, <1>3, <1>4, <1>5, <1>6, <1>7, <1>8, <1>9 DEF Next

LEMMA QueueInvInit == Init => QueueInv
<1> SUFFICES ASSUME Init
             PROVE  QueueInv
  OBVIOUS
<1>1. Len(reqs) = 0 /\ Len(jobs) = 0 /\ DOMAIN jobs = {}
  BY EmptySeq DEF Init
<1>2. \A w \in Workers : busy[w].id = 0
  BY JobTypes DEF Init
<1> QED
  BY <1>1, <1>2 DEF Init, QueueInv, Begun

\* Nothing is seen of a request on sqlite before all that were asked before it are
\* through, however many there are: their jobs are taken in their order and one
\* thread does them.
THEOREM SqliteInOrder == Spec => []SqliteKeepsOrder
<1>1. ASSUME TypeInv, QueueInv
      PROVE  SqliteKeepsOrder
  <2> SUFFICES ASSUME dbType = "sqlite", NEW i \in DOMAIN reqs, NEW k \in DOMAIN reqs,
                      i < k, done[k] # {}
               PROVE  Finished(i)
    BY DEF SqliteKeepsOrder
  <2>1. /\ DOMAIN reqs = 1..Len(reqs) /\ DOMAIN jobs = 1..Len(jobs)
        /\ Len(reqs) \in Nat /\ Len(jobs) \in Nat /\ Begun \in Nat
        /\ DOMAIN reqs \subseteq Ids
    BY <1>1, QueueFacts
  <2>2. k <= Begun
    BY <1>1, <2>1 DEF QueueInv
  <2>3. i < Begun
    BY <2>1, <2>2
  <2>4. \A n \in DOMAIN jobs : jobs[n] # i
    BY <1>1, <2>1, <2>3 DEF QueueInv
  <2>5. \A w \in Workers : busy[w].id # i
    BY <1>1, <2>1, <2>3 DEF QueueInv
  <2> QED
    BY <2>4, <2>5 DEF Finished
<1>2. TypeInv /\ QueueInv => SqliteKeepsOrder
  BY <1>1
<1> QED
  BY <1>2, QueueInvInit, QueueInvNext, TypeInvHolds, PTL DEF Spec

-----------------------------------------------------------------------------
(***************************************************************************)
(* Transactions on mysql.                                                  *)
(***************************************************************************)

\* A call on a session that is not replaced: what a transaction does is pending
\* until it commits, and a session that is lost takes it along.
LEMMA OneSession ==
    ASSUME NEW c \in Conn, NEW at \in Calls, NEW k \in Stmts, dbType = "mysql",
           NEW r \in DbCall(c, at, k), ~ r.replaced
    PROVE  /\ at = "begin" =>
                 r.lands = {} /\ (r.conn.alive => r.conn.open /\ r.conn.pending = {})
           /\ at = "stmt" /\ (c.alive => c.open) =>
                 /\ r.lands = {}
                 /\ ~ Failing(r) => /\ c.alive /\ r.conn.open
                                    /\ r.conn.pending = c.pending \cup {k}
           /\ at = "commit" => r.lands = {} \/ (c.alive /\ r.lands = c.pending)
           /\ at = "rollback" => r.lands = {}
<1>1. Lost(c) \in Conn /\ ~ Lost(c).alive
  <2>1. EndTx(c) \in Conn
    BY ConnType
  <2> QED
    BY <2>1, ConnType DEF Lost, Conn
<1>2. CASE r = [conn |-> Dead(c), res |-> "dead", lands |-> {}, replaced |-> FALSE]
  <2>1. Dead(c).alive = FALSE
    BY ConnType DEF Dead, Conn
  <2> QED
    BY <1>2, <2>1 DEF Failing
<1>3. CASE c.alive /\ r \in OnSession(c, FALSE, at, k)
  <2>1. \/ /\ r = [conn |-> Succeed(c, at, k), res |-> "ok", lands |-> Lands(c, at, k),
                   replaced |-> FALSE]
        \/ \E lands \in {{}, Lands(c, at, k)} :
              r = [conn |-> Lost(c), res |-> "lost", lands |-> lands, replaced |-> FALSE]
        \/ /\ at = "stmt"
           /\ r = [conn |-> c, res |-> "refused", lands |-> {}, replaced |-> FALSE]
        \/ /\ at = "commit"
           /\ r = [conn |-> EndTx(c), res |-> "refused", lands |-> {}, replaced |-> FALSE]
    BY <1>3 DEF OnSession
  <2>2. at = "begin" => /\ Lands(c, at, k) = {}
                        /\ Succeed(c, at, k).open /\ Succeed(c, at, k).pending = {}
    BY DEF Lands, Succeed, Conn
  <2>3. at = "stmt" /\ c.open =>
            /\ Lands(c, at, k) = {}
            /\ Succeed(c, at, k).open /\ Succeed(c, at, k).pending = c.pending \cup {k}
    BY DEF Lands, Succeed, Conn
  <2>4. /\ at = "commit" => Lands(c, at, k) = c.pending
        /\ at = "rollback" => Lands(c, at, k) = {}
    BY DEF Lands
  <2>5. CASE r = [conn |-> Succeed(c, at, k), res |-> "ok", lands |-> Lands(c, at, k),
                  replaced |-> FALSE]
    <3>1. r.conn = Succeed(c, at, k) /\ r.lands = Lands(c, at, k)
      BY <2>5
    <3> QED
      BY <1>3, <2>2, <2>3, <2>4, <3>1
  <2>6. CASE \E lands \in {{}, Lands(c, at, k)} :
                r = [conn |-> Lost(c), res |-> "lost", lands |-> lands, replaced |-> FALSE]
    <3>1. r.conn = Lost(c) /\ r.lands \in {{}, Lands(c, at, k)} /\ Failing(r)
      BY <2>6 DEF Failing
    <3> QED
      BY <1>1, <1>3, <2>2, <2>3, <2>4, <3>1
  <2>7. CASE at = "stmt" /\ r = [conn |-> c, res |-> "refused", lands |-> {}, replaced |-> FALSE]
    <3>1. r.lands = {} /\ Failing(r)
      BY <2>7 DEF Failing
    <3> QED
      BY <2>7, <3>1
  <2>8. CASE /\ at = "commit"
             /\ r = [conn |-> EndTx(c), res |-> "refused", lands |-> {}, replaced |-> FALSE]
    BY <2>8
  <2> QED
    BY <2>1, <2>5, <2>6, <2>7, <2>8
<1> QED
  <2>1. \/ r = [conn |-> Dead(c), res |-> "dead", lands |-> {}, replaced |-> FALSE]
        \/ \E s \in Sessions(c) : r \in OnSession(s.conn, s.replaced, at, k)
    BY DEF DbCall, MysqlCall
  <2>2. ASSUME NEW s \in Sessions(c), r \in OnSession(s.conn, s.replaced, at, k)
        PROVE  c.alive /\ r \in OnSession(c, FALSE, at, k)
    <3>1. r.replaced = s.replaced
      BY <2>2 DEF OnSession
    <3>2. c.alive /\ s = [conn |-> c, replaced |-> FALSE]
      BY <3>1 DEF Sessions
    <3> QED
      BY <2>2, <3>2
  <2> QED
    BY <1>2, <1>3, <2>1, <2>2

\* How a transaction goes on.
LEMMA TransactionGoesOn ==
    ASSUME NEW w \in Workers, NEW r \in Result, GoOn(w, r), dbType = "mysql",
           busy[w] \in Job, busy[w].at \in Calls, reqs[busy[w].id].op = "transaction"
    PROVE  \E g \in Job :
              /\ busy' = [busy EXCEPT ![w] = g] /\ g.id = busy[w].id
              /\ g.conn.alive = r.conn.alive /\ g.conn.open = r.conn.open
              /\ g.conn.pending = r.conn.pending
              /\ busy[w].at = "begin" => g.at = "stmt" /\ g.k = busy[w].k
              /\ busy[w].at = "stmt" =>
                    \/ Failing(r) /\ g.at = "rollback"
                    \/ ~ Failing(r) /\ busy[w].k = 1 /\ g.at = "stmt" /\ g.k = 2
                    \/ ~ Failing(r) /\ busy[w].k # 1 /\ g.at = "commit"
              /\ busy[w].at \in {"commit", "rollback"} => g.at = "report"
<1> DEFINE j == busy[w]
           err == ErrAfter(r, "transaction", j.at)
           c == [r.conn EXCEPT !.err = err]
           b == [j EXCEPT !.conn = c]
           next == IF j.k = 1 THEN [b EXCEPT !.k = 2] ELSE [b EXCEPT !.at = "commit"]
<1>1. err \in BOOLEAN
  BY DEF ErrAfter, Result, Conn
<1>2. /\ c \in Conn /\ c.alive = r.conn.alive /\ c.open = r.conn.open
      /\ c.pending = r.conn.pending
  BY <1>1 DEF Result, Conn
<1>3. b \in Job /\ b.id = j.id /\ b.at = j.at /\ b.k = j.k /\ b.conn = c
  <2> HIDE DEF c
  <2> QED
    BY <1>2 DEF Job
<1>4. \/ j.at = "begin" /\ busy' = [busy EXCEPT ![w] = [b EXCEPT !.at = "stmt"]]
      \/ /\ j.at = "stmt" /\ Failing(r)
         /\ busy' = [busy EXCEPT ![w] = [b EXCEPT !.at = "rollback", !.ret = j.ret]]
      \/ /\ j.at = "stmt" /\ ~ Failing(r)
         /\ busy' = [busy EXCEPT ![w] = [next EXCEPT !.ret = Code(r)]]
      \/ /\ j.at \in {"commit", "rollback"}
         /\ busy' = [busy EXCEPT ![w] = [b EXCEPT !.at = "report"]]
  BY DEF GoOn, Lists, Calls
<1>5. j.ret \in {"ok", "error"} /\ Code(r) \in {"ok", "error"}
  BY DEF Code, Job
<1> HIDE DEF c, b, next, err
<1>6. CASE j.at = "begin" /\ busy' = [busy EXCEPT ![w] = [b EXCEPT !.at = "stmt"]]
  <2> DEFINE g == [b EXCEPT !.at = "stmt"]
  <2>1. g \in Job /\ g.id = j.id /\ g.at = "stmt" /\ g.k = j.k /\ g.conn = c
    BY <1>3 DEF Job
  <2>2. busy' = [busy EXCEPT ![w] = g]
    BY <1>6
  <2> HIDE DEF g
  <2> QED
    BY <1>2, <1>6, <2>1, <2>2
<1>7. CASE /\ j.at = "stmt" /\ Failing(r)
           /\ busy' = [busy EXCEPT ![w] = [b EXCEPT !.at = "rollback", !.ret = j.ret]]
  <2> DEFINE g == [b EXCEPT !.at = "rollback", !.ret = j.ret]
  <2>1. g \in Job /\ g.id = j.id /\ g.at = "rollback" /\ g.conn = c
    BY <1>3, <1>5 DEF Job
  <2>2. busy' = [busy EXCEPT ![w] = g]
    BY <1>7
  <2> HIDE DEF g
  <2> QED
    BY <1>2, <1>7, <2>1, <2>2
<1>8. CASE /\ j.at = "stmt" /\ ~ Failing(r)
           /\ busy' = [busy EXCEPT ![w] = [next EXCEPT !.ret = Code(r)]]
  <2> DEFINE g == [next EXCEPT !.ret = Code(r)]
  <2>1. /\ next \in Job /\ next.id = j.id /\ next.conn = c
        /\ \/ j.k = 1 /\ next.at = "stmt" /\ next.k = 2
           \/ j.k # 1 /\ next.at = "commit"
    <3>1. CASE j.k = 1
      BY <1>3, <1>8, <3>1 DEF Job, Stmts, next
    <3>2. CASE j.k # 1
      BY <1>3, <1>8, <3>2 DEF Job, Stmts, next
    <3> QED
      BY <3>1, <3>2
  <2>2. /\ g \in Job /\ g.id = j.id /\ g.conn = c
        /\ \/ j.k = 1 /\ g.at = "stmt" /\ g.k = 2
           \/ j.k # 1 /\ g.at = "commit"
    BY <1>5, <2>1 DEF Job
  <2>3. busy' = [busy EXCEPT ![w] = g]
    BY <1>8
  <2> HIDE DEF g
  <2> QED
    BY <1>2, <1>8, <2>2, <2>3
<1>9. CASE /\ j.at \in {"commit", "rollback"}
           /\ busy' = [busy EXCEPT ![w] = [b EXCEPT !.at = "report"]]
  <2> DEFINE g == [b EXCEPT !.at = "report"]
  <2>1. g \in Job /\ g.id = j.id /\ g.at = "report" /\ g.conn = c
    BY <1>3 DEF Job
  <2>2. busy' = [busy EXCEPT ![w] = g]
    BY <1>9
  <2> HIDE DEF g
  <2> QED
    BY <1>2, <1>9, <2>1, <2>2
<1> QED
  BY <1>4, <1>6, <1>7, <1>8, <1>9

LEMMA WholePerform ==
    ASSUME TypeInv, QueueInv, WholeInv, NEW w \in Workers, Perform(w), dbType = "mysql",
           reqs[busy[w].id].op = "transaction", busy[w].id \notin cut'
    PROVE  /\ done'[busy[w].id] \in {{}, Stmts}
           /\ Whole(busy'[w])
           /\ busy'[w].at # "report" => done'[busy[w].id] = {}
<1> DEFINE j == busy[w]
           c == busy[w].conn
           h == busy'[w]
<1>1. /\ j \in Job /\ j.at \in Calls /\ j.id \in DOMAIN reqs /\ c \in Conn /\ j.k \in Stmts
      /\ j.id \in Ids
  BY PerformFacts, QueueFacts
<1>2. PICK r \in DbCall(c, j.at, j.k) :
          /\ r \in Result /\ GoOn(w, r)
          /\ done' = [done EXCEPT ![j.id] = @ \cup r.lands]
          /\ cut' = IF r.replaced THEN cut \cup {j.id} ELSE cut
  BY PerformFacts
<1>3. ~ r.replaced /\ j.id \notin cut
  BY <1>2
<1>4. Whole(j) /\ done[j.id] = {}
  <2>1. j.at # "report"
    BY <1>1 DEF Calls
  <2> QED
    BY <1>1, <1>3, <2>1 DEF WholeInv
<1>5. done'[j.id] = r.lands
  BY <1>1, <1>2, <1>4 DEF TypeInv, TypeOK
<1>6. /\ j.at = "begin" =>
            r.lands = {} /\ (r.conn.alive => r.conn.open /\ r.conn.pending = {})
      /\ j.at = "stmt" /\ (c.alive => c.open) =>
            /\ r.lands = {}
            /\ ~ Failing(r) => c.alive /\ r.conn.open /\ r.conn.pending = c.pending \cup {j.k}
      /\ j.at = "commit" => r.lands = {} \/ (c.alive /\ r.lands = c.pending)
      /\ j.at = "rollback" => r.lands = {}
  BY <1>1, <1>2, <1>3, OneSession
<1>7. /\ h.conn.alive = r.conn.alive /\ h.conn.open = r.conn.open
      /\ h.conn.pending = r.conn.pending
      /\ j.at = "begin" => h.at = "stmt" /\ h.k = j.k
      /\ j.at = "stmt" =>
            \/ Failing(r) /\ h.at = "rollback"
            \/ ~ Failing(r) /\ j.k = 1 /\ h.at = "stmt" /\ h.k = 2
            \/ ~ Failing(r) /\ j.k # 1 /\ h.at = "commit"
      /\ j.at \in {"commit", "rollback"} => h.at = "report"
  <2>1. PICK g \in Job :
            /\ busy' = [busy EXCEPT ![w] = g]
            /\ g.conn.alive = r.conn.alive /\ g.conn.open = r.conn.open
            /\ g.conn.pending = r.conn.pending
            /\ j.at = "begin" => g.at = "stmt" /\ g.k = j.k
            /\ j.at = "stmt" =>
                  \/ Failing(r) /\ g.at = "rollback"
                  \/ ~ Failing(r) /\ j.k = 1 /\ g.at = "stmt" /\ g.k = 2
                  \/ ~ Failing(r) /\ j.k # 1 /\ g.at = "commit"
            /\ j.at \in {"commit", "rollback"} => g.at = "report"
    BY <1>1, <1>2, TransactionGoesOn
  <2>2. h = g
    BY <2>1 DEF TypeInv, TypeOK
  <2> QED
    BY <2>1, <2>2
<1> HIDE DEF h, c, j
<1>8. /\ j.at = "begin" => j.k = 1
      /\ j.at = "stmt" /\ c.alive => c.open /\ c.pending = IF j.k = 1 THEN {} ELSE {1}
      /\ j.at = "commit" /\ c.alive => c.open /\ c.pending = Stmts
  BY <1>4 DEF Whole, j, c
<1>9. r.lands \in {{}, Stmts} /\ Whole(h) /\ (h.at # "report" => r.lands = {})
  <2>1. CASE j.at = "begin"
    BY <1>6, <1>7, <1>8, <2>1 DEF Whole
  <2>2. CASE j.at = "stmt" /\ Failing(r)
    BY <1>6, <1>7, <1>8, <2>2 DEF Whole
  <2>3. CASE j.at = "stmt" /\ ~ Failing(r)
    <3>1. /\ r.lands = {} /\ r.conn.open
          /\ r.conn.pending = (IF j.k = 1 THEN {} ELSE {1}) \cup {j.k}
      BY <1>6, <1>8, <2>3
    <3>2. CASE j.k = 1
      BY <1>7, <2>3, <3>1, <3>2 DEF Whole
    <3>3. CASE j.k # 1
      <4>1. j.k = 2
        BY <1>1, <3>3 DEF Stmts, j
      <4>2. r.conn.pending = Stmts
        BY <3>1, <4>1 DEF Stmts
      <4> QED
        BY <1>7, <2>3, <3>1, <3>3, <4>2 DEF Whole
    <3> QED
      BY <3>2, <3>3
  <2>4. CASE j.at \in {"commit", "rollback"}
    BY <1>6, <1>7, <1>8, <2>4 DEF Whole
  <2> QED
    BY <1>1, <2>1, <2>2, <2>3, <2>4 DEF Calls, j
<1> QED
  BY <1>5, <1>9 DEF h, j

\* Elsewhere nothing changes for a transaction.
LEMMA WholeStays ==
    ASSUME TypeInv, WholeInv, UNCHANGED <<dbType, reqs, done, cut>>,
           \A w \in Workers : busy'[w].id # 0 => busy'[w] = busy[w]
    PROVE  WholeInv'
<1>1. \A i \in DOMAIN reqs : i # 0
  <2>1. DOMAIN reqs = 1..Len(reqs) /\ Len(reqs) \in Nat
    BY LenProperties DEF TypeInv, TypeOK
  <2> QED
    BY <2>1
<1> QED
  BY <1>1 DEF WholeInv

LEMMA WholeInvNext ==
    TypeInv /\ QueueInv /\ WholeInv /\ [Next]_vars => WholeInv'
<1> SUFFICES ASSUME TypeInv, QueueInv, WholeInv, [Next]_vars PROVE WholeInv'
  OBVIOUS
<1>1. ASSUME UNCHANGED <<dbType, reqs, busy, done, cut>> PROVE WholeInv'
  BY <1>1, WholeStays
<1>2. ASSUME NEW w \in Workers, Perform(w) PROVE WholeInv'
  <2> SUFFICES ASSUME dbType = "mysql", NEW i \in DOMAIN reqs, i \notin cut',
                      reqs[i].op = "transaction"
               PROVE  /\ done'[i] \in {{}, Stmts}
                      /\ \A v \in Workers :
                            busy'[v].id = i =>
                               Whole(busy'[v]) /\ (busy'[v].at # "report" => done'[i] = {})
    <3>1. reqs' = reqs /\ dbType' = dbType
      BY <1>2, PerformFacts
    <3> QED
      BY <3>1 DEF WholeInv
  <2>1. PICK r \in Result :
            /\ GoOn(w, r)
            /\ done' = [done EXCEPT ![busy[w].id] = @ \cup r.lands]
            /\ cut' = IF r.replaced THEN cut \cup {busy[w].id} ELSE cut
    BY <1>2, PerformFacts
  <2>2. PICK g \in Job : busy' = [busy EXCEPT ![w] = g] /\ g.id = busy[w].id
    BY <1>2, <2>1, PerformFacts, GoOnType
  <2>3. /\ busy'[w].id = busy[w].id
        /\ \A v \in Workers : v # w => busy'[v] = busy[v]
    BY <2>2 DEF TypeInv, TypeOK
  <2>4. i # 0 /\ i \in Ids
    BY QueueFacts DEF Ids
  <2>5. CASE i = busy[w].id
    <3>1. \A v \in Workers : busy'[v].id = i => v = w
      BY <2>3, <2>4, <2>5 DEF QueueInv
    <3> QED
      BY <1>2, <2>5, <3>1, WholePerform
  <2>6. CASE i # busy[w].id
    <3>1. done'[i] = done[i] /\ i \notin cut
      BY <2>1, <2>4, <2>6 DEF TypeInv, TypeOK
    <3>2. \A v \in Workers : busy'[v].id = i => busy'[v] = busy[v]
      BY <2>3, <2>6
    <3> QED
      BY <3>1, <3>2 DEF WholeInv
  <2> QED
    BY <2>5, <2>6
<1>3. ASSUME NEW w \in Workers, TakeJob(w) PROVE WholeInv'
  <2>1. /\ Begun + 1 \in DOMAIN reqs
        /\ \/ busy' = busy
           \/ \E c \in Conn : busy' = [busy EXCEPT ![w] = Started(Begun + 1, c)]
        /\ UNCHANGED <<dbType, reqs, done, cut>>
    BY <1>3, TakeJobFacts
  <2>2. CASE busy' = busy
    BY <1>1, <2>1, <2>2
  <2>3. ASSUME NEW c \in Conn, busy' = [busy EXCEPT ![w] = Started(Begun + 1, c)]
        PROVE  WholeInv'
    <3>1. done[Begun + 1] = {}
      <4>1. Begun + 1 \in Ids /\ Begun + 1 > Begun
        BY <2>1, QueueFacts
      <4> QED
        BY <4>1 DEF QueueInv
    <3>2. reqs[Begun + 1].op = "transaction" => Whole(Started(Begun + 1, c))
      BY StartedFacts DEF Whole, Lists
    <3>3. \A v \in Workers : busy'[v] = IF v = w THEN Started(Begun + 1, c) ELSE busy[v]
      BY <2>3 DEF TypeInv, TypeOK
    <3>4. Started(Begun + 1, c).id = Begun + 1
      BY StartedFacts
    <3> QED
      BY <2>1, <3>1, <3>2, <3>3, <3>4 DEF WholeInv
  <2> QED
    BY <2>1, <2>2, <2>3
<1>4. ASSUME NEW w \in Workers, Panic(w) \/ Report(w) PROVE WholeInv'
  <2>1. busy' = [busy EXCEPT ![w] = Idle] /\ UNCHANGED <<dbType, reqs, done, cut>>
    BY <1>4 DEF Panic, Report, luaVars
  <2>2. \A v \in Workers : busy'[v].id # 0 => busy'[v] = busy[v]
    BY <2>1, JobTypes DEF TypeInv, TypeOK
  <2> QED
    BY <2>1, <2>2, WholeStays
<1>5. ASSUME NEW shape \in Shapes, Ask(shape) PROVE WholeInv'
  <2> DEFINE id == Len(reqs) + 1
  <2>1. /\ DOMAIN reqs' = DOMAIN reqs \cup {id} /\ \A i \in DOMAIN reqs : reqs'[i] = reqs[i]
        /\ id \in Ids /\ id \in Nat /\ UNCHANGED <<dbType, busy, done, cut>>
    BY <1>5, QueueFacts DEF Ask, TypeInv, TypeOK
  <2>2. id > Begun
    BY QueueFacts
  <2>3. done[id] = {}
    BY <2>1, <2>2 DEF QueueInv
  <2>4. \A w \in Workers : busy[w].id # id
    <3>1. \A w \in Workers : busy[w].id <= Begun /\ busy[w].id \in Nat
      BY QueueFacts DEF QueueInv
    <3> QED
      BY <2>1, <2>2, <3>1, QueueFacts
  <2> HIDE DEF id
  <2> QED
    BY <2>1, <2>3, <2>4 DEF WholeInv
<1>6. CASE NotifyOperationResult
  BY <1>1, <1>6 DEF NotifyOperationResult
<1>7. ASSUME NEW S \in SUBSET Ids, TimerHandle(S) PROVE WholeInv'
  BY <1>1, <1>7 DEF TimerHandle
<1>8. ASSUME NEW n \in 1..MaxRequests, CheckConnectTimeout(n) PROVE WholeInv'
  BY <1>1, <1>8 DEF CheckConnectTimeout, luaVars
<1>9. CASE UNCHANGED vars
  BY <1>1, <1>9 DEF vars
<1> QED
  BY <1>2, <1>3, <1>4, <1>5, <1>6, <1>7, <1>8, <1>9 DEF Next

\* transaction_db is all or nothing on mysql unless its session is replaced under
\* it: whichever call fails or loses the session, and whatever the other threads do.
THEOREM TransactionsWhole == Spec => []TransactionsUndone
<1>1. Init => WholeInv
  BY EmptySeq DEF Init, WholeInv
<1>2. TypeInv /\ WholeInv => TransactionsUndone
  BY DEF WholeInv, TransactionsUndone
<1> QED
  BY <1>1, <1>2, QueueInvInit, QueueInvNext, WholeInvNext, TypeInvHolds, PTL DEF Spec
=============================================================================
