----------------------------- MODULE HttpProofs -----------------------------
(***************************************************************************)
(* Proofs about module Http, for requests, calls, threads and cookies of   *)
(* any number.                                                             *)
(*                                                                         *)
(* An answer is written for what the script read and sent to what is kept  *)
(* under a cookie.  That they are the same request takes four steps: what  *)
(* waits to be taken will have cookies that are free by then (CookiesInv); *)
(* an entry of exec_list names the request its cookie stands for, and no   *)
(* two name the same cookie (EntriesInv); so a job answers the request it  *)
(* was written for (OwnAnswers).  With the handler of the repository no    *)
(* answer has a cookie, and nobody is answered (SilentInv).                *)
(***************************************************************************)
EXTENDS Http, SequenceTheorems, FiniteSetTheorems, TLAPS

\* What exec_list holds, and what the script is answering.
Entries == [type : {"recv"}, of : Requests, cookie : Cookies, status : {None}]
             \cup [type : {"reply"}, of : {None}, cookie : Calls, status : {"0", "200"}]
Answering == [cookie : Cookies \cup {None}, content : Requests]
Taken == [of : Requests, cookie : Cookies]
Jobs == [type : {"respond"}, of : Requests, content : Requests]
          \cup [type : {"ask"}, of : Calls, content : {None}]

TypeInv ==
    /\ request \in [Requests -> {"none", "sending", "sent", "gone", "answered"}]
    /\ incoming \in Seq(Requests)
    /\ data \in 0..MaxCookie
    /\ taken \in Taken \cup {None}
    /\ told \in BOOLEAN
    /\ DOMAIN requests \subseteq Cookies /\ requests \in [DOMAIN requests -> Requests]
    /\ jobs \in Seq(Jobs) /\ running \subseteq Jobs
    /\ IsFiniteSet(running) /\ Cardinality(running) <= Threads
    /\ queue \in Seq(Entries)
    /\ answering \in Answering \cup {None}
    /\ answer \in [Requests -> Requests \cup {None}]
    /\ reply \in [Calls -> {"not asked", "asked", "0", "200"}]

\* The cookie of the k-th of the requests that wait to be taken.
CookieAhead(k) == IF data + k <= MaxCookie THEN data + k ELSE data + k - MaxCookie

CookiesInv ==
    /\ Len(incoming) <= MaxCookie
    /\ \A k \in 1..Len(incoming) :
          /\ CookieAhead(k) \notin DOMAIN requests
          /\ taken # None => taken.cookie # CookieAhead(k)
    /\ taken # None => taken.cookie \notin DOMAIN requests

\* The script has been told of a request r under this cookie.
Known(cookie, r) ==
    \/ taken # None /\ told /\ taken.cookie = cookie /\ taken.of = r
    \/ cookie \in DOMAIN requests /\ requests[cookie] = r

EntriesKnown ==
    \A k \in 1..Len(queue) :
        queue[k].type = "recv" => Known(queue[k].cookie, queue[k].of)

CookiesDiffer ==
    \A j, k \in 1..Len(queue) :
        queue[j].type = "recv" /\ queue[k].type = "recv"
            /\ queue[j].cookie = queue[k].cookie => j = k

AnswerKnown ==
    answering # None /\ answering.cookie # None =>
        /\ Known(answering.cookie, answering.content)
        /\ \A k \in 1..Len(queue) :
              queue[k].type = "recv" => queue[k].cookie # answering.cookie

EntriesInv ==
    /\ told => taken # None
    /\ EntriesKnown /\ CookiesDiffer /\ AnswerKnown

OwnJob == {Respond(r, r) : r \in Requests} \cup {Ask(c) : c \in Calls}

OwnAnswers ==
    /\ jobs \in Seq(OwnJob) /\ running \subseteq OwnJob
    /\ AnswersOwnRequest

\* With the cookie out of the script's sight.
Asks == {Ask(c) : c \in Calls}
NobodyAnswered == \A r \in Requests : request[r] # "answered"
SilentInv ==
    /\ answering # None => answering.cookie = None
    /\ jobs \in Seq(Asks) /\ running \subseteq Asks
    /\ NobodyAnswered

\* What is kept under a cookie stays there.
Keeps == \A cookie \in DOMAIN requests : cookie \in DOMAIN requests'
                                         /\ requests'[cookie] = requests[cookie]

-----------------------------------------------------------------------------
(***************************************************************************)
(* Queues.                                                                 *)
(***************************************************************************)
LEMMA Sizes == MaxCookie \in Nat \ {0} /\ Threads \in Nat \ {0}
  BY HttpAssumption

LEMMA AppendFacts ==
    ASSUME NEW S, NEW s \in Seq(S), NEW e \in S
    PROVE  /\ Append(s, e) \in Seq(S)
           /\ Len(s) \in Nat /\ Len(Append(s, e)) = Len(s) + 1
           /\ \A k \in 1..Len(s) : Append(s, e)[k] = s[k]
           /\ Append(s, e)[Len(s) + 1] = e
  BY AppendProperties, LenProperties

LEMMA TailFacts ==
    ASSUME NEW S, NEW s \in Seq(S), s # <<>>
    PROVE  /\ Len(s) \in Nat \ {0} /\ Head(s) = s[1] /\ Head(s) \in S
           /\ Tail(s) \in Seq(S) /\ Len(Tail(s)) = Len(s) - 1
           /\ \A k \in 1..(Len(s) - 1) : Tail(s)[k] = s[k + 1]
  BY EmptySeq, HeadTailProperties, LenProperties

-----------------------------------------------------------------------------
(***************************************************************************)
(* Types.                                                                  *)
(***************************************************************************)
LEMMA NextCookieType ==
    ASSUME data \in 0..MaxCookie
    PROVE  NextCookie \in Cookies /\ NextCookie \in 0..MaxCookie
  BY Sizes DEF NextCookie, Cookies

LEMMA OneMoreRuns ==
    ASSUME IsFiniteSet(running), Cardinality(running) < Threads, NEW j
    PROVE  IsFiniteSet(running \cup {j}) /\ Cardinality(running \cup {j}) <= Threads
<1>1. Cardinality(running) \in Nat
  BY FS_CardinalityType
<1>2. /\ IsFiniteSet(running \cup {j})
      /\ \/ Cardinality(running \cup {j}) = Cardinality(running)
         \/ Cardinality(running \cup {j}) = Cardinality(running) + 1
  BY FS_AddElement, Zenon
<1> QED
  BY <1>1, <1>2, Sizes

LEMMA OneLessRuns ==
    ASSUME IsFiniteSet(running), Cardinality(running) <= Threads, NEW j \in running
    PROVE  IsFiniteSet(running \ {j}) /\ Cardinality(running \ {j}) <= Threads
<1>1. Cardinality(running) \in Nat
  BY FS_CardinalityType
<1>2. IsFiniteSet(running \ {j}) /\ Cardinality(running \ {j}) = Cardinality(running) - 1
  BY FS_RemoveElement
<1> QED
  BY <1>1, <1>2, Sizes

LEMMA TypeInvInit == Init => TypeInv
<1> SUFFICES ASSUME Init
             PROVE  TypeInv
  OBVIOUS
<1>1. /\ \A S : <<>> \in Seq(S)
      /\ <<>> \in [{} -> Requests] /\ DOMAIN <<>> = {}
  BY EmptySeq
<1>2. IsFiniteSet({}) /\ Cardinality({}) = 0
  BY FS_EmptySet
<1>3. IsFiniteSet(running) /\ Cardinality(running) <= Threads
  <2>1. running = {}
    BY DEF Init
  <2>2. 0 <= Threads
    BY Sizes
  <2> QED
    BY <1>2, <2>1, <2>2
<1>4. data \in 0..MaxCookie
  <2>1. data = 0
    BY DEF Init
  <2> QED
    BY <2>1, Sizes
<1>5. DOMAIN requests \subseteq Cookies /\ requests \in [DOMAIN requests -> Requests]
  BY <1>1 DEF Init
<1>6. incoming \in Seq(Requests) /\ jobs \in Seq(Jobs) /\ queue \in Seq(Entries)
  BY <1>1 DEF Init
<1> QED
  BY <1>3, <1>4, <1>5, <1>6 DEF Init, TypeInv

LEMMA TypeInvStep == TypeInv /\ [Next]_vars => TypeInv'
<1> SUFFICES ASSUME TypeInv, [Next]_vars
             PROVE  TypeInv'
  OBVIOUS
<1> USE DEF TypeInv
<1>1. ASSUME NEW r \in Requests, NEW part \in {"sending", "sent"}, ClientSends(r, part)
      PROVE  TypeInv'
  BY <1>1, AppendFacts DEF ClientSends
<1>2. ASSUME NEW r \in Requests, ClientEnds(r) \/ ClientLeaves(r)
      PROVE  TypeInv'
  BY <1>2 DEF ClientEnds, ClientLeaves
<1>3. CASE Receive
  <2>1. Head(incoming) \in Requests /\ Tail(incoming) \in Seq(Requests)
    BY <1>3, TailFacts DEF Receive
  <2>2. NextCookie \in Cookies /\ NextCookie \in 0..MaxCookie
    BY NextCookieType
  <2> QED
    BY <1>3, <2>1, <2>2 DEF Receive, Taken
<1>4. CASE Apply
  <2>1. taken \in Taken
    BY <1>4 DEF Apply
  <2>2. RecvEntry(taken.of, taken.cookie) \in Entries
    BY <2>1 DEF RecvEntry, Entries, Taken
  <2> QED
    BY <1>4, <2>2, AppendFacts DEF Apply
<1>5. CASE Insert
  <2>1. taken.of \in Requests /\ taken.cookie \in Cookies
    BY <1>5 DEF Insert, Taken
  <2> QED
    BY <1>5, <2>1 DEF Insert
<1>6. CASE ServerMsgRecv
  <2>1. Entry \in Entries /\ Tail(queue) \in Seq(Entries)
    BY <1>6, TailFacts DEF ServerMsgRecv, Entry
  <2>2. Entry.cookie \in Cookies /\ Entry.of \in Requests
    BY <1>6, <2>1 DEF ServerMsgRecv, Entries
  <2>3. answering' \in Answering
    BY <1>6, <2>2 DEF ServerMsgRecv, Answering
  <2> QED
    BY <1>6, <2>1, <2>3 DEF ServerMsgRecv
<1>7. CASE HttpServerRespone
  <2>1. answering.content \in Requests
    BY <1>7 DEF HttpServerRespone, Answering
  <2>2. CASE answering.cookie \in DOMAIN requests
    <3>1. Respond(requests[answering.cookie], answering.content) \in Jobs
      BY <2>1, <2>2 DEF Respond, Jobs
    <3>2. Append(jobs, Respond(requests[answering.cookie], answering.content)) \in Seq(Jobs)
      BY <3>1, AppendFacts
    <3>3. /\ DOMAIN requests' \subseteq Cookies
          /\ requests' \in [DOMAIN requests' -> Requests]
      BY <1>7, <2>2 DEF HttpServerRespone, Restrict
    <3> QED
      BY <1>7, <3>2, <3>3 DEF HttpServerRespone
  <2>3. CASE answering.cookie \notin DOMAIN requests
    BY <1>7, <2>3 DEF HttpServerRespone
  <2> QED
    BY <2>2, <2>3
<1>8. ASSUME NEW c \in Calls, HttpRequest(c)
      PROVE  TypeInv'
  <2>1. Ask(c) \in Jobs
    BY DEF Ask, Jobs
  <2> QED
    BY <1>8, <2>1, AppendFacts DEF HttpRequest
<1>9. CASE ClientMsgRespone
  <2>1. Entry \in Entries /\ Tail(queue) \in Seq(Entries)
    BY <1>9, TailFacts DEF ClientMsgRespone, Entry
  <2>2. Entry.status \in {"0", "200"}
    BY <1>9, <2>1 DEF ClientMsgRespone, Entries
  <2> QED
    BY <1>9, <2>1, <2>2 DEF ClientMsgRespone
<1>10. CASE Start
  <2>1. Head(jobs) \in Jobs /\ Tail(jobs) \in Seq(Jobs)
    BY <1>10, TailFacts DEF Start
  <2>2. /\ IsFiniteSet(running \cup {Head(jobs)})
        /\ Cardinality(running \cup {Head(jobs)}) <= Threads
    BY <1>10, OneMoreRuns DEF Start
  <2> QED
    BY <1>10, <2>1, <2>2 DEF Start
<1>11. ASSUME NEW job \in running
       PROVE  /\ running \ {job} \subseteq Jobs /\ IsFiniteSet(running \ {job})
              /\ Cardinality(running \ {job}) <= Threads
  BY OneLessRuns
<1>12. ASSUME NEW job \in running, WriteRespond(job)
       PROVE  TypeInv'
  <2>1. job \in Jobs
    OBVIOUS
  <2>2. /\ request' \in [Requests -> {"none", "sending", "sent", "gone", "answered"}]
        /\ answer' \in [Requests -> Requests \cup {None}]
    BY <1>12, <2>1 DEF WriteRespond, Jobs
  <2>3. /\ running' = running \ {job}
        /\ UNCHANGED <<incoming, data, taken, told, requests, jobs, queue, answering, reply>>
    BY <1>12 DEF WriteRespond
  <2> QED
    BY <1>11, <2>2, <2>3
<1>13. ASSUME NEW job \in running, WaitRespone(job)
       PROVE  TypeInv'
  <2>1. job \in Jobs
    OBVIOUS
  <2>2. queue' \in Seq(Entries)
    <3>1. job.of \in Calls
      BY <1>13, <2>1 DEF WaitRespone, Jobs
    <3>2. ReplyEntry(job.of, "200") \in Entries /\ ReplyEntry(job.of, "0") \in Entries
      BY <3>1 DEF ReplyEntry, Entries
    <3>3. /\ Append(queue, ReplyEntry(job.of, "200")) \in Seq(Entries)
          /\ Append(queue, ReplyEntry(job.of, "0")) \in Seq(Entries)
      BY <3>2, AppendFacts
    <3> QED
      BY <1>13, <3>3 DEF WaitRespone, FailedFn
  <2>3. /\ running' = running \ {job}
        /\ UNCHANGED <<request, incoming, data, taken, told, requests, jobs, answering,
                       answer, reply>>
    BY <1>13 DEF WaitRespone
  <2> QED
    BY <1>11, <2>2, <2>3
<1>14. CASE UNCHANGED vars
  BY <1>14 DEF vars
<1> HIDE DEF TypeInv
<1> QED
  BY <1>1, <1>2, <1>3, <1>4, <1>5, <1>6, <1>7, <1>8, <1>9, <1>10, <1>12, <1>13, <1>14
     DEF Next, Clients, Listen, Script, Pool

-----------------------------------------------------------------------------
(***************************************************************************)
(* Cookies.                                                                *)
(***************************************************************************)

\* The cookie to come is the one after those of the requests that wait.
LEMMA ToComeIsAhead ==
    ASSUME data \in 0..MaxCookie, Len(incoming) \in Nat, Len(incoming) < MaxCookie
    PROVE  CookieToCome = CookieAhead(Len(incoming) + 1)
<1> DEFINE x == data + Len(incoming)
<1>1. x \in 0..(2 * MaxCookie - 1)
  BY Sizes
<1>2. x % MaxCookie = IF x < MaxCookie THEN x ELSE x - MaxCookie
  <2> HIDE DEF x
  <2> QED
    BY <1>1, Sizes
<1> QED
  BY <1>2, Sizes DEF CookieToCome, CookieAhead

\* The next cookie is the first of those ahead, and then the second is.
LEMMA NextIsAhead ==
    ASSUME data \in 0..MaxCookie, data' = NextCookie
    PROVE  /\ data' = CookieAhead(1)
           /\ \A k \in 1..(MaxCookie - 1) :
                 CookieAhead(k)' = CookieAhead(k + 1) /\ CookieAhead(k + 1) # CookieAhead(1)
<1>1. data' = IF data = MaxCookie THEN 1 ELSE data + 1
  BY Sizes DEF NextCookie
<1>2. data' = CookieAhead(1)
  BY <1>1, Sizes DEF CookieAhead
<1>3. ASSUME NEW k \in 1..(MaxCookie - 1)
      PROVE  CookieAhead(k)' = CookieAhead(k + 1) /\ CookieAhead(k + 1) # CookieAhead(1)
  BY <1>1, Sizes DEF CookieAhead
<1> QED
  BY <1>2, <1>3

LEMMA CookiesInvStep == TypeInv /\ CookiesInv /\ [Next]_vars => CookiesInv'
<1> SUFFICES ASSUME TypeInv, CookiesInv, [Next]_vars
             PROVE  CookiesInv'
  OBVIOUS
<1> DEFINE n == Len(incoming)
<1>1. data \in 0..MaxCookie /\ incoming \in Seq(Requests) /\ n \in Nat
  BY LenProperties DEF TypeInv
<1>2. ASSUME UNCHANGED <<data, incoming, requests, taken>>
      PROVE  CookiesInv'
  BY <1>2 DEF CookiesInv, CookieAhead
<1>3. ASSUME NEW r \in Requests, NEW part \in {"sending", "sent"}, ClientSends(r, part)
      PROVE  CookiesInv'
  <2> DEFINE q == incoming'
  <2>1. /\ n < MaxCookie /\ q = Append(incoming, r)
        /\ CookieToCome \notin CookiesInUse
        /\ UNCHANGED <<data, requests, taken>>
    BY <1>3 DEF ClientSends
  <2>2. Len(q) = n + 1
    BY <1>1, <2>1, AppendFacts
  <2>3. CookieAhead(n + 1) \notin CookiesInUse
    BY <1>1, <2>1, ToComeIsAhead
  <2>4. \A k : CookieAhead(k)' = CookieAhead(k)
    BY <2>1 DEF CookieAhead
  <2>5. \A k \in 1..(n + 1) :
            /\ CookieAhead(k) \notin DOMAIN requests
            /\ taken # None => taken.cookie # CookieAhead(k)
    <3>1. /\ CookieAhead(n + 1) \notin DOMAIN requests
          /\ taken # None => taken.cookie # CookieAhead(n + 1)
      BY <2>3 DEF CookiesInUse
    <3>2. \A k \in 1..n :
              /\ CookieAhead(k) \notin DOMAIN requests
              /\ taken # None => taken.cookie # CookieAhead(k)
      BY DEF CookiesInv
    <3>3. \A k \in 1..(n + 1) : k \in 1..n \/ k = n + 1
      BY <1>1
    <3> HIDE DEF n
    <3> QED
      BY <3>1, <3>2, <3>3, Zenon
  <2>6. n + 1 <= MaxCookie
    BY <1>1, <2>1, Sizes
  <2>7. taken # None => taken.cookie \notin DOMAIN requests
    BY DEF CookiesInv
  <2> HIDE DEF n, q
  <2>8. \A k \in 1..(n + 1) :
            /\ CookieAhead(k)' \notin DOMAIN requests'
            /\ taken' # None => taken'.cookie # CookieAhead(k)'
    BY <2>1, <2>4, <2>5
  <2>9. Len(incoming') = n + 1
    BY <2>2 DEF q
  <2> QED
    BY <2>1, <2>6, <2>7, <2>8, <2>9 DEF CookiesInv
<1>4. CASE Receive
  <2> DEFINE q == incoming'
  <2>1. /\ incoming # <<>> /\ taken = None /\ data' = NextCookie
        /\ taken' = [of |-> Head(incoming), cookie |-> data']
        /\ q = Tail(incoming) /\ requests' = requests
    BY <1>4 DEF Receive, MutexFree
  <2>2. n \in Nat \ {0} /\ Len(q) = n - 1 /\ n <= MaxCookie
    BY <1>1, <2>1, TailFacts DEF CookiesInv
  <2>3. \A k \in 1..n : CookieAhead(k) \notin DOMAIN requests
    BY DEF CookiesInv
  <2> HIDE DEF n, q
  <2>4. /\ taken'.cookie = CookieAhead(1)
        /\ \A k \in 1..(n - 1) :
              CookieAhead(k)' = CookieAhead(k + 1) /\ CookieAhead(k + 1) # CookieAhead(1)
    <3>1. \A k \in 1..(n - 1) : k \in 1..(MaxCookie - 1)
      BY <2>2, Sizes
    <3> QED
      BY <1>1, <2>1, <3>1, NextIsAhead
  <2>5. \A k \in 1..(n - 1) : k + 1 \in 1..n
    BY <2>2
  <2>6. 1 \in 1..n /\ n - 1 <= MaxCookie
    BY <2>2, Sizes
  <2> QED
    BY <2>1, <2>2, <2>3, <2>4, <2>5, <2>6 DEF CookiesInv, q
<1>5. CASE Insert
  <2>1. /\ DOMAIN requests' = DOMAIN requests \cup {taken.cookie}
        /\ taken # None /\ taken' = None
        /\ UNCHANGED <<data, incoming>>
    BY <1>5 DEF Insert
  <2> QED
    BY <2>1 DEF CookiesInv, CookieAhead
<1>6. CASE HttpServerRespone
  <2>1. /\ DOMAIN requests' \subseteq DOMAIN requests
        /\ UNCHANGED <<data, incoming, taken>>
    BY <1>6 DEF HttpServerRespone, Restrict
  <2> QED
    BY <2>1 DEF CookiesInv, CookieAhead
<1>7. ASSUME \/ \E r \in Requests : ClientEnds(r) \/ ClientLeaves(r)
             \/ Apply \/ ServerMsgRecv \/ ClientMsgRespone \/ Pool
             \/ \E c \in Calls : HttpRequest(c)
             \/ UNCHANGED vars
      PROVE  UNCHANGED <<data, incoming, requests, taken>>
  BY <1>7 DEF ClientEnds, ClientLeaves, Apply, ServerMsgRecv, ClientMsgRespone, Pool, Start,
              WriteRespond, WaitRespone, HttpRequest, vars
<1> QED
  BY <1>2, <1>3, <1>4, <1>5, <1>6, <1>7, Zenon DEF Next, Clients, Listen, Script

-----------------------------------------------------------------------------
(***************************************************************************)
(* Entries of exec_list.                                                   *)
(***************************************************************************)

LEMMA QueueFacts ==
    ASSUME TypeInv
    PROVE  /\ queue \in Seq(Entries) /\ Len(queue) \in Nat
           /\ \A k \in 1..Len(queue) : queue[k] \in Entries
  BY LenProperties, ElementOfSeq DEF TypeInv

\* Entries are taken from the head of the queue ...
LEMMA TailKeepsEntries ==
    ASSUME TypeInv, EntriesInv, queue # <<>>, queue' = Tail(queue),
           UNCHANGED <<taken, told, requests>>
    PROVE  /\ told' => taken' # None
           /\ EntriesKnown' /\ CookiesDiffer'
           /\ answering' = answering => AnswerKnown'
<1> DEFINE n == Len(queue)
           q == queue'
<1>1. /\ n \in Nat \ {0} /\ Len(q) = n - 1
      /\ \A k \in 1..(n - 1) : q[k] = queue[k + 1]
  BY QueueFacts, TailFacts
<1>2. \A k \in 1..(n - 1) : k + 1 \in 1..n
  BY <1>1
<1>3. \A k \in 1..(n - 1) :
          queue[k + 1].type = "recv" => Known(queue[k + 1].cookie, queue[k + 1].of)
  BY <1>2 DEF EntriesInv, EntriesKnown
<1>4. EntriesKnown'
  <2>1. \A k \in 1..(n - 1) : q[k].type = "recv" => Known(q[k].cookie, q[k].of)
    BY <1>1, <1>3, Zenon
  <2>2. \A cookie, r : Known(cookie, r) =>
            \/ taken' # None /\ told' /\ taken'.cookie = cookie /\ taken'.of = r
            \/ cookie \in DOMAIN requests' /\ requests'[cookie] = r
    BY DEF Known
  <2>3. Len(queue') = n - 1
    BY <1>1
  <2> QED
    BY <2>1, <2>2, <2>3 DEF EntriesKnown, Known
<1>5. CookiesDiffer'
  <2> SUFFICES ASSUME NEW j \in 1..(n - 1), NEW k \in 1..(n - 1),
                      q[j].type = "recv", q[k].type = "recv", q[j].cookie = q[k].cookie
               PROVE  j = k
    BY <1>1 DEF CookiesDiffer
  <2>1. j + 1 = k + 1
    BY <1>1, <1>2 DEF EntriesInv, CookiesDiffer
  <2> QED
    BY <1>1, <2>1
<1>6. answering' = answering => AnswerKnown'
  BY <1>1, <1>2 DEF EntriesInv, AnswerKnown, Known
<1> QED
  BY <1>4, <1>5, <1>6 DEF EntriesInv

\* ... and put at its end.
LEMMA ReplyKeepsEntries ==
    ASSUME TypeInv, EntriesInv, NEW e \in Entries, e.type = "reply",
           queue' = Append(queue, e), UNCHANGED <<taken, told, requests, answering>>
    PROVE  EntriesInv'
<1> DEFINE n == Len(queue)
           q == queue'
<1>1. /\ n \in Nat /\ Len(q) = n + 1 /\ q[n + 1] = e
      /\ \A k \in 1..n : q[k] = queue[k]
  BY QueueFacts, AppendFacts
<1>2. \A k \in 1..(n + 1) : q[k].type = "recv" => k \in 1..n
  BY <1>1
<1>3. EntriesKnown'
  BY <1>1, <1>2 DEF EntriesInv, EntriesKnown, Known
<1>4. CookiesDiffer'
  BY <1>1, <1>2 DEF EntriesInv, CookiesDiffer
<1>5. AnswerKnown'
  BY <1>1, <1>2 DEF EntriesInv, AnswerKnown, Known
<1> QED
  BY <1>3, <1>4, <1>5 DEF EntriesInv

\* The script is told under a cookie that no entry has: theirs are all kept.
LEMMA ApplyKeepsEntries ==
    ASSUME TypeInv, CookiesInv, EntriesInv, Apply
    PROVE  EntriesInv'
<1> DEFINE n == Len(queue)
           q == queue'
           e == RecvEntry(taken.of, taken.cookie)
<1>1. /\ taken \in Taken /\ taken # None /\ ~told /\ told'
      /\ q = Append(queue, e)
      /\ UNCHANGED <<taken, requests, answering>>
  BY DEF Apply, TypeInv
<1>2. e \in Entries /\ e.type = "recv" /\ e.of = taken.of /\ e.cookie = taken.cookie
  BY <1>1 DEF RecvEntry, Entries, Taken
<1>3. taken.cookie \notin DOMAIN requests
  BY <1>1 DEF CookiesInv
<1>4. \A cookie, r : Known(cookie, r) =>
          cookie \in DOMAIN requests /\ requests[cookie] = r /\ cookie # taken.cookie
  BY <1>1, <1>3 DEF Known
<1> HIDE DEF e
<1>5. /\ n \in Nat /\ Len(q) = n + 1 /\ q[n + 1] = e
      /\ \A k \in 1..n : q[k] = queue[k]
  BY <1>1, <1>2, QueueFacts, AppendFacts
<1>6. \A k \in 1..(n + 1) : k \in 1..n \/ k = n + 1
  BY <1>5
<1>7. \A k \in 1..n : q[k].type = "recv" =>
          /\ q[k].cookie \in DOMAIN requests /\ requests[q[k].cookie] = q[k].of
          /\ q[k].cookie # taken.cookie
  BY <1>4, <1>5 DEF EntriesInv, EntriesKnown
<1>8. EntriesKnown'
  BY <1>1, <1>2, <1>5, <1>6, <1>7 DEF EntriesKnown, Known
<1>9. CookiesDiffer'
  BY <1>2, <1>5, <1>6, <1>7 DEF EntriesInv, CookiesDiffer
<1>10. AnswerKnown'
  BY <1>1, <1>2, <1>3, <1>5, <1>6 DEF EntriesInv, AnswerKnown, Known
<1> QED
  BY <1>1, <1>8, <1>9, <1>10 DEF EntriesInv

LEMMA RecvKeepsEntries ==
    ASSUME TypeInv, EntriesInv, ServerMsgRecv
    PROVE  EntriesInv'
<1> DEFINE n == Len(queue)
           q == queue'
<1>1. /\ queue # <<>> /\ q = Tail(queue) /\ Entry.type = "recv"
      /\ answering'.cookie \in {Entry.cookie, None} /\ answering'.content = Entry.of
      /\ UNCHANGED <<taken, told, requests>>
  BY DEF ServerMsgRecv
<1>2. /\ n \in Nat \ {0} /\ Entry = queue[1] /\ Len(q) = n - 1
      /\ \A k \in 1..(n - 1) : q[k] = queue[k + 1]
  BY <1>1, QueueFacts, TailFacts DEF Entry
<1>3. 1 \in 1..n /\ \A k \in 1..(n - 1) : k + 1 \in 1..n /\ k + 1 # 1
  BY <1>2
<1>4. Known(Entry.cookie, Entry.of)
  BY <1>1, <1>2, <1>3 DEF EntriesInv, EntriesKnown
<1>5. \A k \in 1..(n - 1) : q[k].type = "recv" => q[k].cookie # Entry.cookie
  BY <1>1, <1>2, <1>3 DEF EntriesInv, CookiesDiffer
<1>6. AnswerKnown'
  BY <1>1, <1>2, <1>4, <1>5 DEF AnswerKnown, Known
<1> QED
  BY <1>1, <1>6, TailKeepsEntries DEF EntriesInv

\* What is answered is no longer kept; no entry asks for it.
LEMMA ResponeKeepsEntries ==
    ASSUME TypeInv, EntriesInv, HttpServerRespone
    PROVE  EntriesInv'
<1>1. /\ taken = None /\ answering # None /\ answering' = None
      /\ UNCHANGED <<taken, told, queue>>
  BY DEF HttpServerRespone, MutexFree
<1>2. CASE answering.cookie \in DOMAIN requests
  <2>1. answering.cookie # None
    BY <1>2, HttpAssumption DEF TypeInv
  <2>2. \A cookie, r : Known(cookie, r) /\ cookie # answering.cookie =>
            cookie \in DOMAIN requests' /\ requests'[cookie] = r
    BY <1>1, <1>2 DEF HttpServerRespone, Restrict, Known
  <2>3. \A k \in 1..Len(queue) : queue[k].type = "recv" =>
            queue[k].cookie \in DOMAIN requests' /\ requests'[queue[k].cookie] = queue[k].of
    BY <1>1, <2>1, <2>2 DEF EntriesInv, EntriesKnown, AnswerKnown
  <2> QED
    BY <1>1, <2>3 DEF EntriesInv, EntriesKnown, CookiesDiffer, AnswerKnown, Known
<1>3. CASE answering.cookie \notin DOMAIN requests
  <2>1. requests' = requests
    BY <1>3 DEF HttpServerRespone
  <2> QED
    BY <1>1, <2>1 DEF EntriesInv, EntriesKnown, CookiesDiffer, AnswerKnown, Known
<1> QED
  BY <1>2, <1>3

LEMMA EntriesInvStep == TypeInv /\ CookiesInv /\ EntriesInv /\ [Next]_vars => EntriesInv'
<1> SUFFICES ASSUME TypeInv, CookiesInv, EntriesInv, [Next]_vars
             PROVE  EntriesInv'
  OBVIOUS
<1>1. ASSUME UNCHANGED <<taken, told, requests, queue, answering>>
      PROVE  EntriesInv'
  BY <1>1 DEF EntriesInv, EntriesKnown, CookiesDiffer, AnswerKnown, Known
<1>2. CASE Receive
  <2>1. taken = None /\ UNCHANGED <<requests, queue, answering>> /\ ~told'
    BY <1>2 DEF Receive, MutexFree
  <2> QED
    BY <2>1 DEF EntriesInv, EntriesKnown, CookiesDiffer, AnswerKnown, Known
<1>3. CASE Insert
  <2>1. /\ taken # None /\ taken' = None /\ ~told'
        /\ UNCHANGED <<queue, answering>>
        /\ taken.cookie \notin DOMAIN requests
    BY <1>3 DEF Insert, CookiesInv
  <2>2. \A cookie, r : Known(cookie, r) => cookie \in DOMAIN requests' /\ requests'[cookie] = r
    BY <1>3, <2>1 DEF Insert, Known
  <2>3. \A k \in 1..Len(queue) : queue[k].type = "recv" =>
            queue[k].cookie \in DOMAIN requests' /\ requests'[queue[k].cookie] = queue[k].of
    BY <2>2 DEF EntriesInv, EntriesKnown
  <2>4. answering # None /\ answering.cookie # None =>
            /\ answering.cookie \in DOMAIN requests'
            /\ requests'[answering.cookie] = answering.content
    BY <2>2 DEF EntriesInv, AnswerKnown
  <2>5. EntriesKnown' /\ CookiesDiffer'
    BY <2>1, <2>3 DEF EntriesInv, EntriesKnown, CookiesDiffer, Known
  <2>6. AnswerKnown'
    BY <2>1, <2>4 DEF EntriesInv, AnswerKnown, Known
  <2> QED
    BY <2>1, <2>5, <2>6 DEF EntriesInv
<1>4. CASE ClientMsgRespone
  <2>1. queue # <<>> /\ queue' = Tail(queue) /\ UNCHANGED <<taken, told, requests, answering>>
    BY <1>4 DEF ClientMsgRespone
  <2> QED
    BY <2>1, TailKeepsEntries DEF EntriesInv
<1>5. ASSUME NEW job \in running, WaitRespone(job)
      PROVE  EntriesInv'
  <2>1. job.of \in Calls
    BY <1>5 DEF WaitRespone, TypeInv, Jobs
  <2>2. PICK e \in {ReplyEntry(job.of, "200"), ReplyEntry(job.of, "0")} :
            queue' = Append(queue, e)
    BY <1>5 DEF WaitRespone, FailedFn
  <2>3. e \in Entries /\ e.type = "reply"
    BY <2>1 DEF ReplyEntry, Entries
  <2>4. UNCHANGED <<taken, told, requests, answering>>
    BY <1>5 DEF WaitRespone
  <2> QED
    BY <2>2, <2>3, <2>4, ReplyKeepsEntries
<1>6. ASSUME \/ \E r \in Requests : \/ \E part \in {"sending", "sent"} : ClientSends(r, part)
                                    \/ ClientEnds(r) \/ ClientLeaves(r)
             \/ Start \/ \E job \in running : WriteRespond(job)
             \/ \E c \in Calls : HttpRequest(c)
             \/ UNCHANGED vars
      PROVE  UNCHANGED <<taken, told, requests, queue, answering>>
  BY <1>6 DEF ClientSends, ClientEnds, ClientLeaves, Start, WriteRespond, HttpRequest, vars
<1> QED
  BY <1>1, <1>2, <1>3, <1>4, <1>5, <1>6, ApplyKeepsEntries, RecvKeepsEntries,
     ResponeKeepsEntries, Zenon DEF Next, Clients, Listen, Script, Pool

-----------------------------------------------------------------------------
(***************************************************************************)
(* Answers.                                                                *)
(***************************************************************************)
LEMMA OwnAnswersStep ==
    TypeInv /\ EntriesInv /\ OwnAnswers /\ [Next]_vars => OwnAnswers'
<1> SUFFICES ASSUME TypeInv, EntriesInv, OwnAnswers, [Next]_vars
             PROVE  OwnAnswers'
  OBVIOUS
<1>1. jobs \in Seq(OwnJob) /\ running \subseteq OwnJob
  BY DEF OwnAnswers
<1>2. ASSUME UNCHANGED <<jobs, running, answer>>
      PROVE  OwnAnswers'
  BY <1>2 DEF OwnAnswers, AnswersOwnRequest
<1>3. CASE HttpServerRespone
  <2>1. UNCHANGED <<running, answer>>
    BY <1>3 DEF HttpServerRespone
  <2>2. CASE answering.cookie \in DOMAIN requests
    <3>1. /\ answering # None /\ answering.cookie # None /\ taken = None
          /\ requests[answering.cookie] \in Requests
      BY <1>3, <2>2, HttpAssumption DEF HttpServerRespone, MutexFree, TypeInv
    <3>2. requests[answering.cookie] = answering.content
      BY <3>1 DEF EntriesInv, AnswerKnown, Known
    <3>3. Respond(requests[answering.cookie], answering.content) \in OwnJob
      BY <3>1, <3>2 DEF OwnJob
    <3>4. Append(jobs, Respond(requests[answering.cookie], answering.content)) \in Seq(OwnJob)
      BY <1>1, <3>3, AppendFacts
    <3> QED
      BY <1>3, <2>1, <2>2, <3>4 DEF HttpServerRespone, OwnAnswers, AnswersOwnRequest
  <2>3. CASE answering.cookie \notin DOMAIN requests
    BY <1>2, <1>3, <2>1, <2>3 DEF HttpServerRespone
  <2> QED
    BY <2>2, <2>3
<1>4. ASSUME NEW c \in Calls, HttpRequest(c)
      PROVE  OwnAnswers'
  <2>1. Ask(c) \in OwnJob
    BY DEF OwnJob
  <2>2. Append(jobs, Ask(c)) \in Seq(OwnJob)
    BY <1>1, <2>1, AppendFacts
  <2> QED
    BY <1>4, <2>2 DEF HttpRequest, OwnAnswers, AnswersOwnRequest
<1>5. CASE Start
  <2>1. jobs # <<>>
    BY <1>5 DEF Start
  <2>2. Head(jobs) \in OwnJob /\ Tail(jobs) \in Seq(OwnJob)
    BY <1>1, <2>1, TailFacts
  <2> QED
    BY <1>1, <1>5, <2>2 DEF Start, OwnAnswers, AnswersOwnRequest
<1>6. ASSUME NEW job \in running, WriteRespond(job)
      PROVE  OwnAnswers'
  <2>1. PICK r \in Requests : job = Respond(r, r)
    BY <1>1, <1>6 DEF WriteRespond, OwnJob, Ask
  <2>2. job.of = r /\ job.content = r
    BY <2>1 DEF Respond
  <2>3. answer' = answer \/ answer' = [answer EXCEPT ![r] = r]
    BY <1>6, <2>2 DEF WriteRespond
  <2>4. AnswersOwnRequest'
    <3>1. answer \in [Requests -> Requests \cup {None}] /\ AnswersOwnRequest
      BY DEF TypeInv, OwnAnswers
    <3> QED
      BY <2>3, <3>1 DEF AnswersOwnRequest
  <2> QED
    BY <1>1, <1>6, <2>4 DEF WriteRespond, OwnAnswers
<1>7. ASSUME NEW job \in running, WaitRespone(job)
      PROVE  OwnAnswers'
  BY <1>1, <1>7 DEF WaitRespone, OwnAnswers, AnswersOwnRequest
<1>8. ASSUME \/ Clients \/ Listen \/ ServerMsgRecv \/ ClientMsgRespone \/ UNCHANGED vars
      PROVE  UNCHANGED <<jobs, running, answer>>
  BY <1>8 DEF Clients, ClientSends, ClientEnds, ClientLeaves, Listen, Receive, Apply, Insert,
              ServerMsgRecv, ClientMsgRespone, vars
<1> QED
  BY <1>2, <1>3, <1>4, <1>5, <1>6, <1>7, <1>8, Zenon DEF Next, Script, Pool

-----------------------------------------------------------------------------
(***************************************************************************)
(* The handler of the repository looks for the cookie in its first         *)
(* argument, where the engine puts the method: every answer it writes is   *)
(* for no cookie, so no job of the pool is ever an answer and no request   *)
(* is ever taken out of the table.                                         *)
(***************************************************************************)
LEMMA SilentStep ==
    ASSUME CookieParam = 1
    PROVE  TypeInv /\ CookiesInv /\ SilentInv /\ [Next]_vars => SilentInv' /\ Keeps
<1> SUFFICES ASSUME TypeInv, CookiesInv, SilentInv, [Next]_vars
             PROVE  SilentInv' /\ Keeps
  OBVIOUS
<1>1. \A c \in Calls : Ask(c) \in Asks
  BY DEF Asks
<1>2. ASSUME UNCHANGED <<jobs, running, answering, requests>>,
             \A r \in Requests : request'[r] # "answered"
      PROVE  SilentInv' /\ Keeps
  BY <1>2 DEF SilentInv, NobodyAnswered, Keeps
<1>3. CASE Clients
  <2>1. request \in [Requests -> {"none", "sending", "sent", "gone", "answered"}]
    BY DEF TypeInv
  <2> QED
    BY <1>2, <1>3, <2>1
       DEF Clients, ClientSends, ClientEnds, ClientLeaves, SilentInv, NobodyAnswered
<1>4. CASE Receive \/ Apply
  BY <1>2, <1>4 DEF Receive, Apply, SilentInv, NobodyAnswered
<1>5. CASE Insert
  BY <1>5 DEF Insert, CookiesInv, SilentInv, NobodyAnswered, Keeps
<1>6. CASE ServerMsgRecv
  <2>1. Args[CookieParam] # "cookie"
    BY DEF Args
  <2>2. answering'.cookie = None
    BY <1>6, <2>1 DEF ServerMsgRecv
  <2> QED
    BY <1>6, <2>2 DEF ServerMsgRecv, SilentInv, NobodyAnswered, Keeps
<1>7. CASE HttpServerRespone
  <2>1. answering.cookie \notin DOMAIN requests
    BY <1>7, HttpAssumption DEF HttpServerRespone, SilentInv, TypeInv
  <2> QED
    BY <1>7, <2>1 DEF HttpServerRespone, SilentInv, NobodyAnswered, Keeps
<1>8. CASE ClientMsgRespone
  BY <1>2, <1>8 DEF ClientMsgRespone, SilentInv, NobodyAnswered
<1>9. ASSUME NEW c \in Calls, HttpRequest(c)
      PROVE  SilentInv' /\ Keeps
  <2>1. Append(jobs, Ask(c)) \in Seq(Asks)
    BY <1>1, AppendFacts DEF SilentInv
  <2> QED
    BY <1>9, <2>1 DEF HttpRequest, SilentInv, NobodyAnswered, Keeps
<1>10. CASE Start
  <2>1. Head(jobs) \in Asks /\ Tail(jobs) \in Seq(Asks)
    BY <1>10, TailFacts DEF Start, SilentInv
  <2> QED
    BY <1>10, <2>1 DEF Start, SilentInv, NobodyAnswered, Keeps
<1>11. ASSUME NEW job \in running, WriteRespond(job) \/ WaitRespone(job)
       PROVE  SilentInv' /\ Keeps
  <2>1. job.type = "ask"
    BY DEF SilentInv, Asks, Ask
  <2> QED
    BY <1>11, <2>1 DEF WriteRespond, WaitRespone, SilentInv, NobodyAnswered, Keeps
<1>12. CASE UNCHANGED vars
  BY <1>2, <1>12 DEF vars, SilentInv, NobodyAnswered
<1> QED
  BY <1>3, <1>4, <1>5, <1>6, <1>7, <1>8, <1>9, <1>10, <1>11, <1>12, Zenon
     DEF Next, Listen, Script, Pool

-----------------------------------------------------------------------------
(***************************************************************************)
(* The theorems.                                                           *)
(***************************************************************************)
HttpInv == TypeInv /\ CookiesInv /\ EntriesInv /\ OwnAnswers

LEMMA HttpInvHolds == Spec => []HttpInv
<1>1. Init => HttpInv
  <2> SUFFICES ASSUME Init
               PROVE  HttpInv
    OBVIOUS
  <2>1. TypeInv
    BY TypeInvInit
  <2>2. /\ incoming = <<>> /\ jobs = <<>> /\ queue = <<>> /\ running = {}
        /\ taken = None /\ ~told /\ answering = None /\ answer = [r \in Requests |-> None]
    BY DEF Init
  <2>3. Len(<<>>) = 0 /\ <<>> \in Seq(OwnJob)
    BY EmptySeq
  <2>4. 0 <= MaxCookie
    BY Sizes
  <2>5. CookiesInv
    BY <2>2, <2>3, <2>4 DEF CookiesInv
  <2>6. EntriesInv
    BY <2>2, <2>3 DEF EntriesInv, EntriesKnown, CookiesDiffer, AnswerKnown
  <2>7. OwnAnswers
    BY <2>2, <2>3 DEF OwnAnswers, AnswersOwnRequest
  <2> QED
    BY <2>1, <2>5, <2>6, <2>7 DEF HttpInv
<1>2. HttpInv /\ [Next]_vars => HttpInv'
  BY TypeInvStep, CookiesInvStep, EntriesInvStep, OwnAnswersStep DEF HttpInv
<1> QED
  BY <1>1, <1>2, PTL DEF Spec

LEMMA TypesOfHttp == TypeInv => TypeOK
<1> SUFFICES ASSUME TypeInv
             PROVE  TypeOK
  OBVIOUS
<1>1. Jobs \subseteq Job
  BY DEF Jobs, Job
<1>2. jobs \in Seq(Job) /\ running \subseteq Job
  BY <1>1, SeqMonotonic DEF TypeInv
<1>3. Range(requests) \subseteq Requests
  BY DEF TypeInv, Range
<1>4. answering = None \/ answering.cookie \in Cookies \cup {None}
  BY DEF TypeInv, Answering
<1>5. taken = None \/ taken \in [of : Requests, cookie : Cookies]
  BY DEF TypeInv, Taken
<1> QED
  BY <1>2, <1>3, <1>4, <1>5 DEF TypeInv, TypeOK

\* The tables of the server are well typed, for requests and threads of any
\* number and wherever the script looks for the cookie.
THEOREM TypesHold == Spec => []TypeOK
  BY HttpInvHolds, TypesOfHttp, PTL DEF HttpInv

\* An answer reaches the request it was written for (new_request_receive,
\* http_server_respone), though cookies come again, and wherever the script
\* looks for the cookie.
THEOREM AnswersReachOwn == Spec => []AnswersOwnRequest
<1>1. HttpInv => AnswersOwnRequest
  BY DEF HttpInv, OwnAnswers
<1> QED
  BY <1>1, HttpInvHolds, PTL

\* With the handler as it is in the repository (global_comm.lua:403 reads the first
\* of the arguments that lua_engine.rs:304-311 passes) nobody is ever answered, and
\* what new_request_receive has kept stays in the table as long as no cookie comes
\* a second time.
THEOREM NobodyIsAnswered ==
    ASSUME CookieParam = 1
    PROVE  Spec => []NobodyAnswered /\ [][Keeps]_vars
<1>1. Init => SilentInv
  <2>1. <<>> \in Seq(Asks)
    BY EmptySeq
  <2> QED
    BY <2>1 DEF Init, SilentInv, NobodyAnswered
<1>2. HttpInv /\ SilentInv /\ [Next]_vars => SilentInv' /\ Keeps
  BY SilentStep DEF HttpInv
<1>3. SilentInv => NobodyAnswered
  BY DEF SilentInv
<1> QED
  BY <1>1, <1>2, <1>3, HttpInvHolds, PTL DEF Spec
=============================================================================
