------------------------------- MODULE Http -------------------------------
(***************************************************************************)
(* HTTP, both ways: HttpMgr of src/mgr/http_mgr.rs, its entries in         *)
(* exec_list of src/lua_engine.rs and the script's handlers                *)
(* http_server_msg_recv and http_client_msg_respone of                     *)
(* scripts/global/base/global_comm.lua.                                    *)
(*                                                                         *)
(* The listening thread takes one request at a time: it locks the mutex,   *)
(* takes a cookie, reads the body, tells the script and only then keeps    *)
(* the request under its cookie.  The script answers by cookie, for which  *)
(* it needs the mutex too; a thread of the pool "http" writes the answer.  *)
(* What the script asks of other servers is asked by threads of the same   *)
(* pool, and answered by cookie as well.                                   *)
(***************************************************************************)
EXTENDS Naturals, FiniteSets, SequencesExt

CONSTANTS
    Requests,   \* requests that other programs make of this server
    Calls,      \* requests the script makes of other servers; they are the cookies
    MaxCookie,  \* the last cookie: u32::max_value() - 999 in the code
    Threads,    \* threads of the pool: 10 in the code
    CookieParam,\* which parameter of http_server_msg_recv is the cookie: 1 in the code
    None

Cookies == 1..MaxCookie

ASSUME HttpAssumption ==
    /\ Requests \cap Calls = {}
    /\ MaxCookie \in Nat \ {0} /\ Threads \in Nat \ {0}
    /\ CookieParam \in 1..6
    \* None is nothing else.
    /\ None \notin Requests \cup Calls \cup Cookies
    /\ None \notin [of : Requests, cookie : Cookies]
    /\ None \notin [cookie : Cookies \cup {None}, content : Requests]

\* What execute_http_func calls http_server_msg_recv with.
Args == <<"method", "headers", "cookie", "url", "body", "remote_addr">>

VARIABLES
    \* other programs
    request,    \* of each request: how far it is
    incoming,   \* requests the listening thread has not taken
    \* HttpMgr
    data,       \* the number in the mutex: the last cookie
    taken,      \* the request the listening thread holds the mutex for, and its cookie
    told,       \* it has told the script
    requests,   \* HttpMgr::requests, by cookie
    jobs,       \* waiting for a thread of the pool
    running,    \* jobs that have one
    \* the script
    queue,      \* exec_list
    answering,  \* the call of http_server_respone it is in
    \* history
    answer,     \* what each request was answered
    reply       \* what each call was answered

vars == <<request, incoming, data, taken, told, requests, jobs, running,
          queue, answering, answer, reply>>

Respond(r, content) == [type |-> "respond", of |-> r, content |-> content]
Ask(c) == [type |-> "ask", of |-> c, content |-> None]
Job == [type : {"respond", "ask"}, of : Requests \cup Calls, content : Requests \cup {None}]

RecvEntry(r, cookie) == [type |-> "recv", of |-> r, cookie |-> cookie, status |-> None]
ReplyEntry(c, status) == [type |-> "reply", of |-> None, cookie |-> c, status |-> status]

TypeOK ==
    /\ request \in [Requests -> {"none", "sending", "sent", "gone", "answered"}]
    /\ incoming \in Seq(Requests)
    /\ data \in 0..MaxCookie
    /\ taken = None \/ taken \in [of : Requests, cookie : Cookies]
    /\ told \in BOOLEAN
    /\ DOMAIN requests \subseteq Cookies /\ Range(requests) \subseteq Requests
    /\ jobs \in Seq(Job) /\ running \subseteq Job
    /\ Cardinality(running) <= Threads
    /\ answering = None \/ answering.cookie \in Cookies \cup {None}
    /\ answer \in [Requests -> Requests \cup {None}]
    /\ reply \in [Calls -> {"not asked", "asked", "0", "200"}]

Init ==
    /\ request = [r \in Requests |-> "none"]
    /\ incoming = <<>>
    /\ data = 0
    /\ taken = None /\ told = FALSE
    /\ requests = <<>>
    /\ jobs = <<>> /\ running = {}
    /\ queue = <<>>
    /\ answering = None
    /\ answer = [r \in Requests |-> None]
    /\ reply = [c \in Calls |-> "not asked"]

-----------------------------------------------------------------------------
(***************************************************************************)
(* Other programs.                                                         *)
(***************************************************************************)

\* The cookie the next request will have: no request is open for so long that as
\* many others come as there are cookies.
CookieToCome == ((data + Len(incoming)) % MaxCookie) + 1
CookiesInUse == DOMAIN requests \cup {IF taken = None THEN 0 ELSE taken.cookie}

\* The head of a request is here; of the body, all or a part.
ClientSends(r, part) ==
    /\ request[r] = "none"
    /\ Len(incoming) < MaxCookie /\ CookieToCome \notin CookiesInUse
    /\ request' = [request EXCEPT ![r] = part]
    /\ incoming' = Append(incoming, r)
    /\ UNCHANGED <<data, taken, told, requests, jobs, running, queue, answering,
                   answer, reply>>

\* The rest of the body.
ClientEnds(r) ==
    /\ request[r] = "sending"
    /\ request' = [request EXCEPT ![r] = "sent"]
    /\ UNCHANGED <<incoming, data, taken, told, requests, jobs, running, queue,
                   answering, answer, reply>>

ClientLeaves(r) ==
    /\ request[r] \in {"sending", "sent"}
    /\ request' = [request EXCEPT ![r] = "gone"]
    /\ UNCHANGED <<incoming, data, taken, told, requests, jobs, running, queue,
                   answering, answer, reply>>

-----------------------------------------------------------------------------
(***************************************************************************)
(* The listening thread: start_listen, new_request_receive.                *)
(***************************************************************************)

\* Slip: the mutex is only held until the script is told.
MutexFreeWhenTold == taken = None \/ told

MutexFree == taken = None

\* Slip: the last cookie is given again and again.
NextCookieStays == IF data > MaxCookie - 1 THEN data ELSE data + 1

NextCookie == (IF data > MaxCookie - 1 THEN 0 ELSE data) + 1

Receive ==
    /\ incoming # <<>>
    /\ MutexFree
    /\ data' = NextCookie
    /\ taken' = [of |-> Head(incoming), cookie |-> data']
    /\ told' = FALSE
    /\ incoming' = Tail(incoming)
    /\ UNCHANGED <<request, requests, jobs, running, queue, answering, answer, reply>>

\* The body is read, as far as it comes.
Apply ==
    /\ taken # None /\ ~ told
    /\ request[taken.of] # "sending"
    /\ queue' = Append(queue, RecvEntry(taken.of, taken.cookie))
    /\ told' = TRUE
    /\ UNCHANGED <<request, incoming, data, taken, requests, jobs, running,
                   answering, answer, reply>>

Insert ==
    /\ taken # None /\ told
    /\ requests' = [c \in DOMAIN requests \cup {taken.cookie} |->
                        IF c = taken.cookie THEN taken.of ELSE requests[c]]
    /\ taken' = None /\ told' = FALSE
    /\ UNCHANGED <<request, incoming, data, jobs, running, queue, answering, answer,
                   reply>>

-----------------------------------------------------------------------------
(***************************************************************************)
(* The script thread.                                                      *)
(***************************************************************************)

Entry == Head(queue)

\* http_server_msg_recv takes one of its arguments for the cookie; all others are
\* no number.  The answer says which request was read.
ServerMsgRecv ==
    /\ answering = None
    /\ queue # <<>> /\ Entry.type = "recv"
    /\ answering' = [cookie |-> IF Args[CookieParam] = "cookie" THEN Entry.cookie ELSE None,
                     content |-> Entry.of]
    /\ queue' = Tail(queue)
    /\ UNCHANGED <<request, incoming, data, taken, told, requests, jobs, running,
                   answer, reply>>

HttpServerRespone ==
    /\ answering # None
    /\ MutexFree
    /\ IF answering.cookie \in DOMAIN requests
       THEN /\ jobs' = Append(jobs, Respond(requests[answering.cookie], answering.content))
            /\ requests' = Restrict(requests, DOMAIN requests \ {answering.cookie})
       ELSE UNCHANGED <<jobs, requests>>
    /\ answering' = None
    /\ UNCHANGED <<request, incoming, data, taken, told, running, queue, answer, reply>>

\* http_get_request, http_post_request: from any handler of the script.
HttpRequest(c) ==
    /\ answering = None
    /\ reply[c] = "not asked"
    /\ reply' = [reply EXCEPT ![c] = "asked"]
    /\ jobs' = Append(jobs, Ask(c))
    /\ UNCHANGED <<request, incoming, data, taken, told, requests, running, queue,
                   answering, answer>>

ClientMsgRespone ==
    /\ answering = None
    /\ queue # <<>> /\ Entry.type = "reply"
    /\ reply' = [reply EXCEPT ![Entry.cookie] = Entry.status]
    /\ queue' = Tail(queue)
    /\ UNCHANGED <<request, incoming, data, taken, told, requests, jobs, running,
                   answering, answer>>

-----------------------------------------------------------------------------
(***************************************************************************)
(* The threads of the pool.                                                *)
(***************************************************************************)

Start ==
    /\ jobs # <<>>
    /\ Cardinality(running) < Threads
    /\ running' = running \cup {Head(jobs)}
    /\ jobs' = Tail(jobs)
    /\ UNCHANGED <<request, incoming, data, taken, told, requests, queue, answering,
                   answer, reply>>

\* Whether it fails is of no interest to request.respond(..).
WriteRespond(job) ==
    /\ job \in running /\ job.type = "respond"
    /\ running' = running \ {job}
    /\ IF request[job.of] = "gone" THEN UNCHANGED <<request, answer>>
       ELSE /\ request' = [request EXCEPT ![job.of] = "answered"]
            /\ answer' = [answer EXCEPT ![job.of] = job.content]
    /\ UNCHANGED <<incoming, data, taken, told, requests, jobs, queue, answering, reply>>

\* Slip: a request that cannot be sent is not told of.
FailedFnForgotten(c) == queue

FailedFn(c) == Append(queue, ReplyEntry(c, "0"))

\* The other server answers, or it cannot be reached, breaks off or lets the
\* time run out.
WaitRespone(job) ==
    /\ job \in running /\ job.type = "ask"
    /\ running' = running \ {job}
    /\ \/ queue' = Append(queue, ReplyEntry(job.of, "200"))
       \/ queue' = FailedFn(job.of)
    /\ UNCHANGED <<request, incoming, data, taken, told, requests, jobs, answering,
                   answer, reply>>

-----------------------------------------------------------------------------

Clients == \E r \in Requests : (\E part \in {"sending", "sent"} : ClientSends(r, part))
                               \/ ClientEnds(r) \/ ClientLeaves(r)
Listen == Receive \/ Apply \/ Insert
Script == ServerMsgRecv \/ HttpServerRespone \/ ClientMsgRespone
Pool == Start \/ \E job \in running : WriteRespond(job) \/ WaitRespone(job)

Next == Clients \/ Listen \/ Script \/ Pool \/ \E c \in Calls : HttpRequest(c)

\* The threads run; a client sends its body or leaves, for the body is waited
\* for as long as it takes.
Fairness ==
    /\ WF_vars(Listen) /\ WF_vars(Script) /\ WF_vars(Start)
    /\ \A r \in Requests :
          WF_vars(request[r] = "sending" /\ (ClientEnds(r) \/ ClientLeaves(r)))
    /\ \A r \in Requests : WF_vars(\E job \in running : job.of = r /\ WriteRespond(job))
    /\ \A c \in Calls : WF_vars(\E job \in running : job.of = c /\ WaitRespone(job))

Spec == Init /\ [][Next]_vars /\ Fairness

-----------------------------------------------------------------------------
(***************************************************************************)
(* Properties.                                                             *)
(***************************************************************************)

\* An answer reaches the request it was written for, though cookies come again
\* and the script may answer before new_request_receive has kept the request.
AnswersOwnRequest == \A r \in Requests : answer[r] \in {None, r}

\* A request that is kept under a cookie is one the script still has to answer:
\* it is in exec_list or being answered, so the table empties itself.
KeptRequestsAreDue ==
    \A cookie \in DOMAIN requests :
        \/ answering # None /\ answering.cookie = cookie
        \/ \E k \in DOMAIN queue : queue[k].type = "recv" /\ queue[k].cookie = cookie

RequestsInv == TypeOK /\ KeptRequestsAreDue

\* Every client that waits is answered, and so is every call of the script,
\* however many others the threads and the mutex are busy with.
EveryoneIsAnswered ==
    /\ \A r \in Requests : request[r] = "sent" ~> request[r] \in {"answered", "gone"}
    /\ \A c \in Calls : reply[c] = "asked" ~> reply[c] \in {"0", "200"}
=============================================================================
