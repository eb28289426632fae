------------------------------- MODULE Redis -------------------------------
(***************************************************************************)
(* Redis, as the scripts use it: REDIS_D of scripts/server/daemons, the    *)
(* calls of src/lua_custom/lua_db.rs and the RedisPool of                  *)
(* src/db/redis_pool.rs.                                                   *)
(*                                                                         *)
(* One thread, the pool "redis", runs the commands of the scripts and the  *)
(* commands about the subscription; the script thread runs the synchronous *)
(* ones itself.  Both take connections from db_redis.  Messages of the     *)
(* subscription are read by a loop on the one thread of "redis_sub" and    *)
(* put in a channel which the script empties every 100 ms.  Nothing can    *)
(* interrupt a loop that waits for a message: a new subscription gets a    *)
(* connection, a channel and a loop of its own, which waits for its turn.  *)
(***************************************************************************)
EXTENDS Naturals, FiniteSets, SequencesExt

CONSTANTS
    MaxCommands,    \* bound: commands the scripts ask
    MaxStarts,      \* bound: how often start_psubscribe is called; once in the scripts
    MaxAsks,        \* bound: how many commands and calls of start_psubscribe in all
    MaxMessages,    \* bound: messages published on the channels
    MaxLosses,      \* bound: connections of the subscription that are lost
    None

Commands == 1..MaxCommands   \* in the order they are asked; the number is the cookie
Failed == 0                 \* an error instead of a reply
Conns == 1..3               \* two are enough, as TypeOK says
Subs == 1..(2 * MaxStarts)  \* connections of the subscription, in their order
Messages == 1..MaxMessages

\* None is nothing else.
ASSUME RedisAssumption ==
    /\ MaxCommands \in Nat /\ MaxMessages \in Nat /\ MaxLosses \in Nat
    /\ {MaxStarts, MaxAsks} \subseteq Nat \ {0}
    /\ None \notin Commands \cup {Failed} \cup Conns \cup Subs
    /\ None \notin [of : Commands, conn : Conns]

VARIABLES
    \* the scripts
    asked,      \* how each command was asked
    waiting,    \* keys of cookie_map
    answer,     \* history: what came of each command
    sync,       \* the script thread's own call of Redis
    starts,     \* calls of start_psubscribe
    got,        \* history: messages given to deal_with_respone_list
    \* exec_list
    events,
    \* the pool "redis" and db_redis
    jobs, job, at, held,
    idle,       \* db_redis
    stream,     \* of each connection: replies on their way
    broken,     \* connections that are of no more use
    \* the subscription
    pubsub,     \* its connections
    subConnect, subFd, subReceiver,
    run,        \* of each loop: its sub_thread_run
    channel,    \* of each loop: its channel
    loops, loop, loopAt,
    \* Redis, the network and the files
    published, losses,
    unread      \* history: the commands whose script file could not be read

commandVars == <<asked, waiting, answer, sync, events, idle, stream, broken>>
subVars == <<pubsub, subConnect, subFd, subReceiver, run, channel>>
loopVars == <<loops, loop, loopAt>>
outside == <<published, losses, unread>>
threadVars == <<jobs, job, at, held>>
vars == <<commandVars, starts, got, subVars, loopVars, outside, threadVars>>

NoPubSub == [state |-> "none", closed |-> FALSE, subscribed |-> FALSE, socket |-> <<>>,
             since |-> 0]
NoJob == [type |-> "none", of |-> None]

TypeOK ==
    /\ asked \in [Commands -> {"not asked", "command", "script", "sync"}
                                \X BOOLEAN]
    /\ waiting \subseteq {c \in Commands : asked[c][2] /\ answer[c] = None}
    /\ answer \in [Commands -> Commands \cup {None, Failed}]
    /\ jobs \in Seq([type : {"command", "script", "PUNSUBSCRIBE", "PSUBSCRIBE"},
                     of : Commands \cup {None}])
    /\ at \in {"idle", "receive", "release", "connect", "operate", "start"}
    \* No more connections than the two threads that use them.
    /\ idle \in Seq(Conns) /\ Len(idle) <= 2
    /\ subConnect \in Subs \cup {None} /\ subReceiver \in Subs \cup {None}
    /\ subFd \in Subs \cup {None}
    /\ \A p \in Subs : pubsub[p].state \in {"none", "up", "lost", "failed"}
    /\ loops \in Seq(Subs) /\ loop \in Subs \cup {None}
    /\ loopAt \in {"idle", "enter", "wait", "check"}
    /\ unread \subseteq Commands

Init ==
    /\ asked = [c \in Commands |-> <<"not asked", FALSE>>]
    /\ waiting = {}
    /\ answer = [c \in Commands |-> None]
    /\ sync = None
    /\ starts = 0 /\ got = <<>> /\ events = <<>>
    /\ jobs = <<>> /\ job = NoJob /\ at = "idle" /\ held = None
    /\ idle = <<>> /\ broken = {}
    /\ stream = [c \in Conns |-> <<>>]
    /\ pubsub = [p \in Subs |-> NoPubSub]
    /\ subConnect = None /\ subFd = None /\ subReceiver = None
    /\ run = [p \in Subs |-> FALSE]
    /\ channel = [p \in Subs |-> <<>>]
    /\ loops = <<>> /\ loop = None /\ loopAt = "idle"
    /\ published = 0 /\ losses = 0 /\ unread = {}

-----------------------------------------------------------------------------
(***************************************************************************)
(* db_redis.  A command on a connection is sent and its reply awaited: the *)
(* replies of a connection come in the order of the commands.              *)
(***************************************************************************)
Fresh == Min({c \in Conns : c \notin Range(idle) /\ c # held
                            /\ (sync = None \/ sync.conn # c)})

\* Slip: the connection is used where it is.
IdleAfterLook == idle
IdleAfterPop == Front(idle)

\* get_redis_connection
Taken == IF idle = <<>> THEN [conn |-> Fresh, idle |-> idle]
                        ELSE [conn |-> Last(idle), idle |-> IdleAfterPop]

\* Command x is sent on the connection taken; a new one has nothing to come.
Send(x) ==
    LET c == Taken.conn
        old == idle # <<>> /\ c \in Range(idle)
    IN  /\ idle' = Taken.idle
        /\ stream' = [stream EXCEPT ![c] = (IF old THEN @ ELSE <<>>) \o <<x>>]
        /\ broken' = IF old THEN broken ELSE broken \ {c}

\* What may come of it: the next reply, an error the server replies, or an error
\* of the connection.
Replies(c) ==
    {[value |-> Failed, stream |-> <<>>, broken |-> TRUE]}
        \cup IF c \in broken \/ stream[c] = <<>> THEN {}
             ELSE {[value |-> v, stream |-> Tail(stream[c]), broken |-> FALSE] :
                      v \in {Head(stream[c]), Failed}}

Received(c, r) ==
    /\ stream' = [stream EXCEPT ![c] = r.stream]
    /\ broken' = IF r.broken THEN broken \cup {c} ELSE broken

-----------------------------------------------------------------------------
(***************************************************************************)
(* The script thread.                                                      *)
(***************************************************************************)

Asked == {c \in Commands : asked[c][1] # "not asked"}
NextCommand(c) == c = Cardinality(Asked) + 1
Asks == starts + Cardinality(Asked)

\* run_command, run_command_with_call, run_script_with_call
RunCommand(c, type, callback) ==
    /\ sync = None
    /\ NextCommand(c) /\ Asks < MaxAsks
    /\ asked' = [asked EXCEPT ![c] = <<type, callback>>]
    /\ waiting' = IF callback THEN waiting \cup {c} ELSE waiting
    /\ jobs' = Append(jobs, [type |-> type, of |-> c])
    /\ UNCHANGED <<answer, sync, events, idle, stream, broken, starts, got, subVars,
                   loopVars, outside, job, at, held>>

RunCommandSync(c) ==
    /\ sync = None
    /\ NextCommand(c) /\ Asks < MaxAsks
    /\ asked' = [asked EXCEPT ![c] = <<"sync", FALSE>>]
    /\ sync' = [of |-> c, conn |-> Taken.conn]
    /\ Send(c)
    /\ UNCHANGED <<waiting, answer, events, starts, got, subVars, loopVars, outside,
                   threadVars>>

\* The connection goes back, whatever came of the command.
FinishSync ==
    /\ sync # None
    /\ \E r \in Replies(sync.conn) :
          /\ Received(sync.conn, r)
          /\ answer' = [answer EXCEPT ![sync.of] = r.value]
    /\ idle' = Append(idle, sync.conn)
    /\ sync' = None
    /\ UNCHANGED <<asked, waiting, events, starts, got, subVars, loopVars, outside,
                   threadVars>>

NotifyOperationResult ==
    /\ sync = None /\ events # <<>>
    /\ events' = Tail(events)
    /\ LET e == Head(events)
       IN  IF e.cookie \in waiting
           THEN /\ waiting' = waiting \ {e.cookie}
                /\ answer' = [answer EXCEPT ![e.cookie] = e.value]
           ELSE UNCHANGED <<waiting, answer>>
    /\ UNCHANGED <<asked, sync, idle, stream, broken, starts, got, subVars, loopVars,
                   outside, threadVars>>

StartPsubscribe ==
    /\ sync = None
    /\ starts < MaxStarts /\ Asks < MaxAsks
    /\ starts' = starts + 1
    /\ jobs' = jobs \o <<[type |-> "PUNSUBSCRIBE", of |-> None],
                         [type |-> "PSUBSCRIBE", of |-> None]>>
    /\ UNCHANGED <<commandVars, got, subVars, loopVars, outside, job, at, held>>

\* Slip: each message is put before those already taken.
DrainedFrom(p) == Reverse(channel[p])
Drained(p) == channel[p]

\* time_update of redis_queued, redis_subs_get_reply
SubsGetReply ==
    /\ sync = None
    /\ subReceiver # None /\ channel[subReceiver] # <<>>
    /\ got' = got \o Drained(subReceiver)
    /\ channel' = [channel EXCEPT ![subReceiver] = <<>>]
    /\ UNCHANGED <<commandVars, starts, pubsub, subConnect, subFd, subReceiver, run,
                   loopVars, outside, threadVars>>

-----------------------------------------------------------------------------
(***************************************************************************)
(* The thread of the pool "redis": commands.                               *)
(***************************************************************************)

Begin ==
    /\ at = "idle" /\ jobs # <<>>
    /\ Head(jobs).type \in {"command", "script"}
    /\ job' = Head(jobs) /\ jobs' = Tail(jobs)
    /\ held' = Taken.conn
    /\ Send(job'.of)
    /\ at' = "receive"
    /\ UNCHANGED <<asked, waiting, answer, sync, events, starts, got, subVars,
                   loopVars, outside>>

\* redis_run_script: the file of the script cannot be read, and nobody is told.
ScriptUnread ==
    /\ at = "idle" /\ jobs # <<>>
    /\ Head(jobs).type = "script"
    /\ jobs' = Tail(jobs)
    /\ unread' = unread \cup {Head(jobs).of}
    /\ UNCHANGED <<commandVars, starts, got, subVars, loopVars, published, losses,
                   job, at, held>>

\* Slip: only what went well is told.
ResultIfOk(v) ==
    IF asked[job.of][2] /\ v # Failed THEN Append(events, [cookie |-> job.of, value |-> v])
                                       ELSE events
Result(v) ==
    IF asked[job.of][2] THEN Append(events, [cookie |-> job.of, value |-> v]) ELSE events

\* A command gives its connection back if it was answered well; a script does
\* unless there was no connection for its slot.
Receive ==
    /\ at = "receive"
    /\ \E r \in Replies(held) :
          /\ Received(held, r)
          /\ events' = Result(r.value)
          /\ \/ /\ r.value # Failed \/ job.type = "script"
                /\ at' = "release" /\ UNCHANGED <<job, held>>
             \/ /\ r.value = Failed /\ (job.type = "command" \/ r.broken)
                /\ at' = "idle" /\ job' = NoJob /\ held' = None
    /\ UNCHANGED <<asked, waiting, answer, sync, idle, starts, got, subVars, loopVars,
                   outside, jobs>>

Release ==
    /\ at = "release"
    /\ idle' = Append(idle, held)
    /\ at' = "idle" /\ job' = NoJob /\ held' = None
    /\ UNCHANGED <<asked, waiting, answer, sync, events, stream, broken, starts, got,
                   subVars, loopVars, outside, jobs>>

-----------------------------------------------------------------------------
(***************************************************************************)
(* The same thread: commands about the subscription.                       *)
(***************************************************************************)
HasReader(p) == loop = p /\ loopAt = "wait"

Shut(p) == [pubsub[p] EXCEPT !.closed = TRUE, !.subscribed = FALSE, !.socket = <<>>]

\* drop_fd.  A reader that is waiting in the socket keeps it open.
Closed(p) == IF HasReader(p) THEN [pubsub[p] EXCEPT !.closed = TRUE] ELSE Shut(p)

\* stop_recv_sub_msg
StopRecv ==
    /\ at = "idle" /\ jobs # <<>>
    /\ Head(jobs).type \in {"PUNSUBSCRIBE", "PSUBSCRIBE"}
    /\ job' = Head(jobs) /\ jobs' = Tail(jobs)
    /\ at' = "connect"
    /\ IF subReceiver = None THEN UNCHANGED <<run, channel, subConnect, subReceiver>>
       ELSE /\ run' = [run EXCEPT ![subReceiver] = FALSE]
            /\ channel' = [channel EXCEPT ![subReceiver] = <<>>]
            /\ subConnect' = None /\ subReceiver' = None
    /\ UNCHANGED <<commandVars, starts, got, pubsub, subFd, loopVars, outside, held>>

IsWork(p) == p # None /\ pubsub[p].state # "failed"
NextSub == Cardinality({p \in Subs : pubsub[p].state # "none"}) + 1

\* The rest of get_sub_connection.  Without a connection the command ends.
SubConnect ==
    /\ at = "connect"
    /\ \/ /\ IsWork(subConnect)
          /\ at' = "operate"
          /\ UNCHANGED <<pubsub, subConnect, subFd, job>>
       \/ /\ ~ IsWork(subConnect)
          /\ pubsub' = [p \in Subs |->
                CASE p = NextSub -> [NoPubSub EXCEPT !.state = "up"]
                  [] p = subFd   -> Closed(p)
                  [] OTHER       -> pubsub[p]]
          /\ subConnect' = NextSub /\ subFd' = NextSub
          /\ at' = "operate" /\ UNCHANGED job
       \/ /\ ~ IsWork(subConnect)           \* there is no connection to be had
          /\ IF subConnect = None THEN at' = "idle" /\ job' = NoJob
                                  ELSE at' = "operate" /\ UNCHANGED job
          /\ UNCHANGED <<pubsub, subConnect, subFd>>
    /\ UNCHANGED <<commandVars, starts, got, subReceiver, run, channel, loopVars,
                   outside, jobs, held>>

\* Slip: the loop is started for SUBSCRIBE alone.
StartsRecvSubscribe(op) == op = "SUBSCRIBE"
StartsRecv(op) == op \in {"SUBSCRIBE", "PSUBSCRIBE"}

Operate ==
    /\ at = "operate"
    /\ pubsub' = [pubsub EXCEPT ![subConnect] =
          IF @.state # "up" THEN [@ EXCEPT !.state = "failed"]
          ELSE IF job.type = "PSUBSCRIBE"
               THEN [@ EXCEPT !.subscribed = TRUE, !.since = published]
               ELSE [@ EXCEPT !.subscribed = FALSE]]
    /\ IF StartsRecv(job.type) THEN at' = "start" /\ UNCHANGED job
                               ELSE at' = "idle" /\ job' = NoJob
    /\ UNCHANGED <<commandVars, starts, got, subConnect, subFd, subReceiver, run,
                   channel, loopVars, outside, jobs, held>>

IsSubWork == subReceiver # None /\ run[subReceiver]

\* start_recv_sub_msg
StartRecv ==
    /\ at = "start"
    /\ at' = "idle" /\ job' = NoJob
    /\ IF IsSubWork \/ subConnect = None
       THEN UNCHANGED <<subConnect, subReceiver, run, loops>>
       ELSE /\ subReceiver' = subConnect
            /\ run' = [run EXCEPT ![subConnect] = TRUE]
            /\ loops' = Append(loops, subConnect)
            /\ subConnect' = None
    /\ UNCHANGED <<commandVars, starts, got, pubsub, subFd, channel, loop, loopAt,
                   outside, jobs, held>>

-----------------------------------------------------------------------------
(***************************************************************************)
(* The thread of the pool "redis_sub": the receive loops.                  *)
(***************************************************************************)
loopSame == <<commandVars, starts, got, subConnect, subFd, subReceiver, outside,
              threadVars>>

LoopStart ==
    /\ loop = None /\ loops # <<>>
    /\ loop' = Head(loops) /\ loops' = Tail(loops)
    /\ loopAt' = "enter"
    /\ UNCHANGED <<loopSame, pubsub, run, channel>>

\* The loop's end drops its connection.
LoopEnds ==
    /\ loop' = None /\ loopAt' = "idle"
    /\ pubsub' = [pubsub EXCEPT ![loop] = Shut(loop)]

\* get_message is called: a descriptor that was closed is an error at once.
LoopEnter ==
    /\ loopAt = "enter"
    /\ IF pubsub[loop].closed THEN LoopEnds /\ run' = [run EXCEPT ![loop] = FALSE]
       ELSE loopAt' = "wait" /\ UNCHANGED <<loop, pubsub, run>>
    /\ UNCHANGED <<loopSame, loops, channel>>

\* A message.  It is sent for nothing once the receiver is gone.
LoopGet ==
    /\ loopAt = "wait" /\ pubsub[loop].socket # <<>>
    /\ pubsub' = [pubsub EXCEPT ![loop].socket = Tail(@)]
    /\ channel' = IF subReceiver = loop
                  THEN [channel EXCEPT ![loop] = Append(@, Head(pubsub[loop].socket))]
                  ELSE channel
    /\ loopAt' = "check"
    /\ UNCHANGED <<loopSame, loops, loop, run>>

LoopError ==
    /\ loopAt = "wait" /\ pubsub[loop].socket = <<>>
    /\ pubsub[loop].state \in {"lost", "failed"}
    /\ LoopEnds /\ run' = [run EXCEPT ![loop] = FALSE]
    /\ UNCHANGED <<loopSame, loops, channel>>

LoopCheck ==
    /\ loopAt = "check"
    /\ IF run[loop] THEN loopAt' = "enter" /\ UNCHANGED <<loop, pubsub>> ELSE LoopEnds
    /\ UNCHANGED <<loopSame, loops, run, channel>>

-----------------------------------------------------------------------------
(***************************************************************************)
(* Redis and the network.                                                  *)
(***************************************************************************)
Publish ==
    /\ published < MaxMessages
    /\ published' = published + 1
    /\ pubsub' = [p \in Subs |->
          IF pubsub[p].subscribed
          THEN [pubsub[p] EXCEPT !.socket = Append(@, published')] ELSE pubsub[p]]
    /\ UNCHANGED <<commandVars, starts, got, subConnect, subFd, subReceiver, run,
                   channel, loopVars, losses, unread, threadVars>>

\* What has arrived can still be read.
Lose(p) ==
    /\ losses < MaxLosses
    /\ pubsub[p].state = "up"
    /\ losses' = losses + 1
    /\ pubsub' = [pubsub EXCEPT ![p].state = "lost", ![p].subscribed = FALSE]
    /\ UNCHANGED <<commandVars, starts, got, subConnect, subFd, subReceiver, run,
                   channel, loopVars, published, unread, threadVars>>

-----------------------------------------------------------------------------

Ask == \E c \in Commands :
          \/ RunCommandSync(c)
          \/ \E callback \in BOOLEAN : RunCommand(c, "command", callback)
          \/ RunCommand(c, "script", TRUE)
RedisThread ==
    \/ Begin \/ ScriptUnread \/ Receive \/ Release
    \/ StopRecv \/ SubConnect \/ Operate \/ StartRecv
LoopThread == LoopStart \/ LoopEnter \/ LoopGet \/ LoopError \/ LoopCheck

Next ==
    \/ Ask \/ FinishSync \/ NotifyOperationResult \/ StartPsubscribe \/ SubsGetReply
    \/ RedisThread \/ LoopThread
    \/ Publish \/ \E p \in Subs : Lose(p)

\* The threads run, and Redis answers each command or its connection breaks (there
\* is no timeout: if neither happens, its thread waits for ever); the script empties
\* exec_list and calls its timer.
Fairness ==
    /\ WF_vars(RedisThread) /\ WF_vars(LoopThread)
    /\ WF_vars(FinishSync) /\ WF_vars(NotifyOperationResult)
    /\ WF_vars(SubsGetReply)

Spec == Init /\ [][Next]_vars /\ Fairness

-----------------------------------------------------------------------------
(***************************************************************************)
(* Properties.                                                             *)
(***************************************************************************)

\* A command is answered with its own reply or an error, though the script
\* thread and the redis thread use the same connections and some are given back
\* after a failure.
AnswersOwnCommand == \A c \in Commands : answer[c] \in {None, c, Failed}

RepliesInv == TypeOK /\ AnswersOwnCommand

\* From its PSUBSCRIBE on, a subscription that works loses no message, sends none
\* twice and keeps their order, though its loop may have to wait for the loop of
\* the one before it: what the script has, what is in the channel and what is in
\* the socket are the messages published since.
NothingLostWhileSubscribed ==
    \A p \in Subs :
        subReceiver = p /\ pubsub[p].state = "up" =>
            \E n \in 0..Len(got) :
                /\ \A k \in 1..n : got[k] <= pubsub[p].since
                /\ SubSeq(got, n + 1, Len(got)) \o channel[p] \o pubsub[p].socket
                       = [k \in 1..(published - pubsub[p].since) |-> pubsub[p].since + k]

\* A command with a callback is answered, behind all the others and the commands
\* about the subscription and whatever became of those, as long as Redis answers;
\* only a script whose file cannot be read is not.
CommandsAnswered ==
    \A c \in Commands : c \in waiting ~> c \notin waiting \/ c \in unread

Current == IF subReceiver # None THEN subReceiver ELSE subConnect

\* A message has been published on a subscription that works, which the script
\* does not have.
Behind ==
    \E p \in Subs : /\ Current = p /\ pubsub[p].subscribed /\ pubsub[p].state = "up"
                   /\ pubsub[p].since < published /\ published \notin Range(got)

\* The script gets every message of a subscription that works, unless it is
\* replaced or lost meanwhile: a loop that waits for its turn gets it.
MessagesArrive == Behind ~> ~ Behind
=============================================================================
