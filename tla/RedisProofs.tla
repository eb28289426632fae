---------------------------- MODULE RedisProofs ----------------------------
(***************************************************************************)
(* Proofs about module Redis, for commands, subscriptions, messages and    *)
(* losses of any number.                                                   *)
(*                                                                         *)
(* A command gets its own reply because a connection has at most one user  *)
(* and nothing to come when it is idle (ConnInv); two connections are      *)
(* enough.  A subscription loses nothing because its connection goes from  *)
(* the redis thread to one loop and nobody else has it (OwnerInv), and what  *)
(* the script has, the channel and the socket follow on each other         *)
(* (Following).                                                            *)
(***************************************************************************)
EXTENDS Redis, SequenceTheorems, FiniteSetTheorems, TLAPS

SubTypes == {"PUNSUBSCRIBE", "PSUBSCRIBE"}
Job == [type : {"command", "script"}, of : Commands] \cup [type : SubTypes, of : {None}]
Event == [cookie : Commands, value : Commands \cup {Failed}]
PubSub == [state : {"none", "up", "lost", "failed"}, closed : BOOLEAN, subscribed : BOOLEAN,
           socket : Seq(Messages), since : 0..MaxMessages]

TypeInv ==
    /\ asked \in [Commands -> {"not asked", "command", "script", "sync"} \X BOOLEAN]
    /\ waiting \subseteq Commands
    /\ answer \in [Commands -> Commands \cup {None, Failed}]
    /\ sync \in [of : Commands, conn : Conns] \cup {None}
    /\ starts \in 0..MaxStarts
    /\ got \in Seq(Messages)
    /\ events \in Seq(Event)
    /\ jobs \in Seq(Job) /\ job \in Job \cup {NoJob}
    /\ at \in {"idle", "receive", "release", "connect", "operate", "start"}
    /\ held \in Conns \cup {None}
    /\ idle \in Seq(Conns) /\ broken \subseteq Conns
    /\ stream \in [Conns -> Seq(Commands)]
    /\ pubsub \in [Subs -> PubSub]
    /\ subConnect \in Subs \cup {None} /\ subReceiver \in Subs \cup {None}
    /\ subFd \in Subs \cup {None}
    /\ run \in [Subs -> BOOLEAN]
    /\ channel \in [Subs -> Seq(Messages)]
    /\ loops \in Seq(Subs) /\ loop \in Subs \cup {None}
    /\ loopAt \in {"idle", "enter", "wait", "check"}
    /\ loopAt = "idle" <=> loop = None
    /\ published \in 0..MaxMessages /\ losses \in 0..MaxLosses /\ unread \subseteq Commands

\* Whose connection is whose: no idle one is in use or twice in the pool, none
\* has two users, and what is to come on it is its user's.
InUse == (IF held = None THEN 0 ELSE 1) + (IF sync = None THEN 0 ELSE 1)

ConnInv ==
    /\ Len(idle) + InUse <= 2
    /\ \A j, k \in 1..Len(idle) : idle[j] = idle[k] => j = k
    /\ \A k \in 1..Len(idle) :
          /\ stream[idle[k]] = <<>>
          /\ idle[k] # held
          /\ sync # None => sync.conn # idle[k]
    /\ sync # None => sync.conn # held /\ stream[sync.conn] = <<sync.of>>
    /\ held # None <=> at \in {"receive", "release"}
    /\ at = "receive" => job.of \in Commands /\ stream[held] = <<job.of>>
    /\ at = "release" => stream[held] = <<>>

\* Commands are asked in their order; only those asked have answers, and those
\* are their own.
AskInv ==
    /\ \E n \in Nat : Asked = 1..n
    /\ \A c \in waiting : asked[c][2] /\ answer[c] = None
    /\ waiting \subseteq Asked
    /\ \A c \in Commands : answer[c] # None => c \in Asked
    /\ sync # None => sync.of \in Asked /\ ~ asked[sync.of][2]
    /\ \A k \in 1..Len(events) : events[k].value \in {events[k].cookie, Failed}
    /\ AnswersOwnCommand

\* Each call of start_psubscribe makes at most two connections: one that is made
\* has a job to make it.
SubJobs(s) == {k \in 1..Len(s) : s[k].type \in SubTypes}
Made == {p \in Subs : pubsub[p].state # "none"}

Pending == Cardinality(SubJobs(jobs)) + (IF at = "connect" THEN 1 ELSE 0)

CountInv == \E n \in Nat : Made = 1..n /\ n + Pending <= 2 * starts

\* Who has a connection of the subscription: the thread that makes it, then the
\* receiver, whose loop alone ends it.
OwnerInv ==
    /\ at \in {"connect", "operate", "start"} => subReceiver = None /\ job.type \in SubTypes
    /\ at \in {"operate", "start"} => subConnect # None
    /\ subReceiver # None => subConnect = None
    /\ \A p \in Subs : channel[p] # <<>> => subReceiver = p
    /\ \A p \in Subs : pubsub[p].state = "none" =>
          /\ p # subConnect /\ p # subReceiver /\ p # loop
          /\ \A k \in 1..Len(loops) : loops[k] # p
    /\ subFd # None => pubsub[subFd].state # "none"
    /\ subConnect # None =>
          /\ ~ pubsub[subConnect].closed
          /\ subConnect # loop
          /\ \A k \in 1..Len(loops) : loops[k] # subConnect
    /\ subReceiver # None /\ pubsub[subReceiver].state = "up" =>
          run[subReceiver] /\ ~ pubsub[subReceiver].closed

\* The script's messages, those in the channel and those in the socket follow on
\* each other up to the last one published; the ones before are from another
\* subscription.
Following(g, c, s, since, last) ==
    LET first == last - Len(s) - Len(c)
        old == Len(g) - (first - since)
    IN  /\ since <= first /\ 0 <= old
        /\ \A k \in 1..Len(s) : s[k] = last - Len(s) + k
        /\ \A k \in 1..Len(c) : c[k] = first + k
        /\ \A k \in 1..Len(g) : IF k <= old THEN g[k] <= since ELSE g[k] = since + (k - old)

FollowInv ==
    /\ \A k \in 1..Len(got) : got[k] <= published
    /\ \A p \in Subs : \A k \in 1..Len(channel[p]) : channel[p][k] <= published
    /\ \A p \in Subs : \A k \in 1..Len(pubsub[p].socket) : pubsub[p].socket[k] <= published
    /\ subConnect # None /\ at # "start" =>
          ~ pubsub[subConnect].subscribed /\ pubsub[subConnect].socket = <<>>
    /\ subConnect # None /\ at = "start" /\ pubsub[subConnect].state = "up" =>
          /\ pubsub[subConnect].subscribed
          /\ Following(got, <<>>, pubsub[subConnect].socket, pubsub[subConnect].since, published)
    /\ subReceiver # None /\ pubsub[subReceiver].state = "up" =>
          /\ pubsub[subReceiver].subscribed
          /\ Following(got, channel[subReceiver], pubsub[subReceiver].socket,
                       pubsub[subReceiver].since, published)

-----------------------------------------------------------------------------
(***************************************************************************)
(* Sequences.                                                              *)
(***************************************************************************)
LEMMA AppendFacts ==
    ASSUME NEW S, NEW s \in Seq(S), NEW e \in S
    PROVE  /\ Append(s, e) \in Seq(S)
           /\ Len(s) \in Nat /\ Len(Append(s, e)) = Len(s) + 1
           /\ \A k \in 1..Len(s) : Append(s, e)[k] = s[k]
           /\ Append(s, e)[Len(s) + 1] = e
  BY AppendProperties, LenProperties

LEMMA TailFacts ==
    ASSUME NEW S, NEW s \in Seq(S), s # <<>>
    PROVE  /\ Len(s) \in Nat \ {0} /\ Head(s) = s[1] /\ Head(s) \in S
           /\ Tail(s) \in Seq(S) /\ Len(Tail(s)) = Len(s) - 1
           /\ \A k \in 1..(Len(s) - 1) : Tail(s)[k] = s[k + 1]
  BY EmptySeq, HeadTailProperties, LenProperties

LEMMA FrontFacts ==
    ASSUME NEW S, NEW s \in Seq(S), s # <<>>
    PROVE  /\ Len(s) \in Nat \ {0}
           /\ Front(s) \in Seq(S) /\ Len(Front(s)) = Len(s) - 1
           /\ \A k \in 1..(Len(s) - 1) : Front(s)[k] = s[k]
           /\ Last(s) = s[Len(s)] /\ Last(s) \in S
<1>1. Len(s) \in Nat \ {0} /\ \A k \in 1..Len(s) : s[k] \in S
  BY EmptySeq, LenProperties, ElementOfSeq
<1>2. /\ Front(s) \in Seq(S) /\ Len(Front(s)) = Len(s) - 1
      /\ \A k \in 1..(Len(s) - 1) : Front(s)[k] = s[k]
  <2> DEFINE n == Len(s) - 1
             f == SubSeq(s, 1, n)
  <2>1. /\ 1 \in Int /\ n \in Nat /\ \A k \in 1..n : s[k] \in S
    BY <1>1
  <2> HIDE DEF n
  <2>2. /\ f \in Seq(S) /\ Len(f) = IF 1 <= n THEN n - 1 + 1 ELSE 0
        /\ \A k \in 1..(n - 1 + 1) : f[k] = s[1 + k - 1]
    BY <2>1, SubSeqProperties
  <2>3. Len(f) = n /\ \A k \in 1..n : f[k] = s[k]
    BY <2>1, <2>2
  <2> QED
    BY <2>2, <2>3 DEF Front, n
<1> QED
  BY <1>1, <1>2 DEF Last

LEMMA TwoMore ==
    ASSUME NEW S, NEW s \in Seq(S), NEW a \in S, NEW b \in S
    PROVE  s \o <<a, b>> = Append(Append(s, a), b)
<1> DEFINE n == Len(s)
           t == Append(Append(s, a), b)
           u == s \o <<a, b>>
<1>1. <<a, b>> \in Seq(S) /\ Len(<<a, b>>) = 2 /\ <<a, b>>[1] = a /\ <<a, b>>[2] = b
  OBVIOUS
<1>2. /\ n \in Nat /\ u \in Seq(S) /\ Len(u) = n + 2
      /\ \A k \in 1..(n + 2) : u[k] = IF k <= n THEN s[k] ELSE <<a, b>>[k - n]
  BY <1>1, ConcatProperties, LenProperties
<1>3. /\ t \in Seq(S) /\ Len(t) = n + 2
      /\ \A k \in 1..n : t[k] = s[k]
      /\ t[n + 1] = a /\ t[n + 2] = b
  <2> DEFINE v == Append(s, a)
  <2>1. /\ v \in Seq(S) /\ Len(v) = n + 1 /\ v[n + 1] = a /\ \A k \in 1..n : v[k] = s[k]
    BY AppendFacts
  <2>2. /\ t \in Seq(S) /\ Len(t) = Len(v) + 1 /\ t[Len(v) + 1] = b
        /\ \A k \in 1..Len(v) : t[k] = v[k]
    BY <2>1, AppendFacts
  <2>3. Len(v) + 1 = n + 2 /\ n + 1 \in 1..Len(v) /\ \A k \in 1..n : k \in 1..Len(v)
    BY <1>2, <2>1
  <2> HIDE DEF n, t, v
  <2> QED
    BY <2>1, <2>2, <2>3
<1>4. \A k \in 1..(n + 2) : k \in 1..n \/ k = n + 1 \/ k = n + 2
  BY <1>2
<1>5. u[n + 1] = a /\ u[n + 2] = b /\ \A k \in 1..n : u[k] = s[k]
  BY <1>1, <1>2
<1> HIDE DEF n, t, u
<1>6. \A k \in 1..(n + 2) : u[k] = t[k]
  BY <1>3, <1>4, <1>5
<1>7. u = t
  BY <1>2, <1>3, <1>6, SeqEqual
<1> QED
  BY <1>7 DEF t, u

-----------------------------------------------------------------------------
(***************************************************************************)
(* The connection that is taken.                                           *)
(***************************************************************************)
LEMMA FreshIsFree ==
    ASSUME TypeInv, idle = <<>>, held = None \/ sync = None
    PROVE  /\ Fresh \in Conns /\ Fresh # held
           /\ sync # None => Fresh # sync.conn
<1> DEFINE S == {c \in Conns : c \notin Range(idle) /\ c # held
                               /\ (sync = None \/ sync.conn # c)}
<1>1. Range(idle) = {}
  BY EmptySeq DEF Range
<1>2. S # {}
  <2>1. CASE held = None
    <3>1. \A c \in Conns : c # held
      BY <2>1, RedisAssumption
    <3>2. PICK c \in Conns : sync = None \/ sync.conn # c
      BY DEF Conns
    <3> QED
      BY <1>1, <3>1, <3>2
  <2>2. CASE sync = None
    BY <1>1, <2>2 DEF Conns
  <2> QED
    BY <2>1, <2>2
<1>3. \E c \in S : \A d \in S : c <= d
  BY <1>2 DEF Conns
<1>4. Fresh \in S
  BY <1>3 DEF Fresh, Min
<1> QED
  BY <1>4

\* A connection is popped from the pool, or is a new one, and has nothing to come
\* but the reply to what is sent.
LEMMA SendFacts ==
    ASSUME TypeInv, ConnInv, held = None \/ sync = None, NEW x \in Commands, Send(x)
    PROVE  /\ Taken.conn \in Conns /\ Taken.conn # held
           /\ sync # None => sync.conn # Taken.conn
           /\ idle' \in Seq(Conns) /\ Len(idle') \in Nat
           /\ Len(idle') = IF idle = <<>> THEN 0 ELSE Len(idle) - 1
           /\ \A k \in 1..Len(idle') :
                 k \in 1..Len(idle) /\ idle'[k] = idle[k] /\ idle[k] # Taken.conn
           /\ stream' = [stream EXCEPT ![Taken.conn] = <<x>>]
           /\ broken' \subseteq Conns
<1> DEFINE c == Taken.conn
<1>1. <<x>> \in Seq(Commands) /\ <<>> \o <<x>> = <<x>>
  OBVIOUS
<1>2. CASE idle = <<>>
  <2>1. c = Fresh /\ idle' = idle
    BY <1>2 DEF Taken, Send
  <2>2. stream' = [stream EXCEPT ![c] = <<x>>] /\ broken' = broken \ {c}
    BY <1>1, <1>2 DEF Send
  <2>3. Len(idle) = 0
    BY <1>2, EmptySeq
  <2> QED
    <3>1. c \in Conns /\ c # held /\ (sync # None => sync.conn # c)
      BY <1>2, <2>1, FreshIsFree
    <3>2. /\ idle' \in Seq(Conns) /\ Len(idle') = 0
          /\ broken' \subseteq Conns
      BY <2>1, <2>2, <2>3 DEF TypeInv
    <3>3. \A k \in 1..Len(idle') : FALSE
      BY <3>2
    <3> HIDE DEF c
    <3> QED
      BY <1>2, <2>2, <3>1, <3>2, <3>3 DEF c
<1>3. CASE idle # <<>>
  <2> DEFINE n == Len(idle)
  <2>1. c = Last(idle) /\ idle' = Front(idle)
    BY <1>3 DEF Taken, Send, IdleAfterPop
  <2>2. /\ n \in Nat \ {0} /\ idle' \in Seq(Conns) /\ Len(idle') = n - 1
        /\ \A k \in 1..(n - 1) : idle'[k] = idle[k]
        /\ c = idle[n] /\ c \in Conns
    BY ZenonT(60), <1>3, <2>1, FrontFacts DEF TypeInv
  <2>3. n \in 1..n /\ \A k \in 1..(n - 1) : k \in 1..n /\ k # n
    BY <2>2
  <2>4. stream[c] = <<>> /\ c # held /\ (sync # None => sync.conn # c)
    BY <2>2, <2>3 DEF ConnInv
  <2>5. \A k \in 1..(n - 1) : idle[k] # c
    BY <2>2, <2>3 DEF ConnInv
  <2>6. c \in Range(idle)
    BY <2>2, <2>3, LenProperties DEF Range, TypeInv
  <2>7. stream' = [stream EXCEPT ![c] = <<x>>] /\ broken' = broken
    BY <1>1, <1>3, <2>4, <2>6 DEF Send, TypeInv
  <2> QED
    <3>1. broken' \subseteq Conns
      BY <2>7 DEF TypeInv
    <3>2. \A k \in 1..Len(idle') : k \in 1..n /\ idle'[k] = idle[k] /\ idle[k] # c
      BY <2>2, <2>3, <2>5
    <3> HIDE DEF c, n
    <3>3. Len(idle') \in Nat
      BY <2>2
    <3> QED
      BY <1>3, <2>2, <2>4, <2>7, <3>1, <3>2, <3>3 DEF c, n
<1> QED
  BY <1>2, <1>3

\* Nothing but the next reply or an error comes, and nothing stays behind it.
LEMMA ReplyFacts ==
    ASSUME TypeInv, NEW c \in Conns, NEW x \in Commands, stream[c] = <<x>>,
           NEW r \in Replies(c), Received(c, r)
    PROVE  /\ r.value \in {x, Failed} /\ r.broken \in BOOLEAN
           /\ stream' = [stream EXCEPT ![c] = <<>>]
           /\ broken' \subseteq Conns
<1>1. Head(stream[c]) = x /\ Tail(stream[c]) = <<>>
  <2>1. Head(<<x>>) = x /\ Tail(<<x>>) = <<>>
    OBVIOUS
  <2> QED
    BY <2>1
<1>2. \/ r = [value |-> Failed, stream |-> <<>>, broken |-> TRUE]
      \/ \E v \in {Head(stream[c]), Failed} :
            r = [value |-> v, stream |-> Tail(stream[c]), broken |-> FALSE]
  BY DEF Replies
<1>3. r.value \in {x, Failed} /\ r.broken \in BOOLEAN /\ r.stream = <<>>
  <2>1. CASE r = [value |-> Failed, stream |-> <<>>, broken |-> TRUE]
    BY <2>1
  <2>2. ASSUME NEW v \in {x, Failed}, r = [value |-> v, stream |-> <<>>, broken |-> FALSE]
        PROVE  r.value \in {x, Failed} /\ r.broken \in BOOLEAN /\ r.stream = <<>>
    BY <2>2
  <2> QED
    BY <1>1, <1>2, <2>1, <2>2
<1> QED
  BY <1>3 DEF Received, TypeInv

-----------------------------------------------------------------------------
(***************************************************************************)
(* Types.                                                                  *)
(***************************************************************************)
LEMMA Nothing ==
    /\ None \notin Commands /\ None # Failed /\ None \notin Conns /\ None \notin Subs
    /\ None \notin [of : Commands, conn : Conns]
    /\ Failed \notin Commands
  BY RedisAssumption DEF Commands, Failed

LEMMA SubsAreNumbers == MaxStarts \in Nat \ {0} /\ Subs \subseteq Nat
  BY RedisAssumption DEF Subs

LEMMA TypeInvInit == Init => TypeInv
<1> SUFFICES ASSUME Init
             PROVE  TypeInv
  OBVIOUS
<1>1. \A S : <<>> \in Seq(S)
  BY EmptySeq
<1>2. 0 \in 0..MaxStarts /\ 0 \in 0..MaxMessages /\ 0 \in 0..MaxLosses
  BY RedisAssumption
<1>3. NoPubSub \in PubSub
  BY <1>1, <1>2 DEF NoPubSub, PubSub
<1> QED
  BY <1>1, <1>2, <1>3 DEF Init, TypeInv


LEMMA SequencesOfTypes ==
    ASSUME TypeInv
    PROVE  /\ events # <<>> => Head(events) \in Event /\ Tail(events) \in Seq(Event)
           /\ jobs # <<>> => Head(jobs) \in Job /\ Tail(jobs) \in Seq(Job)
           /\ loops # <<>> => Head(loops) \in Subs /\ Tail(loops) \in Seq(Subs)
           /\ \A p \in Subs : pubsub[p].socket # <<>> =>
                 /\ Head(pubsub[p].socket) \in Messages
                 /\ Tail(pubsub[p].socket) \in Seq(Messages)
<1>1. \A p \in Subs : pubsub[p].socket \in Seq(Messages)
  BY DEF TypeInv, PubSub
<1> QED
  BY <1>1, TailFacts DEF TypeInv

LEMMA AskKeepsTypes ==
    ASSUME TypeInv, ConnInv, Ask
    PROVE  TypeInv'
<1>1. ASSUME NEW c \in Commands, NEW type \in {"command", "script"}, NEW callback \in BOOLEAN,
             RunCommand(c, type, callback)
      PROVE  TypeInv'
  <2>1. [type |-> type, of |-> c] \in Job
    BY DEF Job
  <2>2. jobs' \in Seq(Job)
    BY <1>1, <2>1, AppendFacts DEF RunCommand, TypeInv
  <2>3. /\ asked' \in [Commands -> {"not asked", "command", "script", "sync"} \X BOOLEAN]
        /\ waiting' \subseteq Commands
    BY <1>1 DEF RunCommand, TypeInv
  <2> QED
    BY ZenonT(60), <1>1, <2>2, <2>3 DEF RunCommand, TypeInv, subVars, loopVars, outside
<1>2. ASSUME NEW c \in Commands, RunCommandSync(c)
      PROVE  TypeInv'
  <2>1. sync = None /\ Send(c)
    BY <1>2 DEF RunCommandSync
  <2>2. /\ Taken.conn \in Conns /\ idle' \in Seq(Conns) /\ broken' \subseteq Conns
        /\ stream' = [stream EXCEPT ![Taken.conn] = <<c>>]
    BY <2>1, SendFacts
  <2>3. <<c>> \in Seq(Commands)
    OBVIOUS
  <2>4. stream' \in [Conns -> Seq(Commands)]
    BY <2>2, <2>3 DEF TypeInv
  <2>5. /\ asked' \in [Commands -> {"not asked", "command", "script", "sync"} \X BOOLEAN]
        /\ sync' \in [of : Commands, conn : Conns]
    BY <1>2, <2>2 DEF RunCommandSync, TypeInv
  <2> QED
    BY ZenonT(60), <1>2, <2>2, <2>4, <2>5 DEF RunCommandSync, TypeInv, subVars, loopVars, outside, threadVars
<1> QED
  BY <1>1, <1>2 DEF Ask

LEMMA FinishSyncKeepsTypes ==
    ASSUME TypeInv, ConnInv, FinishSync
    PROVE  TypeInv'
<1>1. sync \in [of : Commands, conn : Conns] /\ stream[sync.conn] = <<sync.of>>
  BY DEF FinishSync, TypeInv, ConnInv
<1>2. PICK r \in Replies(sync.conn) :
          Received(sync.conn, r) /\ answer' = [answer EXCEPT ![sync.of] = r.value]
  BY DEF FinishSync
<1>3. /\ r.value \in {sync.of, Failed} /\ stream' = [stream EXCEPT ![sync.conn] = <<>>]
      /\ broken' \subseteq Conns
  BY <1>1, <1>2, ReplyFacts
<1>4. stream' \in [Conns -> Seq(Commands)] /\ answer' \in [Commands -> Commands \cup {None, Failed}]
  BY <1>1, <1>2, <1>3, EmptySeq DEF TypeInv
<1>5. idle' \in Seq(Conns) /\ sync' = None
  BY <1>1, AppendFacts DEF FinishSync, TypeInv
<1> QED
  BY ZenonT(60), <1>3, <1>4, <1>5 DEF FinishSync, TypeInv, subVars, loopVars, outside, threadVars

LEMMA ScriptKeepsTypes ==
    ASSUME TypeInv, NotifyOperationResult \/ StartPsubscribe \/ SubsGetReply
    PROVE  TypeInv'
<1>1. CASE NotifyOperationResult
  <2>1. Head(events) \in Event /\ Tail(events) \in Seq(Event)
    BY <1>1, SequencesOfTypes DEF NotifyOperationResult
  <2>2. answer' \in [Commands -> Commands \cup {None, Failed}] /\ waiting' \subseteq Commands
    BY <1>1, <2>1 DEF NotifyOperationResult, TypeInv, Event
  <2> QED
    BY ZenonT(60), <1>1, <2>1, <2>2
       DEF NotifyOperationResult, TypeInv, subVars, loopVars, outside, threadVars
<1>2. CASE StartPsubscribe
  <2> DEFINE a == [type |-> "PUNSUBSCRIBE", of |-> None]
             b == [type |-> "PSUBSCRIBE", of |-> None]
  <2>1. a \in Job /\ b \in Job
    BY DEF Job, SubTypes
  <2> HIDE DEF a, b
  <2>2. <<a, b>> \in Seq(Job)
    BY <2>1
  <2>3. jobs' \in Seq(Job)
    BY <1>2, <2>2, ConcatProperties DEF StartPsubscribe, TypeInv, a, b
  <2>4. starts' \in 0..MaxStarts
    <3>1. starts \in 0..MaxStarts /\ starts < MaxStarts /\ starts' = starts + 1
      BY <1>2 DEF StartPsubscribe, TypeInv
    <3> QED
      BY <3>1, SubsAreNumbers
  <2> QED
    BY ZenonT(60), <1>2, <2>3, <2>4
       DEF StartPsubscribe, TypeInv, commandVars, subVars, loopVars, outside
<1>3. CASE SubsGetReply
  <2>1. subReceiver \in Subs
    BY <1>3 DEF SubsGetReply, TypeInv
  <2>2. got' \in Seq(Messages)
    BY <1>3, <2>1, ConcatProperties DEF SubsGetReply, Drained, TypeInv
  <2>3. channel' \in [Subs -> Seq(Messages)]
    BY <1>3, <2>1, EmptySeq DEF SubsGetReply, TypeInv
  <2> QED
    BY ZenonT(60), <1>3, <2>2, <2>3
       DEF SubsGetReply, TypeInv, commandVars, loopVars, outside, threadVars
<1> QED
  BY <1>1, <1>2, <1>3

LEMMA BeginKeepsTypes ==
    ASSUME TypeInv, ConnInv, Begin
    PROVE  TypeInv' /\ job' \in [type : {"command", "script"}, of : Commands]
<1>1. /\ Head(jobs) \in Job /\ Tail(jobs) \in Seq(Job) /\ held = None /\ Send(job'.of)
      /\ job' = Head(jobs) /\ jobs' = Tail(jobs) /\ held' = Taken.conn /\ at' = "receive"
  BY SequencesOfTypes DEF Begin, ConnInv
<1>2. job' \in [type : {"command", "script"}, of : Commands]
  BY <1>1 DEF Begin, Job, SubTypes
<1>3. job'.of \in Commands
  BY <1>2
<1>4. /\ Taken.conn \in Conns /\ idle' \in Seq(Conns) /\ broken' \subseteq Conns
      /\ stream' = [stream EXCEPT ![Taken.conn] = <<job'.of>>]
  BY <1>1, <1>3, SendFacts
<1>5. <<job'.of>> \in Seq(Commands)
  BY <1>3
<1>6. stream' \in [Conns -> Seq(Commands)]
  BY <1>4, <1>5 DEF TypeInv
<1> QED
  BY <1>1, <1>2, <1>4, <1>6 DEF Begin, TypeInv, subVars, loopVars, outside

LEMMA UnreadKeepsTypes ==
    ASSUME TypeInv, ConnInv, ScriptUnread
    PROVE  TypeInv'
<1>1. /\ Head(jobs) \in Job /\ Head(jobs).type = "script" /\ Tail(jobs) \in Seq(Job)
      /\ jobs' = Tail(jobs)
  BY SequencesOfTypes DEF ScriptUnread
<1>2. Head(jobs).of \in Commands
  BY <1>1 DEF Job, SubTypes
<1>3. unread' \subseteq Commands
  BY <1>2 DEF ScriptUnread, TypeInv
<1> QED
  BY ZenonT(60), <1>1, <1>3 DEF ScriptUnread, TypeInv, commandVars, subVars, loopVars

LEMMA ReceiveKeepsTypes ==
    ASSUME TypeInv, ConnInv, Receive
    PROVE  TypeInv'
<1>1. /\ held \in Conns /\ job.of \in Commands /\ stream[held] = <<job.of>>
  BY DEF Receive, TypeInv, ConnInv
<1>2. PICK r \in Replies(held) :
          /\ Received(held, r) /\ events' = Result(r.value)
          /\ \/ at' = "release" /\ UNCHANGED <<job, held>>
             \/ at' = "idle" /\ job' = NoJob /\ held' = None
  BY DEF Receive
<1>3. /\ r.value \in {job.of, Failed} /\ stream' = [stream EXCEPT ![held] = <<>>]
      /\ broken' \subseteq Conns
  BY <1>1, <1>2, ReplyFacts
<1>4. stream' \in [Conns -> Seq(Commands)]
  BY <1>1, <1>3, EmptySeq DEF TypeInv
<1>5. [cookie |-> job.of, value |-> r.value] \in Event
  BY <1>1, <1>3 DEF Event
<1>6. events' \in Seq(Event)
  BY <1>2, <1>5, AppendFacts DEF Result, TypeInv
<1> QED
  BY ZenonT(60), <1>2, <1>3, <1>4, <1>6 DEF Receive, TypeInv, subVars, loopVars, outside

LEMMA ReleaseKeepsTypes ==
    ASSUME TypeInv, ConnInv, Release
    PROVE  TypeInv'
<1>1. held \in Conns
  BY DEF Release, TypeInv, ConnInv
<1>2. idle' \in Seq(Conns)
  BY <1>1, AppendFacts DEF Release, TypeInv
<1> QED
  BY <1>2 DEF Release, TypeInv, subVars, loopVars, outside

\* Connections of the subscription keep their type, and their state, when they
\* are closed.
LEMMA ShutFacts ==
    ASSUME TypeInv, NEW p \in Subs
    PROVE  /\ Shut(p) \in PubSub /\ Closed(p) \in PubSub
           /\ Shut(p).state = pubsub[p].state /\ Closed(p).state = pubsub[p].state
           /\ Shut(p).socket = <<>> /\ Closed(p).socket \in {<<>>, pubsub[p].socket}
  BY ZenonT(60), EmptySeq DEF TypeInv, PubSub, Shut, Closed

LEMMA PubSubFacts ==
    ASSUME NEW q \in PubSub
    PROVE  /\ [q EXCEPT !.state = "failed"] \in PubSub
           /\ [q EXCEPT !.subscribed = FALSE] \in PubSub
           /\ [q EXCEPT !.state = "lost", !.subscribed = FALSE] \in PubSub
           /\ \A n \in 0..MaxMessages :
                 [q EXCEPT !.subscribed = TRUE, !.since = n] \in PubSub
           /\ \A s \in Seq(Messages) : [q EXCEPT !.socket = s] \in PubSub
  BY DEF PubSub

LEMMA SubThreadKeepsTypes ==
    ASSUME TypeInv, NextSub \in Subs \/ at # "connect",
           StopRecv \/ SubConnect \/ Operate \/ StartRecv
    PROVE  TypeInv'
<1>1. CASE StopRecv
  <2>1. Head(jobs) \in Job /\ Tail(jobs) \in Seq(Job)
    BY <1>1, SequencesOfTypes DEF StopRecv
  <2>2. /\ run' \in [Subs -> BOOLEAN]
        /\ subConnect' \in Subs \cup {None} /\ subReceiver' \in Subs \cup {None}
        /\ channel' \in [Subs -> Seq(Messages)]
    <3>1. CASE subReceiver = None
      BY <1>1, <3>1 DEF StopRecv, TypeInv
    <3>2. CASE subReceiver # None
      <4>1. subReceiver \in Subs /\ <<>> \in Seq(Messages)
        BY <3>2, EmptySeq DEF TypeInv
      <4>2. /\ run' = [run EXCEPT ![subReceiver] = FALSE]
            /\ channel' = [channel EXCEPT ![subReceiver] = <<>>]
            /\ subConnect' = None /\ subReceiver' = None
        BY <1>1, <3>2 DEF StopRecv
      <4> QED
        BY <4>1, <4>2 DEF TypeInv
    <3> QED
      BY <3>1, <3>2
  <2> QED
    BY <1>1, <2>1, <2>2 DEF StopRecv, TypeInv, commandVars, loopVars, outside
<1>2. CASE SubConnect
  <2>1. NextSub \in Subs
    BY <1>2 DEF SubConnect
  <2>2. NoPubSub \in PubSub /\ [NoPubSub EXCEPT !.state = "up"] \in PubSub
    <3>1. <<>> \in Seq(Messages) /\ 0 \in 0..MaxMessages
      BY EmptySeq, RedisAssumption
    <3> QED
      BY <3>1 DEF NoPubSub, PubSub
  <2>3. /\ pubsub' \in [Subs -> PubSub]
        /\ subConnect' \in Subs \cup {None} /\ subFd' \in Subs \cup {None}
        /\ job' \in Job \cup {NoJob}
        /\ at' \in {"idle", "operate"}
    <3>1. CASE UNCHANGED <<pubsub, subConnect, subFd>>
      BY <1>2, <3>1 DEF SubConnect, TypeInv
    <3>2. CASE /\ pubsub' = [p \in Subs |->
                     CASE p = NextSub -> [NoPubSub EXCEPT !.state = "up"]
                       [] p = subFd   -> Closed(p)
                       [] OTHER       -> pubsub[p]]
               /\ subConnect' = NextSub /\ subFd' = NextSub
               /\ at' = "operate" /\ job' = job
      <4>1. \A p \in Subs : Closed(p) \in PubSub /\ pubsub[p] \in PubSub
        BY ShutFacts DEF TypeInv
      <4>2. pubsub' \in [Subs -> PubSub]
        BY <2>2, <3>2, <4>1
      <4> QED
        BY <2>1, <3>2, <4>2 DEF TypeInv
    <3> QED
      BY <1>2, <3>1, <3>2 DEF SubConnect
  <2> QED
    BY <1>2, <2>3 DEF SubConnect, TypeInv, commandVars, loopVars, outside
<1>3. CASE Operate
  <2>1. \A p \in Subs : /\ [pubsub[p] EXCEPT !.state = "failed"] \in PubSub
                        /\ [pubsub[p] EXCEPT !.subscribed = TRUE, !.since = published] \in PubSub
                        /\ [pubsub[p] EXCEPT !.subscribed = FALSE] \in PubSub
    BY PubSubFacts DEF TypeInv
  <2>2. pubsub' \in [Subs -> PubSub]
    BY <1>3, <2>1 DEF Operate, TypeInv
  <2>3. job' \in Job \cup {NoJob} /\ at' \in {"start", "idle"}
    BY <1>3 DEF Operate, TypeInv
  <2> QED
    BY ZenonT(60), <1>3, <2>2, <2>3 DEF Operate, TypeInv, commandVars, loopVars, outside
<1>4. CASE StartRecv
  <2>1. /\ subConnect' \in Subs \cup {None} /\ subReceiver' \in Subs \cup {None}
        /\ run' \in [Subs -> BOOLEAN] /\ loops' \in Seq(Subs)
    <3>1. CASE UNCHANGED <<subConnect, subReceiver, run, loops>>
      BY <3>1 DEF TypeInv
    <3>2. CASE /\ subConnect \in Subs
               /\ subReceiver' = subConnect /\ run' = [run EXCEPT ![subConnect] = TRUE]
               /\ loops' = Append(loops, subConnect) /\ subConnect' = None
      BY <3>2, AppendFacts DEF TypeInv
    <3> QED
      BY <1>4, <3>1, <3>2 DEF StartRecv, TypeInv
  <2> QED
    BY <1>4, <2>1 DEF StartRecv, TypeInv, commandVars, outside
<1> QED
  BY <1>1, <1>2, <1>3, <1>4

LEMMA LoopKeepsTypes ==
    ASSUME TypeInv, LoopThread
    PROVE  TypeInv'
<1>1. ASSUME NEW p \in Subs
      PROVE  [pubsub EXCEPT ![p] = Shut(p)] \in [Subs -> PubSub]
  BY ShutFacts DEF TypeInv
<1>2. CASE LoopStart
  BY ZenonT(60), <1>2, SequencesOfTypes, Nothing
     DEF LoopStart, TypeInv, loopSame, commandVars, outside, threadVars
<1>3. CASE LoopEnter
  <2>1. loop \in Subs
    BY <1>3 DEF LoopEnter, TypeInv
  <2> QED
    BY ZenonT(60), <1>1, <1>3, <2>1
       DEF LoopEnter, LoopEnds, TypeInv, loopSame, commandVars, outside, threadVars
<1>4. CASE LoopGet
  <2>1. loop \in Subs
    BY <1>4 DEF LoopGet, TypeInv
  <2>2. /\ Head(pubsub[loop].socket) \in Messages
        /\ Tail(pubsub[loop].socket) \in Seq(Messages)
    BY <1>4, <2>1, SequencesOfTypes DEF LoopGet
  <2>3. pubsub' \in [Subs -> PubSub]
    BY ZenonT(60), <1>4, <2>1, <2>2 DEF LoopGet, TypeInv, PubSub
  <2>4. channel' \in [Subs -> Seq(Messages)]
    BY <1>4, <2>1, <2>2, AppendFacts DEF LoopGet, TypeInv
  <2> QED
    BY ZenonT(60), <1>4, <2>1, <2>3, <2>4
       DEF LoopGet, TypeInv, loopSame, commandVars, outside, threadVars
<1>5. CASE LoopError
  <2>1. loop \in Subs
    BY <1>5 DEF LoopError, TypeInv
  <2> QED
    BY ZenonT(60), <1>1, <1>5, <2>1
       DEF LoopError, LoopEnds, TypeInv, loopSame, commandVars, outside, threadVars
<1>6. CASE LoopCheck
  <2>1. loop \in Subs
    BY <1>6 DEF LoopCheck, TypeInv
  <2> QED
    BY ZenonT(60), <1>1, <1>6, <2>1
       DEF LoopCheck, LoopEnds, TypeInv, loopSame, commandVars, outside, threadVars
<1> QED
  BY <1>2, <1>3, <1>4, <1>5, <1>6 DEF LoopThread

LEMMA WorldKeepsTypes ==
    ASSUME TypeInv, Publish \/ \E p \in Subs : Lose(p)
    PROVE  TypeInv'
<1>1. CASE Publish
  <2>1. published' \in Messages /\ published' \in 0..MaxMessages
    <3>1. published \in 0..MaxMessages /\ published < MaxMessages /\ published' = published + 1
      BY <1>1 DEF Publish, TypeInv
    <3> QED
      BY <3>1, RedisAssumption DEF Messages
  <2>2. \A p \in Subs : Append(pubsub[p].socket, published') \in Seq(Messages)
    BY ZenonT(60), <2>1, AppendFacts DEF TypeInv, PubSub
  <2>3. \A p \in Subs :
            [pubsub[p] EXCEPT !.socket = Append(@, published')] \in PubSub
    BY <2>2, PubSubFacts DEF TypeInv
  <2>4. pubsub' \in [Subs -> PubSub]
    BY <1>1, <2>3 DEF Publish, TypeInv
  <2> QED
    BY ZenonT(60), <1>1, <2>1, <2>4 DEF Publish, TypeInv, commandVars, loopVars, threadVars
<1>2. ASSUME NEW p \in Subs, Lose(p)
      PROVE  TypeInv'
  <2>1. losses' \in 0..MaxLosses
    <3>1. losses \in 0..MaxLosses /\ losses < MaxLosses /\ losses' = losses + 1
      BY <1>2 DEF Lose, TypeInv
    <3> QED
      BY <3>1, RedisAssumption
  <2>2. pubsub' \in [Subs -> PubSub]
    BY <1>2, PubSubFacts DEF Lose, TypeInv
  <2> QED
    BY ZenonT(60), <1>2, <2>1, <2>2 DEF Lose, TypeInv, commandVars, loopVars, threadVars
<1> QED
  BY <1>1, <1>2

-----------------------------------------------------------------------------
(***************************************************************************)
(* Connections of db_redis.                                                *)
(***************************************************************************)
LEMMA ConnInvInit == Init => ConnInv
<1> SUFFICES ASSUME Init
             PROVE  ConnInv
  OBVIOUS
<1>1. Len(idle) = 0 /\ held = None /\ sync = None /\ at = "idle"
  BY EmptySeq DEF Init
<1>2. InUse = 0
  BY <1>1 DEF InUse
<1>3. \A k \in 1..Len(idle) : FALSE
  BY <1>1
<1> QED
  BY <1>1, <1>2, <1>3 DEF ConnInv

\* What a pool that shrank needs to stay a pool.
LEMMA SyncKeepsConns ==
    ASSUME TypeInv, ConnInv, NEW c \in Commands, RunCommandSync(c)
    PROVE  ConnInv'
<1> DEFINE x == Taken.conn
           n == Len(idle)
<1>1. sync = None /\ Send(c) /\ sync' = [of |-> c, conn |-> x] /\ UNCHANGED <<held, at, job>>
  BY DEF RunCommandSync, threadVars
<1>2. /\ x \in Conns /\ x # held
      /\ Len(idle') \in Nat /\ Len(idle') = IF idle = <<>> THEN 0 ELSE n - 1
      /\ \A k \in 1..Len(idle') : k \in 1..n /\ idle'[k] = idle[k] /\ idle[k] # x
      /\ stream' = [stream EXCEPT ![x] = <<c>>]
  BY <1>1, SendFacts
<1>3. n \in Nat /\ (idle = <<>> => n = 0) /\ \A k \in 1..n : idle[k] \in Conns
  BY EmptySeq, LenProperties, ElementOfSeq DEF TypeInv
<1>4. sync' # None /\ sync'.conn = x /\ sync'.of = c
  <2>1. sync' \in [of : Commands, conn : Conns]
    BY <1>1, <1>2
  <2> QED
    BY <1>1, <2>1, Nothing
<1>5. (Len(idle) + InUse <= 2)'
  <2>1. InUse' = InUse + 1 /\ InUse \in 0..1
    BY <1>1, <1>4 DEF InUse
  <2>2. n + InUse <= 2
    BY DEF ConnInv
  <2>3. Len(idle') <= 1 - InUse
    <3>1. CASE idle = <<>>
      BY <1>2, <1>3, <2>1, <3>1
    <3>2. CASE idle # <<>>
      <4>1. Len(idle') = n - 1
        BY <1>2, <1>3, <3>2
      <4> HIDE DEF n
      <4> QED
        BY <1>2, <1>3, <2>1, <2>2, <4>1
    <3> QED
      BY <3>1, <3>2
  <2> DEFINE u == InUse
             v == InUse'
             m == Len(idle')
  <2>4. m \in Nat /\ u \in 0..1 /\ v = u + 1 /\ m <= 1 - u
    BY <1>2, <1>3, <2>1, <2>3
  <2> HIDE DEF u, v, m
  <2>5. m + v <= 2
    BY <2>4
  <2> QED
    BY <2>5 DEF u, v, m
<1> HIDE DEF x, n
<1>6. \A j, k \in 1..Len(idle') : idle'[j] = idle'[k] => j = k
  BY <1>2 DEF ConnInv, n
<1>7. \A k \in 1..Len(idle') :
          stream'[idle'[k]] = <<>> /\ idle'[k] # held' /\ sync'.conn # idle'[k]
  BY <1>1, <1>2, <1>3, <1>4 DEF ConnInv, TypeInv, n
<1>8. stream'[x] = <<c>> /\ (held # None => stream'[held] = stream[held])
  BY <1>2 DEF TypeInv
<1> QED
  BY <1>1, <1>2, <1>4, <1>5, <1>6, <1>7, <1>8 DEF ConnInv

LEMMA BeginKeepsConns ==
    ASSUME TypeInv, ConnInv, Begin
    PROVE  ConnInv'
<1> DEFINE x == Taken.conn
           n == Len(idle)
           c == job'.of
<1>1. /\ at = "idle" /\ at' = "receive" /\ held' = x /\ Send(c) /\ sync' = sync
      /\ c \in Commands
  BY BeginKeepsTypes DEF Begin
<1>2. held = None
  BY <1>1 DEF ConnInv
<1>3. /\ x \in Conns /\ (sync # None => sync.conn # x)
      /\ Len(idle') \in Nat /\ Len(idle') = IF idle = <<>> THEN 0 ELSE n - 1
      /\ \A k \in 1..Len(idle') : k \in 1..n /\ idle'[k] = idle[k] /\ idle[k] # x
      /\ stream' = [stream EXCEPT ![x] = <<c>>]
  BY <1>1, <1>2, SendFacts
<1>4. n \in Nat /\ (idle = <<>> => n = 0) /\ \A k \in 1..n : idle[k] \in Conns
  BY EmptySeq, LenProperties, ElementOfSeq DEF TypeInv
<1>5. held' # None
  BY <1>1, <1>3, Nothing
<1>6. (Len(idle) + InUse <= 2)'
  <2>1. InUse' = InUse + 1 /\ InUse \in 0..1
    BY <1>1, <1>2, <1>5 DEF InUse
  <2>2. n + InUse <= 2
    BY DEF ConnInv
  <2>3. Len(idle') <= 1 - InUse
    <3>1. CASE idle = <<>>
      BY <1>3, <1>4, <2>1, <3>1
    <3>2. CASE idle # <<>>
      <4>1. Len(idle') = n - 1
        BY <1>3, <1>4, <3>2
      <4> HIDE DEF n
      <4> QED
        BY <1>3, <1>4, <2>1, <2>2, <4>1
    <3> QED
      BY <3>1, <3>2
  <2> DEFINE u == InUse
             v == InUse'
             m == Len(idle')
  <2>4. m \in Nat /\ u \in 0..1 /\ v = u + 1 /\ m <= 1 - u
    BY <1>3, <1>4, <2>1, <2>3
  <2> HIDE DEF u, v, m
  <2>5. m + v <= 2
    BY <2>4
  <2> QED
    BY <2>5 DEF u, v, m
<1> HIDE DEF x, n, c
<1>7. \A j, k \in 1..Len(idle') : idle'[j] = idle'[k] => j = k
  BY <1>3 DEF ConnInv, n
<1>8. \A k \in 1..Len(idle') :
          /\ stream'[idle'[k]] = <<>> /\ idle'[k] # held'
          /\ sync # None => sync.conn # idle'[k]
  <2> SUFFICES ASSUME NEW k \in 1..Len(idle')
               PROVE  /\ stream'[idle'[k]] = <<>> /\ idle'[k] # held'
                      /\ sync # None => sync.conn # idle'[k]
    OBVIOUS
  <2>1. k \in 1..n /\ idle'[k] = idle[k] /\ idle[k] # x /\ idle[k] \in Conns
    BY <1>3, <1>4
  <2>2. stream[idle[k]] = <<>> /\ (sync # None => sync.conn # idle[k])
    BY <2>1 DEF ConnInv, n
  <2>3. stream'[idle[k]] = stream[idle[k]]
    BY <1>3, <2>1 DEF TypeInv
  <2> QED
    BY <1>1, <2>1, <2>2, <2>3
<1>9. /\ stream'[x] = <<c>>
      /\ sync # None => stream'[sync.conn] = stream[sync.conn]
  BY <1>3 DEF TypeInv
<1> QED
  BY <1>1, <1>2, <1>3, <1>5, <1>6, <1>7, <1>8, <1>9 DEF ConnInv, c

\* A connection that nobody uses any more, and from which nothing is to come, may
\* go back to the pool.
LEMMA BackToPool ==
    ASSUME TypeInv, ConnInv, NEW c \in Conns, idle' = Append(idle, c),
           \A k \in 1..Len(idle) : idle[k] # c,
           stream' = [stream EXCEPT ![c] = <<>>],
           \/ /\ held = c /\ held' = None /\ sync' = sync /\ at' = "idle"
           \/ /\ sync # None /\ sync.conn = c /\ held # c /\ sync' = None
              /\ UNCHANGED <<held, at, job>>
    PROVE  ConnInv'
<1> DEFINE n == Len(idle)
<1>1. /\ n \in Nat /\ Len(idle') = n + 1 /\ idle'[n + 1] = c
      /\ \A k \in 1..n : idle'[k] = idle[k] /\ idle[k] \in Conns
  <2>1. idle \in Seq(Conns)
    BY DEF TypeInv
  <2>2. \A k \in 1..n : idle[k] \in Conns
    BY <2>1, ElementOfSeq
  <2> QED
    BY <2>1, <2>2, AppendFacts
<1>2. \A k \in 1..(n + 1) : k \in 1..n \/ k = n + 1
  BY <1>1
<1>3. c # None /\ (held = c => sync = None \/ sync.conn # c)
  BY Nothing DEF ConnInv
<1>4. (Len(idle) + InUse <= 2)'
  <2>1. InUse' = InUse - 1 /\ InUse \in 1..2
    BY <1>3 DEF InUse
  <2>2. n + InUse <= 2
    BY DEF ConnInv
  <2> QED
    BY <1>1, <2>1, <2>2
<1> HIDE DEF n
<1>5. \A j, k \in 1..Len(idle') : idle'[j] = idle'[k] => j = k
  BY <1>1, <1>2 DEF ConnInv, n
<1>6. \A k \in 1..Len(idle') :
          /\ stream'[idle'[k]] = <<>> /\ idle'[k] # held'
          /\ sync' # None => sync'.conn # idle'[k]
  <2>1. ASSUME NEW k \in 1..n
        PROVE  /\ stream'[idle'[k]] = <<>> /\ idle'[k] # held'
               /\ sync' # None => sync'.conn # idle'[k]
    <3>1. idle'[k] = idle[k] /\ idle[k] \in Conns
      BY <1>1
    <3>2. stream[idle[k]] = <<>> /\ idle[k] # held /\ (sync # None => sync.conn # idle[k])
      BY DEF ConnInv, n
    <3>3. stream'[idle[k]] = <<>>
      BY <3>1, <3>2 DEF TypeInv
    <3>4. idle[k] # held' /\ (sync' # None => sync'.conn # idle[k])
      BY <3>1, <3>2, Nothing
    <3> QED
      BY <3>1, <3>3, <3>4
  <2>2. /\ stream'[c] = <<>> /\ c # held'
        /\ sync' # None => sync'.conn # c
    BY <1>3 DEF TypeInv
  <2> QED
    BY <1>1, <1>2, <2>1, <2>2
<1>7. \A d \in Conns : d # c => stream'[d] = stream[d]
  BY DEF TypeInv
<1>8. /\ held # None => held \in Conns
      /\ sync # None => sync.conn \in Conns
  BY DEF TypeInv
<1>9. /\ sync' # None => sync'.conn # held' /\ stream'[sync'.conn] = <<sync'.of>>
      /\ held' # None <=> at' \in {"receive", "release"}
  <2>1. CASE held = c /\ held' = None /\ sync' = sync /\ at' = "idle"
    <3>1. sync # None => sync.conn \in Conns /\ sync.conn # c /\ stream[sync.conn] = <<sync.of>>
      BY <1>3, <1>8, <2>1 DEF ConnInv
    <3>2. sync # None => stream'[sync.conn] = <<sync.of>> /\ sync.conn # None
      BY <1>7, <3>1, Nothing
    <3> QED
      BY <2>1, <3>2
  <2>2. CASE sync' = None /\ UNCHANGED <<held, at, job>>
    BY <2>2 DEF ConnInv
  <2> QED
    BY <2>1, <2>2
<1>10. /\ at' = "receive" => job'.of \in Commands /\ stream'[held'] = <<job'.of>>
       /\ at' = "release" => stream'[held'] = <<>>
  BY <1>3, <1>7, <1>8 DEF ConnInv
<1> QED
  BY <1>4, <1>5, <1>6, <1>9, <1>10 DEF ConnInv

LEMMA ReceiveKeepsConns ==
    ASSUME TypeInv, ConnInv, Receive
    PROVE  ConnInv'
<1>1. /\ held \in Conns /\ job.of \in Commands /\ stream[held] = <<job.of>>
      /\ sync' = sync /\ idle' = idle
  BY DEF Receive, TypeInv, ConnInv
<1>2. PICK r \in Replies(held) :
          /\ Received(held, r)
          /\ \/ at' = "release" /\ UNCHANGED <<job, held>>
             \/ at' = "idle" /\ job' = NoJob /\ held' = None
  BY DEF Receive
<1>3. stream' = [stream EXCEPT ![held] = <<>>]
  BY <1>1, <1>2, ReplyFacts
<1>4. \A k \in 1..Len(idle) : idle[k] \in Conns
  BY ElementOfSeq DEF TypeInv
<1>5. Len(idle) \in Nat
  BY LenProperties DEF TypeInv
<1>6. (Len(idle) + InUse <= 2)'
  BY <1>1, <1>2, <1>5 DEF ConnInv, InUse
<1>7. \A k \in 1..Len(idle) : stream'[idle[k]] = <<>> /\ idle[k] # held'
  <2> SUFFICES ASSUME NEW k \in 1..Len(idle)
               PROVE  stream'[idle[k]] = <<>> /\ idle[k] # held'
    OBVIOUS
  <2>1. idle[k] \in Conns /\ stream[idle[k]] = <<>> /\ idle[k] # held
    BY <1>4 DEF ConnInv
  <2>2. stream'[idle[k]] = <<>>
    BY <1>3, <2>1 DEF TypeInv
  <2> QED
    BY <1>2, <2>1, <2>2, Nothing
<1>8. sync # None => sync.conn # held' /\ stream'[sync.conn] = <<sync.of>>
  BY ZenonT(60), <1>1, <1>2, <1>3, Nothing DEF ConnInv, TypeInv
<1>9. stream'[held] = <<>> /\ held # None
  BY <1>1, <1>3, Nothing DEF TypeInv
<1> QED
  BY <1>1, <1>2, <1>6, <1>7, <1>8, <1>9 DEF ConnInv

LEMMA ConnInvStep == TypeInv /\ ConnInv /\ [Next]_vars => ConnInv'
<1> SUFFICES ASSUME TypeInv, ConnInv, [Next]_vars
             PROVE  ConnInv'
  OBVIOUS
<1>1. ASSUME NEW c \in Commands, RunCommandSync(c)
      PROVE  ConnInv'
  BY <1>1, SyncKeepsConns
<1>2. CASE Begin
  BY <1>2, BeginKeepsConns
<1>3. CASE Receive
  BY <1>3, ReceiveKeepsConns
<1>4. CASE Release
  <2>1. /\ held \in Conns /\ stream[held] = <<>> /\ idle' = Append(idle, held)
        /\ held' = None /\ at' = "idle" /\ sync' = sync /\ stream' = stream
    BY <1>4 DEF Release, TypeInv, ConnInv
  <2>2. stream' = [stream EXCEPT ![held] = <<>>]
    BY <2>1 DEF TypeInv
  <2>3. \A k \in 1..Len(idle) : idle[k] # held
    BY DEF ConnInv
  <2> QED
    BY <2>1, <2>2, <2>3, BackToPool
<1>5. CASE FinishSync
  <2>1. /\ sync \in [of : Commands, conn : Conns] /\ stream[sync.conn] = <<sync.of>>
        /\ sync # None /\ sync.conn # held /\ idle' = Append(idle, sync.conn) /\ sync' = None
        /\ UNCHANGED <<held, at, job>>
    BY <1>5 DEF FinishSync, TypeInv, ConnInv, threadVars
  <2>2. stream' = [stream EXCEPT ![sync.conn] = <<>>]
    BY <1>5, <2>1, ReplyFacts DEF FinishSync
  <2>3. \A k \in 1..Len(idle) : idle[k] # sync.conn
    BY <2>1 DEF ConnInv
  <2> QED
    BY <2>1, <2>2, <2>3, BackToPool
<1>6. ASSUME /\ UNCHANGED <<idle, stream, held, sync>>
             /\ \/ UNCHANGED <<at, job>>
                \/ at \notin {"receive", "release"} /\ at' \notin {"receive", "release"}
      PROVE  ConnInv'
  BY <1>6 DEF ConnInv, InUse
<1>7. ASSUME \/ \E c \in Commands, type \in {"command", "script"}, callback \in BOOLEAN :
                   RunCommand(c, type, callback)
             \/ NotifyOperationResult \/ StartPsubscribe \/ SubsGetReply \/ ScriptUnread
             \/ LoopThread \/ Publish \/ (\E p \in Subs : Lose(p)) \/ UNCHANGED vars
      PROVE  UNCHANGED <<idle, stream, held, sync, at, job>>
  BY <1>7 DEF RunCommand, NotifyOperationResult, StartPsubscribe, SubsGetReply, ScriptUnread,
     Publish, Lose,
     LoopThread, LoopStart, LoopEnter, LoopGet, LoopError, LoopCheck, loopSame, commandVars,
     threadVars, vars
<1>8. ASSUME StopRecv \/ SubConnect \/ Operate \/ StartRecv
      PROVE  /\ UNCHANGED <<idle, stream, held, sync>>
             /\ at \notin {"receive", "release"} /\ at' \notin {"receive", "release"}
  BY <1>8 DEF StopRecv, SubConnect, Operate, StartRecv, commandVars
<1> QED
  BY <1>1, <1>2, <1>3, <1>4, <1>5, <1>6, <1>7, <1>8 DEF Next, Ask, RedisThread

-----------------------------------------------------------------------------
(***************************************************************************)
(* Answers.                                                                *)
(***************************************************************************)
LEMMA AskInvInit == Init => AskInv
<1> SUFFICES ASSUME Init
             PROVE  AskInv
  OBVIOUS
<1>1. \A c \in Commands : asked[c][1] = "not asked" /\ answer[c] = None
  BY DEF Init
<1>2. Asked = 1..0 /\ 0 \in Nat
  <2>1. Asked = {}
    BY <1>1 DEF Asked
  <2>2. 1..0 = {}
    OBVIOUS
  <2> QED
    BY <2>1, <2>2
<1>3. \A k \in 1..Len(events) : FALSE
  <2>1. events = <<>> /\ Len(<<>>) = 0
    BY EmptySeq DEF Init
  <2> QED
    BY <2>1
<1>4. waiting = {} /\ sync = None
  BY DEF Init
<1> QED
  BY <1>1, <1>2, <1>3, <1>4 DEF AskInv, AnswersOwnCommand

\* The command that is asked next is the first one not asked.
LEMMA NextIsNew ==
    ASSUME TypeInv, AskInv, NEW c \in Commands, NextCommand(c),
           NEW type \in {"command", "script", "sync"}, NEW callback \in BOOLEAN,
           asked' = [asked EXCEPT ![c] = <<type, callback>>]
    PROVE  /\ c \notin Asked /\ Asked' = Asked \cup {c}
           /\ \E n \in Nat : Asked' = 1..n
           /\ asked'[c][2] = callback /\ \A d \in Asked : asked'[d] = asked[d]
<1>1. PICK n \in Nat : Asked = 1..n
  BY DEF AskInv
<1>2. Cardinality(Asked) = n
  BY <1>1, FS_Interval
<1>3. c = n + 1
  BY <1>2 DEF NextCommand
<1>4. c \notin Asked
  BY <1>1, <1>3
<1>5. asked'[c][1] # "not asked" /\ asked'[c][2] = callback
  BY DEF TypeInv
<1>6. Asked' = Asked \cup {c}
  BY <1>5 DEF TypeInv, Asked
<1>7. Asked' = 1..(n + 1) /\ n + 1 \in Nat
  BY <1>1, <1>3, <1>6
<1>8. \A d \in Asked : asked'[d] = asked[d]
  BY <1>4 DEF Asked, TypeInv
<1> QED
  BY <1>4, <1>5, <1>6, <1>7, <1>8

LEMMA AskingKeepsAnswers ==
    ASSUME TypeInv, AskInv, Ask
    PROVE  AskInv'
<1>1. ASSUME NEW c \in Commands, NEW type \in {"command", "script"}, NEW callback \in BOOLEAN,
             RunCommand(c, type, callback)
      PROVE  AskInv'
  <2>1. /\ NextCommand(c) /\ asked' = [asked EXCEPT ![c] = <<type, callback>>]
        /\ waiting' = IF callback THEN waiting \cup {c} ELSE waiting
        /\ sync = None /\ UNCHANGED <<answer, sync, events>>
    BY <1>1 DEF RunCommand
  <2>2. /\ c \notin Asked /\ Asked' = Asked \cup {c}
        /\ \E n \in Nat : Asked' = 1..n
        /\ asked'[c][2] = callback /\ \A d \in Asked : asked'[d] = asked[d]
    BY <2>1, NextIsNew
  <2>3. answer[c] = None
    BY <2>2 DEF AskInv
  <2>4. \A d \in waiting' : asked'[d][2] /\ answer'[d] = None
    BY <2>1, <2>2, <2>3 DEF AskInv
  <2> QED
    BY <2>1, <2>2, <2>4 DEF AskInv, AnswersOwnCommand
<1>2. ASSUME NEW c \in Commands, RunCommandSync(c)
      PROVE  AskInv'
  <2>1. /\ NextCommand(c) /\ asked' = [asked EXCEPT ![c] = <<"sync", FALSE>>]
        /\ sync' = [of |-> c, conn |-> Taken.conn]
        /\ UNCHANGED <<waiting, answer, events>>
    BY <1>2 DEF RunCommandSync
  <2>2. /\ c \notin Asked /\ Asked' = Asked \cup {c}
        /\ \E n \in Nat : Asked' = 1..n
        /\ asked'[c][2] = FALSE /\ \A d \in Asked : asked'[d] = asked[d]
    BY <2>1, NextIsNew
  <2>3. \A d \in waiting' : asked'[d][2] /\ answer'[d] = None
    BY <2>1, <2>2 DEF AskInv
  <2> QED
    BY <2>1, <2>2, <2>3 DEF AskInv, AnswersOwnCommand
<1> QED
  BY <1>1, <1>2 DEF Ask

LEMMA FinishSyncKeepsAnswers ==
    ASSUME TypeInv, ConnInv, AskInv, FinishSync
    PROVE  AskInv'
<1>1. /\ sync \in [of : Commands, conn : Conns] /\ stream[sync.conn] = <<sync.of>>
      /\ sync.of \in Asked /\ ~ asked[sync.of][2] /\ sync' = None
      /\ UNCHANGED <<asked, waiting, events>>
  BY DEF FinishSync, TypeInv, ConnInv, AskInv
<1>2. PICK v \in {sync.of, Failed} : answer' = [answer EXCEPT ![sync.of] = v]
  <2>1. PICK r \in Replies(sync.conn) :
            Received(sync.conn, r) /\ answer' = [answer EXCEPT ![sync.of] = r.value]
    BY DEF FinishSync
  <2>2. sync.conn \in Conns /\ sync.of \in Commands
    BY <1>1
  <2>3. r.value \in {sync.of, Failed}
    BY <1>1, <2>1, <2>2, ReplyFacts
  <2> QED
    BY <2>1, <2>3
<1>3. Asked' = Asked
  BY <1>1 DEF Asked
<1>4. sync.of \notin waiting
  BY <1>1 DEF AskInv
<1>5. \A c \in waiting : answer'[c] = None
  BY <1>2, <1>4 DEF AskInv, TypeInv
<1>6. \A c \in Commands : answer'[c] \in {None, c, Failed} /\ (answer'[c] # None => c \in Asked)
  BY ZenonT(60), <1>1, <1>2 DEF AskInv, AnswersOwnCommand, TypeInv
<1> QED
  BY <1>1, <1>3, <1>5, <1>6 DEF AskInv, AnswersOwnCommand

LEMMA NotifyKeepsAnswers ==
    ASSUME TypeInv, AskInv, NotifyOperationResult
    PROVE  AskInv'
<1> DEFINE e == Head(events)
<1>1. /\ Len(events) \in Nat \ {0} /\ e = events[1] /\ e \in Event
      /\ Len(events') = Len(events) - 1
      /\ \A k \in 1..(Len(events) - 1) : events'[k] = events[k + 1]
  BY TailFacts DEF NotifyOperationResult, TypeInv
<1>2. e.value \in {e.cookie, Failed} /\ e.cookie \in Commands
  BY <1>1 DEF AskInv, Event
<1>3. \A k \in 1..Len(events') : k + 1 \in 1..Len(events) /\ events'[k] = events[k + 1]
  BY <1>1
<1>4. \A k \in 1..Len(events') : events'[k].value \in {events'[k].cookie, Failed}
  BY <1>3 DEF AskInv
<1>5. UNCHANGED <<asked, sync>> /\ Asked' = Asked
  BY DEF NotifyOperationResult, Asked
<1>6. /\ waiting' \subseteq waiting
      /\ \A c \in waiting' : answer'[c] = None
      /\ \A c \in Commands : answer'[c] \in {None, c, Failed} /\ (answer'[c] # None => c \in Asked)
  <2>1. CASE e.cookie \in waiting
    <3>1. waiting' = waiting \ {e.cookie} /\ answer' = [answer EXCEPT ![e.cookie] = e.value]
      BY <2>1 DEF NotifyOperationResult
    <3> HIDE DEF e
    <3> QED
      BY ZenonT(60), <1>2, <2>1, <3>1 DEF AskInv, AnswersOwnCommand, TypeInv
  <2>2. CASE e.cookie \notin waiting
    BY <2>2 DEF NotifyOperationResult, AskInv, AnswersOwnCommand
  <2> QED
    BY <2>1, <2>2
<1> QED
  BY <1>4, <1>5, <1>6 DEF AskInv, AnswersOwnCommand

LEMMA ReceiveKeepsAnswers ==
    ASSUME TypeInv, ConnInv, AskInv, Receive
    PROVE  AskInv'
<1>1. /\ held \in Conns /\ job.of \in Commands /\ stream[held] = <<job.of>>
      /\ UNCHANGED <<asked, waiting, answer, sync>>
  BY DEF Receive, TypeInv, ConnInv
<1>2. PICK v \in {job.of, Failed} : events' = Result(v)
  BY <1>1, ReplyFacts DEF Receive
<1>3. Asked' = Asked
  BY <1>1 DEF Asked
<1>4. \A k \in 1..Len(events') : events'[k].value \in {events'[k].cookie, Failed}
  <2>1. CASE events' = events
    BY <2>1 DEF AskInv
  <2>2. CASE events' = Append(events, [cookie |-> job.of, value |-> v])
    <3> DEFINE e == [cookie |-> job.of, value |-> v]
    <3>1. e \in Event /\ e.value \in {e.cookie, Failed} /\ events \in Seq(Event)
      BY <1>1, <1>2 DEF Event, TypeInv
    <3> HIDE DEF e
    <3>2. /\ Len(events) \in Nat /\ Len(events') = Len(events) + 1
          /\ events'[Len(events) + 1] = e
          /\ \A k \in 1..Len(events) : events'[k] = events[k]
      BY <2>2, <3>1, AppendFacts DEF e
    <3>3. \A k \in 1..Len(events') : k \in 1..Len(events) \/ k = Len(events) + 1
      BY <3>2
    <3> QED
      BY <3>1, <3>2, <3>3 DEF AskInv
  <2> QED
    BY <1>2, <2>1, <2>2 DEF Result
<1> QED
  BY <1>1, <1>3, <1>4 DEF AskInv, AnswersOwnCommand

LEMMA AskInvStep == TypeInv /\ ConnInv /\ AskInv /\ [Next]_vars => AskInv'
<1> SUFFICES ASSUME TypeInv, ConnInv, AskInv, [Next]_vars
             PROVE  AskInv'
  OBVIOUS
<1>1. ASSUME UNCHANGED <<asked, waiting, answer, sync, events>>
      PROVE  AskInv'
  BY <1>1 DEF AskInv, Asked, AnswersOwnCommand
<1>2. ASSUME \/ StartPsubscribe \/ SubsGetReply \/ Begin \/ ScriptUnread \/ Release
             \/ StopRecv \/ SubConnect \/ Operate \/ StartRecv
             \/ LoopThread \/ Publish \/ (\E p \in Subs : Lose(p)) \/ UNCHANGED vars
      PROVE  UNCHANGED <<asked, waiting, answer, sync, events>>
  BY <1>2 DEF StartPsubscribe, SubsGetReply, Begin, ScriptUnread, Release, StopRecv, SubConnect, Operate,
     StartRecv, LoopThread, LoopStart, LoopEnter, LoopGet, LoopError, LoopCheck, Publish, Lose,
     loopSame, commandVars, vars
<1> QED
  BY <1>1, <1>2, AskingKeepsAnswers, FinishSyncKeepsAnswers, NotifyKeepsAnswers,
     ReceiveKeepsAnswers DEF Next, RedisThread

-----------------------------------------------------------------------------
(***************************************************************************)
(* How many connections of the subscription there are.                     *)
(***************************************************************************)
One(j) == IF j.type \in SubTypes THEN 1 ELSE 0

LEMMA SubJobsFinite ==
    ASSUME NEW s \in Seq(Job)
    PROVE  IsFiniteSet(SubJobs(s)) /\ Cardinality(SubJobs(s)) \in Nat
<1>1. Len(s) \in Nat
  BY LenProperties
<1>2. IsFiniteSet(1..Len(s))
  BY <1>1, FS_Interval
<1>3. SubJobs(s) \in SUBSET (1..Len(s))
  BY DEF SubJobs
<1>4. IsFiniteSet(SubJobs(s))
  BY <1>2, <1>3, FS_Subset
<1> QED
  BY <1>4, FS_CardinalityType

LEMMA SubJobsOfAppend ==
    ASSUME NEW s \in Seq(Job), NEW j \in Job
    PROVE  Cardinality(SubJobs(Append(s, j))) = Cardinality(SubJobs(s)) + One(j)
<1> DEFINE n == Len(s)
           t == Append(s, j)
<1>1. /\ n \in Nat /\ Len(t) = n + 1 /\ t[n + 1] = j
      /\ \A k \in 1..n : t[k] = s[k]
  BY AppendFacts
<1>2. n + 1 \notin SubJobs(s)
  BY <1>1 DEF SubJobs
<1>3. SubJobs(t) = IF j.type \in SubTypes THEN SubJobs(s) \cup {n + 1} ELSE SubJobs(s)
  <2>1. \A k \in 1..(n + 1) : k \in 1..n \/ k = n + 1
    BY <1>1
  <2>2. \A k \in 1..n : k \in 1..(n + 1)
    BY <1>1
  <2>3. n + 1 \in 1..(n + 1)
    BY <1>1
  <2> HIDE DEF t
  <2> QED
    BY <1>1, <2>1, <2>2, <2>3 DEF SubJobs
<1>4. IsFiniteSet(SubJobs(s)) /\ Cardinality(SubJobs(s)) \in Nat
  BY SubJobsFinite
<1>5. Cardinality(SubJobs(s) \cup {n + 1}) = Cardinality(SubJobs(s)) + 1
  BY <1>2, <1>4, FS_AddElement
<1>6. Cardinality(SubJobs(s)) + 0 = Cardinality(SubJobs(s))
  BY <1>4
<1> QED
  BY <1>3, <1>5, <1>6 DEF One

LEMMA SubJobsOfTail ==
    ASSUME NEW s \in Seq(Job), s # <<>>
    PROVE  Cardinality(SubJobs(s)) = Cardinality(SubJobs(Tail(s))) + One(Head(s))
<1> DEFINE n == Len(s)
           t == Tail(s)
           S == SubJobs(t)
           T == SubJobs(s) \ {1}
           f == [k \in S |-> k + 1]
<1>1. /\ n \in Nat \ {0} /\ Len(t) = n - 1 /\ t \in Seq(Job)
      /\ Head(s) = s[1]
      /\ \A k \in 1..(n - 1) : t[k] = s[k + 1]
  BY TailFacts
<1>2. IsFiniteSet(S) /\ Cardinality(S) \in Nat /\ IsFiniteSet(SubJobs(s))
  BY <1>1, SubJobsFinite
<1>3. /\ \A k \in S : k \in 1..(n - 1) /\ k + 1 \in 1..n /\ k + 1 # 1 /\ t[k] = s[k + 1]
      /\ \A k \in T : k - 1 \in 1..(n - 1) /\ (k - 1) + 1 = k /\ t[k - 1] = s[k]
  <2>1. \A k \in S : k \in 1..(n - 1)
    BY <1>1 DEF SubJobs
  <2>2. \A k \in T : k \in 1..n /\ k # 1
    BY DEF SubJobs
  <2>3. \A k \in 1..n : k # 1 => k - 1 \in 1..(n - 1) /\ (k - 1) + 1 = k
    BY <1>1
  <2> HIDE DEF S, T
  <2> QED
    BY <1>1, <2>1, <2>2, <2>3
<1>4. \A k \in S : k + 1 \in T
  BY <1>3 DEF SubJobs
<1>5. \A k \in T : k - 1 \in S
  BY <1>1, <1>3 DEF SubJobs
<1>6. f \in Bijection(S, T)
  <2>1. f \in [S -> T]
    BY <1>4
  <2>2. \A j, k \in S : f[j] = f[k] => j = k
    BY <1>3
  <2>3. \A k \in T : k - 1 \in S /\ f[k - 1] = k
    BY <1>3, <1>5
  <2> HIDE DEF f, S, T
  <2> QED
    BY <2>1, <2>2, <2>3 DEF Bijection, Injection, IsInjective, Surjection
<1>7. Cardinality(T) = Cardinality(S)
  <2>1. ExistsBijection(S, T)
    BY <1>6 DEF ExistsBijection
  <2> HIDE DEF S, T
  <2> QED
    BY <1>2, <2>1, FS_Bijection
<1>8. Cardinality(T) = IF 1 \in SubJobs(s) THEN Cardinality(SubJobs(s)) - 1
                                            ELSE Cardinality(SubJobs(s))
  BY <1>2, FS_RemoveElement
<1>9. 1 \in SubJobs(s) <=> Head(s).type \in SubTypes
  <2>1. 1 \in 1..n
    BY <1>1
  <2> QED
    BY <1>1, <2>1 DEF SubJobs
<1>10. Cardinality(SubJobs(s)) \in Nat
  BY SubJobsFinite
<1> HIDE DEF S, T
<1> QED
  BY <1>2, <1>7, <1>8, <1>9, <1>10 DEF One, S

LEMMA PendingIsNumber ==
    ASSUME TypeInv
    PROVE  Pending \in Nat /\ Cardinality(SubJobs(jobs)) \in Nat /\ starts \in Nat
<1>1. Cardinality(SubJobs(jobs)) \in Nat
  BY SubJobsFinite DEF TypeInv
<1>2. starts \in Nat
  <2>1. starts \in 0..MaxStarts
    BY DEF TypeInv
  <2> QED
    BY <2>1, SubsAreNumbers
<1> QED
  BY <1>1, <1>2 DEF Pending

LEMMA CountInvInit == Init => CountInv
<1> SUFFICES ASSUME Init
             PROVE  CountInv
  OBVIOUS
<1>1. Made = {} /\ 1..0 = {}
  <2>1. \A p \in Subs : pubsub[p].state = "none"
    BY DEF Init, NoPubSub
  <2> QED
    BY <2>1 DEF Made
<1>2. Cardinality(SubJobs(jobs)) = 0
  <2>1. Len(jobs) = 0
    BY EmptySeq DEF Init
  <2>2. SubJobs(jobs) = {}
    BY <2>1 DEF SubJobs
  <2> QED
    BY <2>2, FS_EmptySet
<1>3. Pending = 0 /\ starts = 0
  <2>1. at = "idle" /\ starts = 0
    BY DEF Init
  <2> QED
    BY <1>2, <2>1 DEF Pending
<1>4. 0 \in Nat /\ 0 + Pending <= 2 * starts
  BY <1>3
<1> QED
  BY <1>1, <1>4 DEF CountInv

LEMMA NextSubIsNew ==
    ASSUME TypeInv, CountInv
    PROVE  /\ \E n \in Nat : Made = 1..n /\ NextSub = n + 1 /\ n + Pending <= 2 * starts
           /\ NextSub \notin Made
           /\ at = "connect" => NextSub \in Subs
<1>1. PICK n \in Nat : Made = 1..n /\ n + Pending <= 2 * starts
  BY DEF CountInv
<1>2. NextSub = n + 1
  <2>1. Cardinality(1..n) = n
    BY FS_Interval
  <2> QED
    BY <1>1, <2>1 DEF NextSub, Made
<1>3. ASSUME at = "connect"
      PROVE  NextSub \in Subs
  <2>1. Pending >= 1 /\ starts \in Nat
    BY <1>3, PendingIsNumber DEF Pending
  <2>2. Pending \in Nat /\ starts <= MaxStarts
    <3>1. starts \in 0..MaxStarts
      BY DEF TypeInv
    <3> QED
      BY <3>1, PendingIsNumber, SubsAreNumbers
  <2>3. n + 1 <= 2 * MaxStarts
    BY <1>1, <2>1, <2>2, SubsAreNumbers
  <2> QED
    BY <1>2, <2>3, SubsAreNumbers DEF Subs
<1>4. NextSub \notin Made
  BY <1>1, <1>2
<1> QED
  BY <1>1, <1>2, <1>3, <1>4

\* As long as none is made, and no more is pending, there is enough.
LEMMA CountStays ==
    ASSUME TypeInv, CountInv, Made' = Made, starts' = starts, Pending' = Pending
    PROVE  CountInv'
  BY DEF CountInv

LEMMA CountInvStep ==
    TypeInv /\ ConnInv /\ OwnerInv /\ CountInv /\ [Next]_vars => CountInv'
<1> SUFFICES ASSUME TypeInv, ConnInv, OwnerInv, CountInv, [Next]_vars
             PROVE  CountInv'
  OBVIOUS
<1>1. ASSUME UNCHANGED <<jobs, starts>>, at' = "connect" <=> at = "connect",
             \A p \in Subs : pubsub'[p].state = "none" <=> pubsub[p].state = "none"
      PROVE  CountInv'
  BY <1>1, CountStays DEF Made, Pending
<1>2. ASSUME NEW c \in Commands, NEW type \in {"command", "script"}, NEW callback \in BOOLEAN,
             RunCommand(c, type, callback)
      PROVE  CountInv'
  <2> DEFINE j == [type |-> type, of |-> c]
  <2>1. /\ j \in Job /\ One(j) = 0 /\ jobs \in Seq(Job)
        /\ jobs' = Append(jobs, j) /\ UNCHANGED <<starts, at, pubsub>>
    BY <1>2 DEF RunCommand, Job, One, SubTypes, TypeInv, subVars
  <2> HIDE DEF j
  <2>2. Cardinality(SubJobs(jobs')) = Cardinality(SubJobs(jobs)) + 0
    BY <2>1, SubJobsOfAppend
  <2>3. Pending' = Pending
    BY <2>1, <2>2, PendingIsNumber DEF Pending
  <2> QED
    BY <2>1, <2>3, CountStays DEF Made
<1>3. CASE StartPsubscribe
  <2> DEFINE a == [type |-> "PUNSUBSCRIBE", of |-> None]
             b == [type |-> "PSUBSCRIBE", of |-> None]
             s == Append(jobs, a)
  <2>1. a \in Job /\ b \in Job /\ One(a) = 1 /\ One(b) = 1 /\ jobs \in Seq(Job)
    BY DEF Job, One, SubTypes, TypeInv
  <2>2. jobs' = jobs \o <<a, b>> /\ starts' = starts + 1 /\ UNCHANGED <<at, pubsub>>
    BY <1>3 DEF StartPsubscribe, subVars
  <2> HIDE DEF a, b
  <2>3. s \in Seq(Job)
    BY <2>1, AppendFacts
  <2>4. jobs' = Append(s, b)
    BY <2>1, <2>2, TwoMore
  <2> HIDE DEF s
  <2>5. /\ Cardinality(SubJobs(s)) = Cardinality(SubJobs(jobs)) + 1
        /\ Cardinality(SubJobs(jobs')) = Cardinality(SubJobs(s)) + 1
    BY <2>1, <2>3, <2>4, SubJobsOfAppend DEF s
  <2>6. Pending' = Pending + 2
    BY <2>2, <2>5, PendingIsNumber DEF Pending
  <2>7. PICK n \in Nat : Made = 1..n /\ n + Pending <= 2 * starts
    BY DEF CountInv
  <2>8. n + Pending' <= 2 * starts'
    BY SMTT(30), <2>2, <2>6, <2>7, PendingIsNumber
  <2>9. Made' = Made
    BY <2>2 DEF Made
  <2> QED
    BY <2>7, <2>8, <2>9 DEF CountInv
<1>4. CASE Begin \/ ScriptUnread \/ StopRecv
  <2>1. /\ jobs # <<>> /\ jobs' = Tail(jobs) /\ at = "idle"
        /\ at' = "connect" <=> Head(jobs).type \in SubTypes
        /\ UNCHANGED <<starts, pubsub>>
    BY <1>4 DEF Begin, ScriptUnread, StopRecv, SubTypes, subVars
  <2>2. Cardinality(SubJobs(jobs)) = Cardinality(SubJobs(jobs')) + One(Head(jobs))
    BY <2>1, SubJobsOfTail DEF TypeInv
  <2>3. Cardinality(SubJobs(jobs')) \in Nat
    BY <2>1, SubJobsFinite, SequencesOfTypes
  <2>4. Pending' = Pending
    BY <2>1, <2>2, <2>3 DEF Pending, One
  <2> QED
    BY <2>1, <2>4, CountStays DEF Made
<1>5. CASE SubConnect
  <2>1. PICK n \in Nat : Made = 1..n /\ NextSub = n + 1 /\ n + Pending <= 2 * starts
    BY NextSubIsNew
  <2>2. NextSub \in Subs
    BY <1>5, NextSubIsNew DEF SubConnect
  <2>3. at = "connect" /\ at' # "connect" /\ UNCHANGED <<jobs, starts>>
    BY <1>5 DEF SubConnect
  <2>4. Pending = Pending' + 1 /\ Pending' \in Nat
    BY <2>3, PendingIsNumber DEF Pending
  <2>5. Made' = Made \/ Made' = Made \cup {NextSub}
    <3>1. CASE pubsub' = pubsub
      BY <3>1 DEF Made
    <3>2. CASE pubsub' = [p \in Subs |->
                     CASE p = NextSub -> [NoPubSub EXCEPT !.state = "up"]
                       [] p = subFd   -> Closed(p)
                       [] OTHER       -> pubsub[p]]
      <4>1. pubsub'[NextSub].state = "up"
        <5>1. NextSub # subFd
          BY <2>2, NextSubIsNew, Nothing DEF OwnerInv, Made
        <5>2. pubsub'[NextSub] = [NoPubSub EXCEPT !.state = "up"]
          BY <2>2, <3>2, <5>1
        <5> QED
          BY <5>2 DEF NoPubSub
      <4>2. \A p \in Subs : p # NextSub => pubsub'[p].state = pubsub[p].state
        BY <3>2, ShutFacts
      <4> QED
        BY <2>2, <4>1, <4>2 DEF Made
    <3> QED
      BY <1>5, <3>1, <3>2 DEF SubConnect
  <2>6. CASE Made' = Made
    <3>1. n + Pending' <= 2 * starts'
      BY <2>1, <2>3, <2>4, PendingIsNumber
    <3> QED
      BY <2>1, <2>6, <3>1 DEF CountInv
  <2>7. CASE Made' = Made \cup {NextSub}
    <3>1. Made' = 1..(n + 1) /\ n + 1 \in Nat
      BY <2>1, <2>7
    <3>2. (n + 1) + Pending' <= 2 * starts'
      BY <2>1, <2>3, <2>4, PendingIsNumber
    <3> QED
      BY <3>1, <3>2 DEF CountInv
  <2> QED
    BY <2>5, <2>6, <2>7
<1>6. ASSUME Operate \/ LoopThread \/ Publish \/ \E p \in Subs : Lose(p)
      PROVE  /\ UNCHANGED <<jobs, starts>> /\ (at' = "connect" <=> at = "connect")
             /\ \A p \in Subs : pubsub'[p].state = "none" <=> pubsub[p].state = "none"
  <2>1. CASE Operate
    <3>1. subConnect \in Subs /\ pubsub[subConnect].state # "none"
      BY <2>1 DEF Operate, OwnerInv, TypeInv
    <3>2. PICK q : pubsub' = [pubsub EXCEPT ![subConnect] = q] /\ q.state # "none"
      <4>1. pubsub[subConnect] \in PubSub
        BY <3>1 DEF TypeInv
      <4>2. CASE pubsub[subConnect].state # "up"
        <5> DEFINE q == [pubsub[subConnect] EXCEPT !.state = "failed"]
        <5>1. pubsub' = [pubsub EXCEPT ![subConnect] = q]
          BY <2>1, <4>2 DEF Operate
        <5>2. q.state # "none"
          BY <4>1 DEF PubSub
        <5> HIDE DEF q
        <5> QED
          BY <5>1, <5>2
      <4>3. CASE pubsub[subConnect].state = "up" /\ job.type = "PSUBSCRIBE"
        <5> DEFINE q == [pubsub[subConnect] EXCEPT !.subscribed = TRUE, !.since = published]
        <5>1. pubsub' = [pubsub EXCEPT ![subConnect] = q]
          BY <2>1, <4>3 DEF Operate
        <5>2. q.state # "none"
          BY <4>1, <4>3 DEF PubSub
        <5> HIDE DEF q
        <5> QED
          BY <5>1, <5>2
      <4>4. CASE pubsub[subConnect].state = "up" /\ job.type # "PSUBSCRIBE"
        <5> DEFINE q == [pubsub[subConnect] EXCEPT !.subscribed = FALSE]
        <5>1. pubsub' = [pubsub EXCEPT ![subConnect] = q]
          BY <2>1, <4>4 DEF Operate
        <5>2. q.state # "none"
          BY <4>1, <4>4 DEF PubSub
        <5> HIDE DEF q
        <5> QED
          BY <5>1, <5>2
      <4> QED
        BY <4>2, <4>3, <4>4
    <3>3. UNCHANGED <<jobs, starts>> /\ at' # "connect" /\ at # "connect"
      BY <2>1 DEF Operate
    <3> QED
      BY <3>1, <3>2, <3>3 DEF TypeInv
  <2>2. CASE LoopThread
    <3>1. UNCHANGED <<jobs, starts, at>>
      BY <2>2 DEF LoopThread, LoopStart, LoopEnter, LoopGet, LoopError, LoopCheck, loopSame,
         threadVars
    <3>2. \/ pubsub' = pubsub
          \/ loop \in Subs /\ pubsub' = [pubsub EXCEPT ![loop] = Shut(loop)]
          \/ loop \in Subs /\ \E s : pubsub' = [pubsub EXCEPT ![loop].socket = s]
      BY <2>2 DEF LoopThread, LoopStart, LoopEnter, LoopGet, LoopError, LoopCheck, LoopEnds,
         TypeInv
    <3>3. \A p \in Subs : pubsub'[p].state = pubsub[p].state
      <4>1. CASE loop \in Subs /\ pubsub' = [pubsub EXCEPT ![loop] = Shut(loop)]
        BY <4>1, ShutFacts DEF TypeInv
      <4>2. ASSUME loop \in Subs, NEW s, pubsub' = [pubsub EXCEPT ![loop].socket = s]
            PROVE  \A p \in Subs : pubsub'[p].state = pubsub[p].state
        BY <4>2 DEF TypeInv, PubSub
      <4> QED
        BY <3>2, <4>1, <4>2
    <3> QED
      BY <3>1, <3>3
  <2>3. CASE Publish
    BY <2>3 DEF Publish, threadVars, TypeInv, PubSub
  <2>4. ASSUME NEW p \in Subs, Lose(p)
        PROVE  /\ UNCHANGED <<jobs, starts, at>>
               /\ \A q \in Subs : pubsub'[q].state = "none" <=> pubsub[q].state = "none"
    BY <2>4 DEF Lose, threadVars, TypeInv, PubSub
  <2> QED
    BY <1>6, <2>1, <2>2, <2>3, <2>4
<1>7. ASSUME \/ (\E c \in Commands : RunCommandSync(c)) \/ FinishSync
             \/ NotifyOperationResult \/ SubsGetReply
             \/ Receive \/ Release \/ StartRecv \/ UNCHANGED vars
      PROVE  UNCHANGED <<jobs, starts, pubsub>> /\ (at' = "connect" <=> at = "connect")
  BY <1>7 DEF RunCommandSync, FinishSync, NotifyOperationResult, SubsGetReply, Receive, Release,
     StartRecv, subVars, threadVars, vars
<1>8. ASSUME Operate \/ LoopThread \/ Publish \/ \E p \in Subs : Lose(p)
      PROVE  CountInv'
  BY <1>1, <1>6, <1>8, Zenon
<1>9. ASSUME \/ (\E c \in Commands : RunCommandSync(c)) \/ FinishSync
             \/ NotifyOperationResult \/ SubsGetReply
             \/ Receive \/ Release \/ StartRecv \/ UNCHANGED vars
      PROVE  CountInv'
  BY <1>1, <1>7, <1>9
<1> QED
  BY <1>2, <1>3, <1>4, <1>5, <1>8, <1>9 DEF Next, Ask, RedisThread

-----------------------------------------------------------------------------
(***************************************************************************)
(* Who has a connection of the subscription.                               *)
(***************************************************************************)
LEMMA OwnerInvInit == Init => OwnerInv
<1> SUFFICES ASSUME Init
             PROVE  OwnerInv
  OBVIOUS
<1>1. Len(loops) = 0
  BY EmptySeq DEF Init
<1>2. \A k \in 1..Len(loops) : FALSE
  BY <1>1
<1>3. /\ at = "idle" /\ subConnect = None /\ subFd = None /\ subReceiver = None /\ loop = None
      /\ \A p \in Subs : channel[p] = <<>>
  BY DEF Init
<1> QED
  BY <1>2, <1>3, Nothing DEF OwnerInv

\* Who has a connection does not depend on messages, nor on what the thread does
\* with commands.
LEMMA OwnersStay ==
    ASSUME TypeInv, OwnerInv,
           UNCHANGED <<subConnect, subFd, subReceiver, run, loops, loop>>,
           \/ UNCHANGED <<at, job>>
           \/ at' \notin {"connect", "operate", "start"},
           \A p \in Subs :
              /\ pubsub'[p].state = "none" <=> pubsub[p].state = "none"
              /\ pubsub'[p].state = "up" => pubsub[p].state = "up"
              /\ pubsub'[p].closed = pubsub[p].closed
              /\ channel'[p] # <<>> => subReceiver = p
    PROVE  OwnerInv'
<1>1. /\ subConnect # None => subConnect \in Subs
      /\ subFd # None => subFd \in Subs
      /\ subReceiver # None => subReceiver \in Subs
  BY DEF TypeInv
<1> QED
  BY <1>1 DEF OwnerInv

LEMMA StopRecvKeepsOwners ==
    ASSUME TypeInv, OwnerInv, StopRecv
    PROVE  OwnerInv' /\ \A p \in Subs : channel'[p] = <<>>
<1>1. /\ at' = "connect" /\ job'.type \in SubTypes
      /\ subConnect' \in {subConnect, None} /\ subReceiver' = None
      /\ UNCHANGED <<pubsub, subFd, loops, loop>>
  BY DEF StopRecv, SubTypes, loopVars
<1>2. \A p \in Subs : channel'[p] = <<>>
  <2>1. CASE subReceiver = None
    <3>1. channel' = channel
      BY <2>1 DEF StopRecv
    <3> QED
      BY <2>1, <3>1, Nothing DEF OwnerInv
  <2>2. CASE subReceiver # None
    <3>1. channel' = [channel EXCEPT ![subReceiver] = <<>>]
      BY <2>2 DEF StopRecv
    <3>2. channel \in [Subs -> Seq(Messages)] /\ subReceiver \in Subs
      BY <2>2 DEF TypeInv
    <3>3. \A p \in Subs : p # subReceiver => channel[p] = <<>>
      BY DEF OwnerInv
    <3> QED
      BY <3>1, <3>2, <3>3
  <2> QED
    BY <2>1, <2>2
<1> QED
  BY <1>1, <1>2, Nothing DEF OwnerInv

LEMMA SubConnectKeepsOwners ==
    ASSUME TypeInv, OwnerInv, CountInv, SubConnect
    PROVE  OwnerInv'
<1>1. /\ at = "connect" /\ subReceiver = None /\ job.type \in SubTypes
      /\ UNCHANGED <<subReceiver, run, channel, loops, loop>>
  BY DEF SubConnect, OwnerInv, loopVars
<1>2. \/ at' = "operate" /\ subConnect # None /\ UNCHANGED <<pubsub, subConnect, subFd, job>>
      \/ at' = "idle" /\ UNCHANGED <<pubsub, subConnect, subFd>>
      \/ /\ pubsub' = [p \in Subs |->
                CASE p = NextSub -> [NoPubSub EXCEPT !.state = "up"]
                  [] p = subFd   -> Closed(p)
                  [] OTHER       -> pubsub[p]]
         /\ subConnect' = NextSub /\ subFd' = NextSub /\ at' = "operate" /\ job' = job
  BY DEF SubConnect, IsWork
<1>3. CASE at' = "operate" /\ subConnect # None /\ UNCHANGED <<pubsub, subConnect, subFd, job>>
  BY <1>1, <1>3 DEF OwnerInv
<1>4. CASE at' = "idle" /\ UNCHANGED <<pubsub, subConnect, subFd>>
  BY <1>1, <1>4 DEF OwnerInv
<1>5. CASE /\ pubsub' = [p \in Subs |->
                CASE p = NextSub -> [NoPubSub EXCEPT !.state = "up"]
                  [] p = subFd   -> Closed(p)
                  [] OTHER       -> pubsub[p]]
           /\ subConnect' = NextSub /\ subFd' = NextSub /\ at' = "operate" /\ job' = job
  <2>1. NextSub \in Subs /\ pubsub[NextSub].state = "none" /\ NextSub # None
    BY <1>1, NextSubIsNew, Nothing DEF Made
  <2>2. NextSub # subFd /\ NextSub # loop /\ \A k \in 1..Len(loops) : loops[k] # NextSub
    BY <2>1 DEF OwnerInv
  <2>3. pubsub'[NextSub].state = "up" /\ ~ pubsub'[NextSub].closed
    <3>1. pubsub'[NextSub] = [NoPubSub EXCEPT !.state = "up"]
      BY <1>5, <2>1, <2>2
    <3> QED
      BY <3>1 DEF NoPubSub
  <2>4. \A p \in Subs : p # NextSub => pubsub'[p].state = pubsub[p].state
    BY <1>5, ShutFacts
  <2>5. \A p \in Subs : pubsub'[p].state = "none" => p # NextSub /\ pubsub[p].state = "none"
    BY <2>3, <2>4
  <2> HIDE DEF NextSub
  <2> QED
    BY <1>1, <1>5, <2>1, <2>2, <2>3, <2>5 DEF OwnerInv
<1> QED
  BY <1>2, <1>3, <1>4, <1>5

\* What Operate does to the connection of the subscription.
LEMMA OperateFacts ==
    ASSUME TypeInv, OwnerInv, Operate
    PROVE  /\ subConnect \in Subs /\ subReceiver = None /\ job.type \in SubTypes
           /\ \A p \in Subs : p # subConnect => pubsub'[p] = pubsub[p]
           /\ pubsub[subConnect] \in PubSub
           /\ pubsub'[subConnect] =
                 IF pubsub[subConnect].state # "up"
                 THEN [pubsub[subConnect] EXCEPT !.state = "failed"]
                 ELSE IF job.type = "PSUBSCRIBE"
                      THEN [pubsub[subConnect] EXCEPT !.subscribed = TRUE, !.since = published]
                      ELSE [pubsub[subConnect] EXCEPT !.subscribed = FALSE]
           /\ IF job.type = "PSUBSCRIBE" THEN at' = "start" /\ job' = job ELSE at' = "idle"
<1>1. subConnect \in Subs /\ subReceiver = None /\ job.type \in SubTypes
  BY DEF Operate, OwnerInv, TypeInv
<1>2. \A p \in Subs : p # subConnect => pubsub'[p] = pubsub[p]
  BY DEF Operate, TypeInv
<1>3. pubsub'[subConnect] =
          IF pubsub[subConnect].state # "up"
          THEN [pubsub[subConnect] EXCEPT !.state = "failed"]
          ELSE IF job.type = "PSUBSCRIBE"
               THEN [pubsub[subConnect] EXCEPT !.subscribed = TRUE, !.since = published]
               ELSE [pubsub[subConnect] EXCEPT !.subscribed = FALSE]
  BY <1>1 DEF Operate, TypeInv
<1>4. IF job.type = "PSUBSCRIBE" THEN at' = "start" /\ job' = job ELSE at' = "idle"
  BY <1>1 DEF Operate, StartsRecv, SubTypes
<1> QED
  BY <1>1, <1>2, <1>3, <1>4 DEF TypeInv

LEMMA OperateKeepsOwners ==
    ASSUME TypeInv, OwnerInv, Operate
    PROVE  OwnerInv'
<1>1. /\ subConnect \in Subs /\ subReceiver = None /\ job.type \in SubTypes
      /\ \A p \in Subs : p # subConnect => pubsub'[p] = pubsub[p]
      /\ (at' = "start" /\ job' = job) \/ at' = "idle"
  BY OperateFacts
<1>2. pubsub'[subConnect].state # "none" /\ pubsub'[subConnect].closed = pubsub[subConnect].closed
  <2> DEFINE q == pubsub[subConnect]
  <2>1. q \in PubSub /\ q.state # "none"
    BY <1>1, OperateFacts DEF OwnerInv
  <2>2. \/ pubsub'[subConnect] = [q EXCEPT !.state = "failed"]
        \/ pubsub'[subConnect] = [q EXCEPT !.subscribed = TRUE, !.since = published]
        \/ pubsub'[subConnect] = [q EXCEPT !.subscribed = FALSE]
    BY OperateFacts
  <2> HIDE DEF q
  <2>3. pubsub'[subConnect].state # "none" /\ pubsub'[subConnect].closed = q.closed
    BY <2>1, <2>2 DEF PubSub
  <2> QED
    BY <2>3 DEF q
<1>3. UNCHANGED <<subConnect, subFd, subReceiver, run, channel, loops, loop>>
  BY DEF Operate, loopVars
<1>4. subConnect # None /\ subConnect' = subConnect
  BY <1>1, <1>3, Nothing
<1>5. \A p \in Subs : /\ pubsub'[p].state = "none" => pubsub[p].state = "none"
                      /\ pubsub[p].state # "none" => pubsub'[p].state # "none"
  BY <1>1, <1>2
<1> QED
  BY <1>1, <1>2, <1>3, <1>4, <1>5 DEF OwnerInv, TypeInv

LEMMA StartRecvFacts ==
    ASSUME TypeInv, OwnerInv, StartRecv
    PROVE  /\ subConnect \in Subs /\ subReceiver = None /\ at = "start" /\ at' = "idle"
           /\ subReceiver' = subConnect /\ subConnect' = None
           /\ run' = [run EXCEPT ![subConnect] = TRUE] /\ loops' = Append(loops, subConnect)
           /\ UNCHANGED <<got, pubsub, subFd, channel, loop, published>>
<1>1. subReceiver = None /\ subConnect # None
  BY DEF StartRecv, OwnerInv
<1> QED
  BY <1>1 DEF StartRecv, IsSubWork, TypeInv, outside

LEMMA StartRecvKeepsOwners ==
    ASSUME TypeInv, OwnerInv, StartRecv
    PROVE  OwnerInv'
<1> DEFINE p == subConnect
           n == Len(loops)
<1>1. /\ p \in Subs /\ p # None /\ subReceiver = None /\ at' = "idle"
      /\ subReceiver' = p /\ subConnect' = None
      /\ run' = [run EXCEPT ![p] = TRUE] /\ loops' = Append(loops, p)
      /\ UNCHANGED <<pubsub, subFd, channel, loop>>
  BY StartRecvFacts, Nothing
<1>2. pubsub[p].state # "none" /\ ~ pubsub[p].closed /\ run'[p]
  BY <1>1 DEF OwnerInv, TypeInv
<1>3. /\ n \in Nat /\ Len(loops') = n + 1 /\ loops'[n + 1] = p
      /\ \A k \in 1..n : loops'[k] = loops[k]
  <2>1. loops \in Seq(Subs)
    BY DEF TypeInv
  <2> QED
    BY <1>1, <2>1, AppendFacts
<1>4. \A k \in 1..Len(loops') : k \in 1..n \/ k = n + 1
  BY <1>3
<1>5. \A q \in Subs : pubsub[q].state = "none" =>
          q # None /\ q # p /\ q # loop /\ \A k \in 1..Len(loops') : loops'[k] # q
  BY <1>1, <1>2, <1>3, <1>4, Nothing DEF OwnerInv
<1>6. \A q \in Subs : channel[q] = <<>>
  BY <1>1, Nothing DEF OwnerInv
<1> HIDE DEF p, n
<1> QED
  BY <1>1, <1>2, <1>5, <1>6 DEF OwnerInv

\* A loop ends that is not the receiver's, or whose connection is not up.
LEMMA LoopEndsKeepsOwners ==
    ASSUME TypeInv, OwnerInv, loop \in Subs, LoopEnds,
           run' = run \/ run' = [run EXCEPT ![loop] = FALSE],
           subReceiver = loop => pubsub[loop].state # "up",
           UNCHANGED <<at, job, subConnect, subFd, subReceiver, channel, loops>>
    PROVE  OwnerInv'
<1>1. loop' = None /\ pubsub' = [pubsub EXCEPT ![loop] = Shut(loop)]
  BY DEF LoopEnds
<1>2. /\ \A p \in Subs : pubsub'[p].state = pubsub[p].state
      /\ \A p \in Subs : p # loop => pubsub'[p] = pubsub[p] /\ run'[p] = run[p]
  BY <1>1, ShutFacts DEF TypeInv
<1>3. /\ subConnect # None => subConnect \in Subs /\ subConnect # loop
      /\ subFd # None => subFd \in Subs
      /\ subReceiver # None => subReceiver \in Subs
  BY DEF TypeInv, OwnerInv
<1> QED
  BY <1>1, <1>2, <1>3, Nothing DEF OwnerInv

LEMMA LoopKeepsOwners ==
    ASSUME TypeInv, OwnerInv, LoopThread
    PROVE  OwnerInv'
<1>1. UNCHANGED <<at, job, subConnect, subFd, subReceiver>>
  BY DEF LoopThread, LoopStart, LoopEnter, LoopGet, LoopError, LoopCheck, loopSame, threadVars
<1>2. CASE LoopStart
  <2>1. /\ loop' = loops[1] /\ Len(loops) \in Nat \ {0} /\ Len(loops') = Len(loops) - 1
        /\ \A k \in 1..(Len(loops) - 1) : loops'[k] = loops[k + 1]
        /\ UNCHANGED <<pubsub, run, channel>>
    BY <1>2, TailFacts DEF LoopStart, TypeInv
  <2>2. /\ 1 \in 1..Len(loops)
        /\ \A k \in 1..Len(loops') : k + 1 \in 1..Len(loops) /\ loops'[k] = loops[k + 1]
    BY <2>1
  <2> QED
    BY <1>1, <2>1, <2>2 DEF OwnerInv
<1>3. CASE LoopEnter
  <2>1. loop \in Subs /\ loop # None /\ UNCHANGED <<loops, channel>>
    BY <1>3, Nothing DEF LoopEnter, TypeInv
  <2>2. CASE pubsub[loop].closed
    <3>1. subReceiver = loop => pubsub[loop].state # "up"
      BY <2>1, <2>2 DEF OwnerInv
    <3> QED
      BY <1>1, <1>3, <2>1, <2>2, <3>1, LoopEndsKeepsOwners DEF LoopEnter
  <2>3. CASE ~ pubsub[loop].closed
    BY <1>1, <1>3, <2>1, <2>3 DEF LoopEnter, OwnerInv
  <2> QED
    BY <2>2, <2>3
<1>4. CASE LoopGet
  <2>1. /\ loop \in Subs /\ UNCHANGED <<loops, loop, run>>
        /\ pubsub' = [pubsub EXCEPT ![loop].socket = Tail(@)]
        /\ channel' = IF subReceiver = loop
                      THEN [channel EXCEPT ![loop] = Append(@, Head(pubsub[loop].socket))]
                      ELSE channel
    BY <1>4 DEF LoopGet, TypeInv
  <2>2. \A p \in Subs : /\ pubsub'[p].state = pubsub[p].state
                        /\ pubsub'[p].closed = pubsub[p].closed
    BY ZenonT(60), <2>1 DEF TypeInv, PubSub
  <2>3. \A p \in Subs : channel'[p] # <<>> => subReceiver = p
    BY <2>1 DEF OwnerInv, TypeInv
  <2> QED
    BY <1>1, <2>1, <2>2, <2>3, OwnersStay
<1>5. CASE LoopError
  <2>1. loop \in Subs /\ UNCHANGED <<loops, channel>> /\ pubsub[loop].state # "up"
    BY <1>5 DEF LoopError, TypeInv
  <2> QED
    BY <1>1, <1>5, <2>1, LoopEndsKeepsOwners DEF LoopError
<1>6. CASE LoopCheck
  <2>1. loop \in Subs /\ loop # None /\ UNCHANGED <<loops, channel, run>>
    BY <1>6, Nothing DEF LoopCheck, TypeInv
  <2>2. CASE run[loop]
    BY <1>1, <1>6, <2>1, <2>2 DEF LoopCheck, OwnerInv
  <2>3. CASE ~ run[loop]
    <3>1. subReceiver = loop => pubsub[loop].state # "up"
      BY <2>1, <2>3 DEF OwnerInv
    <3> QED
      BY <1>1, <1>6, <2>1, <2>3, <3>1, LoopEndsKeepsOwners DEF LoopCheck
  <2> QED
    BY <2>2, <2>3
<1> QED
  BY <1>2, <1>3, <1>4, <1>5, <1>6 DEF LoopThread

LEMMA OwnerInvStep ==
    TypeInv /\ ConnInv /\ CountInv /\ OwnerInv /\ [Next]_vars => OwnerInv'
<1> SUFFICES ASSUME TypeInv, ConnInv, CountInv, OwnerInv, [Next]_vars
             PROVE  OwnerInv'
  OBVIOUS
<1>1. ASSUME UNCHANGED <<subConnect, subFd, subReceiver, run, loops, loop, pubsub, channel>>,
             UNCHANGED <<at, job>> \/ at' \notin {"connect", "operate", "start"}
      PROVE  OwnerInv'
  BY <1>1 DEF OwnerInv
<1>2. ASSUME Ask \/ FinishSync \/ NotifyOperationResult \/ StartPsubscribe \/ UNCHANGED vars
      PROVE  OwnerInv'
  BY ZenonT(60), <1>1, <1>2 DEF Ask, RunCommand, RunCommandSync, FinishSync, NotifyOperationResult,
     StartPsubscribe, subVars, loopVars, threadVars, vars
<1>3. ASSUME Begin \/ ScriptUnread \/ Receive \/ Release
      PROVE  OwnerInv'
  BY <1>1, <1>3 DEF Begin, ScriptUnread, Receive, Release, subVars, loopVars
<1>4. CASE SubsGetReply
  <2>1. \A p \in Subs : channel'[p] # <<>> => subReceiver = p
    BY <1>4 DEF SubsGetReply, OwnerInv, TypeInv
  <2>2. UNCHANGED <<subConnect, subFd, subReceiver, run, loops, loop, pubsub, at, job>>
    BY <1>4 DEF SubsGetReply, loopVars, threadVars
  <2> QED
    BY <2>1, <2>2, OwnersStay
<1>5. CASE Publish
  <2>1. \A p \in Subs : /\ pubsub'[p].state = pubsub[p].state
                        /\ pubsub'[p].closed = pubsub[p].closed
    BY <1>5 DEF Publish, TypeInv, PubSub
  <2>2. UNCHANGED <<subConnect, subFd, subReceiver, run, loops, loop, channel, at, job>>
    BY <1>5 DEF Publish, loopVars, threadVars
  <2>3. \A p \in Subs : channel'[p] # <<>> => subReceiver = p
    BY <2>2 DEF OwnerInv
  <2> QED
    BY <2>1, <2>2, <2>3, OwnersStay
<1>6. ASSUME NEW p \in Subs, Lose(p)
      PROVE  OwnerInv'
  <2>1. /\ pubsub[p].state = "up" /\ pubsub'[p].state = "lost"
        /\ pubsub'[p].closed = pubsub[p].closed
        /\ \A q \in Subs : q # p => pubsub'[q] = pubsub[q]
    BY <1>6 DEF Lose, TypeInv, PubSub
  <2>2. UNCHANGED <<subConnect, subFd, subReceiver, run, loops, loop, channel, at, job>>
    BY <1>6 DEF Lose, loopVars, threadVars
  <2>3. \A q \in Subs : /\ pubsub'[q].state = "none" <=> pubsub[q].state = "none"
                        /\ pubsub'[q].state = "up" => pubsub[q].state = "up"
                        /\ pubsub'[q].closed = pubsub[q].closed
    BY <2>1
  <2>4. \A q \in Subs : channel'[q] # <<>> => subReceiver = q
    BY <2>2 DEF OwnerInv
  <2> QED
    BY <2>2, <2>3, <2>4, OwnersStay
<1> QED
  BY <1>2, <1>3, <1>4, <1>5, <1>6, StopRecvKeepsOwners, SubConnectKeepsOwners,
     OperateKeepsOwners, StartRecvKeepsOwners, LoopKeepsOwners DEF Next, RedisThread

-----------------------------------------------------------------------------
(***************************************************************************)
(* Nothing is lost.                                                        *)
(***************************************************************************)

\* A message is published: it is put in the socket.
LEMMA FollowingPublish ==
    ASSUME NEW g \in Seq(Nat), NEW c \in Seq(Nat), NEW s \in Seq(Nat), NEW since \in Nat,
           NEW last \in Nat, Following(g, c, s, since, last)
    PROVE  Following(g, c, Append(s, last + 1), since, last + 1)
<1> DEFINE t == Append(s, last + 1)
           n == Len(s)
           m == Len(c)
           first == last - n - m
<1>1. /\ n \in Nat /\ m \in Nat /\ Len(g) \in Nat
      /\ Len(t) = n + 1 /\ t[n + 1] = last + 1 /\ \A k \in 1..n : t[k] = s[k]
  BY AppendFacts, LenProperties
<1>2. \A k \in 1..n : s[k] = last - n + k
  BY DEF Following
<1> HIDE DEF t, n, m
<1>3. (last + 1) - Len(t) - m = first
  BY <1>1
<1>4. \A k \in 1..Len(t) : t[k] = (last + 1) - Len(t) + k
  <2> SUFFICES ASSUME NEW k \in 1..Len(t)
               PROVE  t[k] = (last + 1) - Len(t) + k
    OBVIOUS
  <2>1. CASE k = n + 1
    BY <1>1, <2>1
  <2>2. CASE k \in 1..n
    BY <1>1, <1>2, <2>2
  <2> QED
    BY <1>1, <2>1, <2>2
<1>5. Following(g, c, s, since, last)
  OBVIOUS
<1>6. Following(g, c, t, since, last + 1)
  BY <1>3, <1>4, <1>5 DEF Following, n, m
<1> QED
  BY <1>6 DEF t

\* The loop takes one: it goes from the socket to the channel.
LEMMA FollowingGet ==
    ASSUME NEW g \in Seq(Nat), NEW c \in Seq(Nat), NEW s \in Seq(Nat), NEW since \in Nat,
           NEW last \in Nat, Following(g, c, s, since, last), s # <<>>
    PROVE  Following(g, Append(c, Head(s)), Tail(s), since, last)
<1> DEFINE d == Append(c, Head(s))
           t == Tail(s)
           n == Len(s)
           m == Len(c)
           first == last - n - m
<1>1. /\ n \in Nat \ {0} /\ Head(s) \in Nat /\ Head(s) = s[1]
      /\ Len(t) = n - 1 /\ \A k \in 1..(n - 1) : t[k] = s[k + 1]
  BY TailFacts
<1>2. /\ m \in Nat /\ Len(d) = m + 1 /\ d[m + 1] = Head(s)
      /\ \A k \in 1..m : d[k] = c[k]
  BY <1>1, AppendFacts
<1>3. /\ \A k \in 1..n : s[k] = last - n + k
      /\ \A k \in 1..m : c[k] = first + k
  BY DEF Following
<1>4. Len(g) \in Nat
  BY LenProperties
<1> HIDE DEF t, d, n, m
<1>5. last - Len(t) - Len(d) = first
  BY <1>1, <1>2
<1>6. \A k \in 1..Len(t) : t[k] = last - Len(t) + k
  <2> SUFFICES ASSUME NEW k \in 1..Len(t)
               PROVE  t[k] = last - Len(t) + k
    OBVIOUS
  <2>1. k \in 1..(n - 1) /\ k + 1 \in 1..n
    BY <1>1
  <2>2. t[k] = last - n + (k + 1)
    BY <1>1, <1>3, <2>1
  <2> QED
    BY <1>1, <2>1, <2>2
<1>7. \A k \in 1..Len(d) : d[k] = first + k
  <2> SUFFICES ASSUME NEW k \in 1..Len(d)
               PROVE  d[k] = first + k
    OBVIOUS
  <2>1. CASE k = m + 1
    <3>1. s[1] = last - n + 1
      BY <1>1, <1>3
    <3> QED
      BY <1>1, <1>2, <2>1, <3>1
  <2>2. CASE k \in 1..m
    BY <1>2, <1>3, <2>2
  <2> QED
    BY <1>2, <2>1, <2>2
<1>8. Following(g, c, s, since, last)
  OBVIOUS
<1>9. Following(g, d, t, since, last)
  BY <1>5, <1>6, <1>7, <1>8 DEF Following, n, m
<1> QED
  BY <1>9 DEF d, t

\* The script takes what is in the channel.
LEMMA FollowingDrain ==
    ASSUME NEW g \in Seq(Nat), NEW c \in Seq(Nat), NEW s \in Seq(Nat), NEW since \in Nat,
           NEW last \in Nat, Following(g, c, s, since, last)
    PROVE  Following(g \o c, <<>>, s, since, last)
<1> DEFINE h == g \o c
           n == Len(s)
           m == Len(c)
           l == Len(g)
           first == last - n - m
           old == l - (first - since)
<1>1. /\ n \in Nat /\ m \in Nat /\ l \in Nat /\ Len(h) = l + m
      /\ \A k \in 1..(l + m) : h[k] = IF k <= l THEN g[k] ELSE c[k - l]
  BY ConcatProperties, LenProperties
<1>2. Len(<<>>) = 0
  BY EmptySeq
<1>3. /\ since <= first /\ 0 <= old
      /\ \A k \in 1..n : s[k] = last - n + k
      /\ \A k \in 1..m : c[k] = first + k
      /\ \A k \in 1..l : IF k <= old THEN g[k] <= since ELSE g[k] = since + (k - old)
  BY DEF Following
<1> HIDE DEF h, n, m, l
<1>4. last - n - 0 = first + m /\ since <= first + m
  BY <1>1, <1>3
<1>5. Len(h) - ((first + m) - since) = old /\ old <= l
  BY <1>1, <1>3
<1>6. \A k \in 1..Len(h) : IF k <= old THEN h[k] <= since ELSE h[k] = since + (k - old)
  <2> SUFFICES ASSUME NEW k \in 1..Len(h)
               PROVE  IF k <= old THEN h[k] <= since ELSE h[k] = since + (k - old)
    OBVIOUS
  <2>1. CASE k <= l
    <3>1. k \in 1..l /\ h[k] = g[k]
      BY <1>1, <2>1
    <3> QED
      BY <1>3, <3>1
  <2>2. CASE k > l
    <3>1. k - l \in 1..m /\ h[k] = c[k - l]
      BY SMTT(30), <1>1, <2>2
    <3>2. h[k] = first + (k - l)
      BY <1>3, <3>1
    <3> QED
      BY <1>1, <1>5, <2>2, <3>2
  <2> QED
    BY <1>1, <2>1, <2>2
<1>7. /\ since <= last - n - 0
      /\ 0 <= Len(h) - ((last - n - 0) - since)
      /\ Len(h) - ((last - n - 0) - since) = old
  BY <1>3, <1>4, <1>5
<1>8. \A k \in 1..0 : <<>>[k] = (last - n - 0) + k
  OBVIOUS
<1> HIDE DEF old, first
<1>9. Following(h, <<>>, s, since, last)
  BY <1>2, <1>3, <1>6, <1>7, <1>8 DEF Following, n
<1> QED
  BY <1>9 DEF h

\* A subscription begins: the script has nothing of it.
LEMMA FollowingNone ==
    ASSUME NEW g \in Seq(Nat), NEW last \in Nat, \A k \in 1..Len(g) : g[k] <= last
    PROVE  Following(g, <<>>, <<>>, last, last)
<1>1. Len(<<>>) = 0 /\ Len(g) \in Nat
  BY EmptySeq, LenProperties
<1> QED
  BY <1>1 DEF Following

LEMMA FollowInvInit == Init => FollowInv
<1> SUFFICES ASSUME Init
             PROVE  FollowInv
  OBVIOUS
<1>1. Len(<<>>) = 0
  BY EmptySeq
<1>2. /\ got = <<>> /\ subConnect = None /\ subReceiver = None
      /\ \A p \in Subs : channel[p] = <<>> /\ pubsub[p].socket = <<>>
  BY DEF Init, NoPubSub
<1> QED
  BY <1>1, <1>2 DEF FollowInv

\* The messages of the subscription are numbers.
LEMMA MessagesAreNumbers ==
    ASSUME TypeInv
    PROVE  /\ published \in Nat /\ got \in Seq(Nat)
           /\ \A p \in Subs : /\ channel[p] \in Seq(Nat) /\ pubsub[p].socket \in Seq(Nat)
                              /\ channel[p] \in Seq(Messages)
                              /\ pubsub[p].socket \in Seq(Messages)
                              /\ pubsub[p].since \in Nat
<1>1. Messages \subseteq Nat /\ 0..MaxMessages \subseteq Nat
  BY RedisAssumption DEF Messages
<1>2. \A s \in Seq(Messages) : s \in Seq(Nat)
  BY <1>1, SeqMonotonic
<1>3. \A p \in Subs : /\ channel[p] \in Seq(Messages) /\ pubsub[p].socket \in Seq(Messages)
                      /\ pubsub[p].since \in 0..MaxMessages
  BY DEF TypeInv, PubSub
<1>4. published \in 0..MaxMessages /\ got \in Seq(Messages)
  BY DEF TypeInv
<1> QED
  BY <1>1, <1>2, <1>3, <1>4

\* A connection may be given up, lost or drained of what nobody will read; the
\* others are as they were.
LEMMA FollowStays ==
    ASSUME TypeInv, FollowInv,
           UNCHANGED <<got, published>>,
           \A p \in Subs : channel'[p] \in {channel[p], <<>>},
           \A p \in Subs : pubsub'[p].socket \in {pubsub[p].socket, <<>>},
           subConnect' \in {subConnect, None}, subReceiver' \in {subReceiver, None},
           subConnect' # None =>
              /\ at' = "start" <=> at = "start"
              /\ \/ pubsub'[subConnect] = pubsub[subConnect]
                 \/ /\ pubsub'[subConnect].state # "up" /\ ~ pubsub'[subConnect].subscribed
                    /\ pubsub'[subConnect].socket = pubsub[subConnect].socket,
           subReceiver' # None =>
              \/ pubsub'[subReceiver].state # "up"
              \/ /\ pubsub'[subReceiver] = pubsub[subReceiver]
                 /\ channel'[subReceiver] = channel[subReceiver]
    PROVE  FollowInv'
<1>1. Len(<<>>) = 0
  BY EmptySeq
<1>2. \A p \in Subs : \A k \in 1..Len(channel'[p]) : channel'[p][k] <= published
  BY <1>1 DEF FollowInv
<1>3. \A p \in Subs : \A k \in 1..Len(pubsub'[p].socket) : pubsub'[p].socket[k] <= published
  BY <1>1 DEF FollowInv
<1>4. \A k \in 1..Len(got') : got'[k] <= published
  BY DEF FollowInv
<1>5. ASSUME subConnect' # None
      PROVE  /\ at' # "start" =>
                    ~ pubsub'[subConnect].subscribed /\ pubsub'[subConnect].socket = <<>>
             /\ at' = "start" /\ pubsub'[subConnect].state = "up" =>
                    /\ pubsub'[subConnect].subscribed
                    /\ Following(got, <<>>, pubsub'[subConnect].socket,
                                 pubsub'[subConnect].since, published)
  BY <1>5 DEF FollowInv
<1>6. ASSUME subReceiver' # None, pubsub'[subReceiver].state = "up"
      PROVE  /\ pubsub'[subReceiver].subscribed
             /\ Following(got, channel'[subReceiver], pubsub'[subReceiver].socket,
                          pubsub'[subReceiver].since, published)
  BY <1>6 DEF FollowInv
<1>7. /\ subConnect' # None => subConnect' = subConnect
      /\ subReceiver' # None => subReceiver' = subReceiver
  OBVIOUS
<1> QED
  BY <1>2, <1>3, <1>4, <1>5, <1>6, <1>7 DEF FollowInv

LEMMA SubsGetReplyKeepsFollowing ==
    ASSUME TypeInv, OwnerInv, FollowInv, SubsGetReply
    PROVE  FollowInv'
<1> DEFINE p == subReceiver
           c == channel[p]
           q == pubsub[p]
<1>1. /\ p \in Subs /\ p # None /\ subConnect = None
      /\ got' = got \o c /\ channel' = [channel EXCEPT ![p] = <<>>]
      /\ UNCHANGED <<pubsub, subConnect, subReceiver, published>>
  BY DEF SubsGetReply, Drained, OwnerInv, TypeInv, outside
<1>2. /\ published \in Nat /\ got \in Seq(Nat) /\ c \in Seq(Nat)
      /\ q.socket \in Seq(Nat) /\ q.since \in Nat
  BY <1>1, MessagesAreNumbers
<1>3. channel'[p] = <<>> /\ \A r \in Subs : channel'[r] \in {channel[r], <<>>}
  BY <1>1 DEF TypeInv
<1>4. \A r \in Subs : \A k \in 1..Len(channel'[r]) : channel'[r][k] <= published
  BY <1>3, EmptySeq DEF FollowInv
<1>5. \A k \in 1..Len(got') : got'[k] <= published
  <2>1. /\ Len(got) \in Nat /\ Len(c) \in Nat /\ Len(got') = Len(got) + Len(c)
        /\ \A k \in 1..(Len(got) + Len(c)) :
              got'[k] = IF k <= Len(got) THEN got[k] ELSE c[k - Len(got)]
    BY <1>1, <1>2, ConcatProperties, LenProperties
  <2>2. /\ \A k \in 1..Len(got) : got[k] <= published
        /\ \A k \in 1..Len(c) : c[k] <= published
    BY <1>1 DEF FollowInv
  <2> HIDE DEF c
  <2> SUFFICES ASSUME NEW k \in 1..Len(got')
               PROVE  got'[k] <= published
    OBVIOUS
  <2>3. CASE k <= Len(got)
    BY <2>1, <2>2, <2>3
  <2>4. CASE k > Len(got)
    <3>1. k - Len(got) \in 1..Len(c) /\ got'[k] = c[k - Len(got)]
      BY <2>1, <2>4
    <3> QED
      BY <2>2, <3>1
  <2> QED
    BY <2>1, <2>3, <2>4
<1>6. q.state = "up" =>
          q.subscribed /\ Following(got', <<>>, q.socket, q.since, published)
  <2> SUFFICES ASSUME q.state = "up"
               PROVE  q.subscribed /\ Following(got', <<>>, q.socket, q.since, published)
    OBVIOUS
  <2>1. q.subscribed /\ Following(got, c, q.socket, q.since, published)
    BY <1>1 DEF FollowInv
  <2> HIDE DEF p, c, q
  <2> QED
    BY <1>1, <1>2, <2>1, FollowingDrain
<1>7. \A r \in Subs : \A k \in 1..Len(pubsub[r].socket) : pubsub[r].socket[k] <= published
  BY DEF FollowInv
<1> QED
  BY <1>1, <1>3, <1>4, <1>5, <1>6, <1>7 DEF FollowInv

LEMMA PublishKeepsFollowing ==
    ASSUME TypeInv, FollowInv, Publish
    PROVE  FollowInv'
<1>1. /\ published' = published + 1
      /\ UNCHANGED <<got, channel, subConnect, subReceiver, at>>
  BY DEF Publish, threadVars
<1>2. published \in Nat
  BY MessagesAreNumbers
<1>3. \A p \in Subs : IF pubsub[p].subscribed
                      THEN /\ pubsub'[p].socket = Append(pubsub[p].socket, published + 1)
                           /\ pubsub'[p].state = pubsub[p].state
                           /\ pubsub'[p].subscribed = pubsub[p].subscribed
                           /\ pubsub'[p].since = pubsub[p].since
                      ELSE pubsub'[p] = pubsub[p]
  <2> SUFFICES ASSUME NEW p \in Subs
               PROVE  IF pubsub[p].subscribed
                      THEN /\ pubsub'[p].socket = Append(pubsub[p].socket, published + 1)
                           /\ pubsub'[p].state = pubsub[p].state
                           /\ pubsub'[p].subscribed = pubsub[p].subscribed
                           /\ pubsub'[p].since = pubsub[p].since
                      ELSE pubsub'[p] = pubsub[p]
    OBVIOUS
  <2>1. pubsub'[p] = IF pubsub[p].subscribed
                     THEN [pubsub[p] EXCEPT !.socket = Append(pubsub[p].socket, published + 1)]
                     ELSE pubsub[p]
    BY <1>1 DEF Publish
  <2>2. pubsub[p] \in PubSub
    BY DEF TypeInv
  <2> QED
    BY <2>1, <2>2 DEF PubSub
<1>4. \A k \in 1..Len(got') : got'[k] <= published'
  <2>1. \A k \in 1..Len(got) : got[k] \in Nat /\ got[k] <= published
    BY MessagesAreNumbers, ElementOfSeq DEF FollowInv
  <2> QED
    BY <1>1, <1>2, <2>1
<1>5. \A p \in Subs : \A k \in 1..Len(channel'[p]) : channel'[p][k] <= published'
  <2>1. \A p \in Subs : \A k \in 1..Len(channel[p]) :
            channel[p][k] \in Nat /\ channel[p][k] <= published
    BY MessagesAreNumbers, ElementOfSeq DEF FollowInv
  <2> QED
    BY <1>1, <1>2, <2>1
<1>6. ASSUME NEW p \in Subs
      PROVE  \A k \in 1..Len(pubsub'[p].socket) : pubsub'[p].socket[k] <= published'
  <2> DEFINE s == pubsub[p].socket
  <2>1. s \in Seq(Nat)
    BY MessagesAreNumbers
  <2>2. \A k \in 1..Len(s) : s[k] \in Nat /\ s[k] <= published
    BY <2>1, ElementOfSeq DEF FollowInv
  <2>3. pubsub'[p].socket \in {s, Append(s, published + 1)}
    BY <1>3
  <2> HIDE DEF s
  <2>4. /\ Len(s) \in Nat /\ Len(Append(s, published + 1)) = Len(s) + 1
        /\ \A k \in 1..Len(s) : Append(s, published + 1)[k] = s[k]
        /\ Append(s, published + 1)[Len(s) + 1] = published + 1
    BY <1>2, <2>1, AppendFacts
  <2>5. \A k \in 1..(Len(s) + 1) : k \in 1..Len(s) \/ k = Len(s) + 1
    BY <2>4
  <2>6. \A k \in 1..Len(s) : s[k] <= published + 1
    BY <1>2, <2>2
  <2>7. \A k \in 1..(Len(s) + 1) : Append(s, published + 1)[k] <= published + 1
    BY <1>2, <2>4, <2>5, <2>6
  <2> QED
    BY <1>1, <2>3, <2>4, <2>6, <2>7
<1>7. ASSUME NEW p \in Subs, NEW c \in Seq(Nat), pubsub[p].subscribed,
             Following(got, c, pubsub[p].socket, pubsub[p].since, published)
      PROVE  Following(got, c, pubsub'[p].socket, pubsub'[p].since, published')
  BY <1>1, <1>2, <1>3, <1>7, MessagesAreNumbers, FollowingPublish
<1>8. ASSUME subConnect # None
      PROVE  /\ at # "start" =>
                    ~ pubsub'[subConnect].subscribed /\ pubsub'[subConnect].socket = <<>>
             /\ at = "start" /\ pubsub'[subConnect].state = "up" =>
                    /\ pubsub'[subConnect].subscribed
                    /\ Following(got, <<>>, pubsub'[subConnect].socket,
                                 pubsub'[subConnect].since, published')
  <2>1. subConnect \in Subs /\ <<>> \in Seq(Nat)
    BY <1>8, EmptySeq DEF TypeInv
  <2>2. CASE at # "start"
    BY <1>3, <1>8, <2>1, <2>2 DEF FollowInv
  <2>3. CASE at = "start"
    <3> SUFFICES ASSUME pubsub'[subConnect].state = "up"
                 PROVE  /\ pubsub'[subConnect].subscribed
                        /\ Following(got, <<>>, pubsub'[subConnect].socket,
                                     pubsub'[subConnect].since, published')
      BY <2>3
    <3>1. pubsub[subConnect].state = "up"
      BY <1>3, <2>1
    <3>2. /\ pubsub[subConnect].subscribed
          /\ Following(got, <<>>, pubsub[subConnect].socket, pubsub[subConnect].since, published)
      BY <1>8, <2>3, <3>1 DEF FollowInv
    <3> QED
      BY <1>3, <1>7, <2>1, <3>2
  <2> QED
    BY <2>2, <2>3
<1>9. ASSUME subReceiver # None, pubsub'[subReceiver].state = "up"
      PROVE  /\ pubsub'[subReceiver].subscribed
             /\ Following(got, channel[subReceiver], pubsub'[subReceiver].socket,
                          pubsub'[subReceiver].since, published')
  <2>1. subReceiver \in Subs /\ channel[subReceiver] \in Seq(Nat)
    BY <1>9, MessagesAreNumbers DEF TypeInv
  <2>2. pubsub[subReceiver].state = "up"
    BY <1>3, <1>9, <2>1
  <2>3. /\ pubsub[subReceiver].subscribed
        /\ Following(got, channel[subReceiver], pubsub[subReceiver].socket,
                     pubsub[subReceiver].since, published)
    BY <1>9, <2>2 DEF FollowInv
  <2> QED
    BY <1>3, <1>7, <2>1, <2>3
<1> QED
  BY <1>1, <1>4, <1>5, <1>6, <1>8, <1>9 DEF FollowInv

LEMMA OperateKeepsFollowing ==
    ASSUME TypeInv, OwnerInv, FollowInv, Operate
    PROVE  FollowInv'
<1> DEFINE p == subConnect
           q == pubsub[p]
           r == pubsub'[p]
<1>1. /\ p \in Subs /\ p # None /\ subReceiver = None
      /\ \A x \in Subs : x # p => pubsub'[x] = pubsub[x]
      /\ q \in PubSub
      /\ r = IF q.state # "up" THEN [q EXCEPT !.state = "failed"]
             ELSE IF job.type = "PSUBSCRIBE"
                  THEN [q EXCEPT !.subscribed = TRUE, !.since = published]
                  ELSE [q EXCEPT !.subscribed = FALSE]
      /\ IF job.type = "PSUBSCRIBE" THEN at' = "start" ELSE at' = "idle"
  BY OperateFacts, Nothing
<1>2. /\ at # "start"
      /\ UNCHANGED <<got, channel, published, subConnect, subReceiver>>
  BY DEF Operate, outside
<1>3. ~ q.subscribed /\ q.socket = <<>>
  BY <1>1, <1>2 DEF FollowInv
<1>4. \A k \in 1..Len(got) : got[k] <= published
  BY DEF FollowInv
<1>5. Following(got, <<>>, <<>>, published, published)
  BY <1>4, MessagesAreNumbers, FollowingNone
<1> HIDE DEF q, r
<1>6. /\ r.socket = <<>>
      /\ job.type # "PSUBSCRIBE" => ~ r.subscribed
      /\ job.type = "PSUBSCRIBE" /\ r.state = "up" => r.subscribed /\ r.since = published
  BY <1>1, <1>3 DEF PubSub
<1>7. \A x \in Subs : pubsub'[x].socket \in {pubsub[x].socket, <<>>}
  BY <1>1, <1>6 DEF r
<1>8. \A x \in Subs : \A k \in 1..Len(pubsub'[x].socket) : pubsub'[x].socket[k] <= published
  BY <1>7, EmptySeq DEF FollowInv
<1>9. \A x \in Subs : \A k \in 1..Len(channel[x]) : channel[x][k] <= published
  BY DEF FollowInv
<1>10. /\ at' # "start" => ~ r.subscribed /\ r.socket = <<>>
       /\ at' = "start" /\ r.state = "up" =>
             r.subscribed /\ Following(got, <<>>, r.socket, r.since, published)
  BY <1>1, <1>5, <1>6
<1> QED
  BY <1>1, <1>2, <1>4, <1>8, <1>9, <1>10 DEF FollowInv, r

LEMMA StartRecvKeepsFollowing ==
    ASSUME TypeInv, OwnerInv, FollowInv, StartRecv
    PROVE  FollowInv'
<1>1. /\ subConnect \in Subs /\ subConnect # None /\ subReceiver = None /\ at = "start"
      /\ subReceiver' = subConnect /\ subConnect' = None
      /\ UNCHANGED <<got, pubsub, channel, published>>
  BY StartRecvFacts, Nothing
<1>2. channel[subConnect] = <<>>
  BY <1>1, Nothing DEF OwnerInv
<1> QED
  BY <1>1, <1>2 DEF FollowInv

LEMMA SubConnectKeepsFollowing ==
    ASSUME TypeInv, CountInv, OwnerInv, FollowInv, SubConnect
    PROVE  FollowInv'
<1>1. /\ at = "connect" /\ subReceiver = None /\ at' # "start"
      /\ UNCHANGED <<got, channel, published, subReceiver>>
  BY DEF SubConnect, OwnerInv, outside
<1>2. \/ UNCHANGED <<pubsub, subConnect>>
      \/ /\ pubsub' = [p \in Subs |->
                CASE p = NextSub -> [NoPubSub EXCEPT !.state = "up"]
                  [] p = subFd   -> Closed(p)
                  [] OTHER       -> pubsub[p]]
         /\ subConnect' = NextSub
  BY DEF SubConnect
<1>3. CASE UNCHANGED <<pubsub, subConnect>>
  BY <1>1, <1>3 DEF FollowInv
<1>4. CASE /\ pubsub' = [p \in Subs |->
                CASE p = NextSub -> [NoPubSub EXCEPT !.state = "up"]
                  [] p = subFd   -> Closed(p)
                  [] OTHER       -> pubsub[p]]
           /\ subConnect' = NextSub
  <2>1. NextSub \in Subs /\ pubsub[NextSub].state = "none" /\ NextSub # None
    BY <1>1, NextSubIsNew, Nothing DEF Made
  <2>2. NextSub # subFd
    BY <2>1 DEF OwnerInv
  <2>3. ~ pubsub'[NextSub].subscribed /\ pubsub'[NextSub].socket = <<>>
    <3>1. pubsub'[NextSub] = [NoPubSub EXCEPT !.state = "up"]
      BY <1>4, <2>1, <2>2
    <3> QED
      BY <3>1 DEF NoPubSub
  <2>4. \A p \in Subs : p # NextSub => pubsub'[p].socket \in {pubsub[p].socket, <<>>}
    BY <1>4, ShutFacts
  <2>5. \A p \in Subs : \A k \in 1..Len(pubsub'[p].socket) : pubsub'[p].socket[k] <= published
    BY <2>3, <2>4, EmptySeq DEF FollowInv
  <2> HIDE DEF NextSub
  <2> QED
    BY <1>1, <1>4, <2>3, <2>5 DEF FollowInv
<1> QED
  BY <1>2, <1>3, <1>4

\* The end of a loop takes nothing from the one that has a connection.
LEMMA LoopEndsKeepsFollowing ==
    ASSUME TypeInv, OwnerInv, FollowInv, loop \in Subs, LoopEnds,
           subReceiver = loop => pubsub[loop].state # "up",
           UNCHANGED <<got, published, at, subConnect, subReceiver, channel>>
    PROVE  FollowInv'
<1>1. pubsub' = [pubsub EXCEPT ![loop] = Shut(loop)]
  BY DEF LoopEnds
<1>2. /\ \A p \in Subs : p # loop => pubsub'[p] = pubsub[p]
      /\ pubsub'[loop].state = pubsub[loop].state /\ pubsub'[loop].socket = <<>>
  BY <1>1, ShutFacts DEF TypeInv
<1>3. \A p \in Subs : pubsub'[p].socket \in {pubsub[p].socket, <<>>}
  BY <1>2
<1>4. subConnect # None => subConnect \in Subs /\ subConnect # loop
  BY DEF TypeInv, OwnerInv
<1>5. subReceiver # None => subReceiver \in Subs
  BY DEF TypeInv
<1> QED
  BY <1>2, <1>3, <1>4, <1>5, FollowStays

LEMMA LoopGetKeepsFollowing ==
    ASSUME TypeInv, OwnerInv, FollowInv, LoopGet
    PROVE  FollowInv'
<1> DEFINE q == pubsub[loop]
           s == pubsub[loop].socket
           c == channel[loop]
<1>1. /\ loop \in Subs /\ s # <<>>
      /\ pubsub' = [pubsub EXCEPT ![loop].socket = Tail(@)]
      /\ channel' = IF subReceiver = loop
                    THEN [channel EXCEPT ![loop] = Append(@, Head(pubsub[loop].socket))]
                    ELSE channel
      /\ UNCHANGED <<got, published, at, subConnect, subReceiver>>
  BY DEF LoopGet, loopSame, outside, threadVars, TypeInv
<1>2. /\ \A p \in Subs : p # loop => pubsub'[p] = pubsub[p] /\ channel'[p] = channel[p]
      /\ pubsub'[loop].socket = Tail(s) /\ pubsub'[loop].state = q.state
      /\ pubsub'[loop].subscribed = q.subscribed /\ pubsub'[loop].since = q.since
  BY ZenonT(60), <1>1 DEF TypeInv, PubSub
<1>3. channel'[loop] = IF subReceiver = loop THEN Append(c, Head(s)) ELSE c
  BY <1>1 DEF TypeInv
<1>4. subConnect # None => subConnect \in Subs /\ subConnect # loop
  BY DEF TypeInv, OwnerInv
<1>5. /\ published \in Nat /\ got \in Seq(Nat) /\ s \in Seq(Nat) /\ c \in Seq(Nat)
      /\ q.since \in Nat
  BY <1>1, MessagesAreNumbers
<1>6. /\ Len(s) \in Nat \ {0} /\ Head(s) = s[1] /\ Head(s) \in Nat
      /\ Len(Tail(s)) = Len(s) - 1 /\ \A k \in 1..(Len(s) - 1) : Tail(s)[k] = s[k + 1]
  BY <1>1, <1>5, TailFacts
<1>7. /\ Len(c) \in Nat /\ Len(Append(c, Head(s))) = Len(c) + 1
      /\ \A k \in 1..Len(c) : Append(c, Head(s))[k] = c[k]
      /\ Append(c, Head(s))[Len(c) + 1] = Head(s)
  BY <1>5, <1>6, AppendFacts
<1>8. /\ \A k \in 1..Len(s) : s[k] <= published
      /\ \A k \in 1..Len(c) : c[k] <= published
  BY <1>1 DEF FollowInv
<1>9. ASSUME NEW p \in Subs
      PROVE  /\ \A k \in 1..Len(pubsub'[p].socket) : pubsub'[p].socket[k] <= published
             /\ \A k \in 1..Len(channel'[p]) : channel'[p][k] <= published
  <2>1. CASE p # loop
    BY <1>2, <2>1 DEF FollowInv
  <2>2. CASE p = loop
    <3> HIDE DEF s, c
    <3>1. \A k \in 1..Len(Tail(s)) : Tail(s)[k] <= published
      <4>1. \A k \in 1..(Len(s) - 1) : k + 1 \in 1..Len(s)
        BY <1>6
      <4> QED
        BY <1>6, <1>8, <4>1
    <3>2. \A k \in 1..Len(Append(c, Head(s))) : Append(c, Head(s))[k] <= published
      <4>1. \A k \in 1..(Len(c) + 1) : k \in 1..Len(c) \/ k = Len(c) + 1
        BY <1>7
      <4>2. 1 \in 1..Len(s)
        BY <1>6
      <4> QED
        BY <1>6, <1>7, <1>8, <4>1, <4>2
    <3> QED
      BY <1>2, <1>3, <1>8, <2>2, <3>1, <3>2
  <2> QED
    BY <2>1, <2>2
<1>10. ASSUME subReceiver # None, pubsub'[subReceiver].state = "up"
       PROVE  /\ pubsub'[subReceiver].subscribed
              /\ Following(got, channel'[subReceiver], pubsub'[subReceiver].socket,
                           pubsub'[subReceiver].since, published)
  <2>1. subReceiver \in Subs
    BY <1>10 DEF TypeInv
  <2>2. CASE subReceiver # loop
    BY <1>2, <1>10, <2>1, <2>2 DEF FollowInv
  <2>3. CASE subReceiver = loop
    <3>1. q.subscribed /\ Following(got, c, s, q.since, published)
      BY <1>2, <1>10, <2>3 DEF FollowInv
    <3>2. Following(got, Append(c, Head(s)), Tail(s), q.since, published)
      BY <1>1, <1>5, <3>1, FollowingGet
    <3> QED
      BY <1>2, <1>3, <2>3, <3>1, <3>2
  <2> QED
    BY <2>2, <2>3
<1>11. ASSUME subConnect # None
       PROVE  pubsub'[subConnect] = pubsub[subConnect]
  BY <1>2, <1>4, <1>11
<1>12. \A k \in 1..Len(got) : got[k] <= published
  BY DEF FollowInv
<1> HIDE DEF q, s, c
<1> QED
  BY <1>1, <1>9, <1>10, <1>11, <1>12 DEF FollowInv

LEMMA LoopKeepsFollowing ==
    ASSUME TypeInv, OwnerInv, FollowInv, LoopThread
    PROVE  FollowInv'
<1>1. UNCHANGED <<got, published, at, subConnect, subReceiver>>
  BY DEF LoopThread, LoopStart, LoopEnter, LoopGet, LoopError, LoopCheck, loopSame, outside,
     threadVars
<1>2. ASSUME UNCHANGED <<pubsub, channel>>
      PROVE  FollowInv'
  BY <1>1, <1>2 DEF FollowInv
<1>3. CASE LoopStart
  BY <1>2, <1>3 DEF LoopStart
<1>4. CASE LoopEnter
  <2>1. loop \in Subs /\ channel' = channel
    BY <1>4 DEF LoopEnter, TypeInv
  <2>2. CASE pubsub[loop].closed
    <3>1. loop # None
      BY <2>1, Nothing
    <3>2. subReceiver = loop => pubsub[loop].state # "up"
      BY <2>2, <3>1 DEF OwnerInv
    <3> QED
      BY <1>1, <1>4, <2>1, <2>2, <3>2, LoopEndsKeepsFollowing DEF LoopEnter
  <2>3. CASE ~ pubsub[loop].closed
    BY <1>2, <1>4, <2>1, <2>3 DEF LoopEnter
  <2> QED
    BY <2>2, <2>3
<1>5. CASE LoopError
  <2>1. loop \in Subs /\ channel' = channel /\ pubsub[loop].state # "up"
    BY <1>5 DEF LoopError, TypeInv
  <2> QED
    BY <1>1, <1>5, <2>1, LoopEndsKeepsFollowing DEF LoopError
<1>6. CASE LoopCheck
  <2>1. loop \in Subs /\ channel' = channel
    BY <1>6 DEF LoopCheck, TypeInv
  <2>2. CASE run[loop]
    BY <1>2, <1>6, <2>1, <2>2 DEF LoopCheck
  <2>3. CASE ~ run[loop]
    <3>1. loop # None
      BY <2>1, Nothing
    <3>2. subReceiver = loop => pubsub[loop].state # "up"
      BY <2>3, <3>1 DEF OwnerInv
    <3> QED
      BY <1>1, <1>6, <2>1, <2>3, <3>2, LoopEndsKeepsFollowing DEF LoopCheck
  <2> QED
    BY <2>2, <2>3
<1> QED
  BY <1>3, <1>4, <1>5, <1>6, LoopGetKeepsFollowing DEF LoopThread

LEMMA FollowInvStep ==
    TypeInv /\ ConnInv /\ CountInv /\ OwnerInv /\ FollowInv /\ [Next]_vars => FollowInv'
<1> SUFFICES ASSUME TypeInv, ConnInv, CountInv, OwnerInv, FollowInv, [Next]_vars
             PROVE  FollowInv'
  OBVIOUS
<1>1. ASSUME UNCHANGED <<got, published, channel, pubsub, subConnect, subReceiver>>,
             at' = "start" <=> at = "start"
      PROVE  FollowInv'
  BY <1>1 DEF FollowInv
<1>2. CASE Ask \/ FinishSync \/ NotifyOperationResult \/ StartPsubscribe \/ UNCHANGED vars
  BY <1>1, <1>2 DEF Ask, RunCommand, RunCommandSync, FinishSync, NotifyOperationResult,
     StartPsubscribe, subVars, outside, threadVars, vars
<1>3. CASE Begin \/ ScriptUnread \/ Receive \/ Release
  BY <1>1, <1>3 DEF Begin, ScriptUnread, Receive, Release, subVars, outside
<1>4. CASE StopRecv
  <2>1. /\ at = "idle" /\ at' = "connect" /\ subReceiver' = None
        /\ subConnect' \in {subConnect, None}
        /\ UNCHANGED <<got, published, pubsub>>
    BY <1>4 DEF StopRecv, outside
  <2>2. \A p \in Subs : channel'[p] \in {channel[p], <<>>}
    BY <1>4, StopRecvKeepsOwners
  <2> QED
    BY <2>1, <2>2, FollowStays
<1>5. ASSUME NEW p \in Subs, Lose(p)
      PROVE  FollowInv'
  <2>1. UNCHANGED <<got, published, channel, subConnect, subReceiver, at>>
    BY <1>5 DEF Lose, threadVars
  <2>2. /\ \A q \in Subs : q # p => pubsub'[q] = pubsub[q]
        /\ pubsub'[p].state # "up" /\ ~ pubsub'[p].subscribed
        /\ pubsub'[p].socket = pubsub[p].socket
    BY <1>5 DEF Lose, TypeInv, PubSub
  <2>3. /\ subConnect # None => subConnect \in Subs
        /\ subReceiver # None => subReceiver \in Subs
    BY DEF TypeInv
  <2>4. \A q \in Subs : pubsub'[q].socket \in {pubsub[q].socket, <<>>}
    BY <2>2
  <2> QED
    BY <2>1, <2>2, <2>3, <2>4, FollowStays
<1> QED
  BY <1>2, <1>3, <1>4, <1>5, SubsGetReplyKeepsFollowing, PublishKeepsFollowing,
     OperateKeepsFollowing, StartRecvKeepsFollowing, SubConnectKeepsFollowing,
     LoopKeepsFollowing DEF Next, RedisThread

-----------------------------------------------------------------------------
(***************************************************************************)
(* The theorems.                                                           *)
(***************************************************************************)
RedisInv == TypeInv /\ ConnInv /\ AskInv /\ CountInv /\ OwnerInv /\ FollowInv

LEMMA TypeInvStep == TypeInv /\ ConnInv /\ CountInv /\ [Next]_vars => TypeInv'
<1> SUFFICES ASSUME TypeInv, ConnInv, CountInv, [Next]_vars
             PROVE  TypeInv'
  OBVIOUS
<1>1. CASE Ask \/ FinishSync \/ NotifyOperationResult \/ StartPsubscribe \/ SubsGetReply
  BY <1>1, AskKeepsTypes, FinishSyncKeepsTypes, ScriptKeepsTypes
<1>2. CASE Begin \/ ScriptUnread \/ Receive \/ Release
  BY <1>2, BeginKeepsTypes, UnreadKeepsTypes, ReceiveKeepsTypes, ReleaseKeepsTypes
<1>3. CASE StopRecv \/ SubConnect \/ Operate \/ StartRecv
  <2>1. NextSub \in Subs \/ at # "connect"
    BY NextSubIsNew
  <2> QED
    BY <1>3, <2>1, SubThreadKeepsTypes
<1>4. CASE LoopThread \/ Publish \/ \E p \in Subs : Lose(p)
  BY <1>4, LoopKeepsTypes, WorldKeepsTypes
<1>5. CASE UNCHANGED vars
  BY ZenonT(60), <1>5 DEF TypeInv, vars, commandVars, subVars, loopVars, outside, threadVars
<1> QED
  BY <1>1, <1>2, <1>3, <1>4, <1>5 DEF Next, RedisThread

\* The invariant, for commands, subscriptions, messages and losses of any number.
LEMMA RedisInvHolds == Spec => []RedisInv
<1>1. Init => RedisInv
  BY TypeInvInit, ConnInvInit, AskInvInit, CountInvInit, OwnerInvInit, FollowInvInit
     DEF RedisInv
<1>2. RedisInv /\ [Next]_vars => RedisInv'
  BY TypeInvStep, ConnInvStep, AskInvStep, CountInvStep, OwnerInvStep, FollowInvStep, Zenon
     DEF RedisInv
<1> QED
  BY <1>1, <1>2, PTL DEF Spec

LEMMA TypeOKFollows == TypeInv /\ ConnInv /\ AskInv => TypeOK
<1> SUFFICES ASSUME TypeInv, ConnInv, AskInv
             PROVE  TypeOK
  OBVIOUS
<1>1. waiting \subseteq {c \in Commands : asked[c][2] /\ answer[c] = None}
  BY DEF TypeInv, AskInv
<1>2. jobs \in Seq([type : {"command", "script", "PUNSUBSCRIBE", "PSUBSCRIBE"},
                    of : Commands \cup {None}])
  <2>1. Job \subseteq [type : {"command", "script", "PUNSUBSCRIBE", "PSUBSCRIBE"},
                       of : Commands \cup {None}]
    BY DEF Job, SubTypes
  <2>2. jobs \in Seq(Job)
    BY DEF TypeInv
  <2> QED
    BY <2>1, <2>2, SeqMonotonic
<1>3. Len(idle) <= 2
  <2>1. Len(idle) \in Nat
    BY LenProperties DEF TypeInv
  <2>2. Len(idle) + InUse <= 2
    BY DEF ConnInv
  <2> QED
    BY <2>1, <2>2 DEF InUse
<1>4. \A p \in Subs : pubsub[p].state \in {"none", "up", "lost", "failed"}
  BY DEF TypeInv, PubSub
<1> QED
  BY <1>1, <1>2, <1>3, <1>4 DEF TypeInv, TypeOK

\* Every command is answered with its own reply or with an error, whatever the
\* script thread and the redis thread do with the connections and whatever comes
\* of the commands before it; db_redis never holds more than two connections.
THEOREM RepliesAreOwn == Spec => []RepliesInv
<1>1. RedisInv => RepliesInv
  BY TypeOKFollows DEF RedisInv, AskInv, RepliesInv
<1> QED
  BY <1>1, RedisInvHolds, PTL

Together(g, c, s, since, last) ==
    \E n \in 0..Len(g) :
       /\ \A k \in 1..n : g[k] <= since
       /\ SubSeq(g, n + 1, Len(g)) \o c \o s = [k \in 1..(last - since) |-> since + k]

\* What follows on each other is the messages since the subscription, together.
LEMMA FollowingTogether ==
    ASSUME NEW g \in Seq(Nat), NEW c \in Seq(Nat), NEW s \in Seq(Nat), NEW since \in Nat,
           NEW last \in Nat, Following(g, c, s, since, last)
    PROVE  Together(g, c, s, since, last)
<1> DEFINE first == last - Len(s) - Len(c)
           old == Len(g) - (first - since)
           x == SubSeq(g, old + 1, Len(g))
           y == [k \in 1..(last - since) |-> since + k]
<1>1. Len(g) \in Nat /\ Len(c) \in Nat /\ Len(s) \in Nat
  BY LenProperties
<1>2. /\ since <= first /\ 0 <= old
      /\ \A k \in 1..Len(s) : s[k] = last - Len(s) + k
      /\ \A k \in 1..Len(c) : c[k] = first + k
      /\ \A k \in 1..Len(g) : IF k <= old THEN g[k] <= since ELSE g[k] = since + (k - old)
  BY DEF Following
<1>3. old \in 0..Len(g) /\ first \in Nat /\ first - since = Len(g) - old
  BY <1>1, <1>2
<1>4. \A k \in 1..old : g[k] <= since
  BY <1>1, <1>2, <1>3
<1> HIDE DEF old, first
<1>5. /\ x \in Seq(Nat) /\ Len(x) = Len(g) - old
      /\ \A k \in 1..Len(x) : x[k] = since + k
  <2>1. \A k \in (old + 1)..Len(g) : g[k] \in Nat
    BY <1>1, <1>3, ElementOfSeq
  <2>2. /\ x \in Seq(Nat)
        /\ Len(x) = IF old + 1 <= Len(g) THEN Len(g) - (old + 1) + 1 ELSE 0
        /\ \A k \in 1..(Len(g) - (old + 1) + 1) : x[k] = g[old + 1 + k - 1]
    BY <1>1, <1>3, <2>1, SubSeqProperties
  <2>3. Len(x) = Len(g) - old
    BY <1>1, <1>3, <2>2
  <2>4. ASSUME NEW k \in 1..Len(x)
        PROVE  x[k] = since + k
    <3>1. k \in 1..(Len(g) - (old + 1) + 1) /\ old + 1 + k - 1 = old + k
      BY <1>1, <1>3, <2>3
    <3>2. x[k] = g[old + k]
      BY <2>2, <3>1
    <3>3. old + k \in 1..Len(g) /\ ~ (old + k <= old) /\ (old + k) - old = k
      BY <1>1, <1>3, <3>1
    <3> QED
      BY <1>2, <3>2, <3>3
  <2> QED
    BY <2>2, <2>3, <2>4
<1> HIDE DEF x
<1> DEFINE u == x \o c
           v == u \o s
           a == Len(x)
           b == Len(c)
           d == Len(s)
<1>6. /\ u \in Seq(Nat) /\ Len(u) = a + b
      /\ \A k \in 1..(a + b) : u[k] = IF k <= a THEN x[k] ELSE c[k - a]
  BY <1>5, ConcatProperties
<1>7. /\ v \in Seq(Nat) /\ Len(v) = Len(u) + d
      /\ \A k \in 1..(Len(u) + d) : v[k] = IF k <= Len(u) THEN u[k] ELSE s[k - Len(u)]
  BY <1>6, ConcatProperties
<1>8. /\ a \in Nat /\ b \in Nat /\ d \in Nat
      /\ a + b + d = last - since /\ a = first - since /\ first = last - d - b
      /\ \A k \in 1..a : x[k] = since + k
      /\ \A k \in 1..b : c[k] = first + k
      /\ \A k \in 1..d : s[k] = last - d + k
  BY <1>1, <1>2, <1>3, <1>5 DEF first
<1> HIDE DEF v, u, a, b, d
<1>9. \A k \in 1..(last - since) : v[k] = since + k
  <2> SUFFICES ASSUME NEW k \in 1..(last - since)
               PROVE  v[k] = since + k
    OBVIOUS
  <2>1. k \in 1..(a + b + d)
    BY <1>8
  <2>2. CASE k <= a
    <3>1. k \in 1..(Len(u) + d) /\ k <= Len(u) /\ k \in 1..(a + b) /\ k \in 1..a
      BY <1>6, <1>8, <2>1, <2>2
    <3>2. v[k] = x[k]
      BY <1>6, <1>7, <2>2, <3>1
    <3> QED
      BY <1>8, <3>1, <3>2
  <2>3. CASE k > a /\ k <= a + b
    <3>1. /\ k \in 1..(Len(u) + d) /\ k <= Len(u) /\ k \in 1..(a + b) /\ ~ (k <= a)
          /\ k - a \in 1..b
      BY <1>6, <1>8, <2>1, <2>3
    <3>2. v[k] = c[k - a]
      BY <1>6, <1>7, <3>1
    <3>3. c[k - a] = first + (k - a)
      BY <1>8, <3>1
    <3>4. first + (k - a) = since + k
      BY <1>3, <1>8, <2>1
    <3> QED
      BY <3>2, <3>3, <3>4
  <2>4. CASE k > a + b
    <3>1. /\ k \in 1..(Len(u) + d) /\ ~ (k <= Len(u)) /\ k - Len(u) = k - (a + b)
          /\ k - (a + b) \in 1..d
      BY <1>6, <1>8, <2>1, <2>4
    <3>2. v[k] = s[k - (a + b)]
      BY <1>7, <3>1
    <3>3. s[k - (a + b)] = last - d + (k - (a + b))
      BY <1>8, <3>1
    <3>4. last - d + (k - (a + b)) = since + k
      BY <1>3, <1>8, <2>1
    <3> QED
      BY <3>2, <3>3, <3>4
  <2> QED
    BY <1>8, <2>1, <2>2, <2>3, <2>4
<1>10. y \in Seq(Nat) /\ Len(y) = last - since
       /\ \A k \in 1..(last - since) : y[k] = since + k
  <2>1. last - since \in Nat
    BY <1>1, <1>3, <1>5, <1>8
  <2> QED
    BY <2>1, IsASeq, LenProperties
<1>11. v = y
  <2> HIDE DEF y
  <2>1. Len(v) = Len(y)
    BY <1>6, <1>7, <1>8, <1>10
  <2>2. \A k \in 1..Len(y) : v[k] = y[k]
    BY <1>9, <1>10
  <2> QED
    BY <1>7, <1>10, <2>1, <2>2, SeqEqual
<1> QED
  BY <1>3, <1>4, <1>11 DEF Together, u, v, x

\* A subscription that works loses no message from its PSUBSCRIBE on, sends none
\* twice and keeps their order: whatever loops wait for their turn before its own,
\* and whatever connections were lost or replaced before it.
THEOREM NothingIsLost == Spec => []NothingLostWhileSubscribed
<1>1. ASSUME RedisInv
      PROVE  NothingLostWhileSubscribed
  <2> SUFFICES ASSUME NEW p \in Subs, subReceiver = p, pubsub[p].state = "up"
               PROVE  \E n \in 0..Len(got) :
                         /\ \A k \in 1..n : got[k] <= pubsub[p].since
                         /\ SubSeq(got, n + 1, Len(got)) \o channel[p] \o pubsub[p].socket
                                = [k \in 1..(published - pubsub[p].since) |->
                                      pubsub[p].since + k]
    BY DEF NothingLostWhileSubscribed
  <2>1. Following(got, channel[p], pubsub[p].socket, pubsub[p].since, published)
    BY <1>1, Nothing DEF RedisInv, FollowInv
  <2>2. /\ published \in Nat /\ got \in Seq(Nat) /\ channel[p] \in Seq(Nat)
        /\ pubsub[p].socket \in Seq(Nat) /\ pubsub[p].since \in Nat
    BY <1>1, MessagesAreNumbers DEF RedisInv
  <2>3. Together(got, channel[p], pubsub[p].socket, pubsub[p].since, published)
    BY <2>1, <2>2, FollowingTogether
  <2> QED
    BY <2>3 DEF Together
<1>2. RedisInv => NothingLostWhileSubscribed
  BY <1>1
<1> QED
  BY <1>2, RedisInvHolds, PTL
=============================================================================
