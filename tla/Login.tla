-------------------------------- MODULE Login -------------------------------
(***************************************************************************)
(* One account and the servers it may log in to: LOGIN_D and ACCOUNT_D of  *)
(* scripts/server/daemons, the account and user objects of server/clone,   *)
(* and the messages of Redis that tell the servers of each other.          *)
(*                                                                         *)
(* Every server keeps its own tables of accounts that are online, frozen   *)
(* (being saved) and asked for; all of them, the publisher's too, are fed  *)
(* by the messages alone.  A server's messages reach Redis in order, and   *)
(* Redis gives all servers the same messages in the same order; each takes *)
(* them in its own time (redis_queued polls every 100 ms).                 *)
(*                                                                         *)
(* A client that wants an account that is online waits, in                 *)
(* wait_login_list, for the account object to be destructed.  All account  *)
(* objects of a server have the same rid, so it has one at most; the same  *)
(* is true of the user object.                                             *)
(***************************************************************************)
EXTENDS Naturals, SequencesExt

CONSTANTS
    Servers,
    Gates,      \* the servers that subscribe to START_HIBERNATE and END_HIBERNATE
    Homes,      \* bound: who plays when the run begins: of each server, the agent
    MaxAgents,  \* bound: clients that log in to the account, those with them
    MaxStmts,   \* bound: statements of a save that wait for the database
    None

ASSUME LoginAssumption ==
    /\ Gates \subseteq Servers
    /\ MaxAgents \in Nat \ {0} /\ MaxStmts \in Nat
    /\ None \notin Servers \cup 1..MaxAgents
    /\ \A home \in Homes :
          /\ home \in [Servers -> 1..MaxAgents \cup {None}]
          /\ \E s \in Servers : home[s] # None
          /\ \A s, t \in Servers : home[s] = home[t] /\ home[s] # None => s = t

Agents == 1..MaxAgents

VARIABLES
    \* clients
    server,     \* of each agent: where it logs in
    agent,      \* of each agent: what has become of it
    \* the databases
    checking,   \* agents whose account is being read (check_account_callback)
    listing,    \* agents of accounts whose list of users is being read
    loads,      \* of each server: how often the user's data is being read
    saves,      \* of each server: counts of statements of its saves under way
    \* tables of each server
    online, freeze, wait,
    waitLogin,  \* wait_login_list: the agent
    account,    \* the account object: the agent it was made for
    user,       \* the user object: "none", "here", "lost" (its logout timer runs)
    hasUser,    \* the account object has found its user object
    cookie,     \* cookie_map of CACHE_D: the agent of the account to be told
    cached,     \* cache_data has the user's data
    \* Redis
    out, inbox,
    interrupted \* history: an ASSERT ended the handling of a batch of messages

tables == <<online, freeze, wait>>
objects == <<account, user, hasUser>>
cache == <<loads, cookie, cached>>
vars == <<server, agent, checking, listing, cache, saves, tables, waitLogin, objects,
          out, inbox, interrupted>>

Messages == {"NOTIFY", "WAIT", "CONSTRUCT", "DESTRUCT", "START", "END"}

TypeOK ==
    /\ server \in [Agents -> Servers \cup {None}]
    /\ agent \in [Agents -> {"none", "open", "relayed", "gone"}]
    /\ checking \subseteq Agents /\ listing \subseteq Agents
    /\ saves \in [Servers -> Seq(0..MaxStmts)]
    /\ loads \in [Servers -> Nat]
    /\ \A table \in {online, freeze, wait, hasUser, cached} : table \in [Servers -> BOOLEAN]
    /\ \A objs \in {waitLogin, account, cookie} : objs \in [Servers -> Agents \cup {None}]
    /\ user \in [Servers -> {"none", "here", "lost"}]
    /\ \A msgs \in {out, inbox} : msgs \in [Servers -> Seq(Messages)]
    /\ interrupted \in BOOLEAN

\* A client has come to play, or one on each of several servers that saw the account
\* offline, and all servers know.
Init ==
    \E home \in Homes :
        /\ server = [a \in Agents |-> IF \E s \in Servers : home[s] = a
                                     THEN CHOOSE s \in Servers : home[s] = a ELSE None]
        /\ agent = [a \in Agents |-> IF \E s \in Servers : home[s] = a
                                    THEN "relayed" ELSE "none"]
        /\ checking = {} /\ listing = {}
        /\ loads = [s \in Servers |-> 0]
        /\ cookie = [s \in Servers |-> None]
        /\ cached = [s \in Servers |-> FALSE]
        /\ saves = [s \in Servers |-> <<>>]
        /\ online = [s \in Servers |-> TRUE]
        /\ freeze = [s \in Servers |-> FALSE]
        /\ wait = [s \in Servers |-> FALSE]
        /\ waitLogin = [s \in Servers |-> None]
        /\ account = home
        /\ user = [s \in Servers |-> IF home[s] # None THEN "here" ELSE "none"]
        /\ hasUser = [s \in Servers |-> home[s] # None]
        /\ out = [s \in Servers |-> <<>>]
        /\ inbox = [s \in Servers |-> <<>>]
        /\ interrupted = FALSE

\* START_HIBERNATE and END_HIBERNATE come to gates alone.
Heeds(s, m) == m \in {"START", "END"} => s \in Gates

\* What nobody heeds is left out: CANCEL_WAIT_LOGIN, which is in no branch of
\* deal_with_reply, and what is for gates if there is none.
Publish(s, msgs) == out' = [out EXCEPT ![s] = @ \o msgs]
ToGates(msgs) == IF Gates = {} THEN <<>> ELSE msgs

-----------------------------------------------------------------------------
(***************************************************************************)
(* Objects.                                                                *)
(***************************************************************************)

\* do_login, through the queue, to ACCOUNT_D.login.  An agent that is no more is
\* passed over; set_rid_object asserts that there is no account object yet.
CanLogin(s, a) == agent[a] = "open" /\ account[s] = None
FailsLogin(s, a) == agent[a] = "open" /\ account[s] # None

DoLogin(s, a) ==
    IF CanLogin(s, a)
    THEN /\ account' = [account EXCEPT ![s] = a]
         /\ hasUser' = [hasUser EXCEPT ![s] = FALSE]
         /\ agent' = [agent EXCEPT ![a] = "relayed"]
         /\ listing' = listing \cup {a}
         /\ Publish(s, <<"CONSTRUCT">>)
         /\ UNCHANGED user
    ELSE UNCHANGED <<objects, agent, listing, out>>

\* Slip: nobody is told.
DestructQuietly(s) ==
    /\ account' = [account EXCEPT ![s] = None]
    /\ hasUser' = [hasUser EXCEPT ![s] = FALSE]
    /\ UNCHANGED <<user, saves, out>>

\* DESTRUCT_OBJECT(account): ACCOUNT_TDCLS:destruct
DestructAccount(s) ==
    /\ account' = [account EXCEPT ![s] = None]
    /\ hasUser' = [hasUser EXCEPT ![s] = FALSE]
    /\ Publish(s, <<"DESTRUCT">>)
    /\ UNCHANGED <<user, saves>>

\* The user object is destructed and the account object with it.
Logout(s, msgs) ==
    /\ user' = [user EXCEPT ![s] = "none"]
    /\ account' = [account EXCEPT ![s] = None]
    /\ hasUser' = [hasUser EXCEPT ![s] = FALSE]
    /\ Publish(s, msgs \o (IF account[s] = None THEN <<>> ELSE <<"DESTRUCT">>))

\* hiberate: each part that has changed is a statement.  That a part has not changed
\* is told at once, which ends the hibernation if no statement is counted by then; of
\* the user it is told first, of his Dou Dizhu data last and without being counted.
Saving(s, n) == IF n = 0 THEN saves ELSE [saves EXCEPT ![s] = Append(@, n)]
Hibernation(n) ==
    {ToGates(<<"START", "END">>)}
        \cup IF n = 0 THEN {} ELSE {ToGates(<<"START">>)}
        \cup IF n > 1 THEN {} ELSE {ToGates(<<"START", "END", "END">>)}

Hiberate(s) ==
    \E n \in 0..MaxStmts : /\ saves' = Saving(s, n)
                          /\ \E msgs \in Hibernation(n) : Logout(s, msgs)

\* ACCOUNT_TDCLS:connection_lost
AccountLost(s) == IF hasUser[s] /\ user[s] # "none" THEN Hiberate(s) ELSE DestructAccount(s)

-----------------------------------------------------------------------------
(***************************************************************************)
(* Clients.                                                                *)
(***************************************************************************)
Login(a, s) ==
    /\ agent[a] = "none"
    /\ \A b \in Agents : b < a => agent[b] # "none"
    /\ agent' = [agent EXCEPT ![a] = "open"]
    /\ server' = [server EXCEPT ![a] = s]
    /\ checking' = checking \cup {a}
    /\ UNCHANGED <<listing, cache, saves, tables, waitLogin, objects, out, inbox, interrupted>>

\* The connection of a client is lost: that of an agent, of an account object, or
\* of a user object, which waits for the client to come back.
Lose(a) ==
    /\ agent' = [agent EXCEPT ![a] = "gone"]
    /\ LET s == server[a] IN
          \/ /\ agent[a] = "open"
             /\ UNCHANGED <<objects, saves, out>>
          \/ /\ agent[a] = "relayed" /\ account[s] = a
             /\ IF hasUser[s] /\ user[s] # "none"
                THEN /\ user' = [user EXCEPT ![s] = "lost"]
                     /\ UNCHANGED <<account, hasUser, saves, out>>
                ELSE DestructAccount(s)
    /\ UNCHANGED <<server, checking, listing, cache, tables, waitLogin, inbox, interrupted>>

-----------------------------------------------------------------------------
(***************************************************************************)
(* Callbacks of the databases.                                             *)
(***************************************************************************)

\* Slip: the other server is not asked to give the account up.
AskedForQuietly == <<"WAIT">>
AskedFor == <<"NOTIFY", "WAIT">>

\* check_account_callback
CheckAccount(a) ==
    /\ a \in checking
    /\ checking' = checking \ {a}
    /\ LET s == server[a] IN
          IF wait[s]
          THEN /\ agent' = [agent EXCEPT ![a] = "gone"]
               /\ UNCHANGED <<waitLogin, objects, listing, out>>
          ELSE IF online[s]
               THEN /\ Publish(s, AskedFor)
                    /\ waitLogin' = [waitLogin EXCEPT ![s] = a]
                    /\ UNCHANGED <<objects, agent, listing>>
               ELSE DoLogin(s, a) /\ UNCHANGED waitLogin
    /\ UNCHANGED <<server, cache, saves, tables, inbox, interrupted>>

\* set_login_user: a user object takes over the client of the account object, if
\* there still is one, and its logout timer ends.
SetLoginUser(a) ==
    LET s == server[a] IN
    /\ user' = [user EXCEPT ![s] = "here"]
    /\ hasUser' = IF account[s] = a THEN [hasUser EXCEPT ![s] = TRUE] ELSE hasUser
    /\ UNCHANGED account

\* read_user_callback: a user object that another login has made meanwhile loses
\* its client.
ReadUser(a) ==
    /\ SetLoginUser(a)
    /\ LET s == server[a] IN
          agent' = IF hasUser[s] /\ account[s] # a
                   THEN [agent EXCEPT ![account[s]] = "gone"] ELSE agent

\* callback_get_user_list, for an account object that may be no more: the user
\* object that is here, or a new one of data in the cache, or, if that is older than
\* a second, the data is read.  It fails if it has no list to go through.
GetUserList(a) ==
    /\ a \in listing
    /\ listing' = listing \ {a}
    /\ LET s == server[a] IN
          \/ UNCHANGED <<objects, cache, agent>>
          \/ /\ user[s] # "none" \/ cached[s]
             /\ SetLoginUser(a)
             /\ UNCHANGED <<cache, agent>>
          \/ /\ user[s] = "none"
             /\ cached' = [cached EXCEPT ![s] = FALSE]
             /\ cookie' = [cookie EXCEPT ![s] = a]
             /\ loads' = [loads EXCEPT ![s] = @ + 1]
             /\ UNCHANGED <<objects, agent>>
    /\ UNCHANGED <<server, checking, saves, tables, waitLogin, out, inbox, interrupted>>

\* load_user_callback: the last that asked is told, and told of the first answer.
LoadUser(s) ==
    /\ loads[s] > 0
    /\ loads' = [loads EXCEPT ![s] = @ - 1]
    /\ cookie' = [cookie EXCEPT ![s] = None]
    /\ \E failed \in BOOLEAN :
          /\ cached' = IF failed THEN cached ELSE [cached EXCEPT ![s] = TRUE]
          /\ IF failed \/ cookie[s] = None THEN UNCHANGED <<objects, agent>>
             ELSE ReadUser(cookie[s])
    /\ UNCHANGED <<server, checking, listing, saves, tables, waitLogin, out, inbox,
                   interrupted>>

\* hiberate_callback, with a count of statements that may be one short.
SaveSays(n) ==
    CASE n <= 1 -> {ToGates(<<"END">>)} [] n = 2 -> {<<>>, ToGates(<<"END">>)} [] OTHER -> {<<>>}

SaveDone(s, k) ==
    /\ k \in DOMAIN saves[s]
    /\ \E msgs \in SaveSays(saves[s][k]) : Publish(s, msgs)
    /\ saves' = IF saves[s][k] <= 1 THEN [saves EXCEPT ![s] = RemoveAt(@, k)]
                                   ELSE [saves EXCEPT ![s][k] = @ - 1]
    /\ UNCHANGED <<server, agent, checking, listing, cache, tables, waitLogin, objects, inbox,
                   interrupted>>

-----------------------------------------------------------------------------
(***************************************************************************)
(* Timers.                                                                 *)
(***************************************************************************)

\* logout_callback: the client has not come back.
LogoutTimer(s) ==
    /\ user[s] = "lost"
    /\ Hiberate(s)
    /\ UNCHANGED <<server, agent, checking, listing, cache, tables, waitLogin, inbox,
                   interrupted>>

\* The times of these timers are long to a message, whose way is some 100 ms.
Delivered == \A s \in Servers : out[s] = <<>> /\ inbox[s] = <<>>

\* Those of these others also to the database.
Quiet ==
    /\ Delivered
    /\ checking = {} /\ listing = {}
    /\ \A s \in Servers : loads[s] = 0 /\ saves[s] = <<>>

\* no_operation: 10 minutes without a message of the client.
NoOperation(s) ==
    /\ user[s] = "here" /\ Quiet
    /\ user' = [user EXCEPT ![s] = "lost"]
    /\ agent' = IF hasUser[s] THEN [agent EXCEPT ![account[s]] = "gone"] ELSE agent
    /\ UNCHANGED <<server, checking, listing, cache, saves, tables, waitLogin, account,
                   hasUser, out, inbox, interrupted>>

\* check_save: every 2 minutes.
AutoSave(s) ==
    /\ user[s] # "none" /\ Quiet
    /\ \E n \in 0..MaxStmts : /\ saves' = Saving(s, n)
                             /\ \E msgs \in Hibernation(n) : Publish(s, msgs)
    /\ UNCHANGED <<server, agent, checking, listing, cache, tables, waitLogin, objects,
                   inbox, interrupted>>

\* time_handle: after 15 s.  (It publishes CANCEL_WAIT_LOGIN.)
TimeHandle(s) ==
    /\ waitLogin[s] # None /\ Delivered
    /\ waitLogin' = [waitLogin EXCEPT ![s] = None]
    /\ agent' = [agent EXCEPT ![waitLogin[s]] = "gone"]
    /\ UNCHANGED <<server, checking, listing, cache, saves, tables, objects, out, inbox,
                   interrupted>>

\* is_account_wait: the entry of account_wait_list is 100 s old.
WaitExpires(s) ==
    /\ wait[s] /\ Delivered
    /\ wait' = [wait EXCEPT ![s] = FALSE]
    /\ UNCHANGED <<server, agent, checking, listing, cache, saves, online, freeze, waitLogin,
                   objects, out, inbox, interrupted>>

-----------------------------------------------------------------------------
(***************************************************************************)
(* Messages.                                                               *)
(***************************************************************************)
Redis(s) ==
    /\ out[s] # <<>>
    /\ out' = [out EXCEPT ![s] = Tail(@)]
    /\ inbox' = [t \in Servers |-> IF Heeds(t, Head(out[s])) THEN Append(inbox[t], Head(out[s]))
                                                           ELSE inbox[t]]
    /\ UNCHANGED <<server, agent, checking, listing, cache, saves, tables, waitLogin, objects,
                   interrupted>>

\* Slip: a server that has the account object knows better.
OnlineHere(s, m) ==
    CASE m = "CONSTRUCT" -> TRUE [] m = "DESTRUCT" -> account[s] # None [] OTHER -> online[s]

\* What deal_with_reply does to the tables.
Online(s, m) == CASE m = "CONSTRUCT" -> TRUE [] m = "DESTRUCT" -> FALSE [] OTHER -> online[s]
Wait(s, m) == CASE m = "WAIT" -> TRUE [] m = "CONSTRUCT" -> FALSE [] OTHER -> wait[s]
Freeze(s, m) ==
    CASE m = "START" -> TRUE [] m = "END" -> FALSE [] OTHER -> freeze[s]

LooksForWaiter(m) == m \in {"DESTRUCT", "END"}

\* An ASSERT in do_login is caught by the timer alone: the messages after this
\* one that were taken with it are lost.
Interrupt(s) ==
    /\ interrupted' = TRUE
    /\ \E k \in 0..(Len(inbox[s]) - 1) :
          inbox' = [inbox EXCEPT ![s] = SubSeq(@, k + 2, Len(@))]

\* check_account_login
CheckAccountLogin(s) ==
    LET a == waitLogin[s] IN
    IF freeze'[s] \/ online'[s] \/ a = None
    THEN /\ UNCHANGED <<waitLogin, objects, agent, listing, out, interrupted>>
         /\ inbox' = [inbox EXCEPT ![s] = Tail(@)]
    ELSE /\ waitLogin' = [waitLogin EXCEPT ![s] = None]
         /\ IF agent[a] = "gone"
            THEN UNCHANGED <<objects, agent, listing, out>>
            ELSE DoLogin(s, a)
         /\ IF FailsLogin(s, a) THEN Interrupt(s)
            ELSE UNCHANGED interrupted /\ inbox' = [inbox EXCEPT ![s] = Tail(@)]

Receive(s) ==
    /\ inbox[s] # <<>>
    /\ LET m == Head(inbox[s]) IN
          /\ online' = [online EXCEPT ![s] = Online(s, m)]
          /\ wait' = [wait EXCEPT ![s] = Wait(s, m)]
          /\ freeze' = [freeze EXCEPT ![s] = Freeze(s, m)]
          /\ IF LooksForWaiter(m)
             THEN CheckAccountLogin(s) /\ UNCHANGED saves
             ELSE /\ inbox' = [inbox EXCEPT ![s] = Tail(@)]
                  /\ IF m = "NOTIFY" /\ account[s] # None
                     THEN AccountLost(s)
                     ELSE UNCHANGED <<objects, saves, out>>
                  /\ UNCHANGED <<waitLogin, agent, listing, interrupted>>
    /\ UNCHANGED <<server, checking, cache>>

-----------------------------------------------------------------------------

Clients == \E a \in Agents : Lose(a) \/ \E s \in Servers : Login(a, s)
Databases ==
    \/ \E a \in Agents : CheckAccount(a) \/ GetUserList(a)
    \/ \E s \in Servers : LoadUser(s) \/ \E k \in DOMAIN saves[s] : SaveDone(s, k)
Timers ==
    \E s \in Servers : \/ LogoutTimer(s) \/ NoOperation(s) \/ AutoSave(s)
                       \/ TimeHandle(s) \/ WaitExpires(s)

Answers == Databases \/ \E s \in Servers : Redis(s) \/ Receive(s)

Next == Clients \/ Timers \/ Answers

\* Databases answer, Redis delivers and the servers take what has come; how fast,
\* and so whether a timer runs out first, is open.
Spec == Init /\ [][Next]_vars /\ WF_vars(Answers)

-----------------------------------------------------------------------------
(***************************************************************************)
(* Properties.                                                             *)
(***************************************************************************)

\* Nothing is under way about the account.
AtRest ==
    /\ \A s \in Servers : out[s] = <<>> /\ inbox[s] = <<>> /\ saves[s] = <<>>
    /\ checking = {}

\* The tables of the servers agree, and they keep nobody out: an account that is taken
\* to be online has its object somewhere, and none is frozen.
Agreement ==
    \A s \in Servers :
        /\ ~ freeze[s]
        /\ \A t \in Servers : online[s] = online[t]
        /\ online[s] => \E t \in Servers : account[t] # None

\* So it is whenever nothing is under way.  (A batch of messages that an ASSERT
\* interrupts may undo this.  The marks of waiting logins are not among the tables.)
NobodyLockedOut == AtRest /\ ~ interrupted => Agreement

TablesInv == TypeOK /\ NobodyLockedOut

\* Nor does anybody wait for an account then: who had it has given it up, and who
\* waited has been let in, if the account was not frozen, or at the end of its save.
NobodyWaits == AtRest /\ ~ interrupted => \A s \in Servers : waitLogin[s] = None

\* Nobody's wait for an account must last 15 s: whatever becomes of the clients that
\* have it, wait for it too or take a waiter's place in wait_login_list, the server
\* that has the object gives it up, and each server lets its waiter in or finds it
\* gone.  An ASSERT that interrupts a batch of messages may undo this, and a client
\* whose place another takes is told nothing at all.
WaitEnds == \A s \in Servers : waitLogin[s] # None ~> waitLogin[s] = None \/ interrupted

-----------------------------------------------------------------------------
(***************************************************************************)
(* What the source says and the code does not do.                          *)
(***************************************************************************)

\* time_update of redis_queued goes through all it has taken, "for every reply":
\* the tables agree at rest also when a login has failed among the messages.
TablesAlwaysAgree == AtRest => Agreement

\* time_handle and check_account_login publish CANCEL_WAIT_LOGIN for a wait that is
\* over: a mark that keeps others out is that of a client that still waits.
MarksMeanWaiting ==
    AtRest => \A s \in Servers : wait[s] => \E t \in Servers : waitLogin[t] # None

\* START and END of a hibernation enclose its statements: a gate that has taken all
\* messages holds the account frozen while one waits.
FrozenWhileSaved ==
    Delivered /\ (\E s \in Servers : saves[s] # <<>>) => \A s \in Gates : freeze[s]

=============================================================================
