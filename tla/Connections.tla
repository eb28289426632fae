---------------------------- MODULE Connections ----------------------------
(***************************************************************************)
(* Connections between peers and the script: the sockets of                *)
(* src/mgr/mio_event_mgr.rs, the WebSockets of src/mgr/websocket_mgr.rs,   *)
(* the event queue of src/lua_engine.rs and the agents of                  *)
(* scripts/global/inherit/agent.lua and base/global_agents.lua.            *)
(*                                                                         *)
(* The poll thread accepts and reads sockets, the WebSocket thread opens,  *)
(* reads and ends WebSockets, a pool thread dials; each tells the script   *)
(* by an entry of exec_list.  The timer thread executes the entries one    *)
(* after the other, and is where agents live; close_fd gives up the lock   *)
(* half-way, so its parts are steps of their own.  (execute_lua takes all  *)
(* entries at once, but none is overtaken, so one queue is enough.)        *)
(*                                                                         *)
(* A socket is known by its descriptor, "NM:fd", which the system gives to *)
(* the next one as soon as it is free; a WebSocket of a client by a number *)
(* of its own, "WS:connection_id".  The WebSockets the script dials each    *)
(* run in an event loop of their own, and all go by the first token of one,*)
(* "WS:token", which may be a client's number too.  (new_websocket_connect  *)
(* is there for scripts; those of the repository do not call it.)          *)
(* A connection and the agent made for it have one identity here; the code *)
(* has only the name.                                                      *)
(***************************************************************************)
EXTENDS Naturals, Sequences, FiniteSets, Functions

CONSTANTS
    Accepted,   \* connections peers make to a listening socket
    Dialled,    \* those the script makes with new_connect
    WebSockets, \* those of WebSocket clients
    Local,      \* the WebSockets among them the script has dialled
    Token,      \* the name all of those go by
    Fds,        \* bound: the descriptors there are
    MaxConns,   \* bound: the connections that are made
    MaxMessages,\* bound: the messages that are sent
    None

Failed == "FAIL"    \* the name of a connection that could not be made

Sockets == Accepted \cup Dialled
Conns == Sockets \cup WebSockets
WsNames == (WebSockets \ Local) \cup {Token}
Names == Fds \cup WsNames \cup {Failed}

\* What a WebSocket goes by.
Name(c) == IF c \in Local THEN Token ELSE c

\* The connections that share their name with another there may be at the time.
Shared == {c \in WebSockets : \E d \in WebSockets \ {c} : Name(d) = Name(c)}
Own == Conns \ Shared
OwnNames == Names \ {Name(c) : c \in Shared}

ASSUME ConnectionsAssumption ==
    /\ Accepted \cap Dialled = {}
    /\ Sockets \cap WebSockets = {} /\ Local \subseteq WebSockets
    /\ Fds \cap WsNames = {}
    /\ Failed \notin Fds \cup WsNames
    /\ None \notin Conns \cup Names
    /\ MaxConns \in Nat /\ MaxMessages \in Nat

VARIABLES
    \* the world
    peer,       \* the peer's end of each connection
    sent,       \* how many messages each peer has sent
    wire,       \* those not read yet: their numbers, 0 for a malformed one
    \* the engine
    fd,         \* the descriptor each socket has
    ids,        \* MioEventMgr::connect_ids
    dialling,   \* sockets the poll knows and connect_ids does not
    missed,     \* those of them whose last event found nobody
    senders,    \* WebSocketMgr::connect_ids
    ws,         \* where the handler of each WebSocket is
    hangup,     \* WebSockets the server has asked to end
    kicks,      \* KICK_SOCKET timers
    queue,      \* exec_list
    \* the script
    closing,    \* the close_fd it is in
    agents,     \* agents: port to agent
    port,       \* port_no of each agent
    served,     \* history: the connections that had an agent
    handled     \* history: the last message given to each agent

worldVars == <<peer, sent, wire>>
dialVars == <<dialling, missed>>
engineVars == <<dialVars, fd, ids, senders, ws, hangup, kicks>>
scriptVars == <<closing, agents, port, served, handled>>
vars == <<worldVars, engineVars, queue, scriptVars>>

NewEntry(u, c) == [type |-> "new", name |-> u, conn |-> c, n |-> 0]
MessageEntry(u, c, n) == [type |-> "message", name |-> u, conn |-> c, n |-> n]
LostEntry(u, c) == [type |-> "lost", name |-> u, conn |-> c, n |-> 0]
Entries == [type : {"new", "message", "lost"}, name : Names,
            conn : Conns, n : Nat]

NotClosing == [at |-> "nowhere", name |-> None, conn |-> None]

TypeOK ==
    /\ peer \in [Conns -> {"absent", "open", "closed"}]
    /\ sent \in [Conns -> Nat]
    /\ wire \in [Conns -> Seq(Nat)]
    /\ fd \in [Sockets -> Fds \cup {None}]
    /\ ids \in [Names -> Conns \cup {None}]
    /\ dialling \subseteq Dialled /\ missed \subseteq Dialled
    /\ senders \in [WsNames -> WebSockets \cup {None}]
    /\ hangup \subseteq WebSockets
    /\ ws \in [WebSockets -> {"absent", "told", "open", "ended"}]
    /\ kicks \subseteq Fds \X Sockets
    /\ queue \in Seq(Entries)
    /\ closing \in [at : {"remove", "tell"}, name : Names, conn : Conns]
                      \cup {NotClosing}
    /\ agents \in [Names -> Conns \cup {None}]
    /\ port \in [Conns -> Names \cup {None}]
    /\ served \subseteq Conns
    /\ handled \in [Conns -> Nat]

Init ==
    /\ peer = [c \in Conns |-> "absent"]
    /\ sent = [c \in Conns |-> 0]
    /\ wire = [c \in Conns |-> <<>>]
    /\ fd = [c \in Sockets |-> None]
    /\ ids = [u \in Names |-> None]
    /\ dialling = {} /\ missed = {}
    /\ senders = [u \in WsNames |-> None]
    /\ hangup = {} /\ kicks = {}
    /\ ws = [c \in WebSockets |-> "absent"]
    /\ queue = <<>>
    /\ closing = NotClosing
    /\ agents = [u \in Names |-> None]
    /\ port = [c \in Conns |-> None]
    /\ served = {}
    /\ handled = [c \in Conns |-> 0]

Free(u) == u \in Fds /\ \A c \in Sockets : fd[c] # u

CanBegin(c) ==
    /\ peer[c] = "absent"
    /\ Cardinality({d \in Conns : peer[d] # "absent"}) < MaxConns

-----------------------------------------------------------------------------
(***************************************************************************)
(* The peers.                                                              *)
(***************************************************************************)

AllSent == FoldFunction(+, 0, sent)

\* The poll is edge-triggered: what it has missed comes up with the next event.
NewEvent(c) ==
    /\ missed' = missed \ {c}
    /\ UNCHANGED <<dialling, fd, ids, senders, ws, hangup, kicks>>

\* The next message; one in which the engine finds an error has the number 0.
PeerSends(c, n) ==
    /\ peer[c] = "open"
    /\ AllSent < MaxMessages
    /\ c \in Sockets => fd[c] # None
    /\ n \in {0, sent[c] + 1}
    /\ sent' = [sent EXCEPT ![c] = @ + 1]
    /\ wire' = [wire EXCEPT ![c] = Append(@, n)]
    /\ NewEvent(c)
    /\ UNCHANGED <<peer, queue, scriptVars>>

PeerCloses(c) ==
    /\ peer[c] = "open"
    /\ peer' = [peer EXCEPT ![c] = "closed"]
    /\ NewEvent(c)
    /\ UNCHANGED <<sent, wire, queue, scriptVars>>

-----------------------------------------------------------------------------
(***************************************************************************)
(* The poll thread, with a pool thread for new_connect.                    *)
(***************************************************************************)

\* new_socket_event_lua and the end of new_socket_local: the script is told, then
\* the table knows the connection; both under the lock.
Register(u, c) ==
    /\ queue' = Append(queue, NewEntry(u, c))
    /\ ids' = [ids EXCEPT ![u] = c]

\* The socket has a descriptor.
Connect(c, u) ==
    /\ CanBegin(c)
    /\ Free(u)
    /\ peer' = [peer EXCEPT ![c] = "open"]
    /\ fd' = [fd EXCEPT ![c] = u]
    /\ UNCHANGED <<sent, wire, missed, senders, ws, hangup, kicks, scriptVars>>

\* run_one_server, on a listening socket.
Accept(c, u) ==
    /\ c \in Accepted
    /\ Connect(c, u)
    /\ Register(u, c)
    /\ UNCHANGED dialling

\* The pool thread of new_connect has connected.  new_socket_local has the socket
\* registered with the poll ...
Dial(c, u) ==
    /\ c \in Dialled
    /\ Connect(c, u)
    /\ dialling' = dialling \cup {c}
    /\ UNCHANGED <<ids, queue>>

\* ... before the table knows it: an event in between finds nobody and is dropped
\* (run_one_server asks for no lock) ...
EventMissed(c) ==
    /\ c \in dialling \ missed
    /\ wire[c] # <<>> \/ peer[c] = "closed"
    /\ missed' = missed \cup {c}
    /\ UNCHANGED <<worldVars, dialling, fd, ids, senders, ws, hangup, kicks, queue, scriptVars>>

\* ... until it is told and inserted.
NewSocketLocal(c) ==
    /\ c \in dialling
    /\ dialling' = dialling \ {c}
    /\ Register(fd[c], c)
    /\ UNCHANGED <<worldVars, missed, fd, senders, ws, hangup, kicks, scriptVars>>

\* The poll thread is told of the socket, and knows it.
Polled(c) == fd[c] # None /\ c \notin dialling \cup missed

\* new_connect could not: the script is told all the same, under a name no
\* socket has.
ConnectFails(c) ==
    /\ c \in Dialled
    /\ CanBegin(c)
    /\ peer' = [peer EXCEPT ![c] = "closed"]
    /\ Register(Failed, c)
    /\ UNCHANGED <<sent, wire, dialVars, fd, senders, ws, hangup, kicks, scriptVars>>

\* What is cut out of w when its first m messages are in order and the next is
\* malformed or has not come.
DispatchedOnwards(w, m) == SelectSeq(w, LAMBDA n : n # 0)   \* slip: no break after a kick
Dispatched(w, m) == SubSeq(w, 1, m)

InOrder(w, m) ==
    /\ \A k \in 1..m : w[k] # 0
    /\ m < Len(w) => w[m + 1] = 0

MessageEntries(u, c, w) == [k \in DOMAIN w |-> MessageEntry(u, c, w[k])]

\* The socket is dropped, and with it the descriptor is free.
Drop(c) ==
    /\ ids' = [ids EXCEPT ![fd[c]] = None]
    /\ fd' = [fd EXCEPT ![c] = None]

\* Slip: a socket that is kicked is not reported.
ReadQuietKick(c) ==
    /\ c \in Sockets
    /\ Polled(c)
    /\ peer[c] = "open"
    /\ wire[c] # <<>>
    /\ wire' = [wire EXCEPT ![c] = <<>>]
    /\ \E m \in 0..Len(wire[c]) :
          /\ InOrder(wire[c], m)
          /\ queue' = queue \o MessageEntries(fd[c], c, Dispatched(wire[c], m))
          /\ IF m = Len(wire[c]) THEN UNCHANGED <<ids, fd>> ELSE Drop(c)
    /\ UNCHANGED <<peer, sent, dialVars, senders, ws, hangup, kicks, scriptVars>>

\* read_data, then try_dispatch_message.  A malformed message has the socket
\* kicked: it is gone at once, and the script is told by a timer.
Read(c) ==
    /\ c \in Sockets
    /\ Polled(c)
    /\ peer[c] = "open"
    /\ wire[c] # <<>>
    /\ wire' = [wire EXCEPT ![c] = <<>>]
    /\ \E m \in 0..Len(wire[c]) :
          /\ InOrder(wire[c], m)
          /\ queue' = queue \o MessageEntries(fd[c], c, Dispatched(wire[c], m))
          /\ IF m = Len(wire[c])
             THEN UNCHANGED <<ids, fd, kicks>>
             ELSE Drop(c) /\ kicks' = kicks \cup {<<fd[c], c>>}
    /\ UNCHANGED <<peer, sent, dialVars, senders, ws, hangup, scriptVars>>

\* read_data comes to the end of the stream: what it read on the way there is
\* not dispatched.  call_end tells the script before the socket is dropped.
ReadEnd(c) ==
    /\ c \in Sockets
    /\ Polled(c)
    /\ peer[c] = "closed"
    /\ wire' = [wire EXCEPT ![c] = <<>>]
    /\ queue' = Append(queue, LostEntry(fd[c], c))
    /\ Drop(c)
    /\ UNCHANGED <<peer, sent, dialVars, senders, ws, hangup, kicks, scriptVars>>

-----------------------------------------------------------------------------
(***************************************************************************)
(* The WebSocket thread.                                                   *)
(***************************************************************************)

\* on_open: the script is told ...
WsOpen(c) ==
    /\ CanBegin(c)
    /\ ws' = [ws EXCEPT ![c] = "told"]
    /\ peer' = [peer EXCEPT ![c] = "open"]
    /\ Register(Name(c), c)
    /\ UNCHANGED <<sent, wire, dialVars, fd, senders, hangup, kicks, scriptVars>>

\* ... and then the table for sending knows.
WsOpened(c) ==
    /\ ws[c] = "told"
    /\ ws' = [ws EXCEPT ![c] = "open"]
    /\ senders' = [senders EXCEPT ![Name(c)] = c]
    /\ UNCHANGED <<worldVars, dialVars, fd, ids, hangup, kicks, queue, scriptVars>>

\* WebSocketMgr::on_close: a name that is known is forgotten and reported, by
\* whomever; if it is not, the connection is asked to end.
OnClose(c) ==
    LET u == Name(c)
    IN  \/ /\ senders[u] # None
           /\ senders' = [senders EXCEPT ![u] = None]
           /\ ids' = [ids EXCEPT ![u] = None]
           /\ queue' = IF ids[u] = None THEN queue ELSE Append(queue, LostEntry(u, c))
           /\ UNCHANGED hangup
        \/ /\ senders[u] = None
           /\ hangup' = hangup \cup {c}
           /\ UNCHANGED <<senders, ids, queue>>

\* on_message.  A text or a malformed message is reported as the end of the
\* connection, which goes on.
WsMessage(c) ==
    /\ ws[c] = "open"
    /\ wire[c] # <<>>
    /\ wire' = [wire EXCEPT ![c] = Tail(@)]
    /\ LET n == Head(wire[c])
       IN  IF n = 0 /\ c \in Local
           THEN OnClose(c)
           ELSE /\ queue' = Append(queue, IF n = 0 THEN LostEntry(Name(c), c)
                                          ELSE MessageEntry(Name(c), c, n))
                /\ UNCHANGED <<senders, ids, hangup>>
    /\ UNCHANGED <<peer, sent, dialVars, fd, ws, kicks, scriptVars>>

\* on_close, or on_error: the peer has gone or the server has hung up.
WsClose(c) ==
    /\ ws[c] = "open"
    /\ peer[c] = "closed" \/ c \in hangup
    /\ ws' = [ws EXCEPT ![c] = "ended"]
    /\ peer' = [peer EXCEPT ![c] = "closed"]
    /\ OnClose(c)
    /\ wire' = [wire EXCEPT ![c] = <<>>]
    /\ UNCHANGED <<sent, dialVars, fd, kicks, scriptVars>>

-----------------------------------------------------------------------------
(***************************************************************************)
(* The timer thread: the script, and the timers of kicked sockets.         *)
(***************************************************************************)

Executing == closing = NotClosing /\ queue # <<>>

\* close_fd looks the name up under the lock ...
CloseFd(u) ==
    closing' = IF ids[u] = None THEN NotClosing
               ELSE [at |-> "remove", name |-> u, conn |-> ids[u]]

\* ... removes what has the name by then ...
CloseRemove ==
    /\ closing.at = "remove"
    /\ LET c == ids[closing.name]
       IN  /\ closing' = [closing EXCEPT !.at = "tell", !.conn = IF c = None THEN @ ELSE c]
           /\ ids' = [ids EXCEPT ![closing.name] = None]
           /\ fd' = [s \in Sockets |-> IF s = c THEN None ELSE fd[s]]
    /\ UNCHANGED <<worldVars, dialVars, senders, ws, hangup, kicks, queue,
                   agents, port, served, handled>>

\* WebSocketMgr::close_fd
HangUp(u) == hangup' = hangup \cup ({senders[u]} \ {None})

\* ... and tells the script, or asks the WebSocket to end.
CloseTell ==
    /\ closing.at = "tell"
    /\ closing' = NotClosing
    /\ IF closing.name \in WsNames
       THEN HangUp(closing.name) /\ UNCHANGED queue
       ELSE /\ queue' = Append(queue, LostEntry(closing.name, closing.conn))
            /\ UNCHANGED hangup
    /\ UNCHANGED <<worldVars, dialVars, fd, ids, senders, ws, kicks,
                   agents, port, served, handled>>

\* connection_lost, DESTRUCT_OBJECT and close_agent of agent a.
Destruct(a) ==
    /\ agents' = [agents EXCEPT ![port[a]] = None]
    /\ port' = [port EXCEPT ![a] = None]
    /\ CloseFd(port[a])

\* The script ends an agent on its own account: it did not prove itself within
\* a minute, its user logged in elsewhere, ...
EndAgent(a) ==
    /\ closing = NotClosing
    /\ port[a] # None
    /\ Destruct(a)
    /\ UNCHANGED <<worldVars, engineVars, queue, served, handled>>

\* Slip: an agent that is there already is kept.
CmdNewConnectionOnce ==
    /\ Executing
    /\ LET e == Head(queue)
       IN  /\ e.type = "new"
           /\ agents' = [agents EXCEPT ![e.name] = IF @ = None THEN e.conn ELSE @]
           /\ port' = [port EXCEPT ![e.conn] = e.name]
           /\ served' = served \cup {e.conn}
    /\ queue' = Tail(queue)
    /\ UNCHANGED <<worldVars, engineVars, closing, handled>>

\* The new agent takes the port, whoever had it.
CmdNewConnection ==
    /\ Executing
    /\ LET e == Head(queue)
       IN  /\ e.type = "new"
           /\ agents' = [agents EXCEPT ![e.name] = e.conn]
           /\ port' = [port EXCEPT ![e.conn] = e.name]
           /\ served' = served \cup {e.conn}
    /\ queue' = Tail(queue)
    /\ UNCHANGED <<worldVars, engineVars, closing, handled>>

\* A message without an agent closes its port.  An agent handles it, or is
\* destructed on account of it.
GlobalDispatchCommand ==
    /\ Executing
    /\ LET e == Head(queue)
           a == agents[e.name]
       IN  /\ e.type = "message"
           /\ \/ /\ a = None
                 /\ CloseFd(e.name)
                 /\ UNCHANGED <<agents, port, handled>>
              \/ /\ a # None
                 /\ handled' = [handled EXCEPT ![a] = e.n]
                 /\ UNCHANGED <<closing, agents, port>>
              \/ /\ a # None
                 /\ Destruct(a)
                 /\ UNCHANGED handled
    /\ queue' = Tail(queue)
    /\ UNCHANGED <<worldVars, engineVars, served>>

\* Slip: the agent forgets its port and stays in the table.
CmdLostConnectionKeepsMap ==
    /\ Executing
    /\ LET e == Head(queue)
           a == agents[e.name]
       IN  /\ e.type = "lost"
           /\ IF a = None THEN UNCHANGED closing ELSE CloseFd(port[a])
    /\ queue' = Tail(queue)
    /\ UNCHANGED <<worldVars, engineVars, agents, port, served, handled>>

CmdLostConnection ==
    /\ Executing
    /\ LET e == Head(queue)
           a == agents[e.name]
       IN  /\ e.type = "lost"
           /\ IF a = None THEN UNCHANGED <<closing, agents, port>> ELSE Destruct(a)
    /\ queue' = Tail(queue)
    /\ UNCHANGED <<worldVars, engineVars, served, handled>>

\* 20 ms after the kick.
KickSocket(k) ==
    /\ closing = NotClosing
    /\ k \in kicks
    /\ kicks' = kicks \ {k}
    /\ queue' = Append(queue, LostEntry(k[1], k[2]))
    /\ UNCHANGED <<worldVars, dialVars, fd, ids, senders, ws, hangup, scriptVars>>

-----------------------------------------------------------------------------
PeerNext ==
    \/ \E c \in Conns : PeerCloses(c)
    \/ \E c \in Conns, n \in 0..MaxMessages : PeerSends(c, n)

Polling(c) == Read(c) \/ ReadEnd(c)

Serving(c) == WsOpened(c) \/ WsMessage(c) \/ WsClose(c)

ExecuteLua == CmdNewConnection \/ GlobalDispatchCommand \/ CmdLostConnection

Closing == CloseRemove \/ CloseTell

Kicking == \E k \in kicks : KickSocket(k)

Next ==
    \/ PeerNext
    \/ \E c \in Sockets, u \in Fds : Accept(c, u) \/ Dial(c, u)
    \/ \E c \in Dialled : EventMissed(c) \/ NewSocketLocal(c) \/ ConnectFails(c)
    \/ \E c \in Sockets : Polling(c)
    \/ \E c \in WebSockets : WsOpen(c) \/ Serving(c)
    \/ \E a \in Conns : EndAgent(a)
    \/ ExecuteLua
    \/ Closing
    \/ Kicking

Spec == Init /\ [][Next]_vars

\* Each thread is a loop that waits for its next event and no other thread; the
\* timers come round every millisecond.  Nothing is assumed of peers or of the
\* script's own wishes.
FairSpec ==
    /\ Spec
    /\ \A c \in Sockets : WF_vars(Polling(c))
    /\ \A c \in WebSockets : WF_vars(Serving(c))
    /\ WF_vars(ExecuteLua \/ Closing)
    /\ WF_vars(Kicking)

-----------------------------------------------------------------------------
(***************************************************************************)
(* What the connections promise.                                           *)
(***************************************************************************)

HasAgent == {c \in Own : port[c] # None /\ agents[port[c]] = c}

Sessions == INSTANCE Session WITH
    Conns <- Own, serving <- HasAgent, gone <- (served \cap Own) \ HasAgent,
    seen <- [c \in Own |-> handled[c]]

\* A connection whose name is its own has one agent, once, and its messages reach
\* it from the first one on, in the order they were sent, with none left out
\* before the last it is given: a malformed one ends them, whatever follows it,
\* and whatever those do that share a name.
KeepsSessions == Sessions!Spec

\* A message in the queue finds the agent of its own connection or none, although
\* the name it goes by may have changed hands since it was read.  (A name that two
\* connections go by at a time is another matter: EachMeetsOwnAgent.)
MessagesMeetOwnAgent ==
    queue # <<>> /\ Head(queue).type = "message" /\ Head(queue).conn \in Own =>
        agents[Head(queue).name] \in {None, Head(queue).conn}

AtRest == queue = <<>> /\ kicks = {} /\ closing = NotClosing

\* Whenever the script has caught up, its table and the engine's say the same: no
\* agent without its connection and no connection without agent, whatever names
\* were used twice, one after the other, and whatever was told twice or too late.
TablesAgreeAtRest == AtRest => \A u \in OwnNames : agents[u] = ids[u]

TablesInv == TypeOK /\ TablesAgreeAtRest

\* A peer that goes is noticed: no port leads to its agent for ever, unless the
\* event was for a dialled socket the table did not know yet.
LossNoticed ==
    \A c \in Own :
        peer[c] = "closed" /\ port[c] # Failed ~>
            (c \in missed \/ \A u \in Names : agents[u] # c)

-----------------------------------------------------------------------------
(***************************************************************************)
(* What the source says and the code does not do.                          *)
(***************************************************************************)

\* cmd_lost_connection fetches "the agent of this port" and tells it that its
\* connection is lost: it is the one whose connection was.
LostMeetsOwnAgent ==
    queue # <<>> /\ Head(queue).type = "lost" =>
        agents[Head(queue).name] \in {None, Head(queue).conn}

\* global_dispatch_command finds "the agent" of a message by its port: also when
\* WebSockets that were dialled have one port (WebsocketClient::on_open).
EachMeetsOwnAgent ==
    queue # <<>> /\ Head(queue).type = "message" =>
        agents[Head(queue).name] \in {None, Head(queue).conn}

\* read_end_callback tells the script of every peer that has gone, the one of a
\* socket that new_socket_local has just dialled too.
EveryLossNoticed ==
    \A c \in Conns :
        peer[c] = "closed" /\ port[c] # Failed ~> \A u \in Names : agents[u] # c
=============================================================================
