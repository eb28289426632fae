------------------------- MODULE ConnectionsProofs -------------------------
(***************************************************************************)
(* Proofs about module Connections, for peers, descriptors, connections    *)
(* and messages of any number.                                             *)
(*                                                                         *)
(* The engine and the script share only names, and a name changes hands.   *)
(* What holds it together is the order of exec_list: the invariants say,   *)
(* of each place in the queue, what the script will know when it gets      *)
(* there.  Behind the first n entries, a connection that has messages to   *)
(* come has been announced (Announced), the last to take its name (Leads), *)
(* and it has been given all messages before the next one (Awaits), unless *)
(* its agent has ended by then (Dead).  From that follow the safety        *)
(* properties of Connections: a message meets the agent of its own         *)
(* connection, the tables agree whenever the script has caught up, and     *)
(* Connections implements Session.                                         *)
(***************************************************************************)
EXTENDS Connections, SequenceTheorems, TLAPS

\* A WebSocket goes by its name, a socket never by one of those.
Fit(u, c) == IF c \in WebSockets THEN u = Name(c) ELSE u \notin WsNames

Places == 1..Len(queue)

NewAt(i, u, c) ==
    queue[i].type = "new" /\ queue[i].name = u /\ queue[i].conn = c

MessageAt(i, u, c) ==
    queue[i].type = "message" /\ queue[i].name = u /\ queue[i].conn = c

\* The end of a WebSocket is told under its own name.
HungUpAt(i, c) ==
    queue[i].type = "lost" /\ queue[i].conn = c /\ c \in WebSockets

LostAt(i, u) == queue[i].type = "lost" /\ queue[i].name = u

\* The engine may still read messages of c and give them to u.
Known(u, c) ==
    \/ ids[u] = c
    \/ c \in WebSockets /\ ws[c] \in {"told", "open"} /\ u = Name(c)

Ended(c) == c \in served \ HasAgent

-----------------------------------------------------------------------------
(***************************************************************************)
(* Names.                                                                  *)
(***************************************************************************)
\* What has a descriptor has its name, or will.
EngineInv ==
    /\ \A u \in Names : ids[u] # None => Fit(u, ids[u])
    /\ \A c \in Sockets : fd[c] # None =>
          /\ c \notin dialling => ids[fd[c]] = c
          /\ \A d \in Sockets : fd[d] = fd[c] => c = d
    /\ \A c \in dialling : fd[c] # None
    /\ \A c \in WebSockets \cap Own :
          ws[c] = "open" => senders[Name(c)] # None \/ ids[Name(c)] = None

AgentInv ==
    /\ \A u \in Names : agents[u] # None => port[agents[u]] = u
    /\ \A c \in Conns : port[c] # None => c \in served /\ Fit(port[c], c)

EntryInv == \A i \in Places : Fit(queue[i].name, queue[i].conn)

\* The script asks a WebSocket to end when its agent has.
ClosingInv ==
    closing # NotClosing =>
        /\ Fit(closing.name, closing.conn)
        /\ closing.conn \in WebSockets \cap Own => Ended(closing.conn)

\* The engine does not know c yet.
Fresh(c) == peer[c] = "absent" \/ c \in dialling

\* The world and the engine's tables for such a connection.
Blank(c) ==
    /\ Len(wire[c]) = sent[c]
    /\ peer[c] = "absent" => wire[c] = <<>> /\ (c \in Sockets => fd[c] = None)
    /\ c \in WebSockets => ws[c] = "absent"
    /\ \A u \in Names : ids[u] # c

\* A connection the engine does not know is nowhere, and has nothing to be told.
\* (The loss of a socket goes by its name alone.)
Unborn(c) ==
    /\ Blank(c)
    /\ c \notin served /\ handled[c] = 0
    /\ \A i \in Places : queue[i].conn = c =>
          queue[i].type = "lost" /\ c \notin WebSockets

\* Each connection is announced once.
NewsInv ==
    /\ \A c \in Conns : Fresh(c) => Unborn(c)
    /\ \A i \in Places : queue[i].type = "new" => queue[i].conn \notin served
    /\ \A i, j \in Places :
          queue[i].type = "new" /\ queue[j].type = "new" /\ queue[i].conn = queue[j].conn
              => i = j

-----------------------------------------------------------------------------
(***************************************************************************)
(* What the script will know behind the first n entries.                   *)
(***************************************************************************)

\* It has made the agent of c, at port u.
Announced(n, u, c) ==
    \/ c \in served /\ port[c] \in {None, u}
    \/ \E i \in 1..n : NewAt(i, u, c)

\* No other connection has taken port u from c.
Leads(n, u, c) ==
    /\ agents[u] \in {None, c} \/ \E i \in 1..n : NewAt(i, u, c)
    /\ \A j \in 1..n : queue[j].type = "new" /\ queue[j].name = u /\ queue[j].conn # c
          => \E i \in (j + 1)..n : NewAt(i, u, c)

\* Behind n entries there is something of c to come, by the name of u.
Comes(n, u, c) ==
    \/ n + 1 \in Places /\ MessageAt(n + 1, u, c)
    \/ n + 1 \in Places /\ HungUpAt(n + 1, c) /\ u = Name(c)
    \/ n = Len(queue) /\ Known(u, c)

LeadInv ==
    \A n \in 0..Len(queue), u \in Names, c \in Own :
        Comes(n, u, c) => Announced(n, u, c) /\ Leads(n, u, c)

\* The agent of c has ended, or will have.
Dead(n, c) == Ended(c) \/ \E i \in 1..n : HungUpAt(i, c)

IsMessageOf(i, c) == queue[i].type = "message" /\ queue[i].conn = c

\* The next message its agent is to be given is number x.
Awaits(n, c, x) ==
    \/ Dead(n, c)
    \/ handled[c] + 1 = x /\ \A i \in 1..n : ~IsMessageOf(i, c)
    \/ \E i \in 1..n :
          /\ IsMessageOf(i, c) /\ queue[i].n + 1 = x
          /\ \A j \in (i + 1)..n : ~IsMessageOf(j, c)

\* The number of the first message that is still in the wire, or would be.
NextRead(c) == sent[c] - Len(wire[c]) + 1

Heard(c) == \E u \in Names : Known(u, c)

\* Behind n entries the next message of c is number x.
Due(n, c, x) ==
    \/ n + 1 \in Places /\ IsMessageOf(n + 1, c) /\ queue[n + 1].n = x
    \/ n = Len(queue) /\ Heard(c) /\ x = NextRead(c)

CountInv ==
    \A n \in 0..Len(queue), c \in Own, x \in Nat : Due(n, c, x) => Awaits(n, c, x)

\* What is in the wire is the last of what was sent.
WireInv ==
    \A c \in Conns :
        /\ Len(wire[c]) <= sent[c]
        /\ \A m \in 1..Len(wire[c]) : wire[c][m] \in {0, sent[c] - Len(wire[c]) + m}

\* A WebSocket that is read on after it was given up has nobody to read for.
MuteInv ==
    \A c \in WebSockets \cap Own :
        ws[c] \in {"told", "open"} /\ ids[Name(c)] = None => Dead(Len(queue), c)

\* A connection has one name.
OneNameInv ==
    \A u, v \in Names : ids[u] # None /\ ids[u] = ids[v] => u = v

-----------------------------------------------------------------------------
(***************************************************************************)
(* The two tables.                                                         *)
(***************************************************************************)

\* Whatever is at port u will be told that it is lost.
Clears(u) ==
    /\ agents[u] = None \/ \E i \in Places : LostAt(i, u)
    /\ \A j \in Places : queue[j].type = "new" /\ queue[j].name = u
          => \E i \in Places : j < i /\ LostAt(i, u)

\* A name without a connection is told lost, by somebody; one with a connection has
\* its agent, or will.
Follows(u) ==
    IF ids[u] = None
    THEN \/ Clears(u)
         \/ \E k \in kicks : k[1] = u
         \/ closing.at = "tell" /\ closing.name = u /\ u \notin WsNames
    ELSE \/ agents[u] = ids[u]
         \/ \E i \in Places : NewAt(i, u, ids[u])
         \/ closing.at = "remove" /\ closing.name = u

TablesFollow == \A u \in OwnNames : Follows(u)

ConnInv ==
    /\ TypeOK
    /\ EngineInv
    /\ AgentInv
    /\ EntryInv
    /\ ClosingInv
    /\ NewsInv
    /\ OneNameInv
    /\ LeadInv
    /\ WireInv
    /\ MuteInv
    /\ CountInv
    /\ TablesFollow

-----------------------------------------------------------------------------
(***************************************************************************)
(* The queue and the types.                                                *)
(***************************************************************************)
LEMMA EntriesType ==
    ASSUME NEW u \in Names, NEW c \in Conns, NEW n \in Nat
    PROVE  /\ NewEntry(u, c) \in Entries /\ LostEntry(u, c) \in Entries
           /\ MessageEntry(u, c, n) \in Entries
  BY DEF Entries, NewEntry, LostEntry, MessageEntry

LEMMA NamesApart ==
    /\ Fds \subseteq Names /\ WsNames \subseteq Names /\ Failed \in Names
    /\ Sockets \subseteq Conns /\ WebSockets \subseteq Conns
    /\ Accepted \subseteq Sockets /\ Dialled \subseteq Sockets
    /\ None \notin Names /\ None \notin Conns
    /\ Failed \notin Fds /\ Failed \notin WsNames
    /\ \A u \in Fds : u \notin WsNames
    /\ \A c \in Sockets : c \notin WebSockets
  BY ConnectionsAssumption DEF Names, Conns, Sockets

\* Of the WebSockets, each has a name; those in Own have one of their own.
LEMMA OwnApart ==
    /\ \A c \in WebSockets : Name(c) \in WsNames /\ Name(c) \in Names
    /\ Sockets \subseteq Own /\ Own \subseteq Conns /\ OwnNames \subseteq Names
    /\ \A c \in WebSockets \cap Own, d \in WebSockets : Name(c) = Name(d) => c = d
<1>1. \A c \in WebSockets : Name(c) \in WsNames /\ Name(c) \in Names
  BY NamesApart DEF Name, WsNames
<1>2. Sockets \subseteq Own /\ Own \subseteq Conns /\ OwnNames \subseteq Names
  BY NamesApart DEF Own, Shared, OwnNames
<1>3. ASSUME NEW c \in WebSockets \cap Own, NEW d \in WebSockets, Name(c) = Name(d)
      PROVE  c = d
  BY <1>3 DEF Own, Shared
<1> QED
  BY <1>1, <1>2, <1>3

LEMMA FitOne ==
    ASSUME NEW c \in WebSockets \cap Own, NEW d \in Conns, Fit(Name(c), d)
    PROVE  c = d
  BY OwnApart DEF Fit

\* A name is one connection's own when what goes by it is.
LEMMA OwnFit ==
    ASSUME NEW u \in Names, NEW c \in Conns, Fit(u, c)
    PROVE  u \in OwnNames <=> c \in Own
<1>1. CASE c \in WebSockets
  <2>1. u = Name(c)
    BY <1>1 DEF Fit
  <2>2. ASSUME NEW d \in Shared, Name(d) = Name(c)
        PROVE  c \in Shared
    BY <1>1, <2>2 DEF Shared
  <2> QED
    BY <1>1, <2>1, <2>2 DEF OwnNames, Own
<1>2. CASE c \notin WebSockets
  BY <1>2, OwnApart DEF Fit, OwnNames, Own, Shared
<1> QED
  BY <1>1, <1>2

\* The entries there were are still there, maybe with others behind them.
Grows ==
    /\ Len(queue') >= Len(queue)
    /\ \A k \in Places : queue'[k] = queue[k]

\* The first entry is taken.
Shrinks ==
    /\ queue # <<>>
    /\ Len(queue) = Len(queue') + 1
    /\ \A k \in 1..Len(queue') : queue'[k] = queue[k + 1]

Added == (Len(queue) + 1)..Len(queue')

LEMMA AppendGrows ==
    ASSUME queue \in Seq(Entries), NEW e \in Entries, queue' = Append(queue, e)
    PROVE  /\ queue' \in Seq(Entries)
           /\ Grows
           /\ Len(queue') = Len(queue) + 1
           /\ queue'[Len(queue) + 1] = e
           /\ \A i \in Added : i = Len(queue) + 1
           /\ Places' = Places \cup {Len(queue) + 1}
           /\ Len(queue) + 1 \notin Places
<1>1. /\ queue' \in Seq(Entries) /\ Len(queue') = Len(queue) + 1
      /\ queue'[Len(queue) + 1] = e
      /\ \A k \in 1..Len(queue) : queue'[k] = queue[k]
  BY AppendProperties
<1>2. Len(queue) \in Nat
  BY LenProperties
<1> QED
  BY <1>1, <1>2 DEF Grows, Added, Places

LEMMA SameGrows ==
    ASSUME queue \in Seq(Entries), queue' = queue
    PROVE  Grows /\ Added = {} /\ Len(queue) \in Nat
<1>1. Len(queue) \in Nat
  BY LenProperties
<1> QED
  BY <1>1 DEF Grows, Added

LEMMA TailShrinks ==
    ASSUME queue \in Seq(Entries), queue # <<>>, queue' = Tail(queue)
    PROVE  /\ queue' \in Seq(Entries)
           /\ Shrinks
           /\ Len(queue) \in Nat /\ Len(queue) >= 1 /\ 1 \in Places
           /\ Head(queue) = queue[1] /\ queue[1] \in Entries
<1>1. /\ queue' \in Seq(Entries) /\ Len(queue') = Len(queue) - 1
      /\ \A k \in 1..Len(queue') : queue'[k] = queue[k + 1]
  BY HeadTailProperties
<1>2. Len(queue) \in Nat /\ Len(queue) # 0
  BY LenProperties, EmptySeq
<1>3. Len(queue) >= 1 /\ 1 \in 1..Len(queue)
  BY <1>2
<1>4. Head(queue) = queue[1] /\ queue[1] \in Entries
  BY <1>3, HeadTailProperties, ElementOfSeq
<1> QED
  BY <1>1, <1>2, <1>3, <1>4 DEF Shrinks, Places

LEMMA EntryType ==
    ASSUME queue \in Seq(Entries), NEW i \in Places
    PROVE  /\ queue[i] \in Entries /\ queue[i].name \in Names /\ queue[i].conn \in Conns
           /\ queue[i].n \in Nat /\ queue[i].type \in {"new", "message", "lost"}
<1>1. queue[i] \in Entries
  BY ElementOfSeq DEF Places
<1> QED
  BY <1>1 DEF Entries

-----------------------------------------------------------------------------
(***************************************************************************)
(* What the actions do, one place of each function at a time.              *)
(***************************************************************************)
ScriptSame == UNCHANGED <<agents, port, served, handled>>

\* The engine gets to know c, and announces it.
Begins(u, c) ==
    /\ Fresh(c) /\ peer'[c] # "absent" /\ c \notin dialling'
    /\ peer' = [peer EXCEPT ![c] = peer'[c]]
    /\ dialling' = dialling \ {c}
    /\ ids' = [ids EXCEPT ![u] = c]
    /\ queue' = Append(queue, NewEntry(u, c))
    /\ \A d \in Sockets : d # c => fd'[d] = fd[d]
    /\ ws' = IF c \in WebSockets THEN [ws EXCEPT ![c] = "told"] ELSE ws
    /\ UNCHANGED <<sent, wire, senders, hangup, kicks, closing>>
    /\ ScriptSame

LEMMA BeginnersBegin ==
    ASSUME TypeOK, EngineInv, NewsInv
    PROVE  /\ \A c \in Sockets, u \in Fds : Accept(c, u) => Begins(u, c)
           /\ \A c \in Dialled :
                 NewSocketLocal(c) => fd[c] \in Fds /\ Begins(fd[c], c)
           /\ \A c \in Dialled : ConnectFails(c) => Begins(Failed, c)
           /\ \A c \in WebSockets : WsOpen(c) => Begins(Name(c), c)
<1>1. ASSUME NEW c \in Conns, peer[c] = "absent"
      PROVE  c \notin dialling
  BY <1>1, NamesApart DEF NewsInv, Fresh, Unborn, Blank, EngineInv, TypeOK
<1>2. ASSUME NEW c \in Sockets, NEW u \in Fds, Accept(c, u)
      PROVE  Begins(u, c)
  BY <1>1, <1>2, NamesApart
     DEF Accept, Connect, CanBegin, Register, Begins, Fresh, ScriptSame, scriptVars, TypeOK
<1>3. ASSUME NEW c \in Dialled, NewSocketLocal(c)
      PROVE  fd[c] \in Fds /\ Begins(fd[c], c)
  <2>1. c \in Conns /\ c \in dialling /\ peer[c] # "absent" /\ fd[c] \in Fds
    BY <1>1, <1>3, NamesApart DEF NewSocketLocal, EngineInv, TypeOK
  <2> QED
    BY <1>3, <2>1, NamesApart
       DEF NewSocketLocal, Register, Begins, Fresh, ScriptSame, worldVars, scriptVars, TypeOK
<1>4. ASSUME NEW c \in Dialled, ConnectFails(c)
      PROVE  Begins(Failed, c)
  BY <1>1, <1>4, NamesApart
     DEF ConnectFails, CanBegin, Register, Begins, Fresh, ScriptSame, dialVars, scriptVars,
         TypeOK
<1>5. ASSUME NEW c \in WebSockets, WsOpen(c)
      PROVE  Begins(Name(c), c)
  BY <1>1, <1>5, NamesApart
     DEF WsOpen, CanBegin, Register, Begins, Fresh, ScriptSame, dialVars, scriptVars, TypeOK
<1> QED
  BY <1>2, <1>3, <1>4, <1>5

\* The pool thread has a socket connected, or the poll thread misses its event:
\* that makes no difference but for the two.
Dials ==
    /\ UNCHANGED <<sent, wire, ids, senders, ws, hangup, kicks, queue, closing>>
    /\ ScriptSame
    /\ \A c \in Conns : Fresh(c)' = Fresh(c)
    /\ \A c \in Conns : peer[c] # "absent" => peer'[c] = peer[c]
    /\ \A c \in Sockets : fd'[c] = fd[c] \/ (peer[c] = "absent" /\ peer'[c] # "absent")

LEMMA DialDials ==
    ASSUME TypeOK
    PROVE  /\ \A c \in Sockets, u \in Fds : Dial(c, u) => Dials
           /\ \A c \in Dialled : EventMissed(c) => Dials
<1>1. ASSUME NEW c \in Sockets, NEW u \in Fds, Dial(c, u)
      PROVE  Dials
  <2>1. peer[c] = "absent"
    BY <1>1 DEF Dial, Connect, CanBegin
  <2>2. ASSUME NEW d \in Conns PROVE Fresh(d)' = Fresh(d)
    BY <1>1, <2>1 DEF Dial, Connect, Fresh, TypeOK
  <2> QED
    BY <1>1, <2>1, <2>2, NamesApart DEF Dial, Connect, Dials, ScriptSame, scriptVars, TypeOK
<1>2. ASSUME NEW c \in Dialled, EventMissed(c)
      PROVE  Dials
  BY <1>2 DEF EventMissed, Dials, Fresh, ScriptSame, worldVars, scriptVars
<1> QED
  BY <1>1, <1>2

Begun == \E u \in Names, c \in Conns : Begins(u, c) /\ Fit(u, c)

LEMMA NextCases ==
    ASSUME TypeOK, EngineInv, NewsInv, [Next]_vars
    PROVE  \/ Begun \/ Dials
           \/ PeerNext
           \/ \E c \in Sockets : Read(c) \/ ReadEnd(c)
           \/ \E c \in WebSockets : WsOpened(c) \/ WsMessage(c) \/ WsClose(c)
           \/ \E a \in Conns : EndAgent(a)
           \/ ExecuteLua
           \/ CloseRemove \/ CloseTell
           \/ Kicking
           \/ UNCHANGED vars
<1>1. ASSUME NEW c \in Sockets, NEW u \in Fds, Accept(c, u)
      PROVE  Begun
  BY <1>1, BeginnersBegin, NamesApart DEF Begun, Fit
<1>2. ASSUME NEW c \in Dialled, NewSocketLocal(c) \/ ConnectFails(c)
      PROVE  Begun
  BY <1>2, BeginnersBegin, NamesApart DEF Begun, Fit
<1>3. ASSUME NEW c \in WebSockets, WsOpen(c)
      PROVE  Begun
  BY <1>3, BeginnersBegin, NamesApart, OwnApart DEF Begun, Fit
<1> QED
  BY <1>1, <1>2, <1>3, DialDials DEF Next, Polling, Serving, Closing

\* read_callback puts the messages it cuts out behind the others.
LEMMA ReadGrows ==
    ASSUME TypeOK, NEW c \in Sockets, Read(c)
    PROVE  \E m \in 0..Len(wire[c]) :
              /\ \A k \in 1..m : wire[c][k] \in Nat \ {0}
              /\ queue' \in Seq(Entries) /\ Grows
              /\ Len(queue') = Len(queue) + m
              /\ \A k \in 1..m : queue'[Len(queue) + k] = MessageEntry(fd[c], c, wire[c][k])
              /\ IF m = Len(wire[c]) THEN UNCHANGED <<ids, fd, kicks>>
                 ELSE Drop(c) /\ kicks' = kicks \cup {<<fd[c], c>>}
<1> DEFINE w == wire[c]
           u == fd[c]
<1>1. w \in Seq(Nat) /\ u \in Fds /\ c \in Conns /\ u \in Names /\ queue \in Seq(Entries)
  BY NamesApart DEF Read, Polled, TypeOK
<1>2. PICK m \in 0..Len(w) :
          /\ InOrder(w, m)
          /\ queue' = queue \o MessageEntries(u, c, Dispatched(w, m))
          /\ IF m = Len(w) THEN UNCHANGED <<ids, fd, kicks>>
             ELSE Drop(c) /\ kicks' = kicks \cup {<<fd[c], c>>}
  BY DEF Read
<1> DEFINE s == SubSeq(w, 1, m)
           q == MessageEntries(u, c, s)
<1>3. Len(w) \in Nat /\ m \in Nat /\ m <= Len(w)
  BY <1>1, <1>2, LenProperties
<1>4. /\ s \in Seq(Nat) /\ Len(s) = m
      /\ \A k \in 1..m : s[k] = w[k]
  BY <1>1, <1>3, SubSeqProperties
<1> HIDE DEF s, w, u
<1>5. DOMAIN s = 1..m
  BY <1>4, LenProperties
<1>6. q = [k \in 1..m |-> MessageEntry(u, c, s[k])]
  BY <1>5 DEF MessageEntries
<1>7. \A k \in 1..m : w[k] \in Nat
  BY <1>1, <1>3, ElementOfSeq
<1>8. \A k \in 1..m : MessageEntry(u, c, s[k]) \in Entries
  BY <1>1, <1>4, <1>7, EntriesType
<1> HIDE DEF q
<1>9. q \in Seq(Entries) /\ Len(q) = m
  <2>1. q \in Seq(Entries)
    BY <1>3, <1>6, <1>8, IsASeq
  <2> QED
    BY <2>1, <1>3, <1>6, LenProperties
<1>10. /\ queue' \in Seq(Entries) /\ Len(queue') = Len(queue) + m
       /\ \A i \in 1..Len(queue) : queue'[i] = queue[i]
       /\ \A k \in 1..m : queue'[Len(queue) + k] = q[k]
  <2>1. queue' = queue \o q
    BY <1>2 DEF q, Dispatched, s
  <2>2. queue \o q \in Seq(Entries) /\ Len(queue \o q) = Len(queue) + m
    BY <1>1, <1>9, ConcatProperties
  <2>3. Len(queue) \in Nat
    BY <1>1, LenProperties
  <2>4. \A i \in 1..(Len(queue) + Len(q)) :
            (queue \o q)[i] = IF i <= Len(queue) THEN queue[i] ELSE q[i - Len(queue)]
    BY <1>1, <1>9, ConcatProperties
  <2>5. ASSUME NEW i \in 1..Len(queue)
        PROVE  queue'[i] = queue[i]
    BY <1>3, <1>9, <2>1, <2>3, <2>4
  <2>6. ASSUME NEW k \in 1..m
        PROVE  queue'[Len(queue) + k] = q[k]
    <3>1. Len(queue) + k \in 1..(Len(queue) + Len(q)) /\ ~(Len(queue) + k <= Len(queue))
          /\ (Len(queue) + k) - Len(queue) = k
      BY <1>3, <1>9, <2>3
    <3> QED
      BY <2>1, <2>4, <3>1
  <2> QED
    BY <2>1, <2>2, <2>5, <2>6
<1>11. Grows
  BY <1>1, <1>3, <1>10, LenProperties DEF Grows, Places
<1>12. \A k \in 1..m : w[k] # 0
  BY <1>2 DEF InOrder
<1>13. \A k \in 1..m : queue'[Len(queue) + k] = MessageEntry(u, c, w[k])
  BY <1>4, <1>6, <1>10
<1> QED
  BY <1>2, <1>3, <1>7, <1>10, <1>11, <1>12, <1>13 DEF w, u

\* What the script does on account of entry e: nothing, or an agent ends.
Ends(a) ==
    /\ agents' = [agents EXCEPT ![port[a]] = None]
    /\ port' = [port EXCEPT ![a] = None]
    /\ CloseFd(port[a])
    /\ UNCHANGED <<served, handled>>

LEMMA HeadCases ==
    ASSUME TypeOK, ExecuteLua
    PROVE  /\ queue \in Seq(Entries) /\ queue # <<>> /\ queue' = Tail(queue)
           /\ closing = NotClosing
           /\ UNCHANGED <<worldVars, engineVars>>
           /\ \/ /\ queue[1].type = "new"
                 /\ agents' = [agents EXCEPT ![queue[1].name] = queue[1].conn]
                 /\ port' = [port EXCEPT ![queue[1].conn] = queue[1].name]
                 /\ served' = served \cup {queue[1].conn}
                 /\ UNCHANGED <<closing, handled>>
              \/ /\ queue[1].type = "message"
                 /\ agents[queue[1].name] = None
                 /\ CloseFd(queue[1].name)
                 /\ ScriptSame
              \/ /\ queue[1].type = "message"
                 /\ agents[queue[1].name] # None
                 /\ handled' = [handled EXCEPT ![agents[queue[1].name]] = queue[1].n]
                 /\ UNCHANGED <<closing, agents, port, served>>
              \/ /\ queue[1].type \in {"message", "lost"}
                 /\ agents[queue[1].name] # None
                 /\ Ends(agents[queue[1].name])
              \/ /\ queue[1].type = "lost"
                 /\ agents[queue[1].name] = None
                 /\ ScriptSame
                 /\ UNCHANGED closing
<1>1. queue \in Seq(Entries) /\ queue # <<>> /\ closing = NotClosing
  BY DEF ExecuteLua, CmdNewConnection, GlobalDispatchCommand, CmdLostConnection, Executing,
         TypeOK
<1>2. Head(queue) = queue[1]
  BY <1>1, HeadTailProperties
<1>3. queue' = Tail(queue) /\ UNCHANGED <<worldVars, engineVars>>
  BY DEF ExecuteLua, CmdNewConnection, GlobalDispatchCommand, CmdLostConnection
<1>4. CASE CmdNewConnection
  BY <1>1, <1>2, <1>3, <1>4 DEF CmdNewConnection
<1>5. CASE GlobalDispatchCommand
  BY <1>1, <1>2, <1>3, <1>5 DEF GlobalDispatchCommand, Destruct, Ends, ScriptSame
<1>6. CASE CmdLostConnection
  BY <1>1, <1>2, <1>3, <1>6 DEF CmdLostConnection, Destruct, Ends, ScriptSame
<1> QED
  BY <1>4, <1>5, <1>6 DEF ExecuteLua

LEMMA CloseFdType ==
    ASSUME TypeOK, NEW u \in Names, CloseFd(u)
    PROVE  closing' \in [at : {"remove", "tell"}, name : Names, conn : Conns]
                            \cup {NotClosing}
<1>1. ids[u] \in Conns \cup {None}
  BY DEF TypeOK
<1> QED
  BY <1>1 DEF CloseFd

LEMMA EndsType ==
    ASSUME TypeOK, NEW a \in Conns, port[a] # None, Ends(a)
    PROVE  /\ closing' \in [at : {"remove", "tell"}, name : Names, conn : Conns]
                            \cup {NotClosing}
           /\ agents' \in [Names -> Conns \cup {None}]
           /\ port' \in [Conns -> Names \cup {None}]
           /\ served' \subseteq Conns
           /\ handled' \in [Conns -> Nat]
<1>1. port[a] \in Names
  BY DEF TypeOK
<1>2. CloseFd(port[a])
  BY DEF Ends
<1> QED
  BY <1>1, <1>2, CloseFdType DEF TypeOK, Ends

LEMMA TypeInit == Init => TypeOK
<1> SUFFICES ASSUME Init PROVE TypeOK
  OBVIOUS
<1>1. <<>> \in Seq(Nat) /\ <<>> \in Seq(Entries)
  BY EmptySeq
<1> QED
  BY <1>1 DEF Init, TypeOK

LEMMA TypeStep ==
    ASSUME TypeOK, AgentInv, EngineInv, NewsInv, [Next]_vars
    PROVE  TypeOK'
<1>1. ASSUME NEW u \in Names, NEW c \in Conns, Begins(u, c), TypeOK,
             peer' \in [Conns -> {"absent", "open", "closed"}],
             fd' \in [Sockets -> Fds \cup {None}],
             ws' \in [WebSockets -> {"absent", "told", "open", "ended"}],
             missed' = missed
      PROVE  TypeOK'
  <2>1. queue' \in Seq(Entries)
    BY <1>1, EntriesType, AppendGrows DEF Begins, TypeOK
  <2> QED
    BY <1>1, <2>1 DEF Begins, ScriptSame, TypeOK
<1>2. /\ \A c \in Sockets, u \in Fds : Accept(c, u) => Begins(u, c)
      /\ \A c \in Dialled : NewSocketLocal(c) => fd[c] \in Fds /\ Begins(fd[c], c)
      /\ \A c \in Dialled : ConnectFails(c) => Begins(Failed, c)
      /\ \A c \in WebSockets : WsOpen(c) => Begins(Name(c), c)
  BY BeginnersBegin
<1> USE DEF TypeOK
<1>3. ASSUME NEW c \in Sockets, NEW u \in Fds, Accept(c, u)
      PROVE  TypeOK'
  BY <1>1, <1>2, <1>3, NamesApart DEF Accept, Connect
<1>4. ASSUME NEW c \in Sockets, NEW u \in Fds, Dial(c, u)
      PROVE  TypeOK'
  BY <1>4 DEF Dial, Connect, scriptVars
<1>21. ASSUME NEW c \in Dialled, NewSocketLocal(c)
       PROVE  TypeOK'
  <2>1. fd[c] \in Names /\ c \in Conns
    BY <1>2, <1>21, NamesApart
  <2> QED
    BY <1>1, <1>2, <1>21, <2>1 DEF NewSocketLocal, worldVars
<1>22. ASSUME NEW c \in Dialled, EventMissed(c)
       PROVE  TypeOK'
  BY <1>22 DEF EventMissed, worldVars, scriptVars
<1>23. ASSUME NEW c \in Dialled, ConnectFails(c)
       PROVE  TypeOK'
  BY <1>1, <1>2, <1>23, NamesApart DEF ConnectFails, dialVars
<1>24. ASSUME NEW c \in WebSockets, WsOpen(c)
       PROVE  TypeOK'
  BY <1>1, <1>2, <1>24, NamesApart, OwnApart DEF WsOpen, dialVars
<1>5. ASSUME NEW c \in Conns, PeerCloses(c)
      PROVE  TypeOK'
  BY <1>5 DEF PeerCloses, NewEvent, scriptVars
<1>6. ASSUME NEW c \in Conns, NEW n \in 0..MaxMessages, PeerSends(c, n)
      PROVE  TypeOK'
  <2>1. n \in Nat /\ sent[c] \in Nat /\ wire[c] \in Seq(Nat)
    BY <1>6, ConnectionsAssumption
  <2>2. Append(wire[c], n) \in Seq(Nat) /\ sent[c] + 1 \in Nat
    BY <2>1, AppendProperties
  <2> QED
    BY <1>6, <2>2 DEF PeerSends, NewEvent, scriptVars
<1>7. <<>> \in Seq(Nat)
  BY EmptySeq
<1>8. ASSUME NEW c \in Sockets, fd[c] # None, Drop(c)
      PROVE  ids' \in [Names -> Conns \cup {None}] /\ fd' \in [Sockets -> Fds \cup {None}]
  BY <1>8 DEF Drop
<1>9. ASSUME NEW c \in Sockets, Read(c)
      PROVE  TypeOK'
  <2>1. queue' \in Seq(Entries)
    BY <1>9, ReadGrows
  <2>2. /\ ids' \in [Names -> Conns \cup {None}] /\ fd' \in [Sockets -> Fds \cup {None}]
        /\ kicks' \subseteq Fds \X Sockets
    BY <1>8, <1>9, ReadGrows DEF Read, Polled
  <2>3. wire' \in [Conns -> Seq(Nat)]
    BY <1>7, <1>9 DEF Read
  <2> QED
    BY <1>9, <2>1, <2>2, <2>3 DEF Read, dialVars, scriptVars
<1>10. ASSUME NEW c \in Sockets, ReadEnd(c)
       PROVE  TypeOK'
  <2>1. fd[c] \in Names /\ c \in Conns
    BY <1>10, NamesApart DEF ReadEnd, Polled
  <2>2. queue' \in Seq(Entries)
    BY <1>10, <2>1, EntriesType, AppendGrows DEF ReadEnd
  <2>3. ids' \in [Names -> Conns \cup {None}] /\ fd' \in [Sockets -> Fds \cup {None}]
    BY <1>8, <1>10 DEF ReadEnd, Polled
  <2>4. wire' \in [Conns -> Seq(Nat)]
    BY <1>7, <1>10 DEF ReadEnd
  <2> QED
    BY <1>10, <2>2, <2>3, <2>4 DEF ReadEnd, dialVars, scriptVars
<1>11. ASSUME NEW c \in WebSockets, WsOpened(c)
       PROVE  TypeOK'
  BY <1>11 DEF WsOpened, worldVars, dialVars, scriptVars
<1>12. ASSUME NEW c \in WebSockets, OnClose(c)
       PROVE  /\ queue' \in Seq(Entries)
              /\ senders' \in [WsNames -> WebSockets \cup {None}] /\ hangup' \subseteq WebSockets
              /\ ids' \in [Names -> Conns \cup {None}]
  <2>1. Name(c) \in Names /\ c \in Conns
    BY NamesApart, OwnApart
  <2>2. queue' = queue \/ queue' = Append(queue, LostEntry(Name(c), c))
    BY <1>12 DEF OnClose
  <2>3. queue' \in Seq(Entries)
    BY <2>1, <2>2, EntriesType, AppendGrows
  <2> QED
    BY <1>12, <2>3 DEF OnClose
<1>13. ASSUME NEW c \in WebSockets, WsMessage(c)
       PROVE  TypeOK'
  <2>1. Name(c) \in Names /\ c \in Conns /\ wire[c] \in Seq(Nat) /\ wire[c] # <<>>
    BY <1>13, NamesApart, OwnApart DEF WsMessage
  <2>2. Head(wire[c]) \in Nat /\ Tail(wire[c]) \in Seq(Nat)
    BY <2>1, HeadTailProperties
  <2>3. /\ queue' \in Seq(Entries)
        /\ senders' \in [WsNames -> WebSockets \cup {None}] /\ hangup' \subseteq WebSockets
        /\ ids' \in [Names -> Conns \cup {None}]
    <3>1. CASE OnClose(c)
      BY <1>12, <3>1
    <3>2. CASE /\ queue' = Append(queue, LostEntry(Name(c), c))
               /\ UNCHANGED <<senders, ids, hangup>>
      BY <2>1, <3>2, EntriesType, AppendGrows
    <3>3. CASE /\ queue' = Append(queue, MessageEntry(Name(c), c, Head(wire[c])))
               /\ UNCHANGED <<senders, ids, hangup>>
      BY <2>1, <2>2, <3>3, EntriesType, AppendGrows
    <3> QED
      BY <1>13, <3>1, <3>2, <3>3 DEF WsMessage
  <2>4. wire' \in [Conns -> Seq(Nat)]
    BY <1>13, <2>2 DEF WsMessage
  <2> QED
    BY <1>13, <2>3, <2>4 DEF WsMessage, dialVars, scriptVars
<1>14. ASSUME NEW c \in WebSockets, WsClose(c)
       PROVE  TypeOK'
  BY <1>7, <1>12, <1>14 DEF WsClose, dialVars, scriptVars
<1>15. ASSUME NEW a \in Conns, EndAgent(a)
       PROVE  TypeOK'
  <2>1. port[a] # None /\ Ends(a)
    BY <1>15 DEF EndAgent, Destruct, Ends
  <2> QED
    BY <1>15, <2>1, EndsType DEF EndAgent, worldVars, engineVars, dialVars
<1>16. CASE ExecuteLua
  <2>1. /\ queue \in Seq(Entries) /\ queue # <<>> /\ queue' = Tail(queue)
        /\ UNCHANGED <<worldVars, engineVars>>
    BY <1>16, HeadCases
  <2>2. queue' \in Seq(Entries)
    BY <2>1, TailShrinks
  <2> DEFINE e == queue[1]
             a == agents[e.name]
  <2>3. e.name \in Names /\ e.conn \in Conns /\ e.n \in Nat /\ a \in Conns \cup {None}
    BY <2>1, TailShrinks, EntryType
  <2>4. /\ closing' \in [at : {"remove", "tell"}, name : Names, conn : Conns]
                            \cup {NotClosing}
        /\ agents' \in [Names -> Conns \cup {None}]
        /\ port' \in [Conns -> Names \cup {None}]
        /\ served' \subseteq Conns
        /\ handled' \in [Conns -> Nat]
    <3>1. CASE /\ agents' = [agents EXCEPT ![e.name] = e.conn]
               /\ port' = [port EXCEPT ![e.conn] = e.name]
               /\ served' = served \cup {e.conn}
               /\ UNCHANGED <<closing, handled>>
      BY <2>3, <3>1
    <3>2. CASE CloseFd(e.name) /\ ScriptSame
      BY <2>3, <3>2, CloseFdType DEF ScriptSame
    <3>3. CASE /\ a # None
               /\ handled' = [handled EXCEPT ![a] = e.n]
               /\ UNCHANGED <<closing, agents, port, served>>
      BY <2>3, <3>3
    <3>4. CASE a # None /\ Ends(a)
      <4>1. a \in Conns /\ port[a] # None
        BY <2>3, <3>4, NamesApart DEF AgentInv
      <4> QED
        BY <3>4, <4>1, EndsType
    <3>5. CASE ScriptSame /\ UNCHANGED closing
      BY <3>5 DEF ScriptSame
    <3> HIDE DEF a, e
    <3> QED
      BY <1>16, <3>1, <3>2, <3>3, <3>4, <3>5, HeadCases DEF a, e
  <2> QED
    BY <2>1, <2>2, <2>4 DEF worldVars, engineVars, dialVars
<1>17. CASE CloseRemove
  <2>1. closing.at = "remove" /\ closing \in [at : {"remove", "tell"}, name : Names, conn : Conns]
    BY <1>17 DEF CloseRemove, NotClosing
  <2>2. ids[closing.name] \in Conns \cup {None}
    BY <2>1
  <2>3. closing' \in [at : {"remove", "tell"}, name : Names, conn : Conns]
    BY <1>17, <2>1, <2>2 DEF CloseRemove
  <2>4. ids' \in [Names -> Conns \cup {None}] /\ fd' \in [Sockets -> Fds \cup {None}]
    BY <1>17, <2>1 DEF CloseRemove
  <2> QED
    BY <1>17, <2>3, <2>4 DEF CloseRemove, worldVars, dialVars
<1>18. CASE CloseTell
  <2>1. closing.at = "tell" /\ closing \in [at : {"remove", "tell"}, name : Names, conn : Conns]
    BY <1>18 DEF CloseTell, NotClosing
  <2>2. queue' = queue \/ queue' = Append(queue, LostEntry(closing.name, closing.conn))
    BY <1>18 DEF CloseTell
  <2>3. queue' \in Seq(Entries)
    BY <2>1, <2>2, EntriesType, AppendGrows
  <2>4. hangup' \subseteq WebSockets
    BY <1>18 DEF CloseTell, HangUp
  <2> QED
    BY <1>18, <2>3, <2>4 DEF CloseTell, worldVars, dialVars
<1>19. ASSUME NEW k \in kicks, KickSocket(k)
       PROVE  TypeOK'
  <2>1. k[1] \in Names /\ k[2] \in Conns
    BY NamesApart
  <2>2. queue' \in Seq(Entries)
    BY <1>19, <2>1, EntriesType, AppendGrows DEF KickSocket
  <2> QED
    BY <1>19, <2>2 DEF KickSocket, worldVars, dialVars, scriptVars
<1>20. CASE UNCHANGED vars
  BY <1>20 DEF vars, worldVars, engineVars, dialVars, scriptVars
<1> HIDE DEF TypeOK
<1> QED
  BY <1>3, <1>4, <1>5, <1>6, <1>9, <1>10, <1>11, <1>13, <1>14, <1>15, <1>16, <1>17,
     <1>18, <1>19, <1>20, <1>21, <1>22, <1>23, <1>24
     DEF Next, PeerNext, Polling, Serving, Closing, Kicking

-----------------------------------------------------------------------------
(***************************************************************************)
(* Agents.                                                                 *)
(***************************************************************************)

\* Agents end, and none begins.
Weakens ==
    /\ served' = served
    /\ \A u \in Names : agents'[u] \in {agents[u], None}
    /\ \A c \in Conns : port'[c] \in {port[c], None}

LEMMA SameWeakens == ScriptSame => Weakens
  BY DEF ScriptSame, Weakens

LEMMA EndsWeakens ==
    ASSUME TypeOK, NEW a \in Conns, port[a] # None, Ends(a)
    PROVE  /\ Weakens
           /\ port[a] \in Names /\ agents'[port[a]] = None /\ port'[a] = None
           /\ \A u \in Names : u # port[a] => agents'[u] = agents[u]
           /\ handled' = handled
           /\ CloseFd(port[a])
  BY DEF TypeOK, Ends, Weakens

\* A step is of the script, or leaves it alone.
LEMMA StepKinds ==
    ASSUME [Next]_vars
    PROVE  \/ ExecuteLua
           \/ \E a \in Conns : EndAgent(a)
           \/ /\ ScriptSame
              /\ closing' # closing => CloseRemove \/ CloseTell
<1>9. UNCHANGED scriptVars => ScriptSame /\ closing' = closing
  BY DEF scriptVars, ScriptSame
<1>1. ASSUME NEW c \in Sockets, NEW u \in Fds, Accept(c, u) \/ Dial(c, u)
      PROVE  UNCHANGED scriptVars
  BY <1>1 DEF Accept, Dial, Connect
<1>2. ASSUME NEW c \in Dialled, EventMissed(c) \/ NewSocketLocal(c) \/ ConnectFails(c)
      PROVE  UNCHANGED scriptVars
  BY <1>2 DEF EventMissed, NewSocketLocal, ConnectFails
<1>3. ASSUME NEW c \in WebSockets, WsOpen(c) \/ Serving(c)
      PROVE  UNCHANGED scriptVars
  BY <1>3 DEF WsOpen, Serving, WsOpened, WsMessage, WsClose
<1>4. CASE PeerNext
  BY <1>4, <1>9 DEF PeerNext, PeerCloses, PeerSends
<1>5. ASSUME NEW c \in Sockets, Polling(c)
      PROVE  UNCHANGED scriptVars
  BY <1>5 DEF Polling, Read, ReadEnd
<1>6. CASE Closing
  BY <1>6 DEF Closing, CloseRemove, CloseTell, ScriptSame
<1>7. CASE Kicking
  BY <1>7, <1>9 DEF Kicking, KickSocket
<1>8. CASE UNCHANGED vars
  BY <1>8, <1>9 DEF vars
<1> QED
  BY <1>1, <1>2, <1>3, <1>4, <1>5, <1>6, <1>7, <1>8, <1>9 DEF Next

LEMMA EndAgentEnds ==
    ASSUME NEW a \in Conns, EndAgent(a)
    PROVE  /\ port[a] # None /\ Ends(a) /\ closing = NotClosing
           /\ UNCHANGED <<worldVars, engineVars, queue>>
  BY DEF EndAgent, Destruct, Ends

\* What the head of the queue does to the agents.
HeadMakes ==
    /\ queue[1].type = "new"
    /\ agents' = [agents EXCEPT ![queue[1].name] = queue[1].conn]
    /\ port' = [port EXCEPT ![queue[1].conn] = queue[1].name]
    /\ served' = served \cup {queue[1].conn}
    /\ UNCHANGED <<closing, handled>>

LEMMA ScriptKinds ==
    ASSUME TypeOK, AgentInv, [Next]_vars
    PROVE  \/ ExecuteLua /\ HeadMakes
           \/ Weakens
<1>1. CASE ExecuteLua
  <2> DEFINE a == agents[queue[1].name]
  <2>1. CASE a # None /\ Ends(a)
    <3>1. queue[1].name \in Names
      BY <1>1, HeadCases, TailShrinks, EntryType
    <3>2. a \in Conns /\ port[a] # None
      BY <2>1, <3>1, NamesApart DEF AgentInv, TypeOK
    <3> QED
      BY <2>1, <3>2, EndsWeakens
  <2>2. CASE UNCHANGED <<agents, port, served>>
    BY <2>2 DEF Weakens
  <2> QED
    BY <1>1, <2>1, <2>2, HeadCases DEF HeadMakes, ScriptSame
<1>2. ASSUME NEW a \in Conns, EndAgent(a)
      PROVE  Weakens
  BY <1>2, EndAgentEnds, EndsWeakens
<1> QED
  BY <1>1, <1>2, StepKinds, SameWeakens

LEMMA AgentStep ==
    ASSUME TypeOK, AgentInv, EntryInv, NewsInv, [Next]_vars
    PROVE  AgentInv'
<1>1. CASE ExecuteLua /\ HeadMakes
  <2> DEFINE u == queue[1].name
             c == queue[1].conn
  <2>1. /\ u \in Names /\ c \in Conns /\ 1 \in Places
    BY <1>1, HeadCases, TailShrinks, EntryType
  <2>2. c \notin served /\ Fit(u, c)
    BY <1>1, <2>1 DEF HeadMakes, NewsInv, EntryInv
  <2>3. port[c] = None
    BY <2>1, <2>2 DEF AgentInv
  <2>4. /\ agents' = [agents EXCEPT ![u] = c] /\ port' = [port EXCEPT ![c] = u]
        /\ served' = served \cup {c}
    BY <1>1 DEF HeadMakes
  <2> HIDE DEF u, c
  <2>5. ASSUME NEW v \in Names, agents'[v] # None
        PROVE  port'[agents'[v]] = v
    <3>1. CASE v = u
      BY <2>1, <2>4, <3>1 DEF TypeOK
    <3>2. CASE v # u
      <4>1. agents'[v] = agents[v] /\ agents[v] \in Conns
        BY <2>1, <2>4, <2>5, <3>2 DEF TypeOK
      <4>2. port[agents[v]] = v /\ agents[v] # c
        BY <2>3, <2>5, <4>1, NamesApart DEF AgentInv
      <4> QED
        BY <2>4, <4>1, <4>2 DEF TypeOK
    <3> QED
      BY <3>1, <3>2
  <2>6. ASSUME NEW d \in Conns, port'[d] # None
        PROVE  d \in served' /\ Fit(port'[d], d)
    <3>1. CASE d = c
      BY <2>1, <2>2, <2>4, <3>1 DEF TypeOK
    <3>2. CASE d # c
      BY <2>1, <2>4, <2>6, <3>2 DEF TypeOK, AgentInv
    <3> QED
      BY <3>1, <3>2
  <2>7. \A d \in Conns : port'[d] # None => d \in served' /\ Fit(port'[d], d)
    BY <2>6 DEF Fit
  <2> QED
    BY <2>5, <2>7 DEF AgentInv, Fit
<1>2. CASE Weakens
  <2>1. \A d \in Conns : port'[d] # None => d \in served' /\ Fit(port'[d], d)
    BY <1>2 DEF Weakens, AgentInv, Fit
  <2>2. ASSUME NEW a \in Conns, port[a] # None, Ends(a),
               NEW v \in Names, agents'[v] # None
        PROVE  port'[agents'[v]] = v
    <3>1. agents'[v] = agents[v] /\ v # port[a] /\ agents[v] \in Conns
      BY <2>2, EndsWeakens DEF TypeOK, Weakens
    <3>2. port[agents[v]] = v
      BY <2>2, <3>1 DEF AgentInv
    <3>3. agents[v] # a
      BY <3>1, <3>2
    <3> QED
      BY <2>2, <3>1, <3>2, <3>3 DEF Ends, TypeOK
  <2>3. ASSUME UNCHANGED <<agents, port>>, NEW v \in Names, agents'[v] # None
        PROVE  port'[agents'[v]] = v
    BY <2>3 DEF AgentInv
  <2>4. ASSUME NEW v \in Names, agents'[v] # None
        PROVE  port'[agents'[v]] = v
    <3>1. CASE ExecuteLua
      <4> DEFINE a == agents[queue[1].name]
      <4>1. CASE a # None /\ Ends(a)
        <5>1. queue[1].name \in Names
          BY <3>1, HeadCases, TailShrinks, EntryType
        <5>2. a \in Conns /\ port[a] # None
          BY <4>1, <5>1, NamesApart DEF AgentInv, TypeOK
        <5> QED
          BY <2>2, <2>4, <4>1, <5>2
      <4>2. CASE HeadMakes
        <5>1. served' = served \cup {queue[1].conn} /\ served' = served
              /\ queue[1].conn \notin served
          BY <1>2, <3>1, <4>2, HeadCases, TailShrinks DEF HeadMakes, Weakens, NewsInv
        <5> QED
          BY <5>1
      <4> QED
        BY <2>3, <2>4, <3>1, <4>1, <4>2, HeadCases DEF HeadMakes, ScriptSame
    <3>2. ASSUME NEW a \in Conns, EndAgent(a)
          PROVE  port'[agents'[v]] = v
      BY <2>2, <2>4, <3>2, EndAgentEnds
    <3>3. CASE ScriptSame
      BY <2>3, <2>4, <3>3 DEF ScriptSame
    <3> QED
      BY <3>1, <3>2, <3>3, StepKinds
  <2> QED
    BY <2>1, <2>4 DEF AgentInv, Fit
<1> QED
  BY <1>1, <1>2, ScriptKinds

\* An agent that has ended does not come back.
LEMMA EndedStays ==
    ASSUME TypeOK, AgentInv, NewsInv, [Next]_vars, NEW c \in Own, Ended(c)
    PROVE  Ended(c)'
<1> USE OwnApart
<1>1. c \in served /\ c \in served'
  BY ScriptKinds DEF Ended, HeadMakes, Weakens
<1>2. CASE ExecuteLua /\ HeadMakes
  <2> DEFINE u == queue[1].name
             d == queue[1].conn
  <2>1. u \in Names /\ d \in Conns /\ d # c
    BY <1>1, <1>2, HeadCases, TailShrinks, EntryType DEF HeadMakes, NewsInv
  <2>2. agents' = [agents EXCEPT ![u] = d] /\ port' = [port EXCEPT ![d] = u]
    BY <1>2 DEF HeadMakes
  <2> HIDE DEF u, d
  <2>3. port'[c] = port[c] /\ port[c] \in Names \cup {None}
    BY <2>1, <2>2 DEF TypeOK
  <2>4. ~(port'[c] # None /\ agents'[port'[c]] = c)
    BY <2>1, <2>2, <2>3 DEF TypeOK, Ended, HasAgent
  <2> QED
    BY <1>1, <2>4 DEF Ended, HasAgent
<1>3. CASE Weakens
  <2>1. port[c] \in Names \cup {None} /\ port'[c] \in {port[c], None}
    BY <1>3 DEF TypeOK, Weakens
  <2>2. ~(port'[c] # None /\ agents'[port'[c]] = c)
    BY <1>3, <2>1, NamesApart DEF Weakens, Ended, HasAgent
  <2> QED
    BY <1>1, <2>2 DEF Ended, HasAgent
<1> QED
  BY <1>2, <1>3, ScriptKinds

-----------------------------------------------------------------------------
(***************************************************************************)
(* Sockets and WebSockets.                                                 *)
(***************************************************************************)
LEMMA DropKeeps ==
    ASSUME TypeOK, EngineInv, NEW c \in Sockets, fd[c] # None, c \notin dialling, Drop(c)
    PROVE  /\ \A u \in Names : ids'[u] \in {ids[u], None}
           /\ \A d \in Sockets :
                 fd'[d] # None => d # c /\ fd'[d] = fd[d] /\ ids'[fd[d]] = ids[fd[d]]
           /\ \A d \in Sockets : d # c => fd'[d] = fd[d]
           /\ \A u \in WsNames : ids'[u] = ids[u]
           /\ fd[c] \in Fds /\ ids[fd[c]] = c /\ ids'[fd[c]] = None /\ fd'[c] = None
           /\ \A u \in Names : u # fd[c] => ids'[u] = ids[u]
<1>1. fd[c] \in Fds /\ fd[c] \in Names /\ ids[fd[c]] = c
  BY NamesApart DEF TypeOK, EngineInv
<1>2. ids' = [ids EXCEPT ![fd[c]] = None] /\ fd' = [fd EXCEPT ![c] = None]
  BY DEF Drop
<1>3. ASSUME NEW d \in Sockets, fd'[d] # None
      PROVE  d # c /\ fd'[d] = fd[d] /\ ids'[fd[d]] = ids[fd[d]]
  <2>1. d # c /\ fd'[d] = fd[d] /\ fd[d] \in Names
    BY <1>2, <1>3, NamesApart DEF TypeOK
  <2>2. fd[d] # fd[c]
    BY <2>1 DEF EngineInv
  <2> QED
    BY <1>2, <2>1, <2>2 DEF TypeOK
<1>4. \A u \in WsNames : ids'[u] = ids[u]
  BY <1>1, <1>2, NamesApart DEF TypeOK
<1> QED
  BY <1>1, <1>2, <1>3, <1>4 DEF TypeOK

LEMMA OnCloseKeeps ==
    ASSUME TypeOK, NEW c \in WebSockets, OnClose(c)
    PROVE  /\ \A u \in Names : u # Name(c) => ids'[u] = ids[u]
           /\ ids'[Name(c)] \in {ids[Name(c)], None}
           /\ \A u \in WsNames : u # Name(c) => senders'[u] = senders[u]
           /\ senders[Name(c)] # None => ids'[Name(c)] = None
           /\ queue' = queue \/ queue' = Append(queue, LostEntry(Name(c), c))
           /\ senders[Name(c)] # None /\ ids[Name(c)] # None =>
                 queue' = Append(queue, LostEntry(Name(c), c))
           /\ senders[Name(c)] = None => ids' = ids /\ queue' = queue
  BY OwnApart DEF OnClose, TypeOK

LEMMA EngineStep ==
    ASSUME TypeOK, EngineInv, NewsInv, [Next]_vars
    PROVE  EngineInv'
\* What matters of the sockets.
<1> DEFINE Held == \A d \in Sockets : fd'[d] # None =>
                      /\ d \notin dialling' => ids'[fd'[d]] = d
                      /\ \A e \in Sockets : fd'[e] = fd'[d] => d = e
           Dialling == \A d \in dialling' : fd'[d] # None
           Sending == \A d \in WebSockets \cap Own : ws'[d] = "open" =>
                         senders'[Name(d)] # None \/ ids'[Name(d)] = None
<1> USE NamesApart, OwnApart
<1>20. ASSUME NEW u \in Names, NEW c \in Conns, Begins(u, c), Fit(u, c),
              c \in WebSockets => ws'[c] # "open",
              \A d \in WebSockets : d # c => ws'[d] = ws[d]
       PROVE  /\ \A v \in Names : ids'[v] = IF v = u THEN c ELSE ids[v]
              /\ \A v \in Names : ids'[v] # None => Fit(v, ids'[v])
              /\ Sending
  <2>1. \A v \in Names : ids'[v] = IF v = u THEN c ELSE ids[v]
    BY <1>20 DEF Begins, TypeOK
  <2>2. \A v \in Names : ids'[v] # None => Fit(v, ids'[v])
    BY <1>20, <2>1 DEF EngineInv, Fit
  <2>3. ASSUME NEW d \in WebSockets \cap Own, ws'[d] = "open"
        PROVE  senders'[Name(d)] # None \/ ids'[Name(d)] = None
    <3>1. d # c /\ ws[d] = "open"
      BY <1>20, <2>3
    <3>2. Name(d) # u
      BY <1>20, <3>1 DEF Fit
    <3> QED
      BY <1>20, <2>1, <3>1, <3>2 DEF Begins, EngineInv
  <2> QED
    BY <2>1, <2>2, <2>3
<1>1. ASSUME NEW c \in Sockets, NEW u \in Fds, Accept(c, u)
      PROVE  EngineInv'
  <2>1. /\ fd' = [fd EXCEPT ![c] = u] /\ \A d \in Sockets : fd[d] # u
        /\ ws' = ws /\ dialling' = dialling /\ Begins(u, c)
    BY <1>1, BeginnersBegin DEF Accept, Connect, Free
  <2>2. /\ \A v \in Names : ids'[v] = IF v = u THEN c ELSE ids[v]
        /\ \A v \in Names : ids'[v] # None => Fit(v, ids'[v])
        /\ Sending
    BY <1>20, <2>1 DEF Fit
  <2>3. c \notin dialling
    BY <2>1 DEF Begins, Fresh
  <2>4. Held
    BY <2>1, <2>2, <2>3 DEF TypeOK, EngineInv
  <2>5. Dialling
    BY <2>1, <2>3 DEF TypeOK, EngineInv
  <2> QED
    BY <2>2, <2>4, <2>5 DEF EngineInv, Fit
<1>2. ASSUME NEW c \in Dialled, ConnectFails(c)
      PROVE  EngineInv'
  <2>1. UNCHANGED <<fd, ws, dialling>> /\ Begins(Failed, c)
    BY <1>2, BeginnersBegin DEF ConnectFails, dialVars
  <2>2. /\ \A v \in Names : ids'[v] = IF v = Failed THEN c ELSE ids[v]
        /\ \A v \in Names : ids'[v] # None => Fit(v, ids'[v])
        /\ Sending
    BY <1>20, <2>1 DEF Fit
  <2>3. Held
    BY <2>1, <2>2 DEF EngineInv, TypeOK
  <2>4. Dialling
    BY <2>1 DEF EngineInv
  <2> QED
    BY <2>2, <2>3, <2>4 DEF EngineInv, Fit
<1>3. ASSUME NEW c \in WebSockets, WsOpen(c)
      PROVE  EngineInv'
  <2>1. /\ ws' = [ws EXCEPT ![c] = "told"] /\ UNCHANGED <<fd, dialling>>
        /\ Begins(Name(c), c)
    BY <1>3, BeginnersBegin DEF WsOpen, dialVars
  <2>2. /\ \A v \in Names : ids'[v] = IF v = Name(c) THEN c ELSE ids[v]
        /\ \A v \in Names : ids'[v] # None => Fit(v, ids'[v])
        /\ Sending
    BY <1>20, <2>1 DEF Fit, TypeOK
  <2>3. Held
    BY <2>1, <2>2 DEF EngineInv, TypeOK
  <2>4. Dialling
    BY <2>1 DEF EngineInv
  <2> QED
    BY <2>2, <2>3, <2>4 DEF EngineInv, Fit
<1>21. ASSUME NEW c \in Sockets, NEW u \in Fds, Dial(c, u)
       PROVE  EngineInv'
  <2>1. /\ fd' = [fd EXCEPT ![c] = u] /\ \A d \in Sockets : fd[d] # u
        /\ UNCHANGED <<ids, ws, senders>> /\ dialling' = dialling \cup {c}
        /\ peer[c] = "absent"
    BY <1>21 DEF Dial, Connect, CanBegin, Free
  <2>3. Held
    BY <2>1 DEF TypeOK, EngineInv
  <2>4. Dialling
    BY <2>1 DEF TypeOK, EngineInv
  <2> QED
    BY <2>1, <2>3, <2>4 DEF EngineInv, Fit
<1>22. ASSUME NEW c \in Dialled, NewSocketLocal(c)
       PROVE  EngineInv'
  <2>1. /\ UNCHANGED <<fd, ws>> /\ fd[c] \in Fds
        /\ Begins(fd[c], c) /\ dialling' = dialling \ {c}
    BY <1>22, BeginnersBegin DEF NewSocketLocal
  <2>2. /\ \A v \in Names : ids'[v] = IF v = fd[c] THEN c ELSE ids[v]
        /\ \A v \in Names : ids'[v] # None => Fit(v, ids'[v])
        /\ Sending
    BY <1>20, <2>1 DEF Fit
  <2>3. Held
    BY <2>1, <2>2 DEF TypeOK, EngineInv
  <2>4. Dialling
    BY <2>1 DEF EngineInv
  <2> QED
    BY <2>2, <2>3, <2>4 DEF EngineInv, Fit
<1>4. ASSUME \A v \in Names : ids'[v] \in {ids[v], None},
             \A d \in Sockets : fd'[d] # None =>
                /\ fd'[d] = fd[d]
                /\ d \notin dialling => ids'[fd[d]] = ids[fd[d]],
             dialling' = dialling, Dialling, Sending
      PROVE  EngineInv'
  <2>1. \A v \in Names : ids'[v] # None => Fit(v, ids'[v])
    BY <1>4 DEF EngineInv, Fit
  <2>2. Held
    BY <1>4 DEF EngineInv
  <2> QED
    BY <1>4, <2>1, <2>2 DEF EngineInv, Fit
<1>5. ASSUME UNCHANGED <<ids, fd, ws, senders, dialling>>
      PROVE  EngineInv'
  BY <1>5 DEF EngineInv, Fit
<1>6. ASSUME NEW c \in Sockets, Polled(c), Drop(c), UNCHANGED <<ws, senders, dialling>>
      PROVE  EngineInv'
  <2>1. fd[c] # None /\ c \notin dialling
    BY <1>6 DEF Polled
  <2>2. Dialling
    BY <1>6, <2>1, DropKeeps DEF EngineInv, TypeOK
  <2>3. Sending
    BY <1>6, <2>1, DropKeeps DEF EngineInv
  <2> QED
    BY <1>4, <1>6, <2>1, <2>2, <2>3, DropKeeps
<1>7. ASSUME NEW c \in Sockets, Read(c)
      PROVE  EngineInv'
  BY <1>5, <1>6, <1>7, ReadGrows DEF Read, dialVars
<1>8. ASSUME NEW c \in Sockets, ReadEnd(c)
      PROVE  EngineInv'
  BY <1>6, <1>8 DEF ReadEnd, dialVars
<1>9. ASSUME NEW c \in WebSockets, OnClose(c), UNCHANGED <<fd, dialling>>, ws[c] = "open",
             \A d \in WebSockets : d # c => ws'[d] = ws[d]
      PROVE  EngineInv'
  <2>1. \A v \in Names : ids'[v] \in {ids[v], None}
    BY <1>9, OnCloseKeeps
  <2>2. ASSUME NEW d \in Sockets, fd'[d] # None
        PROVE  fd'[d] = fd[d] /\ ids'[fd[d]] = ids[fd[d]]
    <3>1. fd[d] \in Fds /\ fd[d] \in Names /\ fd[d] # Name(c)
      BY <1>9, <2>2 DEF TypeOK
    <3> QED
      BY <1>9, <3>1, OnCloseKeeps
  <2>3. ASSUME NEW d \in WebSockets \cap Own, ws'[d] = "open"
        PROVE  senders'[Name(d)] # None \/ ids'[Name(d)] = None
    <3>1. CASE d = c
      BY <1>9, <2>3, <3>1, OnCloseKeeps DEF EngineInv
    <3>2. CASE d # c
      <4>1. Name(d) # Name(c) /\ Name(d) \in WsNames /\ Name(d) \in Names
        BY <3>2
      <4> QED
        BY <1>9, <2>3, <3>2, <4>1, OnCloseKeeps DEF EngineInv
    <3> QED
      BY <3>1, <3>2
  <2>4. Dialling
    BY <1>9 DEF EngineInv
  <2> QED
    BY <1>4, <1>9, <2>1, <2>2, <2>3, <2>4
<1>10. ASSUME NEW c \in WebSockets, WsMessage(c)
       PROVE  EngineInv'
  <2>1. UNCHANGED <<fd, ws, dialling>> /\ ws[c] = "open"
    BY <1>10 DEF WsMessage, dialVars
  <2>2. CASE OnClose(c)
    BY <1>9, <2>1, <2>2
  <2>3. CASE UNCHANGED <<senders, ids, hangup>>
    BY <1>5, <2>1, <2>3
  <2> QED
    BY <1>10, <2>2, <2>3 DEF WsMessage
<1>11. ASSUME NEW c \in WebSockets, WsClose(c)
       PROVE  EngineInv'
  BY <1>9, <1>11 DEF WsClose, dialVars, TypeOK
<1>12. ASSUME NEW c \in WebSockets, WsOpened(c)
       PROVE  EngineInv'
  <2>1. /\ ws' = [ws EXCEPT ![c] = "open"] /\ senders' = [senders EXCEPT ![Name(c)] = c]
        /\ UNCHANGED <<fd, ids, dialling>>
    BY <1>12 DEF WsOpened, dialVars
  <2>2. Sending
    BY <2>1 DEF EngineInv, TypeOK
  <2>3. Dialling
    BY <2>1 DEF EngineInv
  <2> QED
    BY <1>4, <2>1, <2>2, <2>3
<1>13. CASE CloseRemove
  <2> DEFINE u == closing.name
             c == ids[u]
  <2>1. u \in Names
    BY <1>13 DEF CloseRemove, NotClosing, TypeOK
  <2>2. /\ ids' = [ids EXCEPT ![u] = None]
        /\ fd' = [s \in Sockets |-> IF s = c THEN None ELSE fd[s]]
        /\ UNCHANGED <<ws, senders, dialling>>
    BY <1>13 DEF CloseRemove, dialVars
  <2> HIDE DEF u
  <2>3. \A v \in Names : ids'[v] = IF v = u THEN None ELSE ids[v]
    BY <2>2 DEF TypeOK
  <2>4. ASSUME NEW d \in Sockets, fd'[d] # None
        PROVE  fd'[d] = fd[d] /\ (d \notin dialling => ids'[fd[d]] = ids[fd[d]])
    <3>1. fd'[d] = fd[d] /\ d # c /\ fd[d] \in Names
      BY <2>2, <2>4 DEF TypeOK
    <3>2. d \notin dialling => ids[fd[d]] = d
      BY <2>4, <3>1 DEF EngineInv
    <3> QED
      BY <2>3, <3>1, <3>2
  <2>5. Sending
    BY <2>2, <2>3 DEF EngineInv
  <2>6. ASSUME NEW d \in dialling
        PROVE  fd'[d] # None
    <3>1. d \in Sockets /\ d \in Conns /\ fd[d] # None
      BY DEF EngineInv, TypeOK
    <3>2. d # c
      BY <2>1, <3>1 DEF NewsInv, Fresh, Unborn, Blank
    <3> QED
      BY <2>2, <3>1, <3>2
  <2> QED
    BY <1>4, <2>2, <2>3, <2>4, <2>5, <2>6
<1>14. CASE ExecuteLua
  BY <1>5, <1>14, HeadCases DEF engineVars, dialVars
<1>15. ASSUME NEW a \in Conns, EndAgent(a)
       PROVE  EngineInv'
  BY <1>5, <1>15 DEF EndAgent, engineVars, dialVars
<1>16. CASE CloseTell
  BY <1>5, <1>16 DEF CloseTell, dialVars
<1>17. CASE PeerNext
  BY <1>5, <1>17 DEF PeerNext, PeerCloses, PeerSends, NewEvent
<1>18. CASE Kicking
  BY <1>5, <1>18 DEF Kicking, KickSocket, dialVars
<1>19. CASE UNCHANGED vars
  BY <1>5, <1>19 DEF vars, engineVars, dialVars
<1>23. ASSUME NEW c \in Dialled, EventMissed(c)
       PROVE  EngineInv'
  BY <1>5, <1>23 DEF EventMissed
<1> QED
  BY <1>1, <1>2, <1>3, <1>7, <1>8, <1>10, <1>11, <1>12, <1>13, <1>14, <1>15, <1>16, <1>17,
     <1>18, <1>19, <1>21, <1>22, <1>23
     DEF Next, Polling, Serving, Closing

-----------------------------------------------------------------------------
(***************************************************************************)
(* What comes into the queue.                                              *)
(***************************************************************************)

\* An entry is put there for what has just begun, or for what may be read, or
\* it tells the loss of a socket.
Tells(i) ==
    \/ /\ queue'[i].type = "new"
       /\ Begins(queue'[i].name, queue'[i].conn)
       /\ i = Len(queue) + 1 /\ Len(queue') = i
    \/ queue'[i].type = "message" /\ Known(queue'[i].name, queue'[i].conn)
    \/ queue'[i].type = "lost" /\ queue'[i].conn \notin WebSockets
    \/ queue'[i].type = "lost" /\ Known(queue'[i].name, queue'[i].conn)

QueueGrows ==
    /\ queue' \in Seq(Entries) /\ Grows
    /\ \A i \in Added : Fit(queue'[i].name, queue'[i].conn) /\ Tells(i)

LEMMA OneMore ==
    ASSUME queue \in Seq(Entries), NEW e \in Entries, queue' = Append(queue, e),
           Fit(e.name, e.conn),
           \/ e.type = "new" /\ Begins(e.name, e.conn)
           \/ e.type = "message" /\ Known(e.name, e.conn)
           \/ e.type = "lost" /\ e.conn \notin WebSockets
           \/ e.type = "lost" /\ Known(e.name, e.conn)
    PROVE  QueueGrows
<1>1. /\ queue' \in Seq(Entries) /\ Grows /\ Len(queue') = Len(queue) + 1
      /\ queue'[Len(queue) + 1] = e /\ \A i \in Added : i = Len(queue) + 1
  BY AppendGrows
<1> QED
  BY <1>1 DEF QueueGrows, Tells

LEMMA QueueKinds ==
    ASSUME TypeOK, EngineInv, ClosingInv, NewsInv, [Next]_vars
    PROVE  ExecuteLua \/ QueueGrows
<1>0. queue \in Seq(Entries)
  BY DEF TypeOK
<1>1. CASE Begun
  BY <1>0, <1>1, OneMore, EntriesType DEF NewEntry, Begun, Begins
<1>5. ASSUME queue' = queue
      PROVE  QueueGrows
  BY <1>0, <1>5, SameGrows DEF QueueGrows
<1>2. CASE Dials
  BY <1>2, <1>5 DEF Dials
<1>6. ASSUME NEW c \in Sockets, Polled(c)
      PROVE  /\ fd[c] \in Names /\ c \in Conns /\ Fit(fd[c], c) /\ Known(fd[c], c)
             /\ c \notin WebSockets
  BY <1>6, NamesApart DEF Polled, TypeOK, EngineInv, Fit, Known
<1>7. ASSUME NEW c \in Sockets, Read(c)
      PROVE  QueueGrows
  <2>1. PICK m \in 0..Len(wire[c]) :
            /\ queue' \in Seq(Entries) /\ Grows
            /\ Len(queue') = Len(queue) + m
            /\ \A k \in 1..m : queue'[Len(queue) + k] = MessageEntry(fd[c], c, wire[c][k])
    BY <1>7, ReadGrows
  <2>2. ASSUME NEW i \in Added
        PROVE  Fit(queue'[i].name, queue'[i].conn) /\ Tells(i)
    <3>1. Len(queue) \in Nat /\ m \in Nat
      BY <1>0, LenProperties
    <3>2. i - Len(queue) \in 1..m /\ Len(queue) + (i - Len(queue)) = i
      BY <2>1, <3>1 DEF Added
    <3>3. queue'[i] = MessageEntry(fd[c], c, wire[c][i - Len(queue)])
      BY <2>1, <3>2
    <3>4. queue'[i].type = "message" /\ queue'[i].name = fd[c] /\ queue'[i].conn = c
      BY <3>3 DEF MessageEntry
    <3> QED
      BY <1>6, <1>7, <3>4 DEF Read, Tells
  <2> QED
    BY <2>1, <2>2 DEF QueueGrows
<1>8. ASSUME NEW u \in Names, NEW c \in Conns, Fit(u, c),
             c \notin WebSockets \/ Known(u, c),
             queue' = Append(queue, LostEntry(u, c))
      PROVE  QueueGrows
  BY <1>0, <1>8, OneMore, EntriesType DEF LostEntry
<1>9. ASSUME NEW c \in Sockets, ReadEnd(c)
      PROVE  QueueGrows
  BY <1>6, <1>8, <1>9 DEF ReadEnd
<1>10. ASSUME NEW c \in WebSockets, ws[c] = "open"
       PROVE  Name(c) \in Names /\ c \in Conns /\ Fit(Name(c), c) /\ Known(Name(c), c)
  BY <1>10, NamesApart, OwnApart DEF Fit, Known
<1>11. ASSUME NEW c \in WebSockets, ws[c] = "open", OnClose(c)
       PROVE  QueueGrows
  <2>1. queue' = queue \/ queue' = Append(queue, LostEntry(Name(c), c))
    BY <1>11, OnCloseKeeps
  <2> QED
    BY <1>5, <1>8, <1>10, <1>11, <2>1
<1>12. ASSUME NEW c \in WebSockets, WsMessage(c)
       PROVE  QueueGrows
  <2>1. Name(c) \in Names /\ c \in Conns /\ Fit(Name(c), c) /\ Known(Name(c), c)
        /\ ws[c] = "open"
    BY <1>10, <1>12 DEF WsMessage
  <2>2. CASE OnClose(c)
    BY <1>11, <2>1, <2>2
  <2>3. CASE queue' = Append(queue, LostEntry(Name(c), c))
    BY <1>8, <2>1, <2>3
  <2>4. CASE queue' = Append(queue, MessageEntry(Name(c), c, Head(wire[c])))
    <3>1. Head(wire[c]) \in Nat
      BY <1>12, <2>1, HeadTailProperties DEF WsMessage, TypeOK
    <3> QED
      BY <1>0, <2>1, <2>4, <3>1, OneMore, EntriesType DEF MessageEntry
  <2> QED
    BY <1>12, <2>2, <2>3, <2>4 DEF WsMessage
<1>13. ASSUME NEW c \in WebSockets, WsClose(c)
       PROVE  QueueGrows
  BY <1>11, <1>13 DEF WsClose
<1>14. ASSUME NEW c \in WebSockets, WsOpened(c)
       PROVE  QueueGrows
  BY <1>5, <1>14 DEF WsOpened
<1>15. CASE CloseRemove
  BY <1>5, <1>15 DEF CloseRemove
<1>16. CASE CloseTell
  <2>1. closing.name \in Names /\ closing.conn \in Conns /\ closing # NotClosing
    BY <1>16 DEF CloseTell, NotClosing, TypeOK
  <2>2. Fit(closing.name, closing.conn)
    BY <2>1 DEF ClosingInv
  <2>3. CASE closing.name \in WsNames
    BY <1>5, <1>16, <2>3 DEF CloseTell
  <2>4. CASE closing.name \notin WsNames
    <3>1. closing.conn \notin WebSockets
      BY <2>2, <2>4, OwnApart DEF Fit
    <3> QED
      BY <1>8, <1>16, <2>1, <2>2, <2>4, <3>1 DEF CloseTell
  <2> QED
    BY <2>3, <2>4
<1>17. ASSUME NEW a \in Conns, EndAgent(a)
       PROVE  QueueGrows
  BY <1>5, <1>17 DEF EndAgent
<1>18. CASE PeerNext
  BY <1>5, <1>18 DEF PeerNext, PeerCloses, PeerSends
<1>19. ASSUME NEW k \in kicks, KickSocket(k)
       PROVE  QueueGrows
  <2>1. k[1] \in Names /\ k[2] \in Conns /\ Fit(k[1], k[2]) /\ k[2] \notin WebSockets
    BY NamesApart DEF TypeOK, Fit
  <2> QED
    BY <1>8, <1>19, <2>1 DEF KickSocket
<1>20. CASE UNCHANGED vars
  BY <1>5, <1>20 DEF vars
<1> QED
  BY <1>1, <1>2, <1>7, <1>9, <1>12, <1>13, <1>14, <1>15, <1>16, <1>17, <1>18, <1>19, <1>20,
     NextCases DEF Kicking

LEMMA EntryStep ==
    ASSUME TypeOK, EngineInv, EntryInv, ClosingInv, NewsInv, [Next]_vars
    PROVE  EntryInv'
<1>1. CASE ExecuteLua
  <2>1. queue' \in Seq(Entries) /\ Shrinks /\ Len(queue) \in Nat
    BY <1>1, HeadCases, TailShrinks
  <2>2. Len(queue') \in Nat
    BY <2>1, LenProperties
  <2>3. ASSUME NEW i \in 1..Len(queue')
        PROVE  Fit(queue'[i].name, queue'[i].conn)
    <3>1. i + 1 \in Places /\ queue'[i] = queue[i + 1]
      BY <2>1, <2>2 DEF Shrinks, Places
    <3> QED
      BY <3>1 DEF EntryInv
  <2> QED
    BY <2>3 DEF EntryInv, Places, Fit
<1>2. CASE QueueGrows
  <2>1. Len(queue) \in Nat /\ Len(queue') \in Nat
    BY <1>2, LenProperties DEF TypeOK, QueueGrows
  <2>2. ASSUME NEW i \in 1..Len(queue')
        PROVE  Fit(queue'[i].name, queue'[i].conn)
    <3>1. i \in Places \/ i \in Added
      BY <2>1 DEF Places, Added
    <3> QED
      BY <1>2, <3>1 DEF EntryInv, QueueGrows, Grows
  <2> QED
    BY <2>2 DEF EntryInv, Places, Fit
<1> QED
  BY <1>1, <1>2, QueueKinds

-----------------------------------------------------------------------------
(***************************************************************************)
(* What has not begun.                                                     *)
(***************************************************************************)

LEMMA BlankStep ==
    ASSUME TypeOK, EngineInv, NewsInv, [Next]_vars, NEW c \in Conns, Blank(c),
           Fresh(c), Fresh(c)'
    PROVE  Blank(c)'
<1>1. CASE Begun
  <2>1. PICK u \in Names, d \in Conns : Begins(u, d)
    BY <1>1 DEF Begun
  <2>2. d # c
    BY <2>1 DEF Begins, Fresh
  <2>3. /\ ids' = [ids EXCEPT ![u] = d] /\ peer' = [peer EXCEPT ![d] = peer'[d]]
        /\ c \in Sockets => fd'[c] = fd[c]
        /\ c \in WebSockets => ws'[c] = ws[c]
        /\ UNCHANGED <<sent, wire>>
    BY <2>1, <2>2 DEF Begins, TypeOK
  <2>4. peer'[c] = peer[c] /\ \A v \in Names : ids'[v] # c
    BY <2>2, <2>3 DEF Blank, TypeOK
  <2> QED
    BY <2>3, <2>4 DEF Blank
<1>2. CASE Dials
  BY <1>2 DEF Dials, Blank
<1>5. ASSUME NEW d \in Conns, PeerCloses(d)
      PROVE  Blank(c)'
  BY <1>5 DEF PeerCloses, NewEvent, Blank, TypeOK
<1>6. ASSUME NEW d \in Conns, NEW n \in 0..MaxMessages, PeerSends(d, n)
      PROVE  Blank(c)'
  <2>1. UNCHANGED <<peer, fd, ws, ids>> /\ peer[d] # "absent"
    BY <1>6 DEF PeerSends, NewEvent
  <2>2. CASE d # c
    <3>1. sent'[c] = sent[c] /\ wire'[c] = wire[c]
      BY <1>6, <2>2 DEF PeerSends, TypeOK
    <3> QED
      BY <2>1, <3>1 DEF Blank
  <2>3. CASE d = c
    <3>1. sent'[c] = sent[c] + 1 /\ wire'[c] = Append(wire[c], n)
          /\ wire[c] \in Seq(Nat) /\ n \in Nat
      BY <1>6, <2>3, ConnectionsAssumption DEF PeerSends, TypeOK
    <3>2. Len(wire'[c]) = Len(wire[c]) + 1
      BY <3>1, AppendProperties
    <3> QED
      BY <2>1, <2>3, <3>1, <3>2 DEF Blank
  <2> QED
    BY <2>2, <2>3
<1>7. ASSUME NEW d \in Sockets, Polled(d), Drop(d)
      PROVE  /\ \A u \in Names : ids'[u] # c
             /\ c \in Sockets => fd'[c] \in {fd[c], None}
  BY <1>7, DropKeeps, NamesApart DEF Blank, Polled
<1>8. ASSUME NEW d \in Sockets, Read(d) \/ ReadEnd(d)
      PROVE  Blank(c)'
  <2>1. /\ Polled(d) /\ wire' = [wire EXCEPT ![d] = <<>>] /\ UNCHANGED <<sent, ws, peer>>
        /\ peer[d] # "absent"
    BY <1>8 DEF Read, ReadEnd
  <2>2. UNCHANGED <<ids, fd>> \/ Drop(d)
    BY <1>8, ReadGrows DEF ReadEnd
  <2>3. d # c
    BY <2>1 DEF Polled, Fresh
  <2>4. wire'[c] = wire[c]
    BY <2>1, <2>3 DEF TypeOK
  <2> QED
    BY <1>7, <2>1, <2>2, <2>4 DEF Blank
<1>10. ASSUME NEW d \in WebSockets, OnClose(d)
       PROVE  \A u \in Names : ids'[u] # c
  <2>1. \A u \in Names : ids'[u] = ids[u] \/ ids'[u] = None
    BY <1>10, OnCloseKeeps
  <2> QED
    BY <2>1, NamesApart DEF Blank
<1>11. ASSUME NEW d \in WebSockets, WsMessage(d)
       PROVE  Blank(c)'
  <2>1. /\ d # c /\ wire' = [wire EXCEPT ![d] = Tail(@)]
        /\ UNCHANGED <<sent, fd, ws, peer>>
    BY <1>11 DEF WsMessage, Blank
  <2>2. OnClose(d) \/ ids' = ids
    BY <1>11 DEF WsMessage
  <2>3. \A u \in Names : ids'[u] # c
    BY <1>10, <2>2 DEF Blank
  <2>4. wire'[c] = wire[c]
    BY <2>1 DEF TypeOK
  <2> QED
    BY <2>1, <2>3, <2>4 DEF Blank
<1>12. ASSUME NEW d \in WebSockets, WsClose(d)
       PROVE  Blank(c)'
  <2>1. /\ d # c /\ wire' = [wire EXCEPT ![d] = <<>>] /\ UNCHANGED <<sent, fd>>
        /\ ws' = [ws EXCEPT ![d] = "ended"] /\ peer' = [peer EXCEPT ![d] = "closed"]
        /\ OnClose(d)
    BY <1>12 DEF WsClose, Blank
  <2>2. wire'[c] = wire[c] /\ peer'[c] = peer[c] /\ (c \in WebSockets => ws'[c] = ws[c])
    BY <2>1 DEF TypeOK
  <2> QED
    BY <1>10, <2>1, <2>2 DEF Blank
<1>13. ASSUME NEW d \in WebSockets, WsOpened(d)
       PROVE  Blank(c)'
  <2>1. /\ d # c /\ ws' = [ws EXCEPT ![d] = "open"]
        /\ UNCHANGED <<peer, sent, wire, fd, ids>>
    BY <1>13 DEF WsOpened, Blank, worldVars
  <2> QED
    BY <2>1 DEF Blank, TypeOK
<1>14. CASE CloseRemove
  <2>1. /\ ids' = [ids EXCEPT ![closing.name] = None]
        /\ \A s \in Sockets : fd'[s] \in {None, fd[s]}
        /\ UNCHANGED <<peer, sent, wire, ws>>
    BY <1>14 DEF CloseRemove, worldVars
  <2>2. \A u \in Names : ids'[u] = ids[u] \/ ids'[u] = None
    BY <2>1 DEF TypeOK
  <2> QED
    BY <2>1, <2>2, NamesApart DEF Blank
<1>15. ASSUME UNCHANGED <<peer, sent, wire, fd, ws, ids>>
       PROVE  Blank(c)'
  BY <1>15 DEF Blank
<1>16. CASE ExecuteLua
  BY <1>15, <1>16, HeadCases DEF worldVars, engineVars
<1>17. ASSUME NEW a \in Conns, EndAgent(a)
       PROVE  Blank(c)'
  BY <1>15, <1>17 DEF EndAgent, worldVars, engineVars
<1>18. CASE CloseTell
  BY <1>15, <1>18 DEF CloseTell, worldVars
<1>19. CASE Kicking
  BY <1>15, <1>19 DEF Kicking, KickSocket, worldVars
<1>20. CASE UNCHANGED vars
  BY <1>15, <1>20 DEF vars, worldVars, engineVars
<1> QED
  BY <1>1, <1>2, <1>5, <1>6, <1>8, <1>11, <1>12, <1>13, <1>14, <1>16, <1>17, <1>18, <1>19,
     <1>20, NextCases DEF PeerNext

\* What is known stays known, and what is not becomes known by being announced.
LEMMA FreshStays ==
    ASSUME TypeOK, EngineInv, NewsInv, [Next]_vars, NEW c \in Conns
    PROVE  Fresh(c)' = Fresh(c) \/ \E u \in Names : Begins(u, c) /\ Fit(u, c)
<1>1. ASSUME NEW u \in Names, NEW d \in Conns, d # c, Begins(u, d)
      PROVE  Fresh(c)' = Fresh(c)
  <2>1. peer' = [peer EXCEPT ![d] = peer'[d]] /\ dialling' = dialling \ {d}
    BY <1>1 DEF Begins
  <2> QED
    BY <1>1, <2>1 DEF TypeOK, Fresh
<1>2. CASE Dials
  BY <1>2 DEF Dials
<1>3. ASSUME dialling' = dialling, peer'[c] = "absent" <=> peer[c] = "absent"
      PROVE  Fresh(c)' = Fresh(c)
  BY <1>3 DEF Fresh
<1>5. ASSUME NEW d \in Conns, PeerCloses(d)
      PROVE  Fresh(c)' = Fresh(c)
  BY <1>3, <1>5 DEF PeerCloses, NewEvent, TypeOK
<1>6. ASSUME NEW d \in WebSockets, WsClose(d)
      PROVE  Fresh(c)' = Fresh(c)
  <2>1. peer[d] # "absent"
    <3>1. d \in Conns /\ ws[d] = "open"
      BY <1>6, NamesApart DEF WsClose
    <3> QED
      BY <3>1 DEF NewsInv, Fresh, Unborn, Blank
  <2> QED
    BY <1>3, <1>6, <2>1 DEF WsClose, dialVars, TypeOK
<1>7. ASSUME UNCHANGED <<peer, dialling>>
      PROVE  Fresh(c)' = Fresh(c)
  BY <1>7 DEF Fresh
<1>8. ASSUME NEW d \in Conns, NEW n \in 0..MaxMessages, PeerSends(d, n)
      PROVE  UNCHANGED <<peer, dialling>>
  BY <1>8 DEF PeerSends, NewEvent
<1>9. ASSUME NEW d \in Sockets, Read(d) \/ ReadEnd(d)
      PROVE  UNCHANGED <<peer, dialling>>
  BY <1>9 DEF Read, ReadEnd, dialVars
<1>10. ASSUME NEW d \in WebSockets, WsMessage(d) \/ WsOpened(d)
       PROVE  UNCHANGED <<peer, dialling>>
  BY <1>10 DEF WsMessage, WsOpened, worldVars, dialVars
<1>11. CASE CloseRemove \/ CloseTell
  BY <1>7, <1>11 DEF CloseRemove, CloseTell, worldVars, dialVars
<1>12. CASE ExecuteLua
  BY <1>7, <1>12, HeadCases DEF worldVars, engineVars, dialVars
<1>13. ASSUME NEW a \in Conns, EndAgent(a)
       PROVE  UNCHANGED <<peer, dialling>>
  BY <1>13 DEF EndAgent, worldVars, engineVars, dialVars
<1>14. CASE Kicking
  BY <1>7, <1>14 DEF Kicking, KickSocket, worldVars, dialVars
<1>15. CASE UNCHANGED vars
  BY <1>7, <1>15 DEF vars, worldVars, engineVars, dialVars
<1> QED
  BY <1>1, <1>2, <1>5, <1>6, <1>7, <1>8, <1>9, <1>10, <1>11, <1>12, <1>13, <1>14, <1>15,
     NextCases DEF PeerNext, Begun

\* Messages are given to agents, which are in served.
LEMMA UnservedHandled ==
    ASSUME TypeOK, AgentInv, [Next]_vars, NEW c \in Conns, c \notin served
    PROVE  handled'[c] = handled[c]
<1>1. CASE ExecuteLua
  <2> DEFINE a == agents[queue[1].name]
  <2>1. queue[1].name \in Names
    BY <1>1, HeadCases, TailShrinks, EntryType
  <2>2. ASSUME a # None
        PROVE  a # c
    <3>1. a \in Conns /\ port[a] = queue[1].name
      BY <2>1, <2>2 DEF TypeOK, AgentInv
    <3>2. a \in served
      BY <2>1, <3>1, NamesApart DEF AgentInv
    <3> QED
      BY <3>2
  <2>3. CASE a # None /\ handled' = [handled EXCEPT ![a] = queue[1].n]
    BY <2>2, <2>3 DEF TypeOK
  <2>4. CASE handled' = handled
    BY <2>4
  <2> HIDE DEF a
  <2> QED
    BY <1>1, <2>3, <2>4, HeadCases DEF Ends, ScriptSame, a
<1>2. ASSUME NEW a \in Conns, EndAgent(a)
      PROVE  handled' = handled
  BY <1>2 DEF EndAgent
<1> QED
  BY <1>1, <1>2, StepKinds DEF ScriptSame

LEMMA NewsStep ==
    ASSUME TypeOK, EngineInv, AgentInv, ClosingInv, NewsInv, [Next]_vars
    PROVE  NewsInv'
<1>1. Len(queue) \in Nat /\ queue \in Seq(Entries)
  BY LenProperties DEF TypeOK
<1>2. CASE ExecuteLua
  <2>1. queue' \in Seq(Entries) /\ Shrinks /\ 1 \in Places
    BY <1>2, HeadCases, TailShrinks
  <2>2. Len(queue') \in Nat
    BY <2>1, LenProperties
  <2>3. ASSUME NEW i \in 1..Len(queue')
        PROVE  i + 1 \in Places /\ queue'[i] = queue[i + 1] /\ i + 1 # 1
    BY <2>1, <2>2 DEF Shrinks, Places
  <2>4. \A c \in served' : c \in served \/ (queue[1].type = "new" /\ queue[1].conn = c)
    BY ScriptKinds DEF HeadMakes, Weakens
  <2>5. \A c \in Conns : Fresh(c)' => Unborn(c)'
    <3>1. SUFFICES ASSUME NEW c \in Conns, Fresh(c)'
                   PROVE  Unborn(c)'
      OBVIOUS
    <3>2. Fresh(c) /\ Unborn(c)
      BY <3>1, FreshStays DEF NewsInv, Begins, Fresh
    <3>3. Blank(c)'
      BY <3>1, <3>2, BlankStep DEF Unborn
    <3>4. c \notin served'
      BY <2>1, <2>4, <3>2 DEF Unborn
    <3>5. handled'[c] = 0
      BY <3>2, UnservedHandled DEF Unborn
    <3>6. ASSUME NEW i \in 1..Len(queue'), queue'[i].conn = c
          PROVE  queue'[i].type = "lost" /\ c \notin WebSockets
      BY <2>3, <3>2, <3>6 DEF Unborn
    <3> QED
      BY <3>3, <3>4, <3>5, <3>6 DEF Unborn, Places
  <2>6. ASSUME NEW i \in 1..Len(queue'), queue'[i].type = "new"
        PROVE  queue'[i].conn \notin served'
    <3>1. queue[i + 1].type = "new" /\ i + 1 \in Places /\ i + 1 # 1
      BY <2>3, <2>6
    <3>2. queue[i + 1].conn \notin served
      BY <3>1 DEF NewsInv
    <3>3. ~(queue[1].type = "new" /\ queue[1].conn = queue[i + 1].conn)
      BY <2>1, <3>1 DEF NewsInv
    <3> QED
      BY <2>3, <2>4, <3>2, <3>3
  <2>7. ASSUME NEW i \in 1..Len(queue'), NEW j \in 1..Len(queue'),
               queue'[i].type = "new", queue'[j].type = "new",
               queue'[i].conn = queue'[j].conn
        PROVE  i = j
    <3>1. i + 1 = j + 1
      BY <2>3, <2>7 DEF NewsInv
    <3> QED
      BY <2>2, <3>1
  <2> QED
    BY <2>5, <2>6, <2>7 DEF NewsInv, Places
<1>3. CASE ~ExecuteLua
  <2>1. QueueGrows
    BY <1>3, QueueKinds
  <2>2. Len(queue') \in Nat
    BY <2>1, LenProperties DEF QueueGrows
  <2>3. served' = served
    BY <1>3, ScriptKinds DEF Weakens
  <2>4. \A i \in Places : queue'[i] = queue[i]
    BY <2>1 DEF QueueGrows, Grows
  <2>5. \A i \in 1..Len(queue') : i \in Places \/ i \in Added
    BY <1>1, <2>2 DEF Places, Added
  <2>6. \A i \in Added : Tells(i) /\ i \notin Places
    BY <1>1, <2>1, <2>2 DEF QueueGrows, Added, Places
  <2>7. ASSUME NEW i \in Added, queue'[i].type = "new"
        PROVE  /\ Begins(queue'[i].name, queue'[i].conn)
               /\ queue'[i].conn \in Conns
               /\ Fresh(queue'[i].conn)
               /\ peer'[queue'[i].conn] # "absent" /\ queue'[i].conn \notin dialling'
               /\ \A j \in Added : j = i
    <3>1. Begins(queue'[i].name, queue'[i].conn) /\ i = Len(queue) + 1 /\ Len(queue') = i
      BY <2>6, <2>7 DEF Tells
    <3>2. i \in 1..Len(queue')
      BY <1>1, <2>2, <3>1
    <3>3. queue'[i] \in Entries
      BY <2>1, <3>2, ElementOfSeq DEF QueueGrows
    <3>4. \A j \in Added : j = i
      BY <1>1, <2>2, <3>1 DEF Added
    <3> QED
      BY <3>1, <3>3, <3>4 DEF Begins, Entries
  <2>8. \A c \in Conns : Fresh(c)' => Unborn(c)'
    <3>1. SUFFICES ASSUME NEW c \in Conns, Fresh(c)'
                   PROVE  Unborn(c)'
      OBVIOUS
    <3>2. Fresh(c) /\ Unborn(c)
      BY <3>1, FreshStays DEF NewsInv, Begins, Fresh
    <3>3. Blank(c)'
      BY <3>1, <3>2, BlankStep DEF Unborn
    <3>4. c \notin served'
      BY <2>3, <3>2 DEF Unborn
    <3>5. handled'[c] = 0
      BY <3>2, UnservedHandled DEF Unborn
    <3>6. ASSUME NEW u \in Names
          PROVE  ~Known(u, c)
      BY <3>2 DEF Known, Unborn, Blank
    <3>7. ASSUME NEW i \in 1..Len(queue'), queue'[i].conn = c
          PROVE  queue'[i].type = "lost" /\ c \notin WebSockets
      <4>1. CASE i \in Places
        BY <2>4, <3>2, <3>7, <4>1 DEF Unborn
      <4>2. CASE i \in Added
        <5>1. queue'[i].type # "new"
          BY <2>7, <3>1, <3>7, <4>2 DEF Fresh
        <5>2. queue'[i] \in Entries
          BY <2>1, ElementOfSeq DEF QueueGrows
        <5>3. ~Known(queue'[i].name, c)
          BY <3>6, <5>2, NamesApart DEF Entries
        <5> QED
          BY <2>6, <3>7, <4>2, <5>1, <5>3 DEF Tells
      <4> QED
        BY <2>5, <4>1, <4>2
    <3> QED
      BY <3>3, <3>4, <3>5, <3>7 DEF Unborn, Places
  <2>9. ASSUME NEW i \in 1..Len(queue'), queue'[i].type = "new"
        PROVE  queue'[i].conn \notin served'
    <3>1. CASE i \in Places
      BY <2>3, <2>4, <2>9, <3>1 DEF NewsInv
    <3>2. CASE i \in Added
      BY <2>3, <2>7, <2>9, <3>2 DEF NewsInv, Unborn
    <3> QED
      BY <2>5, <3>1, <3>2
  <2>10. ASSUME NEW i \in Places, NEW j \in Added,
                queue'[i].type = "new", queue'[j].type = "new"
         PROVE  queue'[i].conn # queue'[j].conn
    <3>1. queue[i] = queue'[i]
      BY <2>4
    <3>2. Unborn(queue'[j].conn)
      BY <2>7, <2>10 DEF NewsInv
    <3> QED
      BY <2>10, <3>1, <3>2 DEF Unborn
  <2>11. ASSUME NEW i \in 1..Len(queue'), NEW j \in 1..Len(queue'),
                queue'[i].type = "new", queue'[j].type = "new",
                queue'[i].conn = queue'[j].conn
         PROVE  i = j
    <3>1. CASE i \in Places /\ j \in Places
      BY <2>4, <2>11, <3>1 DEF NewsInv
    <3>2. CASE i \in Added /\ j \in Added
      BY <2>7, <2>11, <3>2
    <3>3. CASE i \in Places /\ j \in Added
      BY <2>10, <2>11, <3>3
    <3>4. CASE i \in Added /\ j \in Places
      BY <2>10, <2>11, <3>4
    <3> QED
      BY <2>5, <3>1, <3>2, <3>3, <3>4
  <2> QED
    BY <2>8, <2>9, <2>11 DEF NewsInv, Places
<1> QED
  BY <1>2, <1>3

LEMMA WsEnded ==
    ASSUME AgentInv, NEW c \in WebSockets, c \in served, agents[Name(c)] = None
    PROVE  Ended(c)
  BY NamesApart DEF Ended, HasAgent, AgentInv, Fit

-----------------------------------------------------------------------------
(***************************************************************************)
(* At the head of the queue.                                               *)
(***************************************************************************)
LEMMA HeadKnown ==
    ASSUME TypeOK, LeadInv, queue # <<>>, NEW u \in Names, NEW c \in Own,
           MessageAt(1, u, c) \/ (HungUpAt(1, c) /\ u = Name(c))
    PROVE  c \in served /\ port[c] \in {None, u} /\ agents[u] \in {None, c}
<1>1. Len(queue) \in Nat /\ Len(queue) # 0
  BY LenProperties, EmptySeq DEF TypeOK
<1>2. 1 \in Places /\ 0 \in 0..Len(queue) /\ 0 + 1 = 1 /\ 1..0 = {}
  BY <1>1 DEF Places
<1>3. Comes(0, u, c)
  BY <1>2 DEF Comes
<1>4. Announced(0, u, c) /\ Leads(0, u, c)
  BY <1>2, <1>3 DEF LeadInv
<1> QED
  BY <1>2, <1>4 DEF Announced, Leads

LEMMA ClosingStep ==
    ASSUME TypeOK, EngineInv, AgentInv, EntryInv, ClosingInv, NewsInv, LeadInv, [Next]_vars
    PROVE  ClosingInv'
<1>1. ASSUME NEW u \in Names, CloseFd(u),
             \A d \in WebSockets \cap Own : u = Name(d) => Ended(d)'
      PROVE  ClosingInv'
  <2>1. CASE ids[u] = None
    BY <1>1, <2>1 DEF CloseFd, ClosingInv
  <2>2. CASE ids[u] # None
    <3>1. closing' = [at |-> "remove", name |-> u, conn |-> ids[u]]
      BY <1>1, <2>2 DEF CloseFd
    <3>2. closing'.name = u /\ closing'.conn = ids[u] /\ Fit(u, ids[u])
      BY <2>2, <3>1 DEF EngineInv
    <3> QED
      BY <1>1, <3>2 DEF ClosingInv, Fit, Ended, HasAgent
  <2> QED
    BY <2>1, <2>2
<1>2. ASSUME NEW a \in Conns, port[a] # None, Ends(a)
      PROVE  ClosingInv'
  <2>1. PICK u \in Names : u = port[a]
    BY <1>2, EndsWeakens
  <2>2. CloseFd(u) /\ port'[a] = None /\ served' = served
    BY <1>2, <2>1, EndsWeakens DEF Weakens
  <2>3. a \in served /\ Fit(u, a)
    BY <1>2, <2>1 DEF AgentInv
  <2>4. ASSUME NEW d \in WebSockets \cap Own, u = Name(d)
        PROVE  Ended(d)'
    <3>1. d = a
      BY <2>3, <2>4, FitOne
    <3> QED
      BY <2>2, <2>3, <3>1 DEF Ended, HasAgent
  <2> QED
    BY <1>1, <2>2, <2>4
<1>3. ASSUME closing' = closing
      PROVE  ClosingInv'
  <2>1. SUFFICES ASSUME closing # NotClosing
                 PROVE  /\ Fit(closing.name, closing.conn)
                        /\ closing.conn \in WebSockets \cap Own =>
                              closing.conn \in served' \ HasAgent'
    BY <1>3 DEF ClosingInv, Fit, Ended
  <2>2. Fit(closing.name, closing.conn)
    BY <2>1 DEF ClosingInv
  <2>3. ASSUME closing.conn \in WebSockets \cap Own
        PROVE  closing.conn \in served' \ HasAgent'
    <3>1. PICK w \in WebSockets \cap Own : w = closing.conn
      BY <2>3
    <3>2. Ended(w)
      BY <2>1, <2>3, <3>1 DEF ClosingInv, Ended
    <3>3. Ended(w)'
      BY <3>2, EndedStays
    <3> QED
      BY <3>1, <3>3 DEF Ended
  <2> QED
    BY <2>2, <2>3
<1>4. CASE ExecuteLua
  <2> DEFINE u == queue[1].name
             c == queue[1].conn
             a == agents[u]
  <2>1. u \in Names /\ c \in Conns /\ 1 \in Places /\ queue # <<>>
    BY <1>4, HeadCases, TailShrinks, EntryType
  <2>2. ASSUME queue[1].type = "message", a = None,
               NEW d \in WebSockets \cap Own, u = Name(d)
        PROVE  Ended(d)
    <3>1. Fit(u, c)
      BY <2>1 DEF EntryInv
    <3>2. c = d
      BY <2>1, <2>2, <3>1, FitOne
    <3>3. MessageAt(1, u, d)
      BY <2>2, <3>2 DEF MessageAt
    <3>4. d \in served
      BY <2>1, <3>3, HeadKnown
    <3> QED
      BY <2>2, <3>4, WsEnded
  <2>3. CASE queue[1].type = "message" /\ a = None /\ CloseFd(u)
    <3>1. PICK v \in Names : v = u
      BY <2>1
    <3>2. \A d \in WebSockets \cap Own : v = Name(d) => Ended(d)
      BY <2>2, <2>3, <3>1
    <3>3. ASSUME NEW d \in WebSockets \cap Own, v = Name(d)
          PROVE  Ended(d)'
      BY <3>2, <3>3, EndedStays
    <3> QED
      BY <1>1, <2>3, <3>1, <3>3
  <2>4. CASE a # None /\ Ends(a)
    <3>1. a \in Conns /\ port[a] # None
      BY <2>1, <2>4, NamesApart DEF TypeOK, AgentInv
    <3>2. PICK b \in Conns : b = a
      BY <3>1
    <3> QED
      BY <1>2, <2>4, <3>1, <3>2
  <2> HIDE DEF u, c, a
  <2> QED
    BY <1>3, <1>4, <2>3, <2>4, HeadCases DEF u, a, ScriptSame
<1>5. ASSUME NEW a \in Conns, EndAgent(a)
      PROVE  ClosingInv'
  BY <1>2, <1>5, EndAgentEnds
<1>6. CASE CloseRemove
  <2>1. closing # NotClosing /\ closing.name \in Names /\ closing.conn \in Conns
    BY <1>6 DEF CloseRemove, NotClosing, TypeOK
  <2>2. PICK u \in Names : u = closing.name
    BY <2>1
  <2>3. PICK d \in Conns : d = closing.conn
    BY <2>1
  <2>4. Fit(u, d) /\ (d \in WebSockets \cap Own => Ended(d))
    BY <2>1, <2>2, <2>3 DEF ClosingInv, Ended
  <2>5. closing \in [at : {"remove", "tell"}, name : Names, conn : Conns]
    BY <2>1 DEF TypeOK
  <2>6. closing'.name = u /\ closing'.conn \in {d, ids[u]}
        /\ (closing'.conn = d \/ ids[u] # None)
    BY <1>6, <2>2, <2>3, <2>5 DEF CloseRemove
  <2>7. PICK e \in Conns : e = closing'.conn
    BY <2>6 DEF TypeOK
  <2>8. Fit(u, e)
    BY <2>4, <2>6, <2>7 DEF EngineInv
  <2>9. ASSUME e \in WebSockets \cap Own
        PROVE  Ended(e)'
    <3>1. u = Name(e)
      BY <2>8, <2>9 DEF Fit
    <3>2. d = e
      BY <2>4, <2>9, <3>1, FitOne
    <3> QED
      BY <2>4, <2>9, <3>2, EndedStays
  <2> QED
    BY <2>6, <2>7, <2>8, <2>9 DEF ClosingInv, Fit, Ended
<1>7. CASE CloseTell
  BY <1>7 DEF CloseTell, ClosingInv
<1> QED
  BY <1>3, <1>4, <1>5, <1>6, <1>7, StepKinds

-----------------------------------------------------------------------------
(***************************************************************************)
(* Announced, and the last to be.                                          *)
(***************************************************************************)
LEMMA KnownStep ==
    ASSUME TypeOK, EngineInv, NewsInv, [Next]_vars,
           NEW u \in Names, NEW c \in Conns, Known(u, c)'
    PROVE  Known(u, c) \/ Begins(u, c)
<1>1. ASSUME \A v \in Names : ids'[v] \in {ids[v], None},
             \A d \in WebSockets : ws'[d] \in {"told", "open"} => ws[d] \in {"told", "open"}
      PROVE  Known(u, c)
  BY <1>1, NamesApart DEF Known
<1>2. ASSUME NEW v \in Names, NEW d \in Conns, Begins(v, d), Fit(v, d)
      PROVE  Known(u, c) \/ Begins(u, c)
  <2>1. \A w \in Names : ids'[w] = IF w = v THEN d ELSE ids[w]
    BY <1>2 DEF Begins, TypeOK
  <2>2. \A w \in WebSockets : w # d => ws'[w] = ws[w]
    BY <1>2 DEF Begins, TypeOK
  <2>3. CASE ids'[u] = c
    BY <1>2, <2>1, <2>3 DEF Known
  <2>4. CASE c \in WebSockets /\ ws'[c] \in {"told", "open"} /\ u = Name(c)
    BY <1>2, <2>2, <2>4 DEF Known, Fit
  <2> QED
    BY <2>3, <2>4 DEF Known
<1>3. CASE Begun
  BY <1>2, <1>3 DEF Begun
<1>4. CASE Dials
  BY <1>4 DEF Dials, Known
<1>6. ASSUME NEW d \in Sockets, Read(d)
      PROVE  Known(u, c)
  <2>1. Polled(d) /\ ws' = ws /\ (ids' = ids \/ Drop(d))
    BY <1>6, ReadGrows DEF Read
  <2> QED
    BY <1>1, <2>1, DropKeeps DEF Polled
<1>7. ASSUME NEW d \in Sockets, ReadEnd(d)
      PROVE  Known(u, c)
  BY <1>1, <1>7, DropKeeps DEF ReadEnd, Polled
<1>8. ASSUME NEW d \in WebSockets, OnClose(d)
      PROVE  \A v \in Names : ids'[v] \in {ids[v], None}
  BY <1>8, OnCloseKeeps
<1>9. ASSUME NEW d \in WebSockets, WsMessage(d)
      PROVE  Known(u, c)
  <2>1. ws' = ws /\ (ids' = ids \/ OnClose(d))
    BY <1>9 DEF WsMessage
  <2> QED
    BY <1>1, <1>8, <2>1
<1>10. ASSUME NEW d \in WebSockets, WsClose(d)
       PROVE  Known(u, c)
  <2>1. \A w \in WebSockets : ws'[w] \in {ws[w], "ended"}
    BY <1>10 DEF WsClose, TypeOK
  <2> QED
    BY <1>1, <1>8, <1>10, <2>1 DEF WsClose
<1>11. ASSUME NEW d \in WebSockets, WsOpened(d)
       PROVE  Known(u, c)
  <2>1. ids' = ids /\ ws[d] = "told" /\ ws' = [ws EXCEPT ![d] = "open"]
    BY <1>11 DEF WsOpened
  <2>2. \A w \in WebSockets : ws'[w] \in {"told", "open"} => ws[w] \in {"told", "open"}
    BY <2>1 DEF TypeOK
  <2> QED
    BY <1>1, <2>1, <2>2
<1>12. CASE CloseRemove
  <2>1. ids' = [ids EXCEPT ![closing.name] = None] /\ ws' = ws
    BY <1>12 DEF CloseRemove
  <2>2. \A v \in Names : ids'[v] \in {ids[v], None}
    BY <2>1 DEF TypeOK
  <2>3. Known(u, c)
    BY <1>1, <2>1, <2>2
  <2> QED
    BY <2>3
<1>13. ASSUME UNCHANGED <<ids, ws>>
       PROVE  Known(u, c)
  BY <1>13 DEF Known
<1>14. CASE ExecuteLua
  BY <1>13, <1>14, HeadCases DEF engineVars
<1>15. ASSUME NEW a \in Conns, EndAgent(a)
       PROVE  Known(u, c)
  BY <1>13, <1>15 DEF EndAgent, engineVars
<1>16. CASE CloseTell
  BY <1>13, <1>16 DEF CloseTell
<1>17. CASE PeerNext
  BY <1>13, <1>17 DEF PeerNext, PeerCloses, PeerSends, NewEvent
<1>18. CASE Kicking
  BY <1>13, <1>18 DEF Kicking, KickSocket
<1>19. CASE UNCHANGED vars
  BY <1>13, <1>19 DEF vars, engineVars
<1> QED
  BY <1>3, <1>4, <1>6, <1>7, <1>9, <1>10, <1>11, <1>12, <1>14, <1>15, <1>16, <1>17, <1>18,
     <1>19, NextCases

LEMMA LeadsGrows ==
    ASSUME TypeOK, Grows, Weakens, NEW n \in 0..Len(queue), NEW u \in Names, NEW c \in Conns
    PROVE  /\ Announced(n, u, c) => Announced(n, u, c)'
           /\ Leads(n, u, c) => Leads(n, u, c)'
<1>1. Len(queue) \in Nat
  BY LenProperties DEF TypeOK
<1>2. \A i \in 1..n : queue'[i] = queue[i]
  BY <1>1 DEF Grows, Places
<1>3. \A i \in 1..n : NewAt(i, u, c)' <=> NewAt(i, u, c)
  BY <1>2 DEF NewAt
<1>4. ASSUME Announced(n, u, c)
      PROVE  Announced(n, u, c)'
  BY <1>3, <1>4 DEF Announced, Weakens
<1>5. ASSUME Leads(n, u, c)
      PROVE  Leads(n, u, c)'
  <2>1. agents'[u] \in {None, c} \/ \E i \in 1..n : NewAt(i, u, c)'
    BY <1>3, <1>5 DEF Leads, Weakens
  <2>2. ASSUME NEW j \in 1..n, queue'[j].type = "new", queue'[j].name = u, queue'[j].conn # c
        PROVE  \E i \in (j + 1)..n : NewAt(i, u, c)'
    <3>1. PICK i \in (j + 1)..n : NewAt(i, u, c)
      BY <1>2, <1>5, <2>2 DEF Leads
    <3>2. i \in 1..n
      BY <1>1, <3>1
    <3> QED
      BY <1>3, <3>1, <3>2
  <2> QED
    BY <2>1, <2>2 DEF Leads
<1> QED
  BY <1>4, <1>5

LEMMA LeadsHead ==
    ASSUME TypeOK, AgentInv, NewsInv, [Next]_vars, ExecuteLua,
           NEW n \in 0..Len(queue'), NEW u \in Names, NEW c \in Conns
    PROVE  /\ Announced(n + 1, u, c) => Announced(n, u, c)'
           /\ Leads(n + 1, u, c) => Leads(n, u, c)'
<1>1. queue' \in Seq(Entries) /\ Shrinks /\ 1 \in Places
  BY HeadCases, TailShrinks
<1>2. Len(queue') \in Nat
  BY <1>1, LenProperties
<1>3. \A i \in 1..n : queue'[i] = queue[i + 1]
  BY <1>1, <1>2 DEF Shrinks
<1>4. \A i \in 1..n : NewAt(i, u, c)' <=> NewAt(i + 1, u, c)
  BY <1>3 DEF NewAt
<1>5. \A i \in 2..(n + 1) : i - 1 \in 1..n /\ (NewAt(i - 1, u, c)' <=> NewAt(i, u, c))
  BY <1>2, <1>4
<1>6. queue[1].name \in Names /\ queue[1].conn \in Conns /\ queue[1].type \in {"new", "message", "lost"}
  BY <1>1, EntryType DEF TypeOK
<1>7. queue[1].type = "new" => HeadMakes
  BY HeadCases DEF HeadMakes
<1>8. HeadMakes \/ Weakens
  BY ScriptKinds
<1>9. ASSUME NewAt(1, u, c)
      PROVE  c \in served' /\ port'[c] = u /\ agents'[u] = c
  BY <1>6, <1>7, <1>9 DEF NewAt, HeadMakes, TypeOK
<1>10. ASSUME Announced(n + 1, u, c)
       PROVE  Announced(n, u, c)'
  <2>1. CASE c \in served /\ port[c] \in {None, u}
    <3>1. CASE HeadMakes
      <4>1. queue[1].conn # c
        BY <1>1, <2>1, <3>1 DEF HeadMakes, NewsInv
      <4>2. c \in served' /\ port'[c] = port[c]
        BY <1>6, <2>1, <3>1, <4>1 DEF HeadMakes, TypeOK
      <4> QED
        BY <2>1, <4>2 DEF Announced
    <3>2. CASE Weakens
      BY <2>1, <3>2 DEF Announced, Weakens
    <3> QED
      BY <1>8, <3>1, <3>2
  <2>2. ASSUME NEW i \in 1..(n + 1), NewAt(i, u, c)
        PROVE  Announced(n, u, c)'
    <3>1. CASE i = 1
      BY <1>9, <2>2, <3>1 DEF Announced
    <3>2. CASE i # 1
      <4>1. i \in 2..(n + 1)
        BY <1>2, <3>2
      <4> QED
        BY <1>5, <2>2, <4>1 DEF Announced
    <3> QED
      BY <3>1, <3>2
  <2> QED
    BY <1>10, <2>1, <2>2 DEF Announced
<1>11. ASSUME Leads(n + 1, u, c)
       PROVE  Leads(n, u, c)'
  <2>1. ASSUME NEW i \in 1..(n + 1), NewAt(i, u, c)
        PROVE  agents'[u] = c \/ \E k \in 1..n : NewAt(k, u, c)'
    <3>1. CASE i = 1
      BY <1>9, <2>1, <3>1
    <3>2. CASE i # 1
      <4>1. i \in 2..(n + 1)
        BY <1>2, <3>2
      <4> QED
        BY <1>5, <2>1, <4>1
    <3> QED
      BY <3>1, <3>2
  <2>2. agents'[u] \in {None, c} \/ \E k \in 1..n : NewAt(k, u, c)'
    <3>1. CASE HeadMakes /\ queue[1].name = u /\ queue[1].conn # c
      <4>1. 1 \in 1..(n + 1) /\ queue[1].type = "new"
        BY <1>2, <3>1 DEF HeadMakes
      <4>2. PICK i \in (1 + 1)..(n + 1) : NewAt(i, u, c)
        BY <1>11, <3>1, <4>1 DEF Leads
      <4>3. i \in 2..(n + 1)
        BY <1>2, <4>2
      <4> QED
        BY <1>5, <4>2, <4>3
    <3>2. CASE HeadMakes /\ queue[1].name = u /\ queue[1].conn = c
      BY <1>6, <3>2 DEF HeadMakes, TypeOK
    <3>3. CASE HeadMakes /\ queue[1].name # u
      <4>1. agents'[u] = agents[u]
        BY <1>6, <3>3 DEF HeadMakes, TypeOK
      <4> QED
        BY <1>11, <2>1, <4>1 DEF Leads
    <3>4. CASE Weakens
      <4>1. agents'[u] \in {agents[u], None}
        BY <3>4 DEF Weakens
      <4> QED
        BY <1>11, <2>1, <4>1 DEF Leads
    <3> QED
      BY <1>8, <3>1, <3>2, <3>3, <3>4
  <2>3. ASSUME NEW j \in 1..n, queue'[j].type = "new", queue'[j].name = u, queue'[j].conn # c
        PROVE  \E i \in (j + 1)..n : NewAt(i, u, c)'
    <3>1. queue'[j] = queue[j + 1] /\ j + 1 \in 1..(n + 1)
      BY <1>2, <1>3
    <3>2. PICK i \in ((j + 1) + 1)..(n + 1) : NewAt(i, u, c)
      BY <1>11, <2>3, <3>1 DEF Leads
    <3>3. i \in 2..(n + 1) /\ i - 1 \in (j + 1)..n
      BY <1>2, <3>2
    <3> QED
      BY <1>5, <3>2, <3>3
  <2> QED
    BY <2>2, <2>3 DEF Leads
<1> QED
  BY <1>10, <1>11

\* What comes behind a place in the new queue.
LEMMA ComesHead ==
    ASSUME TypeOK, ExecuteLua, NEW n \in 0..Len(queue'), NEW u \in Names, NEW c \in Conns,
           Comes(n, u, c)'
    PROVE  Comes(n + 1, u, c) /\ n + 1 \in 0..Len(queue)
<1>1. queue' \in Seq(Entries) /\ Shrinks /\ UNCHANGED <<ids, ws>>
  BY HeadCases, TailShrinks DEF engineVars
<1>2. Len(queue') \in Nat /\ Len(queue) = Len(queue') + 1
  BY <1>1, LenProperties DEF Shrinks
<1>3. Known(u, c)' <=> Known(u, c)
  BY <1>1 DEF Known
<1>4. CASE n + 1 \in 1..Len(queue') /\ (MessageAt(n + 1, u, c)' \/ (HungUpAt(n + 1, c)' /\ u = Name(c)))
  <2>1. queue'[n + 1] = queue[(n + 1) + 1] /\ (n + 1) + 1 \in Places
    BY <1>1, <1>2, <1>4 DEF Shrinks, Places
  <2> QED
    BY <1>2, <1>4, <2>1 DEF Comes, MessageAt, HungUpAt
<1>5. CASE n = Len(queue') /\ Known(u, c)'
  BY <1>2, <1>3, <1>5 DEF Comes
<1> QED
  BY <1>4, <1>5 DEF Comes, Places

LEMMA ComesGrows ==
    ASSUME TypeOK, EngineInv, NewsInv, [Next]_vars, QueueGrows,
           NEW n \in 0..Len(queue'), NEW u \in Names, NEW c \in Conns,
           Comes(n, u, c)'
    PROVE  \/ n \in 0..Len(queue) /\ Comes(n, u, c)
           \/ /\ n \in Len(queue)..Len(queue') /\ Comes(Len(queue), u, c) /\ Known(u, c)
              /\ n = Len(queue') => Known(u, c)'
              /\ n # Len(queue') => queue'[n + 1].type # "new"
           \/ n = Len(queue') /\ Known(u, c)' /\ Begins(u, c)
<1>1. Len(queue) \in Nat /\ Len(queue') \in Nat /\ Len(queue) <= Len(queue')
  BY LenProperties DEF TypeOK, QueueGrows, Grows
<1>2. Known(u, c) => Comes(Len(queue), u, c)
  BY DEF Comes
<1>3. CASE n + 1 \in 1..Len(queue)
  <2>1. n + 1 \in Places /\ queue'[n + 1] = queue[n + 1] /\ n # Len(queue')
    BY <1>1, <1>3 DEF QueueGrows, Grows, Places
  <2>2. MessageAt(n + 1, u, c) \/ (HungUpAt(n + 1, c) /\ u = Name(c))
    BY <2>1 DEF Comes, MessageAt, HungUpAt
  <2> QED
    BY <1>1, <2>1, <2>2, <1>3 DEF Comes
<1>4. CASE n + 1 \notin 1..Len(queue) /\ n # Len(queue')
  <2>1. n + 1 \in Added /\ n \in Len(queue)..Len(queue')
    BY <1>1, <1>4 DEF Added
  <2>2. MessageAt(n + 1, u, c)' \/ (HungUpAt(n + 1, c)' /\ u = Name(c))
    BY <1>4 DEF Comes
  <2>3. Known(u, c) /\ queue'[n + 1].type # "new"
    BY <2>1, <2>2 DEF QueueGrows, Tells, MessageAt, HungUpAt, Fit
  <2> QED
    BY <1>2, <1>4, <2>1, <2>3
<1>5. CASE n = Len(queue')
  <2>1. Known(u, c)'
    <3>1. n + 1 \notin 1..Len(queue')
      BY <1>1, <1>5
    <3> QED
      BY <3>1 DEF Comes, Places
  <2>2. Known(u, c) \/ Begins(u, c)
    BY <2>1, KnownStep
  <2> QED
    BY <1>1, <1>2, <1>5, <2>1, <2>2
<1> QED
  BY <1>3, <1>4, <1>5

LEMMA LeadStep ==
    ASSUME TypeOK, EngineInv, AgentInv, EntryInv, ClosingInv, NewsInv, LeadInv, [Next]_vars
    PROVE  LeadInv'
<1>1. SUFFICES ASSUME NEW n \in 0..Len(queue'), NEW u \in Names, NEW c \in Own,
                      Comes(n, u, c)'
               PROVE  Announced(n, u, c)' /\ Leads(n, u, c)'
  BY DEF LeadInv
<1>0. c \in Conns
  BY OwnApart
<1>2. CASE ExecuteLua
  BY <1>0, <1>1, <1>2, ComesHead, LeadsHead DEF LeadInv
<1>3. CASE ~ExecuteLua
  <2>1. QueueGrows /\ Grows /\ Weakens
    BY <1>3, QueueKinds, ScriptKinds DEF QueueGrows
  <2>2. Len(queue) \in Nat /\ Len(queue') \in Nat /\ Len(queue) <= Len(queue')
    BY <2>1, LenProperties DEF TypeOK, QueueGrows, Grows
  <2>3. CASE n \in 0..Len(queue) /\ Comes(n, u, c)
    BY <1>0, <2>1, <2>3, LeadsGrows DEF LeadInv
  <2>4. CASE /\ n \in Len(queue)..Len(queue') /\ Comes(Len(queue), u, c) /\ Known(u, c)
             /\ n = Len(queue') => Known(u, c)'
             /\ n # Len(queue') => queue'[n + 1].type # "new"
    <3>1. PICK k \in 0..Len(queue) : k = Len(queue)
      BY <2>2
    <3>2. k \in 0..n /\ n \in 0..Len(queue')
      BY <2>2, <2>4, <3>1
    <3>3. Announced(k, u, c)' /\ Leads(k, u, c)'
      BY <1>0, <2>1, <2>4, <3>1, LeadsGrows DEF LeadInv
    <3>4. Announced(n, u, c)'
      BY <3>2, <3>3 DEF Announced
    <3>5. ASSUME NEW j \in 1..n, queue'[j].type = "new", queue'[j].name = u, queue'[j].conn # c
          PROVE  \E i \in (j + 1)..n : NewAt(i, u, c)'
      <4>1. CASE j \in 1..k
        <5>1. PICK i \in (j + 1)..k : NewAt(i, u, c)'
          BY <3>3, <3>5, <4>1 DEF Leads
        <5>2. i \in (j + 1)..n
          BY <3>2, <5>1
        <5> QED
          BY <5>1, <5>2
      <4>2. CASE j \notin 1..k
        <5>1. j \in Added
          BY <2>2, <3>1, <3>2, <4>2 DEF Added
        <5>2. Begins(u, queue'[j].conn) /\ Len(queue') = j /\ Fit(u, queue'[j].conn)
          BY <2>1, <3>5, <5>1 DEF QueueGrows, Tells
        <5>3. ids'[u] = queue'[j].conn
          BY <5>2 DEF Begins, TypeOK
        <5>4. Known(u, c)'
          BY <2>2, <2>4, <3>2, <5>2
        <5>5. c \in WebSockets /\ u = Name(c)
          BY <3>5, <5>3, <5>4 DEF Known
        <5>6. queue'[j] \in Entries
          <6>1. j \in 1..Len(queue')
            BY <2>2, <3>2
          <6> QED
            BY <2>1, <6>1, ElementOfSeq DEF QueueGrows
        <5>7. PICK d \in Conns : d = queue'[j].conn
          BY <5>6 DEF Entries
        <5>8. Fit(Name(c), d)
          BY <5>2, <5>5, <5>7
        <5> QED
          BY <3>5, <5>5, <5>7, <5>8, FitOne
      <4> QED
        BY <4>1, <4>2
    <3>6. agents'[u] \in {None, c} \/ \E i \in 1..n : NewAt(i, u, c)'
      BY <3>2, <3>3 DEF Leads
    <3> QED
      BY <3>4, <3>5, <3>6 DEF Leads
  <2>5. CASE n = Len(queue') /\ Known(u, c)' /\ Begins(u, c)
    <3>1. /\ Len(queue') = Len(queue) + 1 /\ queue'[n] = NewEntry(u, c)
      BY <1>0, <2>5, EntriesType, AppendGrows DEF Begins, TypeOK
    <3>2. NewAt(n, u, c)' /\ n \in 1..n
      BY <2>2, <2>5, <3>1 DEF NewAt, NewEntry
    <3>3. ASSUME NEW j \in 1..n, queue'[j].conn # c
          PROVE  n \in (j + 1)..n
      BY <2>2, <2>5, <3>2, <3>3 DEF NewAt
    <3> QED
      BY <3>2, <3>3 DEF Announced, Leads
  <2> QED
    BY <1>0, <1>1, <2>1, <2>3, <2>4, <2>5, ComesGrows
<1> QED
  BY <1>2, <1>3

-----------------------------------------------------------------------------
(***************************************************************************)
(* One name, and the wire.                                                 *)
(***************************************************************************)
LEMMA BeginsFresh ==
    ASSUME TypeOK, NewsInv, NEW u \in Names, NEW c \in Conns, Begins(u, c)
    PROVE  /\ Unborn(c)
           /\ queue' \in Seq(Entries) /\ Grows /\ Len(queue) \in Nat
           /\ Len(queue') = Len(queue) + 1
           /\ queue'[Len(queue) + 1] = NewEntry(u, c)
<1>1. Unborn(c)
  BY DEF Begins, NewsInv
<1>2. Len(queue) \in Nat
  BY LenProperties DEF TypeOK
<1> QED
  BY <1>1, <1>2, EntriesType, AppendGrows DEF Begins, TypeOK

LEMMA OneNameStep ==
    ASSUME TypeOK, EngineInv, EngineInv', NewsInv, OneNameInv, [Next]_vars, TypeOK'
    PROVE  OneNameInv'
<1>1. SUFFICES ASSUME NEW u \in Names, NEW v \in Names, NEW c \in Conns,
                      ids'[u] = c, ids'[v] = c
               PROVE  u = v
  BY DEF OneNameInv, TypeOK
<1>2. CASE c \in WebSockets
  BY <1>1, <1>2, NamesApart DEF EngineInv, Fit
<1>3. CASE c \notin WebSockets
  <2>1. ASSUME NEW x \in Names, ids'[x] = c
        PROVE  ids[x] = c \/ Begins(x, c)
    <3>1. Known(x, c)'
      BY <2>1 DEF Known
    <3>2. Known(x, c) \/ Begins(x, c)
      BY <3>1, KnownStep
    <3> QED
      BY <1>3, <3>2 DEF Known
  <2>2. ASSUME NEW x \in Names, NEW y \in Names, Begins(x, c), ids[y] = c
        PROVE  FALSE
    BY <2>2, BeginsFresh DEF Unborn, Blank
  <2>3. ASSUME Begins(u, c), Begins(v, c)
        PROVE  u = v
    <3>1. NewEntry(u, c) = NewEntry(v, c)
      BY <2>3, BeginsFresh
    <3> QED
      BY <3>1 DEF NewEntry
  <2>4. ASSUME ids[u] = c, ids[v] = c
        PROVE  u = v
    BY <2>4, NamesApart DEF OneNameInv
  <2> QED
    BY <1>1, <2>1, <2>2, <2>3, <2>4
<1> QED
  BY <1>2, <1>3

LEMMA WireStep ==
    ASSUME TypeOK, EngineInv, NewsInv, WireInv, [Next]_vars
    PROVE  WireInv'
<1> DEFINE Fits(s, w) == /\ Len(w) <= s
                         /\ \A m \in 1..Len(w) : w[m] \in {0, s - Len(w) + m}
<1>1. \A c \in Conns : wire[c] \in Seq(Nat) /\ sent[c] \in Nat /\ Fits(sent[c], wire[c])
  BY DEF TypeOK, WireInv
<1>2. SUFFICES ASSUME NEW c \in Conns
               PROVE  Fits(sent'[c], wire'[c])
  BY DEF WireInv
<1>3. ASSUME wire'[c] = wire[c], sent'[c] = sent[c]
      PROVE  Fits(sent'[c], wire'[c])
  BY <1>1, <1>3
<1>4. ASSUME NEW s \in Nat
      PROVE  Fits(s, <<>>)
  BY EmptySeq
<1>5. ASSUME NEW s \in Nat, NEW w \in Seq(Nat), Fits(s, w), NEW n \in {0, s + 1}
      PROVE  Fits(s + 1, Append(w, n))
  <2>1. /\ Len(Append(w, n)) = Len(w) + 1 /\ Len(w) \in Nat
        /\ \A i \in 1..Len(w) : Append(w, n)[i] = w[i]
        /\ Append(w, n)[Len(w) + 1] = n
    BY <1>5, AppendProperties, LenProperties
  <2>2. ASSUME NEW m \in 1..(Len(w) + 1)
        PROVE  Append(w, n)[m] \in {0, (s + 1) - (Len(w) + 1) + m}
    <3>1. CASE m \in 1..Len(w)
      BY <1>5, <2>1, <3>1
    <3>2. CASE m = Len(w) + 1
      BY <2>1, <3>2
    <3> QED
      BY <2>1, <3>1, <3>2
  <2> QED
    BY <1>5, <2>1, <2>2
<1>6. ASSUME NEW s \in Nat, NEW w \in Seq(Nat), Fits(s, w), w # <<>>
      PROVE  Fits(s, Tail(w))
  <2>1. /\ Len(Tail(w)) = Len(w) - 1 /\ Len(w) \in Nat
        /\ \A i \in 1..Len(Tail(w)) : Tail(w)[i] = w[i + 1]
        /\ Len(w) # 0
    BY <1>6, HeadTailProperties, LenProperties, EmptySeq
  <2>2. ASSUME NEW m \in 1..(Len(w) - 1)
        PROVE  Tail(w)[m] \in {0, s - (Len(w) - 1) + m}
    <3>1. m + 1 \in 1..Len(w) /\ Tail(w)[m] = w[m + 1]
      BY <2>1
    <3>2. w[m + 1] \in {0, s - Len(w) + (m + 1)}
      BY <1>6, <3>1
    <3> QED
      BY <2>1, <3>1, <3>2
  <2> QED
    BY <1>6, <2>1, <2>2
<1>7. ASSUME NEW d \in Conns, NEW n \in 0..MaxMessages, PeerSends(d, n)
      PROVE  Fits(sent'[c], wire'[c])
  <2>1. sent' = [sent EXCEPT ![d] = @ + 1] /\ wire' = [wire EXCEPT ![d] = Append(@, n)]
        /\ n \in {0, sent[d] + 1}
    BY <1>7 DEF PeerSends
  <2>2. CASE c = d
    <3>1. sent'[c] = sent[c] + 1 /\ wire'[c] = Append(wire[c], n)
      BY <2>1, <2>2 DEF TypeOK
    <3> HIDE DEF Fits
    <3> QED
      BY <1>1, <1>5, <2>1, <2>2, <3>1
  <2>3. CASE c # d
    BY <1>3, <2>1, <2>3 DEF TypeOK
  <2> QED
    BY <2>2, <2>3
<1> HIDE DEF Fits
<1>8. ASSUME NEW d \in Conns, wire' = [wire EXCEPT ![d] = <<>>], sent' = sent
      PROVE  Fits(sent'[c], wire'[c])
  <2>1. wire'[c] \in {wire[c], <<>>}
    BY <1>8 DEF TypeOK
  <2> QED
    BY <1>1, <1>3, <1>4, <1>8, <2>1
<1>9. ASSUME NEW d \in WebSockets, WsMessage(d)
      PROVE  Fits(sent'[c], wire'[c])
  <2>1. sent' = sent /\ wire' = [wire EXCEPT ![d] = Tail(@)] /\ wire[d] # <<>>
    BY <1>9 DEF WsMessage
  <2>2. CASE c = d
    <3>1. wire'[c] = Tail(wire[c])
      BY <2>1, <2>2 DEF TypeOK
    <3> QED
      BY <1>1, <1>6, <2>1, <2>2, <3>1
  <2>3. CASE c # d
    BY <1>3, <2>1, <2>3 DEF TypeOK
  <2> QED
    BY <2>2, <2>3
<1>10. ASSUME NEW d \in Sockets, Read(d) \/ ReadEnd(d)
       PROVE  Fits(sent'[c], wire'[c])
  BY <1>8, <1>10, NamesApart DEF Read, ReadEnd
<1>11. ASSUME NEW d \in WebSockets, WsClose(d)
       PROVE  Fits(sent'[c], wire'[c])
  BY <1>8, <1>11, NamesApart DEF WsClose
<1>12. ASSUME UNCHANGED <<wire, sent>>
       PROVE  Fits(sent'[c], wire'[c])
  BY <1>3, <1>12
<1>13. CASE ExecuteLua
  BY <1>12, <1>13, HeadCases DEF worldVars
<1>14. ASSUME NEW a \in Conns, EndAgent(a)
       PROVE  Fits(sent'[c], wire'[c])
  BY <1>12, <1>14 DEF EndAgent, worldVars
<1>15. CASE CloseRemove \/ CloseTell
  BY <1>12, <1>15 DEF CloseRemove, CloseTell, worldVars
<1>16. CASE Kicking
  BY <1>12, <1>16 DEF Kicking, KickSocket, worldVars
<1>17. CASE Begun \/ Dials
  BY <1>12, <1>17 DEF Begun, Begins, Dials
<1>19. ASSUME NEW d \in WebSockets, WsOpened(d)
       PROVE  Fits(sent'[c], wire'[c])
  BY <1>12, <1>19 DEF WsOpened, worldVars
<1>20. ASSUME NEW d \in Conns, PeerCloses(d)
       PROVE  Fits(sent'[c], wire'[c])
  BY <1>12, <1>20 DEF PeerCloses
<1>21. CASE UNCHANGED vars
  BY <1>12, <1>21 DEF vars, worldVars
<1> QED
  BY <1>7, <1>9, <1>10, <1>11, <1>13, <1>14, <1>15, <1>16, <1>17, <1>19, <1>20, <1>21,
     NextCases DEF PeerNext

-----------------------------------------------------------------------------
(***************************************************************************)
(* The next message of a connection.                                       *)
(***************************************************************************)
LEMMA DeadGrows ==
    ASSUME TypeOK, AgentInv, NewsInv, [Next]_vars, Grows,
           NEW n \in 0..Len(queue), NEW c \in Own, Dead(n, c)
    PROVE  Dead(n, c)'
<1>1. \A i \in 1..n : queue'[i] = queue[i]
  <2>1. Len(queue) \in Nat
    BY LenProperties DEF TypeOK
  <2> QED
    BY <2>1 DEF Grows, Places
<1>2. Ended(c) => Ended(c)'
  BY EndedStays
<1> QED
  BY <1>1, <1>2 DEF Dead, HungUpAt

LEMMA AwaitsGrows ==
    ASSUME TypeOK, AgentInv, NewsInv, [Next]_vars, Grows,
           NEW n \in 0..Len(queue), NEW c \in Own, NEW x, handled'[c] = handled[c],
           Awaits(n, c, x)
    PROVE  Awaits(n, c, x)'
<1>1. \A i \in 1..n : queue'[i] = queue[i]
  <2>1. Len(queue) \in Nat
    BY LenProperties DEF TypeOK
  <2> QED
    BY <2>1 DEF Grows, Places
<1>2. Dead(n, c) => Dead(n, c)'
  BY DeadGrows
<1>3. \A i \in 1..n : IsMessageOf(i, c)' <=> IsMessageOf(i, c)
  BY <1>1 DEF IsMessageOf
<1>4. ASSUME NEW i \in 1..n, \A j \in (i + 1)..n : ~IsMessageOf(j, c)
      PROVE  \A j \in (i + 1)..n : ~IsMessageOf(j, c)'
  BY <1>3, <1>4
<1> QED
  BY <1>1, <1>2, <1>3, <1>4 DEF Awaits

LEMMA NoAgentEnded ==
    ASSUME NEW u \in Names, NEW c \in Conns,
           c \in served, port[c] \in {None, u}, agents[u] = None
    PROVE  Ended(c)
  BY NamesApart DEF Ended, HasAgent

LEMMA EndsEnded ==
    ASSUME TypeOK, AgentInv, NEW c \in Conns, port[c] # None, Ends(c)
    PROVE  Ended(c)'
<1>1. port'[c] = None /\ c \in served /\ served' = served
  BY EndsWeakens DEF Weakens, AgentInv
<1> QED
  BY <1>1 DEF Ended, HasAgent

LEMMA DeadHead ==
    ASSUME TypeOK, AgentInv, EntryInv, NewsInv, LeadInv, [Next]_vars, ExecuteLua,
           NEW n \in 0..Len(queue'), NEW c \in Own, Dead(n + 1, c)
    PROVE  Dead(n, c)'
<1>1. Shrinks /\ 1 \in Places /\ queue' \in Seq(Entries) /\ queue # <<>>
  BY HeadCases, TailShrinks
<1>2. Len(queue') \in Nat
  BY <1>1, LenProperties
<1>3. \A i \in 1..n : queue'[i] = queue[i + 1]
  BY <1>1, <1>2 DEF Shrinks
<1>4. Ended(c) => Ended(c)'
  BY EndedStays
<1>5. ASSUME HungUpAt(1, c)
      PROVE  Ended(c)'
  <2> DEFINE u == Name(c)
  <2>1. queue[1].name = u /\ u \in Names /\ c \in Conns
    BY <1>1, <1>5, OwnApart DEF EntryInv, Fit, HungUpAt
  <2> HIDE DEF u
  <2>2. c \in served /\ port[c] \in {None, u} /\ agents[u] \in {None, c}
    BY <1>1, <1>5, <2>1, HeadKnown DEF u
  <2>3. CASE agents[u] = None
    BY <1>4, <2>1, <2>2, <2>3, NoAgentEnded
  <2>4. CASE agents[u] # None
    <3>1. Ends(c)
      BY <1>5, <2>1, <2>2, <2>4, HeadCases DEF HungUpAt
    <3>2. port[c] # None
      BY <2>1, <2>2, <2>4, NamesApart DEF AgentInv
    <3> QED
      BY <2>1, <3>1, <3>2, EndsEnded
  <2> QED
    BY <2>3, <2>4
<1>6. ASSUME NEW i \in 1..(n + 1), HungUpAt(i, c), i # 1
      PROVE  \E k \in 1..n : HungUpAt(k, c)'
  <2>1. i - 1 \in 1..n /\ (i - 1) + 1 = i
    BY <1>2, <1>6
  <2>2. HungUpAt(i - 1, c)'
    BY <1>3, <1>6, <2>1 DEF HungUpAt
  <2> QED
    BY <2>1, <2>2
<1> QED
  BY <1>4, <1>5, <1>6 DEF Dead

LEMMA HandledHead ==
    ASSUME TypeOK, AgentInv, EntryInv, LeadInv, ExecuteLua, NEW c \in Own, ~IsMessageOf(1, c)
    PROVE  handled'[c] = handled[c]
<1>1. 1 \in Places /\ queue # <<>> /\ queue[1].name \in Names /\ queue[1].conn \in Conns
  BY HeadCases, TailShrinks, EntryType
<1>2. CASE handled' = handled
  BY <1>2
<1>3. CASE /\ queue[1].type = "message" /\ agents[queue[1].name] # None
           /\ handled' = [handled EXCEPT ![agents[queue[1].name]] = queue[1].n]
  <2>1. PICK u \in Names, d \in Conns : u = queue[1].name /\ d = queue[1].conn
    BY <1>1
  <2>2. d # c /\ Fit(u, d)
    BY <1>1, <1>3, <2>1 DEF IsMessageOf, EntryInv
  <2>3. CASE d \in Own
    <3>1. agents[u] = d
      BY <1>1, <1>3, <2>1, <2>3, HeadKnown DEF MessageAt
    <3> QED
      BY <1>3, <2>1, <2>2, <3>1 DEF TypeOK
  <2>4. CASE d \notin Own
    <3>1. PICK a \in Conns : a = agents[u]
      BY <1>3, <2>1 DEF TypeOK
    <3>2. Fit(u, a)
      BY <1>3, <2>1, <3>1, NamesApart DEF AgentInv
    <3>3. a # c
      BY <2>2, <2>4, <3>2, OwnFit
    <3> QED
      BY <1>3, <2>1, <3>1, <3>3 DEF TypeOK
  <2> QED
    BY <2>3, <2>4
<1> QED
  BY <1>2, <1>3, HeadCases DEF ScriptSame, Ends

LEMMA AwaitsHead ==
    ASSUME TypeOK, AgentInv, EntryInv, NewsInv, LeadInv, [Next]_vars, ExecuteLua,
           NEW n \in 0..Len(queue'), NEW c \in Own, NEW x, Awaits(n + 1, c, x)
    PROVE  Awaits(n, c, x)'
<1>0. c \in Conns
  BY OwnApart
<1>1. Shrinks /\ 1 \in Places /\ queue' \in Seq(Entries) /\ queue # <<>>
  BY HeadCases, TailShrinks
<1>2. Len(queue') \in Nat
  BY <1>1, LenProperties
<1>3. \A i \in 1..n : queue'[i] = queue[i + 1] /\ i + 1 \in 2..(n + 1)
  BY <1>1, <1>2 DEF Shrinks
<1>4. \A i \in 1..n : IsMessageOf(i, c)' <=> IsMessageOf(i + 1, c)
  BY <1>3 DEF IsMessageOf
<1>5. ASSUME \A i \in 2..(n + 1) : ~IsMessageOf(i, c)
      PROVE  \A i \in 1..n : ~IsMessageOf(i, c)'
  BY <1>3, <1>4, <1>5
<1>6. CASE Dead(n + 1, c)
  BY <1>6, DeadHead DEF Awaits
<1>7. CASE handled[c] + 1 = x /\ \A i \in 1..(n + 1) : ~IsMessageOf(i, c)
  <2>1. 1 \in 1..(n + 1) /\ \A i \in 2..(n + 1) : i \in 1..(n + 1)
    BY <1>2
  <2>2. handled'[c] = handled[c]
    BY <1>7, <2>1, HandledHead
  <2>3. \A i \in 1..n : ~IsMessageOf(i, c)'
    BY <1>5, <1>7, <2>1
  <2> QED
    BY <1>7, <2>2, <2>3 DEF Awaits
<1>8. ASSUME NEW i \in 1..(n + 1), IsMessageOf(i, c), queue[i].n + 1 = x,
             \A j \in (i + 1)..(n + 1) : ~IsMessageOf(j, c)
      PROVE  Awaits(n, c, x)'
  <2>1. CASE i # 1
    <3>1. i - 1 \in 1..n /\ (i - 1) + 1 = i
      BY <1>2, <2>1
    <3>2. IsMessageOf(i - 1, c)' /\ queue'[i - 1].n + 1 = x
      BY <1>3, <1>4, <1>8, <3>1
    <3>3. ASSUME NEW j \in ((i - 1) + 1)..n
          PROVE  ~IsMessageOf(j, c)'
      <4>1. j \in 1..n /\ j + 1 \in (i + 1)..(n + 1)
        BY <1>2, <3>1
      <4> QED
        BY <1>4, <1>8, <4>1
    <3> QED
      BY <3>1, <3>2, <3>3 DEF Awaits
  <2>2. CASE i = 1
    <3>1. PICK u \in Names : u = queue[1].name
      BY <1>1, EntryType DEF TypeOK
    <3>2. MessageAt(1, u, c) /\ queue[1].type = "message"
      BY <1>8, <2>2, <3>1 DEF IsMessageOf, MessageAt
    <3>3. c \in served /\ port[c] \in {None, u} /\ agents[u] \in {None, c}
      BY <1>1, <3>2, HeadKnown
    <3>4. \A j \in 1..n : ~IsMessageOf(j, c)'
      BY <1>5, <1>8, <2>2
    <3>5. CASE agents[u] = None
      <4>1. Ended(c)'
        BY <1>0, <3>3, <3>5, NoAgentEnded, EndedStays
      <4> QED
        BY <4>1 DEF Awaits, Dead
    <3>6. CASE agents[u] # None /\ handled' = [handled EXCEPT ![c] = queue[1].n]
      <4>1. handled'[c] + 1 = x
        BY <1>0, <1>8, <2>2, <3>6 DEF TypeOK
      <4> QED
        BY <3>4, <4>1 DEF Awaits
    <3>7. CASE agents[u] # None /\ Ends(c)
      <4>1. port[c] # None
        BY <3>3, <3>7, NamesApart DEF AgentInv
      <4>2. Ended(c)'
        BY <1>0, <3>7, <4>1, EndsEnded
      <4> QED
        BY <4>2 DEF Awaits, Dead
    <3> QED
      BY <3>1, <3>2, <3>3, <3>5, <3>6, <3>7, HeadCases
  <2> QED
    BY <2>1, <2>2
<1> QED
  BY <1>6, <1>7, <1>8 DEF Awaits

-----------------------------------------------------------------------------
(***************************************************************************)
(* WebSockets that are read on.                                            *)
(***************************************************************************)
LEMMA MuteBegins ==
    ASSUME TypeOK, EngineInv, ClosingInv, NewsInv, [Next]_vars, NEW c \in WebSockets \cap Own,
           ws'[c] \in {"told", "open"}, ids'[Name(c)] = None
    PROVE  \/ ws[c] \in {"told", "open"} /\ ids[Name(c)] = None
           \/ queue' = Append(queue, LostEntry(Name(c), c))
           \/ Ended(c)
<1> DEFINE u == Name(c)
           Goal == \/ ws[c] \in {"told", "open"} /\ ids[u] = None
                   \/ queue' = Append(queue, LostEntry(u, c))
                   \/ Ended(c)
<1> SUFFICES Goal
  OBVIOUS
<1>1. ASSUME ids'[u] = ids[u], ws'[c] \in {"told", "open"} => ws[c] \in {"told", "open"}
      PROVE  Goal
  BY <1>1
<1>2. u \in Names /\ u \in WsNames /\ c \in Conns /\ None \notin Conns
      /\ \A d \in WebSockets : d # c => Name(d) # u
  BY NamesApart, OwnApart
<1>3. CASE Begun
  <2>1. PICK v \in Names, d \in Conns : Begins(v, d) /\ Fit(v, d)
    BY <1>3 DEF Begun
  <2>2. \A w \in Names : ids'[w] = IF w = v THEN d ELSE ids[w]
    BY <2>1 DEF Begins, TypeOK
  <2>3. v # u
    BY <1>2, <2>2
  <2>4. d # c
    BY <2>1, <2>3 DEF Fit
  <2>5. ws'[c] = ws[c]
    BY <2>1, <2>4 DEF Begins, TypeOK
  <2> QED
    BY <1>1, <1>2, <2>2, <2>3, <2>5
<1>4. CASE Dials
  BY <1>1, <1>4 DEF Dials
<1>7. ASSUME NEW d \in Sockets, Read(d) \/ ReadEnd(d)
      PROVE  Goal
  <2>1. Polled(d) /\ ws' = ws /\ (ids' = ids \/ Drop(d))
    BY <1>7, ReadGrows DEF Read, ReadEnd
  <2> QED
    BY <1>1, <1>2, <2>1, DropKeeps DEF Polled
<1>8. ASSUME NEW d \in WebSockets, WsMessage(d)
      PROVE  Goal
  <2>1. ws' = ws /\ (ids' = ids \/ OnClose(d))
    BY <1>8 DEF WsMessage
  <2>2. CASE ids' = ids
    BY <1>1, <2>1, <2>2
  <2>3. CASE OnClose(d) /\ d # c
    BY <1>1, <1>2, <2>1, <2>3, OnCloseKeeps
  <2>4. CASE OnClose(d) /\ d = c
    BY <1>1, <2>1, <2>4, OnCloseKeeps
  <2> HIDE DEF Goal
  <2> QED
    BY <2>1, <2>2, <2>3, <2>4
<1>9. ASSUME NEW d \in WebSockets, WsClose(d)
      PROVE  Goal
  <2>1. ws' = [ws EXCEPT ![d] = "ended"] /\ OnClose(d)
    BY <1>9 DEF WsClose
  <2>2. d # c /\ ws'[c] = ws[c]
    BY <2>1 DEF TypeOK
  <2> QED
    BY <1>1, <1>2, <2>1, <2>2, OnCloseKeeps
<1>10. ASSUME NEW d \in WebSockets, WsOpened(d)
       PROVE  Goal
  <2>1. ids' = ids /\ ws[d] = "told" /\ ws' = [ws EXCEPT ![d] = "open"]
    BY <1>10 DEF WsOpened
  <2>2. ws'[c] \in {"told", "open"} => ws[c] \in {"told", "open"}
    BY <2>1 DEF TypeOK
  <2> QED
    BY <1>1, <2>1, <2>2
<1>11. CASE CloseRemove
  <2>1. ids' = [ids EXCEPT ![closing.name] = None] /\ ws' = ws /\ closing # NotClosing
    BY <1>11 DEF CloseRemove, NotClosing
  <2>2. CASE closing.name = u
    <3>1. PICK d \in Conns : d = closing.conn
      BY <2>1 DEF TypeOK
    <3>2. Fit(u, d) /\ (d \in WebSockets \cap Own => Ended(d))
      BY <2>1, <2>2, <3>1 DEF ClosingInv, Ended
    <3> QED
      BY <3>2, FitOne
  <2>3. CASE closing.name # u
    BY <1>1, <1>2, <2>1, <2>3 DEF TypeOK
  <2> QED
    BY <2>2, <2>3
<1>12. ASSUME UNCHANGED <<ids, ws>>
       PROVE  Goal
  BY <1>12
<1> HIDE DEF Goal
<1>14. CASE ExecuteLua
  BY <1>12, <1>14, HeadCases DEF engineVars
<1>15. ASSUME NEW a \in Conns, EndAgent(a)
       PROVE  Goal
  BY <1>12, <1>15 DEF EndAgent, engineVars
<1>16. CASE CloseTell
  BY <1>12, <1>16 DEF CloseTell
<1>17. CASE PeerNext
  BY <1>12, <1>17 DEF PeerNext, PeerCloses, PeerSends, NewEvent
<1>18. CASE Kicking
  BY <1>12, <1>18 DEF Kicking, KickSocket
<1>19. CASE UNCHANGED vars
  BY <1>12, <1>19 DEF vars, engineVars
<1> QED
  BY <1>3, <1>4, <1>7, <1>8, <1>9, <1>10, <1>11, <1>14, <1>15, <1>16, <1>17, <1>18, <1>19,
     NextCases

LEMMA MuteStep ==
    ASSUME TypeOK, EngineInv, AgentInv, EntryInv, ClosingInv, NewsInv, LeadInv, MuteInv,
           [Next]_vars
    PROVE  MuteInv'
<1>1. SUFFICES ASSUME NEW c \in WebSockets \cap Own,
                      ws'[c] \in {"told", "open"}, ids'[Name(c)] = None
               PROVE  Dead(Len(queue), c)'
  BY DEF MuteInv
<1>2. c \in Conns /\ queue \in Seq(Entries) /\ Len(queue) \in Nat
  BY NamesApart, LenProperties DEF TypeOK
<1>3. Ended(c) => Ended(c)'
  BY EndedStays
<1>4. CASE queue' = Append(queue, LostEntry(Name(c), c))
  <2>1. queue'[Len(queue) + 1] = LostEntry(Name(c), c) /\ Len(queue') = Len(queue) + 1
    BY <1>2, <1>4, EntriesType, AppendGrows, OwnApart
  <2>2. PICK i \in 1..Len(queue') : i = Len(queue) + 1
    BY <1>2, <2>1
  <2>3. HungUpAt(i, c)'
    BY <2>1, <2>2 DEF HungUpAt, LostEntry
  <2> QED
    BY <2>2, <2>3 DEF Dead
<1>5. CASE Dead(Len(queue), c)
  <2>1. CASE ExecuteLua
    <3>1. queue' \in Seq(Entries) /\ Shrinks
      BY <2>1, HeadCases, TailShrinks
    <3>2. Len(queue') \in Nat /\ Len(queue) = Len(queue') + 1
      BY <3>1, LenProperties DEF Shrinks
    <3>3. PICK n \in 0..Len(queue') : n = Len(queue')
      BY <3>2
    <3>4. Dead(n, c)'
      BY <1>2, <1>5, <2>1, <3>2, <3>3, DeadHead
    <3> QED
      BY <3>3, <3>4 DEF Dead
  <2>2. CASE ~ExecuteLua
    <3>1. Grows /\ queue' \in Seq(Entries)
      BY <2>2, QueueKinds DEF QueueGrows
    <3>2. PICK n \in 0..Len(queue) : n = Len(queue)
      BY <1>2
    <3>3. Dead(n, c)'
      BY <1>2, <1>5, <3>1, <3>2, DeadGrows
    <3>4. \A i \in 1..n : i \in 1..Len(queue')
      BY <1>2, <3>1, <3>2, LenProperties DEF Grows
    <3> QED
      BY <3>3, <3>4 DEF Dead
  <2> QED
    BY <2>1, <2>2
<1>6. CASE Ended(c)
  BY <1>3, <1>6 DEF Dead
<1> QED
  BY <1>1, <1>4, <1>5, <1>6, MuteBegins DEF MuteInv

-----------------------------------------------------------------------------
(***************************************************************************)
(* The order of messages.                                                  *)
(***************************************************************************)

\* Nothing is read of c, and nothing new is heard of it.
Quiet(c) ==
    /\ Heard(c)' => Heard(c)
    /\ NextRead(c)' = NextRead(c)
    /\ \A i \in Added : ~IsMessageOf(i, c)'

LEMMA HeardStep ==
    ASSUME TypeOK, EngineInv, NewsInv, [Next]_vars, NEW c \in Conns,
           \A u \in Names : ~Begins(u, c), Heard(c)'
    PROVE  Heard(c)
<1>1. PICK u \in Names : Known(u, c)'
  BY DEF Heard
<1>2. Known(u, c) \/ Begins(u, c)
  BY <1>1, KnownStep
<1> QED
  BY <1>2 DEF Heard

LEMMA LostIsQuiet ==
    ASSUME TypeOK, EngineInv, NewsInv, [Next]_vars, NEW c \in Conns,
           \A u \in Names : ~Begins(u, c),
           wire'[c] = wire[c], sent'[c] = sent[c],
           \/ queue' = queue
           \/ \E e \in Entries : ~(e.type = "message" /\ e.conn = c) /\ queue' = Append(queue, e)
    PROVE  Quiet(c)
<1>1. Heard(c)' => Heard(c)
  BY HeardStep
<1>2. NextRead(c)' = NextRead(c)
  BY DEF NextRead
<1>3. CASE queue' = queue
  BY <1>1, <1>2, <1>3, SameGrows DEF Quiet, TypeOK
<1>4. ASSUME NEW e \in Entries, ~(e.type = "message" /\ e.conn = c), queue' = Append(queue, e)
      PROVE  Quiet(c)
  <2>1. \A i \in Added : queue'[i] = e
    BY <1>4, AppendGrows DEF TypeOK
  <2> QED
    BY <1>1, <1>2, <1>4, <2>1 DEF Quiet, IsMessageOf
<1> QED
  BY <1>3, <1>4

LEMMA LostEntryQuiet ==
    ASSUME NEW u \in Names, NEW d \in Conns
    PROVE  \A c : \E e \in Entries : ~(e.type = "message" /\ e.conn = c) /\ e = LostEntry(u, d)
<1>1. LostEntry(u, d) \in Entries /\ LostEntry(u, d).type = "lost"
  BY EntriesType DEF LostEntry
<1> QED
  BY <1>1

LEMMA BeginsQuiet ==
    ASSUME TypeOK, EngineInv, NewsInv, [Next]_vars, NEW c \in Conns,
           NEW v \in Names, NEW d \in Conns, Begins(v, d), d # c
    PROVE  Quiet(c)
<1>1. wire' = wire /\ sent' = sent
  BY DEF Begins
<1>3. ASSUME NEW u \in Names, Begins(u, c)
      PROVE  FALSE
  <2>1. NewEntry(u, c) = NewEntry(v, d)
    BY <1>3, BeginsFresh
  <2> QED
    BY <2>1 DEF NewEntry
<1>2. NewEntry(v, d) \in Entries /\ NewEntry(v, d).type # "message"
      /\ queue' = Append(queue, NewEntry(v, d))
  BY EntriesType DEF NewEntry, Begins
<1> QED
  BY <1>1, <1>2, <1>3, LostIsQuiet

\* All steps but those that read c or make it.
LEMMA QuietKinds ==
    ASSUME TypeOK, EngineInv, ClosingInv, NewsInv, WireInv, [Next]_vars, NEW c \in Conns
    PROVE  \/ ExecuteLua
           \/ Quiet(c)
           \/ \E u \in Names : Begins(u, c)
           \/ c \in Sockets /\ (Read(c) \/ ReadEnd(c))
           \/ c \in WebSockets /\ (WsMessage(c) \/ WsClose(c))
<1> DEFINE Goal == \/ ExecuteLua
                   \/ Quiet(c)
                   \/ \E u \in Names : Begins(u, c)
                   \/ c \in Sockets /\ (Read(c) \/ ReadEnd(c))
                   \/ c \in WebSockets /\ (WsMessage(c) \/ WsClose(c))
<1> SUFFICES ASSUME \A u \in Names : ~Begins(u, c)
             PROVE  Goal
  OBVIOUS
<1>1. ASSUME NEW v \in Names, NEW d \in Conns, Begins(v, d)
      PROVE  Goal
  BY <1>1, BeginsQuiet
<1>2. ASSUME wire'[c] = wire[c], sent'[c] = sent[c], queue' = queue
      PROVE  Goal
  BY <1>2, LostIsQuiet
<1>3. ASSUME wire'[c] = wire[c], sent'[c] = sent[c],
             NEW u \in Names, NEW d \in Conns, queue' = Append(queue, LostEntry(u, d))
      PROVE  Goal
  <2>1. Quiet(c)
    BY <1>3, LostIsQuiet, LostEntryQuiet
  <2> QED
    BY <2>1
<1>4. ASSUME NEW d \in Conns, NEW n \in 0..MaxMessages, PeerSends(d, n)
      PROVE  Goal
  <2>1. UNCHANGED <<queue, ids, ws>> /\ wire[c] \in Seq(Nat) /\ sent[c] \in Nat
    BY <1>4 DEF PeerSends, NewEvent, TypeOK
  <2>2. CASE c = d
    <3>1. sent'[c] = sent[c] + 1 /\ wire'[c] = Append(wire[c], n)
      BY <1>4, <2>2 DEF PeerSends, TypeOK
    <3>2. n \in Nat
      BY ConnectionsAssumption
    <3>3. Len(wire'[c]) = Len(wire[c]) + 1 /\ Len(wire[c]) \in Nat
      BY <2>1, <3>1, <3>2, AppendProperties, LenProperties
    <3>4. NextRead(c)' = NextRead(c)
      <4>1. \A s, l \in Nat : (s + 1) - (l + 1) + 1 = s - l + 1
        OBVIOUS
      <4>2. NextRead(c)' = (sent[c] + 1) - (Len(wire[c]) + 1) + 1
        BY <3>1, <3>3 DEF NextRead
      <4> QED
        BY <2>1, <3>3, <4>1, <4>2 DEF NextRead
    <3>5. Heard(c)' => Heard(c)
      BY <2>1, HeardStep
    <3> QED
      BY <2>1, <3>4, <3>5, SameGrows DEF Quiet, TypeOK
  <2>3. CASE c # d
    <3>1. sent'[c] = sent[c] /\ wire'[c] = wire[c]
      BY <1>4, <2>3 DEF PeerSends, TypeOK
    <3> QED
      BY <1>2, <2>1, <3>1
  <2> QED
    BY <2>2, <2>3
<1>5. ASSUME NEW d \in Conns, PeerCloses(d)
      PROVE  Goal
  <2>1. UNCHANGED <<wire, sent, queue, ids, ws>>
    BY <1>5 DEF PeerCloses, NewEvent
  <2>2. Quiet(c)
    BY <2>1, SameGrows DEF Quiet, Heard, Known, NextRead, TypeOK
  <2> QED
    BY <2>2
<1>6. ASSUME NEW d \in Sockets, Read(d), d # c
      PROVE  Goal
  <2>1. /\ sent' = sent /\ wire' = [wire EXCEPT ![d] = <<>>]
    BY <1>6 DEF Read
  <2>2. wire'[c] = wire[c]
    BY <1>6, <2>1 DEF TypeOK
  <2>3. PICK m \in 0..Len(wire[d]) :
            /\ Len(queue') = Len(queue) + m
            /\ \A k \in 1..m : queue'[Len(queue) + k] = MessageEntry(fd[d], d, wire[d][k])
    BY <1>6, ReadGrows
  <2>4. Len(queue) \in Nat /\ Len(wire[d]) \in Nat
    BY LenProperties, NamesApart DEF TypeOK
  <2>5. ASSUME NEW i \in Added
        PROVE  queue'[i].conn = d
    <3>1. PICK k \in 1..m : i = Len(queue) + k
      <4>1. i - Len(queue) \in 1..m /\ i = Len(queue) + (i - Len(queue))
        BY <2>3, <2>4 DEF Added
      <4> QED
        BY <4>1
    <3>2. queue'[i] = MessageEntry(fd[d], d, wire[d][k])
      BY <2>3, <3>1
    <3> QED
      BY <3>2 DEF MessageEntry
  <2>6. Quiet(c)
    BY <1>6, <2>1, <2>2, <2>5, HeardStep DEF Quiet, NextRead, IsMessageOf
  <2> QED
    BY <2>6
<1>7. ASSUME NEW d \in Sockets, ReadEnd(d), d # c
      PROVE  Goal
  <2>1. sent' = sent /\ wire' = [wire EXCEPT ![d] = <<>>]
        /\ queue' = Append(queue, LostEntry(fd[d], d)) /\ fd[d] \in Names /\ d \in Conns
    BY <1>7, NamesApart DEF ReadEnd, Polled, TypeOK
  <2>2. wire'[c] = wire[c]
    BY <1>7, <2>1 DEF TypeOK
  <2> QED
    BY <1>3, <2>1, <2>2
<1>8. ASSUME NEW d \in WebSockets, WsMessage(d), d # c
      PROVE  Goal
  <2>1. sent' = sent /\ wire' = [wire EXCEPT ![d] = Tail(@)]
        /\ d \in Conns /\ Name(d) \in Names /\ wire[d] # <<>>
    BY <1>8, NamesApart, OwnApart DEF WsMessage
  <2>2. wire'[c] = wire[c]
    BY <1>8, <2>1 DEF TypeOK
  <2>3. CASE queue' = queue
    BY <1>2, <2>1, <2>2, <2>3
  <2>4. CASE queue' = Append(queue, LostEntry(Name(d), d))
    BY <1>3, <2>1, <2>2, <2>4
  <2>5. CASE queue' = Append(queue, MessageEntry(Name(d), d, Head(wire[d])))
    <3>1. Head(wire[d]) \in Nat
      BY <2>1, HeadTailProperties DEF TypeOK
    <3>2. MessageEntry(Name(d), d, Head(wire[d])) \in Entries
          /\ MessageEntry(Name(d), d, Head(wire[d])).conn # c
      BY <1>8, <2>1, <3>1, EntriesType DEF MessageEntry
    <3>3. Quiet(c)
      BY <2>1, <2>2, <2>5, <3>2, LostIsQuiet
    <3> QED
      BY <3>3
  <2> HIDE DEF Goal
  <2> QED
    BY <1>8, <2>3, <2>4, <2>5 DEF WsMessage, OnClose
<1>9. ASSUME NEW d \in WebSockets, WsClose(d), d # c
      PROVE  Goal
  <2>1. sent' = sent /\ wire' = [wire EXCEPT ![d] = <<>>]
        /\ OnClose(d)
        /\ d \in Conns /\ Name(d) \in Names
    BY <1>9, NamesApart, OwnApart DEF WsClose
  <2>2. wire'[c] = wire[c] /\ sent'[c] = sent[c]
    BY <1>9, <2>1 DEF TypeOK
  <2>3. queue' = queue \/ queue' = Append(queue, LostEntry(Name(d), d))
    BY <2>1, OnCloseKeeps
  <2> HIDE DEF Goal
  <2> QED
    BY <1>2, <1>3, <2>1, <2>2, <2>3
<1>10. ASSUME NEW d \in WebSockets, WsOpened(d)
       PROVE  Goal
  BY <1>2, <1>10 DEF WsOpened, worldVars
<1>11. CASE CloseRemove
  BY <1>2, <1>11 DEF CloseRemove, worldVars
<1>12. CASE CloseTell
  <2>1. closing.name \in Names /\ closing.conn \in Conns
    BY <1>12 DEF CloseTell, NotClosing, TypeOK
  <2>2. queue' = queue \/ queue' = Append(queue, LostEntry(closing.name, closing.conn))
    BY <1>12 DEF CloseTell
  <2>3. UNCHANGED <<sent, wire>>
    BY <1>12 DEF CloseTell, worldVars
  <2> HIDE DEF Goal
  <2>4. Goal
    BY <1>2, <1>3, <2>1, <2>2, <2>3
  <2> QED
    BY <2>4
<1>13. ASSUME NEW k \in kicks, KickSocket(k)
       PROVE  Goal
  <2>1. k[1] \in Names /\ k[2] \in Conns
    BY NamesApart DEF TypeOK
  <2>2. queue' = Append(queue, LostEntry(k[1], k[2])) /\ UNCHANGED <<sent, wire>>
    BY <1>13 DEF KickSocket, worldVars
  <2> HIDE DEF Goal
  <2> QED
    BY <1>3, <2>1, <2>2
<1>14. ASSUME NEW a \in Conns, EndAgent(a)
       PROVE  Goal
  BY <1>2, <1>14 DEF EndAgent, worldVars
<1>15. CASE UNCHANGED vars
  BY <1>2, <1>15 DEF vars, worldVars
<1>16. ASSUME NEW d \in Sockets, Read(d) \/ ReadEnd(d)
       PROVE  Goal
  BY <1>6, <1>7, <1>16
<1>17. ASSUME NEW d \in WebSockets, WsOpened(d) \/ WsMessage(d) \/ WsClose(d)
       PROVE  Goal
  BY <1>8, <1>9, <1>10, <1>17
<1>18. CASE Begun
  BY <1>1, <1>18 DEF Begun
<1>19. CASE Dials
  BY <1>2, <1>19 DEF Dials
<1>21. CASE ExecuteLua
  BY <1>21
<1> HIDE DEF Goal
<1> QED
  BY <1>4, <1>5, <1>11, <1>12, <1>13, <1>14, <1>15, <1>16, <1>17, <1>18, <1>19, <1>21,
     NextCases DEF PeerNext, Kicking

LEMMA AwaitsExtends ==
    ASSUME NEW k \in Nat, NEW n \in Nat, k <= n, NEW c \in Conns, NEW x, Awaits(k, c, x)',
           \A i \in (k + 1)..n : ~IsMessageOf(i, c)'
    PROVE  Awaits(n, c, x)'
<1>1. \A i \in 1..k : i \in 1..n
  OBVIOUS
<1>2. \A i \in 1..n : i \in 1..k \/ i \in (k + 1)..n
  OBVIOUS
<1>3. CASE Dead(k, c)'
  BY <1>1, <1>3 DEF Awaits, Dead
<1>4. CASE handled'[c] + 1 = x /\ \A i \in 1..k : ~IsMessageOf(i, c)'
  BY <1>2, <1>4 DEF Awaits
<1>5. ASSUME NEW i \in 1..k, IsMessageOf(i, c)', queue'[i].n + 1 = x,
             \A j \in (i + 1)..k : ~IsMessageOf(j, c)'
      PROVE  Awaits(n, c, x)'
  <2>1. \A j \in (i + 1)..n : j \in (i + 1)..k \/ j \in (k + 1)..n
    BY <1>5
  <2>2. \A j \in (i + 1)..n : ~IsMessageOf(j, c)'
    BY <1>5, <2>1
  <2> QED
    BY <1>1, <1>5, <2>2 DEF Awaits
<1> QED
  BY <1>3, <1>4, <1>5 DEF Awaits

LEMMA NextReadNat ==
    ASSUME TypeOK, WireInv, NEW c \in Conns
    PROVE  NextRead(c) \in Nat /\ Len(wire[c]) \in Nat /\ sent[c] \in Nat
<1>1. Len(wire[c]) \in Nat /\ sent[c] \in Nat /\ Len(wire[c]) <= sent[c]
  BY LenProperties DEF TypeOK, WireInv
<1> QED
  BY <1>1 DEF NextRead

\* What is read now is what is awaited behind all that is in the queue.
LEMMA AwaitsRead ==
    ASSUME TypeOK, AgentInv, NewsInv, CountInv, [Next]_vars, Grows, handled' = handled,
           NEW c \in Own, Heard(c), NEW k \in Nat, k = Len(queue),
           NEW x \in Nat, x = NextRead(c)
    PROVE  Awaits(k, c, x)'
<1>1. k \in 0..Len(queue) /\ Due(k, c, x)
  BY DEF Due
<1>2. Awaits(k, c, x)
  BY <1>1 DEF CountInv
<1> QED
  BY <1>1, <1>2, AwaitsGrows

LEMMA CountQuiet ==
    ASSUME TypeOK, AgentInv, NewsInv, CountInv, [Next]_vars, Grows, handled' = handled,
           queue' \in Seq(Entries), NEW c \in Own, Quiet(c),
           NEW n \in Len(queue)..Len(queue'), NEW x \in Nat, Due(n, c, x)'
    PROVE  Awaits(n, c, x)'
<1>1. Len(queue) \in Nat /\ Len(queue') \in Nat
  BY LenProperties DEF TypeOK
<1>2. \A i \in (Len(queue) + 1)..n : ~IsMessageOf(i, c)'
  BY <1>1 DEF Quiet, Added
<1>3. ASSUME n + 1 \in 1..Len(queue')
      PROVE  ~IsMessageOf(n + 1, c)'
  BY <1>1, <1>3 DEF Quiet, Added
<1>4. Heard(c) /\ x = NextRead(c)
  BY <1>3 DEF Due, Places, Quiet
<1>5. PICK k \in Nat : k = Len(queue)
  BY <1>1
<1>6. Awaits(k, c, x)'
  BY <1>4, <1>5, AwaitsRead
<1> QED
  BY <1>1, <1>2, <1>5, <1>6, AwaitsExtends, OwnApart

LEMMA CountBegins ==
    ASSUME TypeOK, NewsInv, NEW u \in Names, NEW c \in Conns, Begins(u, c),
           NEW n \in Len(queue)..Len(queue'), NEW x \in Nat, Due(n, c, x)'
    PROVE  Awaits(n, c, x)'
<1>1. /\ Unborn(c) /\ Grows /\ Len(queue) \in Nat /\ Len(queue') = Len(queue) + 1
      /\ queue'[Len(queue) + 1] = NewEntry(u, c)
  BY BeginsFresh
<1>2. ASSUME NEW i \in 1..Len(queue')
      PROVE  ~IsMessageOf(i, c)'
  <2>1. CASE i \in Places
    BY <1>1, <2>1 DEF IsMessageOf, Unborn, Grows
  <2>2. CASE i \notin Places
    <3>1. i = Len(queue) + 1
      BY <1>1, <2>2 DEF Places
    <3> QED
      BY <1>1, <3>1 DEF IsMessageOf, NewEntry
  <2> QED
    BY <2>1, <2>2
<1>3. x = NextRead(c)'
  BY <1>2 DEF Due, Places
<1>4. sent'[c] = sent[c] /\ wire'[c] = wire[c] /\ handled'[c] = 0
      /\ Len(wire[c]) = sent[c] /\ sent[c] \in Nat
  BY <1>1 DEF Begins, ScriptSame, Unborn, Blank, TypeOK
<1>5. x = 1
  BY <1>3, <1>4 DEF NextRead
<1>6. \A i \in 1..n : i \in 1..Len(queue')
  BY <1>1
<1> QED
  BY <1>2, <1>4, <1>5, <1>6 DEF Awaits

\* Of m messages in a row behind k entries each is awaited when it comes, and
\* after them the next.
LEMMA AwaitsInARow ==
    ASSUME NEW k \in Nat, NEW m \in Nat, NEW c \in Conns, NEW y \in Nat, Awaits(k, c, y)',
           \A j \in 1..m : IsMessageOf(k + j, c)' /\ queue'[k + j].n + 1 = y + j,
           NEW j \in 0..m
    PROVE  Awaits(k + j, c, y + j)'
<1>1. CASE j = 0
  <2>1. k + j = k /\ y + j = y
    BY <1>1
  <2> QED
    BY <2>1
<1>2. CASE j # 0
  <2>1. j \in 1..m /\ k + j \in 1..(k + j) /\ ((k + j) + 1)..(k + j) = {}
    BY <1>2
  <2> QED
    BY <2>1 DEF Awaits
<1> QED
  BY <1>1, <1>2

LEMMA DropDeafens ==
    ASSUME TypeOK, EngineInv, EngineInv', OneNameInv, NEW c \in Sockets, Polled(c), Drop(c)
    PROVE  ~Heard(c)'
<1>1. SUFFICES ASSUME NEW u \in Names, Known(u, c)'
               PROVE  FALSE
  BY DEF Heard
<1>2. ids'[u] = c /\ c # None
  BY <1>1, NamesApart DEF Known
<1>3. u # fd[c] /\ ids[u] = c /\ ids[fd[c]] = c /\ fd[c] \in Names
  BY <1>2, DropKeeps, NamesApart DEF Polled
<1> QED
  BY <1>2, <1>3 DEF OneNameInv

LEMMA CountRead ==
    ASSUME TypeOK, EngineInv, EngineInv', AgentInv, NewsInv, OneNameInv, WireInv, CountInv,
           [Next]_vars, NEW c \in Sockets, Read(c), handled' = handled,
           NEW n \in Len(queue)..Len(queue'), NEW x \in Nat, Due(n, c, x)'
    PROVE  Awaits(n, c, x)'
<1>1. c \in Conns /\ c \in Own /\ Polled(c) /\ fd[c] \in Names
      /\ wire' = [wire EXCEPT ![c] = <<>>] /\ sent' = sent
  BY NamesApart, OwnApart DEF Read, Polled, TypeOK
<1>2. Heard(c)
  BY <1>1 DEF Heard, Known, Polled, EngineInv
<1>3. PICK m \in 0..Len(wire[c]) :
        /\ \A k \in 1..m : wire[c][k] \in Nat \ {0}
        /\ Grows /\ Len(queue') = Len(queue) + m
        /\ \A k \in 1..m : queue'[Len(queue) + k] = MessageEntry(fd[c], c, wire[c][k])
        /\ m # Len(wire[c]) => Drop(c)
  BY ReadGrows
<1>4. PICK s \in Nat, l \in Nat : s = sent[c] /\ l = Len(wire[c]) /\ l <= s
  BY <1>1, NextReadNat DEF WireInv
<1>5. PICK k \in Nat : k = Len(queue)
  BY LenProperties DEF TypeOK
<1>6. PICK y \in Nat : y = s - l + 1
  BY <1>4
<1>7. y = NextRead(c)
  BY <1>4, <1>6 DEF NextRead
<1>8. Awaits(k, c, y)'
  BY <1>1, <1>2, <1>3, <1>5, <1>7, AwaitsRead
<1>9. m \in Nat /\ m <= l
  BY <1>3, <1>4
<1>10. ASSUME NEW j \in 1..m
       PROVE  IsMessageOf(k + j, c)' /\ queue'[k + j].n + 1 = y + j
  <2>1. wire[c][j] \in {0, s - l + j} /\ wire[c][j] # 0
    BY SMTT(30), <1>1, <1>3, <1>4, <1>9 DEF WireInv
  <2>2. queue'[k + j] = MessageEntry(fd[c], c, s - l + j)
    BY <1>3, <1>5, <2>1
  <2>3. queue'[k + j].n = s - l + j /\ queue'[k + j].type = "message" /\ queue'[k + j].conn = c
    BY <2>2 DEF MessageEntry
  <2>4. (s - l + j) + 1 = y + j
    BY SMTT(30), <1>6, <1>4
  <2> QED
    BY <2>3, <2>4 DEF IsMessageOf
<1>11. PICK j \in 0..m : n = k + j
  <2>1. n - k \in 0..m /\ n = k + (n - k)
    BY <1>3, <1>5, <1>9
  <2> QED
    BY <2>1
<1>12. x = y + j
  <2>1. CASE j # m
    <3>1. j + 1 \in 1..m /\ n + 1 = k + (j + 1) /\ n # Len(queue')
      BY <1>3, <1>5, <1>9, <1>11, <2>1
    <3>2. queue'[n + 1].n = x
      BY <3>1 DEF Due
    <3>3. queue'[n + 1].n + 1 = y + (j + 1)
      BY <1>10, <3>1
    <3>4. queue'[n + 1].n \in Nat
      BY <3>2
    <3> QED
      BY <1>9, <3>2, <3>3, <3>4
  <2>2. CASE j = m
    <3>1. n = Len(queue') /\ n + 1 \notin 1..Len(queue')
      BY <1>3, <1>5, <1>9, <1>11, <2>2
    <3>2. Heard(c)' /\ x = NextRead(c)'
      BY <3>1 DEF Due, Places
    <3>3. m = l
      BY <1>1, <1>3, <1>4, <3>2, DropDeafens
    <3>4. wire'[c] = <<>> /\ Len(<<>>) = 0
      BY <1>1, EmptySeq DEF TypeOK
    <3>5. x = s - 0 + 1
      BY <1>1, <1>4, <3>2, <3>4 DEF NextRead
    <3> QED
      BY SMTT(30), <1>4, <1>6, <2>2, <3>3, <3>5
  <2> QED
    BY <2>1, <2>2
<1>13. Awaits(k + j, c, y + j)'
  BY <1>1, <1>8, <1>9, <1>10, AwaitsInARow
<1> QED
  BY <1>11, <1>12, <1>13

LEMMA CountWsMessage ==
    ASSUME TypeOK, EngineInv, AgentInv, NewsInv, WireInv, MuteInv, CountInv,
           [Next]_vars, Grows, queue' \in Seq(Entries), NEW c \in WebSockets \cap Own,
           WsMessage(c), handled' = handled,
           NEW n \in Len(queue)..Len(queue'), NEW x \in Nat, Due(n, c, x)'
    PROVE  Awaits(n, c, x)'
<1> DEFINE u == Name(c)
<1>1. /\ c \in Conns /\ u \in Names /\ ws[c] = "open" /\ wire[c] # <<>> /\ wire[c] \in Seq(Nat)
      /\ wire' = [wire EXCEPT ![c] = Tail(@)] /\ sent' = sent
  BY NamesApart, OwnApart DEF WsMessage, TypeOK
<1>2. Heard(c)
  BY <1>1 DEF Heard, Known
<1>3. PICK s \in Nat, l \in Nat : s = sent[c] /\ l = Len(wire[c]) /\ l <= s /\ l # 0
  BY <1>1, NextReadNat, EmptySeq DEF WireInv
<1>4. PICK k \in Nat : k = Len(queue)
  BY LenProperties DEF TypeOK
<1>5. PICK y \in Nat : y = s - l + 1
  BY <1>3
<1>6. y = NextRead(c)
  BY <1>3, <1>5 DEF NextRead
<1>7. Awaits(k, c, y)'
  BY <1>1, <1>2, <1>4, <1>6, AwaitsRead
<1>8. PICK h \in Nat : h = Head(wire[c]) /\ h \in {0, y}
  <2>1. 1 \in 1..Len(wire[c]) /\ Head(wire[c]) = wire[c][1] /\ Head(wire[c]) \in Nat
    BY <1>1, <1>3, HeadTailProperties
  <2>2. wire[c][1] \in {0, s - l + 1}
    BY <1>1, <1>3, <2>1 DEF WireInv
  <2> QED
    BY <1>5, <2>1, <2>2
<1>9. CASE h # 0
  <2>1. queue' = Append(queue, MessageEntry(u, c, y))
    BY <1>8, <1>9 DEF WsMessage
  <2>2. queue'[k + 1] = MessageEntry(u, c, y) /\ Len(queue') = k + 1
    BY <1>1, <1>4, <2>1, EntriesType, AppendGrows DEF TypeOK
  <2>3. IsMessageOf(k + 1, c)' /\ queue'[k + 1].n = y
    BY <2>2 DEF IsMessageOf, MessageEntry
  <2>4. Awaits(k + 1, c, y + 1)'
    <3>1. k + 1 \in 1..(k + 1) /\ ((k + 1) + 1)..(k + 1) = {}
      OBVIOUS
    <3> QED
      BY <2>3, <3>1 DEF Awaits
  <2>5. CASE n = k
    <3>1. n # Len(queue')
      BY <2>2, <2>5
    <3>2. x = y
      BY <2>3, <2>5, <3>1 DEF Due
    <3> QED
      BY <1>7, <2>5, <3>2
  <2>6. CASE n = k + 1
    <3>1. n + 1 \notin 1..Len(queue')
      BY <2>2, <2>6
    <3>2. x = NextRead(c)'
      BY <3>1 DEF Due, Places
    <3>3. wire'[c] = Tail(wire[c]) /\ Len(Tail(wire[c])) = l - 1
      BY <1>1, <1>3, HeadTailProperties DEF TypeOK
    <3>4. x = s - (l - 1) + 1
      BY <1>1, <1>3, <3>2, <3>3 DEF NextRead
    <3>5. x = y + 1
      BY SMTT(30), <1>3, <1>5, <3>4
    <3> QED
      BY <2>4, <2>6, <3>5
  <2> QED
    BY <1>4, <2>2, <2>5, <2>6
<1>10. CASE h = 0
  <2>1. \/ queue' = Append(queue, LostEntry(u, c))
        \/ OnClose(c)
    BY <1>8, <1>10 DEF WsMessage
  <2>2. CASE queue' = Append(queue, LostEntry(u, c))
    <3>1. queue'[k + 1] = LostEntry(u, c) /\ Len(queue') = k + 1
      BY <1>1, <1>4, <2>2, EntriesType, AppendGrows DEF TypeOK
    <3>2. n = k + 1
      <4>1. n = k => n + 1 \in Places' /\ ~IsMessageOf(n + 1, c)' /\ n # Len(queue')
        BY <3>1 DEF Places, IsMessageOf, LostEntry
      <4>2. n \in {k, k + 1}
        BY <1>4, <3>1
      <4> QED
        BY <4>1, <4>2 DEF Due
    <3>3. HungUpAt(k + 1, c)' /\ k + 1 \in 1..n
      BY <3>1, <3>2 DEF HungUpAt, LostEntry
    <3> QED
      BY <3>3 DEF Awaits, Dead
  <2>3. CASE OnClose(c) /\ queue' # Append(queue, LostEntry(u, c))
    <3>1. queue' = queue /\ (senders[u] = None \/ ids[u] = None)
      BY <2>3, OnCloseKeeps
    <3>2. ids[u] = None
      BY <1>1, <3>1 DEF EngineInv
    <3>3. Dead(k, c)
      BY <1>1, <1>4, <3>2 DEF MuteInv
    <3>4. Dead(k, c)'
      BY <1>1, <1>4, <3>3, DeadGrows
    <3>5. n = k
      BY <1>4, <3>1
    <3> QED
      BY <3>4, <3>5 DEF Awaits
  <2> QED
    BY <2>1, <2>2, <2>3
<1> QED
  BY <1>8, <1>9, <1>10

\* What has ended for the engine has nothing to come but what is in the queue.
LEMMA CountEnded ==
    ASSUME TypeOK, EngineInv, EngineInv', OneNameInv, NEW c \in Own,
           \/ c \in Sockets /\ ReadEnd(c)
           \/ c \in WebSockets /\ WsClose(c),
           NEW n \in Len(queue)..Len(queue'), NEW x \in Nat
    PROVE  ~Due(n, c, x)'
<1>1. ~Heard(c)'
  <2>1. CASE c \in Sockets /\ ReadEnd(c)
    BY <2>1, DropDeafens DEF ReadEnd
  <2>2. CASE c \in WebSockets /\ WsClose(c)
    <3>1. ws'[c] = "ended" /\ ws[c] = "open" /\ OnClose(c)
      BY <2>2 DEF WsClose, TypeOK
    <3>2. ids'[Name(c)] = None
      BY <2>2, <3>1, OnCloseKeeps DEF EngineInv
    <3>3. ASSUME NEW u \in Names, ids'[u] = c
          PROVE  FALSE
      BY <2>2, <3>2, <3>3, NamesApart, OwnApart DEF EngineInv, Fit
    <3> QED
      BY <3>1, <3>3 DEF Heard, Known
  <2> QED
    BY <2>1, <2>2
<1>0. c \in Conns
  BY OwnApart
<1>2. PICK u \in Names : queue' = queue \/ queue' = Append(queue, LostEntry(u, c))
  <2>1. CASE c \in Sockets /\ ReadEnd(c)
    BY <2>1, NamesApart DEF ReadEnd, Polled, TypeOK
  <2>2. CASE c \in WebSockets /\ WsClose(c)
    BY <2>2, OnCloseKeeps, OwnApart DEF WsClose
  <2> QED
    BY <2>1, <2>2
<1>3. Len(queue) \in Nat
  BY LenProperties DEF TypeOK
<1>4. CASE queue' = queue
  <2>1. n + 1 \notin 1..Len(queue')
    BY <1>3, <1>4
  <2> QED
    BY <1>1, <2>1 DEF Due, Places
<1>5. CASE queue' = Append(queue, LostEntry(u, c))
  <2>1. queue'[Len(queue) + 1] = LostEntry(u, c) /\ Len(queue') = Len(queue) + 1
    BY <1>0, <1>5, EntriesType, AppendGrows DEF TypeOK
  <2>2. n + 1 \in 1..Len(queue') => n + 1 = Len(queue) + 1
    BY <1>3, <2>1
  <2>3. n + 1 \in 1..Len(queue') => ~IsMessageOf(n + 1, c)'
    BY <2>1, <2>2 DEF IsMessageOf, LostEntry
  <2> QED
    BY <1>1, <2>3 DEF Due, Places
<1> QED
  BY <1>2, <1>4, <1>5

LEMMA HandledSame ==
    ASSUME [Next]_vars, ~ExecuteLua
    PROVE  handled' = handled
  BY StepKinds, EndAgentEnds DEF ScriptSame, Ends

LEMMA CountStep ==
    ASSUME TypeOK, EngineInv, EngineInv', AgentInv, EntryInv, ClosingInv, NewsInv, OneNameInv,
           LeadInv, WireInv, MuteInv, CountInv, [Next]_vars
    PROVE  CountInv'
<1>1. SUFFICES ASSUME NEW n \in 0..Len(queue'), NEW c \in Own, NEW x \in Nat, Due(n, c, x)'
               PROVE  Awaits(n, c, x)'
  BY DEF CountInv
<1>4. c \in Conns
  BY OwnApart
<1>2. CASE ExecuteLua
  <2>1. queue' \in Seq(Entries) /\ Shrinks /\ UNCHANGED <<ids, ws, sent, wire>>
    BY <1>2, HeadCases, TailShrinks DEF engineVars, worldVars
  <2>2. Len(queue') \in Nat /\ Len(queue) = Len(queue') + 1
    BY <2>1, LenProperties DEF Shrinks
  <2>3. Due(n + 1, c, x)
    <3>1. CASE n + 1 \in 1..Len(queue') /\ IsMessageOf(n + 1, c)' /\ queue'[n + 1].n = x
      <4>1. queue'[n + 1] = queue[(n + 1) + 1] /\ (n + 1) + 1 \in Places
        BY <2>1, <2>2, <3>1 DEF Shrinks, Places
      <4> QED
        BY <3>1, <4>1 DEF Due, IsMessageOf
    <3>2. CASE n = Len(queue') /\ Heard(c)' /\ x = NextRead(c)'
      BY <2>1, <2>2, <3>2 DEF Due, Heard, Known, NextRead
    <3> QED
      BY <1>1, <3>1, <3>2 DEF Due, Places
  <2>4. n + 1 \in 0..Len(queue)
    BY <2>2
  <2> QED
    BY <1>2, <2>3, <2>4, AwaitsHead DEF CountInv
<1>3. CASE ~ExecuteLua
  <2>1. Grows /\ queue' \in Seq(Entries) /\ handled' = handled
    BY <1>3, QueueKinds, HandledSame DEF QueueGrows
  <2>2. Len(queue) \in Nat /\ Len(queue') \in Nat /\ Len(queue) <= Len(queue')
    BY <2>1, LenProperties DEF TypeOK, Grows
  <2>3. CASE n + 1 \in Places
    <3>1. queue'[n + 1] = queue[n + 1] /\ n # Len(queue') /\ n \in 0..Len(queue)
      BY <2>1, <2>2, <2>3 DEF Grows, Places
    <3>2. Due(n, c, x)
      BY <2>3, <3>1, <1>1 DEF Due, IsMessageOf
    <3> QED
      BY <2>1, <3>1, <3>2, AwaitsGrows DEF CountInv
  <2>4. CASE n + 1 \notin Places
    <3>1. n \in Len(queue)..Len(queue')
      BY <2>2, <2>4 DEF Places
    <3>2. CASE Quiet(c)
      BY <1>1, <2>1, <3>1, <3>2, CountQuiet
    <3>3. ASSUME NEW u \in Names, Begins(u, c)
          PROVE  Awaits(n, c, x)'
      BY <1>1, <1>4, <3>1, <3>3, CountBegins
    <3>4. CASE c \in Sockets /\ Read(c)
      BY <1>1, <2>1, <3>1, <3>4, CountRead
    <3>5. CASE c \in WebSockets /\ WsMessage(c)
      BY <1>1, <2>1, <3>1, <3>5, CountWsMessage
    <3>6. CASE (c \in Sockets /\ ReadEnd(c)) \/ (c \in WebSockets /\ WsClose(c))
      BY <1>1, <3>1, <3>6, CountEnded
    <3> QED
      BY <1>3, <1>4, <3>2, <3>3, <3>4, <3>5, <3>6, QuietKinds
  <2> QED
    BY <2>3, <2>4
<1> QED
  BY <1>2, <1>3

-----------------------------------------------------------------------------
(***************************************************************************)
(* The two tables follow each other.                                       *)
(***************************************************************************)
LEMMA LostClears ==
    ASSUME TypeOK, NEW u \in Names, NEW d \in Conns, queue' = Append(queue, LostEntry(u, d))
    PROVE  Clears(u)'
<1>1. Len(queue) \in Nat
  BY LenProperties DEF TypeOK
<1>2. /\ queue'[Len(queue) + 1] = LostEntry(u, d) /\ Len(queue') = Len(queue) + 1
      /\ Len(queue) + 1 \in 1..Len(queue')
  BY <1>1, EntriesType, AppendGrows DEF TypeOK
<1>3. PICK i \in Places' : i = Len(queue')
  BY <1>1, <1>2 DEF Places
<1>4. queue'[i].type = "lost" /\ queue'[i].name = u
  BY <1>2, <1>3 DEF LostEntry
<1>5. LostAt(i, u)'
  BY <1>4 DEF LostAt
<1>6. ASSUME NEW j \in Places', queue'[j].type = "new"
      PROVE  j < i
  BY <1>1, <1>2, <1>3, <1>4, <1>6 DEF Places
<1> QED
  BY <1>5, <1>6 DEF Clears

LEMMA ClearsGrows ==
    ASSUME TypeOK, Grows, queue' \in Seq(Entries), NEW u \in Names, agents'[u] \in {agents[u], None},
           \A i \in Added : ~(queue'[i].type = "new" /\ queue'[i].name = u),
           Clears(u)
    PROVE  Clears(u)'
<1>1. Len(queue) \in Nat /\ Len(queue') \in Nat
  BY LenProperties DEF TypeOK
<1>2. \A i \in Places : i \in Places' /\ queue'[i] = queue[i]
  BY <1>1 DEF Grows, Places
<1>3. \A i \in Places : LostAt(i, u) => LostAt(i, u)'
  BY <1>2 DEF LostAt
<1>4. \A j \in Places' : j \in Places \/ j \in Added
  BY <1>1 DEF Places, Added
<1>5. ASSUME NEW j \in Places', queue'[j].type = "new", queue'[j].name = u
      PROVE  \E i \in Places' : j < i /\ LostAt(i, u)'
  <2>1. j \in Places /\ queue[j].type = "new" /\ queue[j].name = u
    BY <1>2, <1>4, <1>5
  <2>2. PICK i \in Places : j < i /\ LostAt(i, u)
    BY <2>1 DEF Clears
  <2> QED
    BY <1>2, <1>3, <2>2
<1>6. agents'[u] = None \/ \E i \in Places' : LostAt(i, u)'
  BY <1>2, <1>3 DEF Clears
<1> QED
  BY <1>5, <1>6 DEF Clears

\* What the head of the queue does to port u.
LEMMA HeadAgents ==
    ASSUME TypeOK, AgentInv, ExecuteLua, NEW u \in Names
    PROVE  \/ agents'[u] = agents[u] /\ ~LostAt(1, u)
           \/ /\ agents'[u] = None
              /\ ids[u] # None /\ agents[u] # None => closing'.at = "remove" /\ closing'.name = u
           \/ NewAt(1, u, agents'[u]) /\ agents'[u] \in Conns
<1>1. 1 \in Places /\ queue[1].name \in Names /\ queue[1].conn \in Conns
      /\ queue[1].type \in {"new", "message", "lost"}
  BY HeadCases, TailShrinks, EntryType
<1>2. CASE HeadMakes
  BY <1>1, <1>2 DEF HeadMakes, NewAt, LostAt, TypeOK
<1>3. CASE agents[queue[1].name] # None /\ Ends(agents[queue[1].name])
  <2>1. PICK v \in Names, a \in Conns : v = queue[1].name /\ a = agents[v] /\ port[a] = v
    BY <1>1, <1>3, NamesApart DEF TypeOK, AgentInv
  <2>2. Ends(a) /\ port[a] # None
    BY <1>3, <2>1, NamesApart
  <2>3. agents' = [agents EXCEPT ![v] = None] /\ CloseFd(v)
    BY <2>1, <2>2 DEF Ends
  <2>4. CASE u = v
    BY <2>3, <2>4 DEF CloseFd, TypeOK
  <2>5. CASE u # v
    BY <2>1, <2>3, <2>5 DEF LostAt, TypeOK
  <2> QED
    BY <2>4, <2>5
<1>4. CASE queue[1].type = "message" /\ agents' = agents
  BY <1>4 DEF LostAt
<1>5. CASE queue[1].type = "lost" /\ agents[queue[1].name] = None /\ agents' = agents
  BY <1>5 DEF LostAt
<1> QED
  BY <1>2, <1>3, <1>4, <1>5, HeadCases DEF HeadMakes, ScriptSame

LEMMA ClearsHead ==
    ASSUME TypeOK, AgentInv, ExecuteLua, NEW u \in Names, Clears(u)
    PROVE  Clears(u)'
<1>1. queue' \in Seq(Entries) /\ Shrinks /\ 1 \in Places
  BY HeadCases, TailShrinks
<1>2. Len(queue') \in Nat /\ Len(queue) = Len(queue') + 1
  BY <1>1, LenProperties DEF Shrinks
<1>3. \A j \in Places' : j + 1 \in Places /\ queue'[j] = queue[j + 1]
  BY <1>1, <1>2 DEF Shrinks, Places
<1>4. \A i \in Places : i # 1 => i - 1 \in Places' /\ (i - 1) + 1 = i
  BY <1>2 DEF Places
<1>5. ASSUME NEW i \in Places, i # 1, LostAt(i, u)
      PROVE  i - 1 \in Places' /\ LostAt(i - 1, u)'
  <2>1. i - 1 \in Places' /\ queue'[i - 1] = queue[i]
    BY <1>3, <1>4, <1>5
  <2> QED
    BY <1>5, <2>1 DEF LostAt
<1>6. ASSUME NEW j \in Places', queue'[j].type = "new", queue'[j].name = u
      PROVE  \E i \in Places' : j < i /\ LostAt(i, u)'
  <2>1. PICK i \in Places : j + 1 < i /\ LostAt(i, u)
    BY <1>3, <1>6 DEF Clears
  <2>2. i # 1 /\ j < i - 1
    BY <1>2, <2>1 DEF Places
  <2> QED
    BY <1>5, <2>1, <2>2
<1>7. agents'[u] = None \/ \E i \in Places' : LostAt(i, u)'
  <2>1. CASE agents'[u] = agents[u] /\ ~LostAt(1, u)
    BY <1>5, <2>1 DEF Clears
  <2>2. CASE NewAt(1, u, agents'[u])
    <3>1. PICK i \in Places : 1 < i /\ LostAt(i, u)
      BY <1>1, <2>2 DEF Clears, NewAt
    <3> QED
      BY <1>5, <3>1
  <2> QED
    BY <2>1, <2>2, HeadAgents
<1> QED
  BY <1>6, <1>7 DEF Clears

\* A name that loses its connection is told to the script, or will be.
LEMMA IdsKinds ==
    ASSUME TypeOK, EngineInv, NewsInv, [Next]_vars, NEW u \in Names
    PROVE  \/ ids'[u] = ids[u]
           \/ \E c \in Conns : ids'[u] = c /\ Begins(u, c)
           \/ ids'[u] = None /\ \E k \in kicks' : k[1] = u
           \/ ids'[u] = None /\ \E d \in Conns : queue' = Append(queue, LostEntry(u, d))
           \/ ids'[u] = None /\ CloseRemove /\ closing.name = u
<1> DEFINE Goal == \/ ids'[u] = ids[u]
                   \/ \E c \in Conns : ids'[u] = c /\ Begins(u, c)
                   \/ ids'[u] = None /\ \E k \in kicks' : k[1] = u
                   \/ ids'[u] = None /\ \E d \in Conns : queue' = Append(queue, LostEntry(u, d))
                   \/ ids'[u] = None /\ CloseRemove /\ closing.name = u
<1> SUFFICES Goal
  OBVIOUS
<1>1. ASSUME ids'[u] = ids[u]
      PROVE  Goal
  BY <1>1
<1>2. ASSUME NEW v \in Names, NEW c \in Conns, Begins(v, c)
      PROVE  Goal
  <2>1. ids'[u] = IF u = v THEN c ELSE ids[u]
    BY <1>2 DEF Begins, TypeOK
  <2> QED
    BY <1>2, <2>1
<1>3. ASSUME NEW d \in Sockets, Read(d)
      PROVE  Goal
  <2>1. fd[d] # None /\ d \notin dialling /\ d \in Conns
    BY <1>3, NamesApart DEF Read, Polled
  <2>2. CASE ids' = ids
    BY <2>2
  <2>3. CASE Drop(d) /\ kicks' = kicks \cup {<<fd[d], d>>}
    <3>1. CASE u = fd[d]
      <4>1. ids'[u] = None
        BY <2>1, <2>3, <3>1, DropKeeps
      <4>2. <<fd[d], d>> \in kicks' /\ <<fd[d], d>>[1] = u
        BY <2>3, <3>1
      <4> QED
        BY <4>1, <4>2
    <3>2. CASE u # fd[d]
      BY <2>1, <2>3, <3>2, DropKeeps
    <3> QED
      BY <3>1, <3>2
  <2> HIDE DEF Goal
  <2> QED
    BY <1>3, <2>2, <2>3, ReadGrows
<1>4. ASSUME NEW d \in Sockets, ReadEnd(d)
      PROVE  Goal
  <2>1. fd[d] # None /\ d \notin dialling /\ d \in Conns
        /\ Drop(d) /\ queue' = Append(queue, LostEntry(fd[d], d))
    BY <1>4, NamesApart DEF ReadEnd, Polled
  <2>2. CASE u = fd[d]
    BY <2>1, <2>2, DropKeeps
  <2>3. CASE u # fd[d]
    BY <2>1, <2>3, DropKeeps
  <2> QED
    BY <2>2, <2>3
<1>5. ASSUME NEW d \in WebSockets, OnClose(d)
      PROVE  Goal
  <2>1. CASE u # Name(d)
    BY <1>5, <2>1, OnCloseKeeps
  <2>2. CASE u = Name(d)
    <3>1. CASE senders[u] # None /\ ids[u] # None
      BY <1>5, <2>2, <3>1, OnCloseKeeps, NamesApart
    <3>2. CASE senders[u] = None \/ ids[u] = None
      BY <1>5, <2>2, <3>2, OnCloseKeeps
    <3> QED
      BY <3>1, <3>2
  <2> QED
    BY <2>1, <2>2
<1>6. CASE CloseRemove
  <2>1. ids' = [ids EXCEPT ![closing.name] = None]
    BY <1>6 DEF CloseRemove
  <2>2. ids'[u] = IF u = closing.name THEN None ELSE ids[u]
    BY <2>1 DEF TypeOK
  <2> QED
    BY <1>6, <2>2
<1>7. ASSUME ids' = ids
      PROVE  Goal
  BY <1>7
<1> HIDE DEF Goal
<1>8. ASSUME NEW d \in Sockets, Read(d) \/ ReadEnd(d)
      PROVE  Goal
  BY <1>3, <1>4, <1>8
<1>9. ASSUME NEW d \in WebSockets, WsOpened(d) \/ WsMessage(d) \/ WsClose(d)
      PROVE  Goal
  BY <1>5, <1>7, <1>9 DEF WsOpened, WsMessage, WsClose
<1>10. CASE Begun
  BY <1>2, <1>10 DEF Begun
<1>11. CASE Dials
  BY <1>7, <1>11 DEF Dials
<1>13. CASE ExecuteLua
  BY <1>7, <1>13, HeadCases DEF engineVars
<1>14. ASSUME NEW a \in Conns, EndAgent(a)
       PROVE  Goal
  BY <1>7, <1>14 DEF EndAgent, engineVars
<1>15. CASE CloseTell
  BY <1>7, <1>15 DEF CloseTell
<1>16. CASE PeerNext
  BY <1>7, <1>16 DEF PeerNext, PeerCloses, PeerSends, NewEvent
<1>17. CASE Kicking
  BY <1>7, <1>17 DEF Kicking, KickSocket
<1>18. CASE UNCHANGED vars
  BY <1>7, <1>18 DEF vars, engineVars
<1> QED
  BY <1>6, <1>8, <1>9, <1>10, <1>11, <1>13, <1>14, <1>15, <1>16, <1>17, <1>18, NextCases

LEMMA KicksStay ==
    ASSUME TypeOK, EngineInv, NewsInv, [Next]_vars, NEW k \in kicks
    PROVE  k \in kicks' \/ queue' = Append(queue, LostEntry(k[1], k[2]))
<1> DEFINE Goal == k \in kicks' \/ queue' = Append(queue, LostEntry(k[1], k[2]))
<1> SUFFICES Goal
  OBVIOUS
<1>1. ASSUME kicks \subseteq kicks'
      PROVE  Goal
  BY <1>1
<1>2. ASSUME NEW j \in kicks, KickSocket(j)
      PROVE  Goal
  BY <1>2 DEF KickSocket
<1> HIDE DEF Goal
<1>3. ASSUME NEW d \in Sockets, Read(d) \/ ReadEnd(d)
      PROVE  Goal
  BY <1>1, <1>3 DEF Read, ReadEnd
<1>4. ASSUME NEW d \in WebSockets, WsOpened(d) \/ WsMessage(d) \/ WsClose(d)
      PROVE  Goal
  BY <1>1, <1>4 DEF WsOpened, WsMessage, WsClose
<1>5. CASE Begun
  BY <1>1, <1>5 DEF Begun, Begins
<1>6. CASE Dials
  BY <1>1, <1>6 DEF Dials
<1>7. CASE ExecuteLua
  BY <1>1, <1>7, HeadCases DEF engineVars
<1>8. ASSUME NEW a \in Conns, EndAgent(a)
      PROVE  Goal
  BY <1>1, <1>8 DEF EndAgent, engineVars
<1>9. CASE CloseRemove \/ CloseTell
  BY <1>1, <1>9 DEF CloseRemove, CloseTell
<1>10. CASE PeerNext
  BY <1>1, <1>10 DEF PeerNext, PeerCloses, PeerSends, NewEvent
<1>11. CASE UNCHANGED vars
  BY <1>1, <1>11 DEF vars, engineVars
<1> QED
  BY <1>2, <1>3, <1>4, <1>5, <1>6, <1>7, <1>8, <1>9, <1>10, <1>11, NextCases DEF Kicking

\* A port that leads to an agent does so until another takes it or it is ended.
LEMMA AgentKinds ==
    ASSUME TypeOK, [Next]_vars, ~ExecuteLua, NEW u \in Names
    PROVE  \/ agents'[u] = agents[u]
           \/ /\ agents'[u] = None
              /\ ids'[u] = ids[u] /\ queue' = queue
              /\ ids[u] # None => closing'.at = "remove" /\ closing'.name = u
<1>1. ASSUME NEW a \in Conns, EndAgent(a), agents'[u] # agents[u]
      PROVE  /\ agents'[u] = None /\ ids'[u] = ids[u] /\ queue' = queue
             /\ ids[u] # None => closing'.at = "remove" /\ closing'.name = u
  <2>1. port[a] # None /\ Ends(a) /\ UNCHANGED <<engineVars, queue>>
    BY <1>1, EndAgentEnds
  <2>2. PICK v \in Names : v = port[a]
    BY <2>1 DEF TypeOK
  <2>3. agents' = [agents EXCEPT ![v] = None] /\ CloseFd(v)
    BY <2>1, <2>2 DEF Ends
  <2>4. u = v /\ agents'[u] = None
    BY <1>1, <2>3 DEF TypeOK
  <2> QED
    BY <2>1, <2>3, <2>4 DEF CloseFd, engineVars
<1>2. CASE ScriptSame
  BY <1>2 DEF ScriptSame
<1> QED
  BY <1>1, <1>2, StepKinds

\* close_fd goes on with the name it has.
LEMMA ClosingKinds ==
    ASSUME TypeOK, [Next]_vars, closing # NotClosing
    PROVE  /\ ~ExecuteLua
           /\ closing' = closing \/ CloseRemove \/ CloseTell
<1>1. ~ExecuteLua
  BY HeadCases
<1> QED
  BY <1>1, StepKinds, EndAgentEnds

LEMMA FollowsLost ==
    ASSUME TypeOK, EngineInv, AgentInv, ClosingInv, NewsInv, [Next]_vars, NEW u \in Names,
           ids[u] = None, ids'[u] = None, Follows(u)
    PROVE  Follows(u)'
<1>1. CASE Clears(u)
  <2>1. CASE ExecuteLua
    BY <1>1, <2>1, ClearsHead DEF Follows
  <2>2. CASE ~ExecuteLua
    <3>1. Grows /\ queue' \in Seq(Entries) /\ agents'[u] \in {agents[u], None}
      BY <2>2, QueueKinds, AgentKinds DEF QueueGrows
    <3>2. ASSUME NEW i \in Added, queue'[i].type = "new", queue'[i].name = u
          PROVE  FALSE
      <4>1. Begins(u, queue'[i].conn)
        BY <2>2, <3>2, QueueKinds DEF QueueGrows, Tells
      <4>2. ids'[u] = queue'[i].conn
        BY <4>1 DEF Begins, TypeOK
      <4>3. queue'[i] \in Entries
        <5>1. i \in 1..Len(queue')
          BY LenProperties DEF Added, TypeOK
        <5> QED
          BY <3>1, <5>1, ElementOfSeq
      <4> QED
        BY <4>2, <4>3, NamesApart DEF Entries
    <3> QED
      BY <1>1, <3>1, <3>2, ClearsGrows DEF Follows
  <2> QED
    BY <2>1, <2>2
<1>2. ASSUME NEW k \in kicks, k[1] = u
      PROVE  Follows(u)'
  <2>1. k[2] \in Conns
    BY NamesApart DEF TypeOK
  <2> QED
    BY <1>2, <2>1, KicksStay, LostClears DEF Follows
<1>3. CASE closing.at = "tell" /\ closing.name = u /\ u \notin WsNames
  <2>1. closing # NotClosing /\ closing.conn \in Conns
    BY <1>3 DEF NotClosing, TypeOK
  <2>2. CASE closing' = closing
    BY <1>3, <2>2 DEF Follows
  <2>3. CASE CloseTell
    <3>1. queue' = Append(queue, LostEntry(u, closing.conn))
      BY <1>3, <2>3 DEF CloseTell
    <3> QED
      BY <2>1, <3>1, LostClears DEF Follows
  <2>4. CASE CloseRemove
    BY <1>3, <2>4 DEF CloseRemove
  <2> QED
    BY <2>1, <2>2, <2>3, <2>4, ClosingKinds
<1> QED
  BY <1>1, <1>2, <1>3 DEF Follows

LEMMA FollowsKept ==
    ASSUME TypeOK, EngineInv, AgentInv, EntryInv, ClosingInv, NewsInv, LeadInv, [Next]_vars,
           NEW u \in OwnNames, NEW c \in Conns, ids[u] = c, ids'[u] = c, Follows(u)
    PROVE  Follows(u)'
<1>1. c # None /\ u \in Names /\ c \in Own
  BY NamesApart, OwnApart, OwnFit DEF EngineInv
<1>2. SUFFICES \/ agents'[u] = c
               \/ \E i \in Places' : NewAt(i, u, c)'
               \/ closing'.at = "remove" /\ closing'.name = u
  BY <1>1 DEF Follows, NewAt
<1>3. ASSUME ExecuteLua, NEW i \in Places, NewAt(i, u, c), i # 1
      PROVE  \E k \in Places' : NewAt(k, u, c)'
  <2>1. queue' \in Seq(Entries) /\ Shrinks
    BY <1>3, HeadCases, TailShrinks
  <2>2. Len(queue') \in Nat /\ Len(queue) = Len(queue') + 1
    BY <2>1, LenProperties DEF Shrinks
  <2>3. i - 1 \in 1..Len(queue') /\ (i - 1) + 1 = i
    BY <1>3, <2>2 DEF Places
  <2>4. queue'[i - 1] = queue[i]
    BY <2>1, <2>3 DEF Shrinks
  <2>5. NewAt(i - 1, u, c)'
    BY <1>3, <2>4 DEF NewAt
  <2> QED
    BY <2>3, <2>5 DEF Places
<1>4. CASE agents[u] = c /\ ExecuteLua
  <2>1. CASE NewAt(1, u, agents'[u]) /\ agents'[u] # c
    <3>1. PICK l \in 0..Len(queue) : l = Len(queue)
      BY LenProperties DEF TypeOK
    <3>2. Comes(l, u, c)
      BY <3>1 DEF Comes, Known
    <3>3. Leads(l, u, c)
      BY <1>1, <3>2 DEF LeadInv
    <3>4. 1 \in Places /\ Len(queue) \in Nat
      BY <1>4, HeadCases, TailShrinks
    <3>5. PICK i \in (1 + 1)..l : NewAt(i, u, c)
      BY <2>1, <3>1, <3>3, <3>4 DEF Leads, NewAt, Places
    <3>6. i \in Places /\ i # 1
      BY <3>1, <3>4, <3>5 DEF Places
    <3> QED
      BY <1>3, <1>4, <3>5, <3>6
  <2> QED
    BY <1>1, <1>4, <2>1, HeadAgents
<1>5. CASE agents[u] = c /\ ~ExecuteLua
  BY <1>1, <1>5, AgentKinds
<1>6. ASSUME NEW i \in Places, NewAt(i, u, c), ExecuteLua
      PROVE  agents'[u] = c \/ \E k \in Places' : NewAt(k, u, c)'
  <2>1. CASE i = 1
    BY <1>1, <1>6, <2>1, HeadCases DEF NewAt, TypeOK
  <2>2. CASE i # 1
    BY <1>3, <1>6, <2>2
  <2> QED
    BY <2>1, <2>2
<1>7. ASSUME NEW i \in Places, NewAt(i, u, c), ~ExecuteLua
      PROVE  \E k \in Places' : NewAt(k, u, c)'
  <2>1. Grows /\ queue' \in Seq(Entries) /\ Len(queue) \in Nat
    BY <1>7, QueueKinds, LenProperties DEF QueueGrows, TypeOK
  <2>2. i \in Places' /\ queue'[i] = queue[i]
    BY <2>1, LenProperties DEF Grows, Places
  <2>3. NewAt(i, u, c)'
    BY <1>7, <2>2 DEF NewAt
  <2> QED
    BY <2>2, <2>3
<1>8. ASSUME closing.at = "remove", closing.name = u
      PROVE  closing'.at = "remove" /\ closing'.name = u
  <2>1. closing # NotClosing
    BY <1>8 DEF NotClosing
  <2>2. ~CloseRemove
    BY <1>1, <1>8 DEF CloseRemove, TypeOK
  <2>3. ~CloseTell
    BY <1>8 DEF CloseTell
  <2> QED
    BY <1>8, <2>1, <2>2, <2>3, ClosingKinds
<1> QED
  BY <1>1, <1>4, <1>5, <1>6, <1>7, <1>8 DEF Follows

LEMMA EndedClears ==
    ASSUME TypeOK, AgentInv, EntryInv, NewsInv, NEW c \in WebSockets \cap Own, Ended(c)
    PROVE  Clears(Name(c))
<1> DEFINE u == Name(c)
<1>1. u \in Names /\ u \in WsNames /\ c \in Conns
  BY NamesApart, OwnApart
<1>2. agents[u] = None
  <2>1. SUFFICES ASSUME agents[u] # None
                 PROVE  FALSE
    OBVIOUS
  <2>2. PICK a \in Conns : a = agents[u] /\ port[a] = u
    BY <1>1, <2>1 DEF TypeOK, AgentInv
  <2>3. a = c
    BY <1>1, <2>2, NamesApart, FitOne DEF AgentInv
  <2> QED
    BY <1>1, <2>2, <2>3, NamesApart DEF Ended, HasAgent
<1>3. ASSUME NEW j \in Places, queue[j].type = "new", queue[j].name = u
      PROVE  FALSE
  <2>1. queue[j].conn = c
    BY <1>3, EntryType, FitOne DEF EntryInv, TypeOK
  <2> QED
    BY <1>3, <2>1 DEF NewsInv, Ended
<1> QED
  BY <1>2, <1>3 DEF Clears

LEMMA FollowsTaken ==
    ASSUME TypeOK, EngineInv, AgentInv, EntryInv, ClosingInv, NewsInv, [Next]_vars,
           NEW u \in OwnNames, ids[u] # None, ids'[u] = None
    PROVE  Follows(u)'
<1>0. u \in Names
  BY OwnApart
<1>1. ASSUME NEW c \in Conns, ids'[u] = c
      PROVE  FALSE
  BY <1>1, NamesApart
<1>2. CASE \E k \in kicks' : k[1] = u
  BY <1>2 DEF Follows
<1>3. ASSUME NEW d \in Conns, queue' = Append(queue, LostEntry(u, d))
      PROVE  Follows(u)'
  BY <1>0, <1>3, LostClears DEF Follows
<1>4. CASE CloseRemove /\ closing.name = u
  <2>1. closing # NotClosing
    BY <1>4 DEF CloseRemove, NotClosing
  <2>2. CASE u \notin WsNames
    <3>1. closing \in [at : {"remove", "tell"}, name : Names, conn : Conns]
      BY <2>1 DEF TypeOK
    <3>2. closing'.at = "tell" /\ closing'.name = u
      BY <1>4, <3>1 DEF CloseRemove
    <3> QED
      BY <2>2, <3>2 DEF Follows
  <2>3. CASE u \in WsNames
    <3>1. PICK c \in Conns : c = closing.conn /\ Fit(u, c)
      BY <1>4, <2>1 DEF ClosingInv, TypeOK
    <3>5. c \in WebSockets \cap Own /\ u = Name(c)
      BY <1>0, <2>3, <3>1, OwnFit DEF Fit
    <3>2. Clears(u)
      BY <2>1, <3>1, <3>5, EndedClears DEF ClosingInv, Ended
    <3>3. UNCHANGED <<queue, agents>>
      BY <1>4 DEF CloseRemove
    <3>4. Clears(u)'
      BY <3>2, <3>3 DEF Clears, LostAt, Places
    <3> QED
      BY <3>4 DEF Follows
  <2> QED
    BY <2>2, <2>3
<1> QED
  BY <1>0, <1>1, <1>2, <1>3, <1>4, IdsKinds

LEMMA FollowsStep ==
    ASSUME TypeOK, EngineInv, AgentInv, EntryInv, ClosingInv, NewsInv, LeadInv, TablesFollow,
           [Next]_vars
    PROVE  TablesFollow'
<1>1. SUFFICES ASSUME NEW u \in OwnNames
               PROVE  Follows(u)'
  BY DEF TablesFollow
<1>2. Follows(u) /\ u \in Names
  BY OwnApart DEF TablesFollow
<1>3. CASE ids[u] = None /\ ids'[u] = None
  BY <1>2, <1>3, FollowsLost
<1>4. CASE ids[u] # None /\ ids'[u] = ids[u]
  <2>1. PICK c \in Conns : c = ids[u]
    BY <1>2, <1>4 DEF TypeOK
  <2> QED
    BY <1>2, <1>4, <2>1, FollowsKept
<1>5. CASE ids[u] # None /\ ids'[u] = None
  BY <1>5, FollowsTaken
<1>6. ASSUME NEW c \in Conns, ids'[u] = c, Begins(u, c)
      PROVE  Follows(u)'
  <2>1. /\ Len(queue) \in Nat /\ Len(queue') = Len(queue) + 1
        /\ queue'[Len(queue) + 1] = NewEntry(u, c)
    BY <1>2, <1>6, BeginsFresh
  <2>2. PICK i \in Places' : i = Len(queue) + 1
    BY <2>1 DEF Places
  <2>3. NewAt(i, u, ids[u])'
    BY <1>6, <2>1, <2>2 DEF NewAt, NewEntry
  <2> QED
    BY <1>6, <2>3, NamesApart DEF Follows
<1> QED
  BY <1>2, <1>3, <1>4, <1>5, <1>6, IdsKinds

-----------------------------------------------------------------------------
(***************************************************************************)
(* The invariant, and what it gives.                                       *)
(***************************************************************************)
LEMMA ConnInvInit == Init => ConnInv
<1> SUFFICES ASSUME Init
             PROVE  ConnInv
  OBVIOUS
<1>1. TypeOK
  BY TypeInit
<1>2. queue = <<>> /\ Len(queue) = 0 /\ Places = {}
  BY EmptySeq DEF Init, Places
<1>3. EngineInv /\ AgentInv /\ EntryInv /\ ClosingInv /\ OneNameInv
  BY <1>2, NamesApart DEF Init, EngineInv, AgentInv, EntryInv, ClosingInv, OneNameInv
<1>4. NewsInv
  BY <1>2, NamesApart, EmptySeq DEF Init, NewsInv, Fresh, Unborn, Blank
<1>5. ASSUME NEW u \in Names, NEW c \in Conns
      PROVE  ~Known(u, c)
  BY NamesApart DEF Init, Known
<1>6. LeadInv
  BY <1>2, <1>5, OwnApart DEF LeadInv, Comes
<1>7. WireInv
  BY EmptySeq DEF Init, WireInv
<1>8. MuteInv
  BY DEF Init, MuteInv
<1>9. CountInv
  BY <1>2, <1>5, OwnApart DEF CountInv, Due, Heard
<1>10. TablesFollow
  BY <1>2, OwnApart DEF Init, TablesFollow, Follows, Clears
<1> QED
  BY <1>1, <1>3, <1>4, <1>6, <1>7, <1>8, <1>9, <1>10 DEF ConnInv

LEMMA ConnInvStep == ConnInv /\ [Next]_vars => ConnInv'
<1> SUFFICES ASSUME ConnInv, [Next]_vars
             PROVE  ConnInv'
  OBVIOUS
<1>1. TypeOK' /\ EngineInv'
  BY TypeStep, EngineStep DEF ConnInv
<1>2. AgentInv' /\ EntryInv' /\ NewsInv'
  BY AgentStep, EntryStep, NewsStep DEF ConnInv
<1>3. ClosingInv' /\ LeadInv'
  BY ClosingStep, LeadStep DEF ConnInv
<1>4. OneNameInv' /\ WireInv'
  BY <1>1, OneNameStep, WireStep DEF ConnInv
<1>5. MuteInv'
  BY MuteStep DEF ConnInv
<1>6. CountInv'
  BY <1>1, CountStep DEF ConnInv
<1>7. TablesFollow'
  BY FollowsStep DEF ConnInv
<1> QED
  BY <1>1, <1>2, <1>3, <1>4, <1>5, <1>6, <1>7 DEF ConnInv

\* Every step of the threads and of the script keeps what the queue, the engine's
\* tables and the script's say of each other.
THEOREM ConnInvHolds == Spec => []ConnInv
  BY ConnInvInit, ConnInvStep, PTL DEF Spec

\* MessagesMeetOwnAgent: execute_lua looks agents up by name, and the agent it
\* finds for a message is the one made for the connection it was read from, unless
\* others went by the same name at the time.
THEOREM MessagesMeet == Spec => []MessagesMeetOwnAgent
<1>1. ConnInv => MessagesMeetOwnAgent
  <2> SUFFICES ASSUME ConnInv, queue # <<>>, Head(queue).type = "message",
                      Head(queue).conn \in Own
               PROVE  agents[Head(queue).name] \in {None, Head(queue).conn}
    BY DEF MessagesMeetOwnAgent
  <2>1. TypeOK /\ LeadInv /\ queue \in Seq(Entries)
    BY DEF ConnInv, TypeOK
  <2>2. Len(queue) \in Nat /\ Len(queue) # 0
    BY <2>1, LenProperties, EmptySeq
  <2>3. 1 \in Places /\ Head(queue) = queue[1]
    BY <2>1, <2>2, HeadTailProperties DEF Places
  <2>4. queue[1].name \in Names /\ queue[1].conn \in Own
    BY <2>1, <2>3, EntryType
  <2>5. MessageAt(1, queue[1].name, queue[1].conn)
    BY <2>3 DEF MessageAt
  <2> QED
    BY <2>1, <2>3, <2>4, <2>5, HeadKnown
<1> QED
  BY <1>1, ConnInvHolds, PTL

LEMMA RestAgrees == ConnInv /\ AtRest => \A u \in OwnNames : agents[u] = ids[u]
<1> SUFFICES ASSUME ConnInv, AtRest, NEW u \in OwnNames
             PROVE  agents[u] = ids[u]
  OBVIOUS
<1>1. Len(queue) = 0 /\ Places = {} /\ kicks = {}
      /\ closing.at = "nowhere"
  BY EmptySeq DEF AtRest, Places, NotClosing
<1>2. Follows(u)
  BY DEF ConnInv, TablesFollow
<1> QED
  BY <1>1, <1>2 DEF Follows, Clears

\* TablesInv: the types, and that once all threads have caught up global_agents
\* has an agent for each connection of the engine and for no other, but for the
\* names several WebSockets share.
THEOREM TablesAgree == Spec => []TablesInv
<1>1. ConnInv => TablesInv
  BY RestAgrees DEF ConnInv, TablesInv, TablesAgreeAtRest
<1> QED
  BY <1>1, ConnInvHolds, PTL

-----------------------------------------------------------------------------
(***************************************************************************)
(* Connections implements Session.                                         *)
(***************************************************************************)
\* Only the connections count whose name is their own.
Gone == (served \cap Own) \ HasAgent

Seen == [c \in Own |-> handled[c]]

\* Opened(c, D): c has an agent now and those of D have none any more.
Opened(c, D) ==
    /\ c \notin served /\ D \subseteq HasAgent
    /\ HasAgent' = (HasAgent \ D) \cup {c}
    /\ Gone' = Gone \cup D
    /\ Seen' = Seen

Over(D) ==
    /\ D \subseteq HasAgent
    /\ HasAgent' = HasAgent \ D
    /\ Gone' = Gone \cup D
    /\ Seen' = Seen

Given(c) ==
    /\ c \in HasAgent
    /\ Seen' = [Seen EXCEPT ![c] = @ + 1]
    /\ HasAgent' = HasAgent /\ Gone' = Gone

LEMMA HasAgentServed ==
    ASSUME AgentInv
    PROVE  HasAgent \subseteq served /\ HasAgent \subseteq Own
  BY OwnApart DEF HasAgent, AgentInv

LEMMA MakesOpened ==
    ASSUME TypeOK, AgentInv, NEW u \in Names, NEW c \in Conns, c \notin served,
           agents' = [agents EXCEPT ![u] = c],
           port' = [port EXCEPT ![c] = u],
           served' = served \cup {c}, handled' = handled
    PROVE  /\ c \in Own => Opened(c, {d \in HasAgent : port[d] = u})
           /\ c \notin Own => Over({d \in HasAgent : port[d] = u})
<1> DEFINE D == {d \in HasAgent : port[d] = u}
<1>1. c \notin HasAgent /\ HasAgent \subseteq served /\ HasAgent \subseteq Own /\ u # None
  BY HasAgentServed, NamesApart
<1>2. \A v \in Names : agents'[v] = IF v = u THEN c ELSE agents[v]
  BY DEF TypeOK
<1>3. \A d \in Conns : port'[d] = IF d = c THEN u ELSE port[d]
  BY DEF TypeOK
<1>4. \A d \in Conns : port[d] # None => port[d] \in Names
  BY DEF TypeOK
<1>5. ASSUME NEW d \in Own
      PROVE  d \in HasAgent' <=> d = c \/ (d \in HasAgent /\ port[d] # u)
  <2> USE OwnApart
  <2>1. CASE d = c
    BY <1>1, <1>2, <1>3, <2>1 DEF HasAgent
  <2>2. CASE d # c /\ port[d] = u
    BY <1>1, <1>2, <1>3, <2>2 DEF HasAgent
  <2>3. CASE d # c /\ port[d] # u
    BY <1>2, <1>3, <1>4, <2>3 DEF HasAgent
  <2> QED
    BY <2>1, <2>2, <2>3
<1>6. HasAgent' \subseteq Own
  BY DEF HasAgent
<1>7. HasAgent' = (HasAgent \ D) \cup ({c} \cap Own)
  BY <1>1, <1>5, <1>6
<1>8. Gone' = Gone \cup D
  BY <1>1, <1>7 DEF Gone
<1>9. Seen' = Seen
  BY DEF Seen
<1> QED
  BY <1>7, <1>8, <1>9 DEF Opened, Over

LEMMA EndsOver ==
    ASSUME TypeOK, AgentInv, NEW a \in Conns, port[a] # None, Ends(a)
    PROVE  Over({d \in HasAgent : d = a \/ port[d] = port[a]})
<1> DEFINE D == {d \in HasAgent : d = a \/ port[d] = port[a]}
<1>1. /\ HasAgent \subseteq served /\ HasAgent \subseteq Own
      /\ served' = served /\ handled' = handled
      /\ port[a] \in Names
  BY HasAgentServed, EndsWeakens DEF Weakens
<1>2. \A v \in Names : agents'[v] = IF v = port[a] THEN None ELSE agents[v]
  BY <1>1 DEF Ends, TypeOK
<1>3. \A d \in Conns : port'[d] = IF d = a THEN None ELSE port[d]
  BY DEF Ends, TypeOK
<1>4. \A d \in Conns : port[d] # None => port[d] \in Names
  BY DEF TypeOK
<1>5. ASSUME NEW d \in Own
      PROVE  d \in HasAgent' <=> d \in HasAgent /\ d # a /\ port[d] # port[a]
  <2> USE OwnApart
  <2>1. CASE d = a
    BY <1>3, <2>1 DEF HasAgent
  <2>2. CASE d # a /\ port[d] = port[a]
    BY <1>1, <1>2, <1>3, <2>2, NamesApart DEF HasAgent
  <2>3. CASE d # a /\ port[d] # port[a]
    BY <1>2, <1>3, <1>4, <2>3 DEF HasAgent
  <2> QED
    BY <2>1, <2>2, <2>3
<1>6. HasAgent' \subseteq Own
  BY DEF HasAgent
<1>7. HasAgent' = HasAgent \ D
  BY <1>1, <1>5, <1>6
<1>8. Gone' = Gone \cup D
  BY <1>1, <1>7 DEF Gone
<1>9. Seen' = Seen
  BY <1>1 DEF Seen
<1> QED
  BY <1>7, <1>8, <1>9 DEF Over

LEMMA MessageGiven ==
    ASSUME ConnInv, ExecuteLua, queue[1].type = "message", agents[queue[1].name] # None,
           handled' = [handled EXCEPT ![agents[queue[1].name]] = queue[1].n],
           UNCHANGED <<agents, port, served>>
    PROVE  \/ \E c \in Own : Given(c)
           \/ UNCHANGED <<HasAgent, Gone, Seen>>
<1>1. TypeOK /\ LeadInv /\ AgentInv /\ CountInv /\ EntryInv
  BY DEF ConnInv
<1>2. 1 \in Places /\ queue # <<>> /\ Len(queue) \in Nat
  BY <1>1, HeadCases, TailShrinks
<1>3. PICK u \in Names, c \in Conns, x \in Nat :
        u = queue[1].name /\ c = queue[1].conn /\ x = queue[1].n
  BY <1>1, <1>2, EntryType DEF TypeOK
<1>4. MessageAt(1, u, c) /\ IsMessageOf(1, c)
  BY <1>3 DEF MessageAt, IsMessageOf
<1>9. CASE agents[u] \notin Own
  BY <1>3, <1>9, OwnApart DEF HasAgent, Gone, Seen, TypeOK
<1> SUFFICES ASSUME agents[u] \in Own
             PROVE  \E d \in Own : Given(d)
  BY <1>9
<1>10. c \in Own
  <2>1. PICK a \in Own : a = agents[u] /\ a \in Conns /\ Fit(u, a)
    BY <1>1, <1>3, NamesApart, OwnApart DEF AgentInv
  <2>2. Fit(u, c)
    BY <1>1, <1>2, <1>3 DEF EntryInv
  <2> QED
    BY <2>1, <2>2, OwnFit
<1>5. agents[u] = c /\ port[c] = u
  BY <1>1, <1>2, <1>3, <1>4, <1>10, HeadKnown DEF AgentInv
<1>6. c \in HasAgent /\ HasAgent' = HasAgent /\ Gone' = Gone
  BY <1>5, <1>10, NamesApart DEF HasAgent, Gone
<1>7. handled[c] + 1 = x
  <2>1. Due(0, c, x) /\ 0 \in 0..Len(queue) /\ 1..0 = {}
    BY <1>2, <1>3, <1>4 DEF Due
  <2>2. Awaits(0, c, x)
    BY <1>1, <1>10, <2>1 DEF CountInv
  <2> QED
    BY <1>6, <2>1, <2>2 DEF Awaits, Dead, Ended
<1>8. Seen' = [Seen EXCEPT ![c] = @ + 1]
  BY <1>1, <1>3, <1>5, <1>7, <1>10, OwnApart DEF Seen, TypeOK
<1> QED
  BY <1>6, <1>8, <1>10 DEF Given

LEMMA SessionKinds ==
    ASSUME ConnInv, [Next]_vars
    PROVE  \/ \E c \in Own : \E D \in SUBSET HasAgent : Opened(c, D)
           \/ \E c \in Own : Given(c)
           \/ \E D \in SUBSET HasAgent : Over(D)
           \/ UNCHANGED <<HasAgent, Gone, Seen>>
<1>1. TypeOK /\ AgentInv /\ NewsInv
  BY DEF ConnInv
<1>2. ASSUME NEW a \in Conns, port[a] # None, Ends(a)
      PROVE  \E D \in SUBSET HasAgent : Over(D)
  BY <1>1, <1>2, EndsOver
<1>3. CASE ScriptSame
  BY <1>3 DEF ScriptSame, HasAgent, Gone, Seen
<1>4. ASSUME NEW a \in Conns, EndAgent(a)
      PROVE  \E D \in SUBSET HasAgent : Over(D)
  BY <1>2, <1>4, EndAgentEnds
<1>5. CASE ExecuteLua
  <2>1. 1 \in Places /\ queue[1].name \in Names /\ queue[1].conn \in Conns
    BY <1>1, <1>5, HeadCases, TailShrinks, EntryType
  <2>2. CASE HeadMakes
    <3>1. queue[1].conn \notin served
      BY <1>1, <2>1, <2>2 DEF HeadMakes, NewsInv
    <3> QED
      BY <1>1, <2>1, <2>2, <3>1, MakesOpened DEF HeadMakes
  <2>3. CASE agents[queue[1].name] # None /\ Ends(agents[queue[1].name])
    <3>1. PICK a \in Conns : a = agents[queue[1].name] /\ port[a] # None
      BY <1>1, <2>1, <2>3, NamesApart DEF TypeOK, AgentInv
    <3> QED
      BY <1>2, <2>3, <3>1
  <2>4. CASE /\ queue[1].type = "message"
             /\ agents[queue[1].name] # None
             /\ handled' = [handled EXCEPT ![agents[queue[1].name]] = queue[1].n]
             /\ UNCHANGED <<closing, agents, port, served>>
    BY <1>5, <2>4, MessageGiven
  <2> QED
    BY <1>1, <1>3, <1>5, <2>2, <2>3, <2>4, HeadCases DEF HeadMakes
<1> QED
  BY <1>3, <1>4, <1>5, StepKinds

\* KeepsSessions: Connections implements Session.  A connection with a name of its
\* own has one agent, once, and the agent is given its messages from the first on,
\* in the order its peer sent them and with none left out.
THEOREM ImplementsSession == Spec => KeepsSessions
<1>1. Init => Sessions!Init
  <2> SUFFICES ASSUME Init
               PROVE  Sessions!Init
    OBVIOUS
  <2>1. HasAgent = {} /\ Gone = {} /\ Seen = [c \in Own |-> 0]
    BY OwnApart DEF Init, HasAgent, Gone, Seen
  <2> QED
    BY <2>1 DEF Sessions!Init, Gone, Seen
<1>2. ConnInv /\ [Next]_vars => [Sessions!Next]_<<HasAgent, Gone, Seen>>
  <2> SUFFICES ASSUME ConnInv, [Next]_vars
               PROVE  Sessions!Next \/ UNCHANGED <<HasAgent, Gone, Seen>>
    OBVIOUS
  <2>1. HasAgent \subseteq served /\ HasAgent \subseteq Own
    BY HasAgentServed DEF ConnInv
  <2>2. ASSUME NEW c \in Own, NEW D \in SUBSET HasAgent, Opened(c, D)
        PROVE  Sessions!Open(c)
    BY <2>1, <2>2 DEF Opened, Gone, Seen, Sessions!Open
  <2>3. ASSUME NEW c \in Own, Given(c)
        PROVE  Sessions!Give(c)
    BY <2>3 DEF Given, Gone, Seen, Sessions!Give
  <2>4. ASSUME NEW D \in SUBSET HasAgent, Over(D)
        PROVE  Sessions!End(D)
    BY <2>4 DEF Over, Gone, Seen, Sessions!End
  <2>5. CASE UNCHANGED <<HasAgent, Gone, Seen>>
    BY <2>5
  <2> QED
    BY <2>1, <2>2, <2>3, <2>4, <2>5, SessionKinds DEF Sessions!Next
<1> QED
  BY <1>1, <1>2, ConnInvHolds, PTL DEF Spec, KeepsSessions, Sessions!Spec, Gone, Seen
=============================================================================
