# A verification development for tunm

tunm is a game server: a Rust engine (`src/src`) that owns sockets, threads,
database and Redis connections, and game logic in Lua (`src/scripts`) that the
engine runs on one thread. This directory holds TLA+ models of its components,
TLC configurations that check them on small instances, and proofs, checked by
TLAPS, of what holds for every instance. Paths below are relative to the root of
the repository's tree, `src/`.

1. [The system](#1-the-system)
2. [Modules](#2-modules)
3. [Runs](#3-runs)
4. [Proofs](#4-proofs)
5. [Where code and comments disagree](#5-where-code-and-comments-disagree)
6. [What is not modelled](#6-what-is-not-modelled)
7. [Plan](#7-plan)

## 1. The system

### Threads and the event queue

All Lua code runs on the timer thread: every millisecond the timer `LUA_EXEC`
calls `execute_lua` (`src/lua_engine.rs`), which takes all of `exec_list` under a
lock and calls the handler of each entry in turn. Every other thread (sockets,
WebSocket, HTTP, database workers, Redis) only appends to `exec_list`. So a Lua
handler is atomic with respect to the script's state, and everything
asynchronous happens in the engine and between servers.

| part | state | operations | with whom | what is hard |
|---|---|---|---|---|
| Room seating (`scripts/server/clone/rooms/room.lua`, `desk.lua`) | `room_entity`: a record per user in the room with its desk and logout time; per desk `users` and `wheels` | enter and leave room, enter desk, ready, desk operation, login, lost connection, one-second timer | messages of logic servers by Redis; the game at each desk | logout, login, timer and game end in any order; the same fact kept in three tables |
| Dou Dizhu game (`ddz_desk.lua`) | `cur_step`, operator, lord, stake, bids, plays, hands, count of redeals | ready, bid, play or pass, timer | the room's desk | turn order, timeouts that race the player, bids out of turn, what survives the end of a game |
| Card rules (`daemons/poker/ddz_d.lua`) | none | classify, compare, subtract and sort lists of cards | the game | a pure algorithm of 950 lines |
| Database requests (`daemons/dbd.lua`, `src/lua_custom/lua_db.rs`, `src/db`) | `cookie_map`; jobs of the pools; idle connections with their session and last error | read, execute, insert, transaction, batch; result; one-second and five-minute timers | MySQL or SQLite; callbacks of accounts, users, data | ten threads, lost sessions, failures half-way, a timeout that races the result |
| Event queue (`src/lua_engine.rs`) | `exec_list` | `apply_*`, `execute_*` | everything | order between threads |
| Connections (`src/mgr/mio_event_mgr.rs`, `src/net`) | `connect_ids`: name "NM:fd" to socket and buffers | accept, read, write, close, kick, dispatch of framed messages | poll thread, script, WebSocket | names reused with descriptors, the kick that tells the script 20 ms later |
| WebSocket (`src/mgr/websocket_mgr.rs`) | `connect_ids`: name to sender | open, message, close, send | connections, script | two tables for one connection |
| HTTP (`src/mgr/http_mgr.rs`) | open requests by cookie | receive, answer, get, post | script | answers that race, cookie that starts again |
| Redis (`src/db/redis_pool.rs`, `daemons/redisd.lua`, `redis_queued.lua`) | connections, the subscription and its thread, callbacks by cookie | command, script, publish, subscribe, poll every 100 ms | every server | lost and late messages, no timeout |
| Agents (`scripts/global/inherit/agent.lua`, `base/global_agents.lua`, `daemons/connectd.lua`) | maps from port to agent, state of authentication | new and lost connection, relay to account and user | connections | stale ports |
| Login and accounts (`daemons/logind.lua`, `accountd.lua`, `clone/account.lua`) | lists of online, frozen and waiting accounts; waiting logins | login, wait, cancel, construct, destruct | database, Redis, other servers | one account online once, though each server has its own late copy |
| Users and saving (`clone/user.lua`, `daemons/userd.lua`) | attributes and the set changed since the last save, logout timer | enter and leave world, lost connection, save (hibernate), shutdown | database, accounts | a save that counts its own statements while they are answered |
| Login queue (`daemons/login_queued.lua`) | queue, logins in progress | cache, respond every 500 ms, finished | accounts | the limit, which is never reached |
| User data cache (`daemons/cached.lua`, `user_dbd.lua`) | data by user with its age, one callback per user | get, loaded | database | a second reader |
| Framing (`src/net/net_msg.rs`, `socket_event.rs`, `mio_event_mgr.rs`) | buffers of each end | send, read, cut out messages | connections | short writes, pieces of any size, messages that do not fit |
| Mahjong rules (`src/game/majiang.rs`) | none | is this hand complete, and how | scripts (none here yet) | kings that stand for any tile |
| Commands between servers (`daemons/internal_commd.lua`, `cmds/cmd_logic.lua`) | callbacks by cookie | send to room or server, answer, timeout | rooms | a second command before the first is answered |
| Items and containers (`clone/container.lua`, `global/clone/item.lua`, `bonusd.lua`, ...) | items of a user by place | add, merge, cost, move | users | sequential; many cases |

What makes them correct: the tables of a room agree and a game keeps its three
players until its end; a game is played by turns by the one player whose turn it
is, and it ends; a callback of the database is called once; transactions are all
or nothing and leave no trace in a pooled connection; a connection the script
knows is the connection it talks to, and messages pass through it whole and in
order; every request over HTTP and every command to Redis is answered with its own
answer; the servers agree who is online, and nobody waits for an account that
nobody has.

`PROJECT.json` lists the components with what is modelled of each, and the
hazards of the code with the properties that watch over them.

## 2. Modules

| module | models | of |
|---|---|---|
| `DeskGame` | what a desk promises: a game starts with the third ready seat, and its end clears all ready flags | `desk.lua`, abstract |
| `Room` | the seating of one room | `room.lua`, `desk.lua`, seat handling of `ddz_desk.lua`, handlers of `roomd.lua` |
| `DdzDesk` | the game behind a desk | `ddz_desk.lua` |
| `DbPromise` | what a request with a callback promises | `dbd.lua`, abstract |
| `DbRequest` | requests, workers, connections, results, timers | `dbd.lua`, `lua_db.rs`, `db_pool.rs`, `db_mysql.rs`, `db_sqlite.rs`, `lua_engine.rs` |
| `Session` | what the script is promised of a connection: one agent, once, its messages from the first and in order | `agent.lua`, `global_comm.lua`, abstract |
| `Connections` | sockets and WebSockets, their names, kicks and losses, the agents | `mio_event_mgr.rs`, `websocket_mgr.rs`, `tcp_mgr.rs`, `lua_network.rs`, `lua_engine.rs`, `agent.lua`, `global_agents.lua`, `global_comm.lua` |
| `Channel` | what two servers are promised of a socket: whole messages, once, in order, until it breaks | `net_msg.rs`, abstract |
| `Framing` | bytes, buffers and the cutting out of messages | `net_msg.rs`, `socket_event.rs`, `mio_event_mgr.rs` |
| `Http` | requests received and made | `http_mgr.rs`, `lua_engine.rs`, `global_comm.lua` |
| `Redis` | commands, shared connections, the subscription | `redis_pool.rs`, `lua_db.rs`, `redisd.lua`, `redis_scriptd.lua` |
| `Login` | one account on several servers | `logind.lua`, `accountd.lua`, `account.lua`, `user.lua`, `userd.lua`, `cached.lua`, `redis_queued.lua`, `login_queued.lua` |
| `MaJiang` | `check_can_hu`, and a hand it is asked about | `majiang.rs` |
| `CompleteHands` | what a complete hand is, `check_can_hu` apart | the rules, for reference |
| `MCRoom`, `MCDdzDesk`, `MCDbRequest`, `MCConnections`, `MCFraming`, `MCHttp`, `MCRedis`, `MCLogin`, `MCMaJiang` | instances for TLC | |
| `RoomProofs`, `GameProofs`, `DbRequestProofs`, `ConnectionsProofs`, `HttpProofs`, `RedisProofs`, `LoginProofs`, `FramingProofs` | theorems and proofs | |

An operator whose comment says "slip" is not part of a model. It is a likely
mistake in the definition it stands before, kept to show that a property notices.

### Room and DeskGame

One action per message or event of `roomd.lua`; each is a call of the script
thread and so is atomic.

| code | model |
|---|---|
| `room_entity[rid]` exists; `last_logout_time`; `enter_desk_idx` | `present`; `loggedOut`; `deskOf` |
| `wheels[i].rid`, `wheels[i].is_ready`, `users[rid].idx`, `users[rid].last_logout_time` | `wheel`, `ready`, `seatOf`, `marked`, by desk |
| `cur_step ~= "none"` | `playing` |
| `entity_enter`, `entity_leave`, `enter_desk`, `desk_op` "ready" | `EntityEnter`, `EntityLeave`, `EnterDesk`, `DeskReady` |
| `user_login` after `EVENT_USER_OBJECT_CONSTRUCT`, `user_logout` after `EVENT_USER_CONNECTION_LOST` | `UserLogin`, `EntityLeave` |
| a card that ends the game | `DeskOpEndsGame` |
| `time_update` of the room: `entity_update` of all records, then `time_update` of all desks | `TimeUpdate(S, E)`: the records S are older than ten seconds, the games E end |

`Room` sees of a game that it runs and that it may end at a play or at a tick;
`DdzDesk` is the game. The two meet in `DeskGame`: the property `DesksRunGames`
says that each desk of a room implements it, `ImplementsDeskGame` that a game
does. A handler that fails with a Lua error before it changed anything (a
`desk_op` of a user without a seat) is no step. `win_by_idx` fails half-way when
a player has no record: as long as that is so the game cannot be won, and ends only
by being given up. `Room` lets it end by a play too, which is more than the code
does; what becomes of the game is in `DdzDesk`.

### DdzDesk

| code | model |
|---|---|
| `cur_step`, `cur_op_idx`, `lord_idx`, `retry_deal_times`, `lord_list`, `play_poker_list` | `step`, `op`, `lord`, `retry`, `bids`, `plays` |
| `multi_num` = 15 * 2^n | `doubles` = n |
| `#wheels[i].poker_list`, `#down_poker` | `hand[i]`, `down` |
| `op_info` "ready", "choose", "deal_poker" | `UserReady`, `UserChoose`, `UserDealPoker` |
| `time_update` in each step | `DealTime`, `FirstBidderTime`, `BidTimeout`, `PlayTimeout` |

A play takes any number of cards the hand has, and whether it beats the last one
is left open. A late bid (`choose` in a step that is not the bidding) is in the
model because it is in the code; `MaxLate` bounds how long `lord_list` gets that
way. The properties on bidding and rounds that a late bid destroys say so
(`OrderlyBids`).

`win_by_idx` begins with `get_all_pea_amount`, which raises when the room has no
record any more of somebody at the desk (`PlayersHaveRecords` of `Room`, section 5).
The cards are played by then: the game goes on with an empty hand and the turn
where it was. So `PlayCards` has both outcomes at every win, since which of them it
is depends on the room, and the history `undone` has the seats whose win was not
carried out. Such a player may have to pass on his own cards, or to lead with none,
and then deal_poker refuses him and the timer without end (`LeadsWithNoCards`).

### DbRequest and DbPromise

| code | model |
|---|---|
| keys of `cookie_map` | `waiting` |
| what a callback was called with | `answer` (history) |
| queue of the thread pool; what each thread does | `jobs`; `busy` |
| `db_mysql[db]` or `db_sqlite[db]` of the pool | `pool`, the last released last |
| `is_connect`, `error` | `up`, `err` of a connection |
| the server's session, its transaction and what that has done | `alive`, `open`, `pending` of a connection (external) |
| `exec_list` | `events` |
| what the database holds | `done` (statements of each request that were committed) |
| `read_db`, `execute_db`, `insert_db`, `transaction_db`, `batch_execute_db` | `Ask` |
| `notify_operation_result`, `timer_handle` | `NotifyOperationResult`, `TimerHandle` |
| `thread_db_*` | `TakeJob`, `Perform` once per call of the database, `Report`, `Panic` |
| `check_connect_timeout` | `CheckConnectTimeout` |

Each call of the database is a step, with every outcome the driver can give: done;
refused; session lost before or after the statement took effect; session replaced
by `check_connect` first; no session to be had. On SQLite `START TRANSACTION` is
refused, so there is no transaction. A request's number stands for its 32-bit
cookie, which does not come round within the fifteen seconds a request lives.
Requests use one database name, so there is one list of connections.

### Connections and Session

| code | model |
|---|---|
| `connect_ids` of `MioEventMgr`; of `WebSocketMgr` | `ids`; `senders` |
| the descriptor of a socket; where the handler of a WebSocket is | `fd`; `ws`, `hangup` |
| `exec_list`; timers `KICK_SOCKET` | `queue`; `kicks` |
| `agents`; `port_no` | `agents`; `port` |
| `accept`; `new_connect` that fails | `Accept`; `ConnectFails` |
| `new_socket_local`: registered with the poll; told and inserted | `Dial`; `NewSocketLocal` |
| an event of the poll for a name `connect_ids` has not | `EventMissed` |
| `read_callback`, `read_end_callback`, `add_kick_event`, `kick_socket` | `Read`, `ReadEnd`, `Read` with a malformed message, `KickSocket` |
| `on_open`, `on_message`, `on_close` | `WsOpen` and `WsOpened`, `WsMessage`, `WsClose` |
| `close_fd`, which gives up the lock half-way | `CloseFd`, `CloseRemove`, `CloseTell` |
| `cmd_new_connection`, `global_dispatch_command`, `cmd_lost_connection` | the same names |

A connection has an identity in the model; the code has only its name (`Name`), and
every property is about how far the two go apart. A socket is "NM:fd", and the system
gives the descriptor to the next socket as soon as it is free. A new connection whose
name has an agent ends that agent; the loss of a kicked socket, told 20 ms later by
name, may end the agent of the connection that has the name by then (section 5).

A WebSocket of a client is "WS:" and a number of its own. One the script dials runs in
an event loop of its own and is named by the first token of it, so all of them have one
name, and a client's number may be the same. `Local` are the WebSockets that are
dialled and `Token` what they go by; in the run it is the name of a client's WebSocket
too. Connections that may share a name at a time are `Shared`, and the properties are
about the others (`Own`, `OwnNames`), with the shared ones at work beside them: what
happens to the messages of those is in section 5. `new_websocket_connect` is offered to
scripts, but those of the repository do not call it.

`new_socket_local` has the socket registered with the poll before it is in
`connect_ids`. The poll thread asks for no lock when it looks a name up, so an event in
between finds nobody and is dropped; the poll is edge-triggered, so it is not reported
again until the next one (`missed`, `NewEvent`). `LossNoticed` leaves the losses out
that were missed so.

Restarts of the server, which end all connections, are not modelled.

### Framing and Channel

A message is a head, which tells its length, and a body; a byte is known by its
message and its place. `WriteToSocket` gives the socket what it has room for and
keeps the rest until the next message is sent (nothing waits for the socket to
have room again); `Read` takes any piece and `Dispatch` cuts out what is whole, in a
loop that is a recursive function of the place it has come to, a turn of it being
`DispatchAt`. The limits are parameters: a message longer than `ReadData` (65536) is
cut and the connection is kicked, `TooBig` (655360) bytes in one read close it, and a
message longer than `MaxPack` is refused by the sender. `new_by_data` also checks that
the body begins with a name that can be decoded, which holds of all that the engine
sends. The end of the stream throws away whole
messages read with it. The code tells the script that a send failed when the
message was queued; scripts do not look.

### Http

`HttpMgr` holds one mutex from taking a cookie until the request is kept, with the
reading of the body in between: a client that is slow to send its body holds up
every other request and, as `http_server_respone` needs the mutex, the script. The
model has those steps apart (`Receive`, `Apply`, `Insert`), and a body that comes with
the request or later (`ClientEnds`); `ServerMsgRecv` may be executed before `Insert`. Cookies start
again after `MaxCookie`; the code's is near 2^32, and the model assumes that no
request outlives a whole round of them. A thread of the pool answers (`WriteRespond`) or
asks another server (`WaitRespone`), which ends by the timeout of the library.
`CookieParam` is the parameter of the handler that is taken for the cookie: 3 in the
passing run, 1 in the repository (section 5).

### Redis

| code | model |
|---|---|
| `cookie_map` of `redisd.lua` | `waiting` |
| jobs and thread of the pool "redis"; its connection | `jobs`, `job`, `at`; `held` |
| `db_redis`; replies on their way on each connection | `idle`; `stream` |
| `sub_connect`, `sub_fd`, `sub_receiver`, `sub_thread_run` | `subConnect`, `subFd`, `subReceiver`, `run` |
| jobs and thread of the pool "redis_sub" | `loops`, `loop`, `loopAt` |
| `redis_run_command`, `redis_run_script`, `redis_run_command_sync` | `RunCommand`, `RunCommandSync` with `FinishSync` |
| `redis_subs_command`, `redis_subs_get_reply` | `StartPsubscribe` and `Operate`, `SubsGetReply` |

`start_psubscribe` is called once by the scripts (`post_init`) and twice in the
model: the operator can call it again, and it is where the engine has most to
do. A receive loop cannot be interrupted, so the loop of a new subscription waits
until Redis closes the old one. A descriptor that is closed while a loop waits on
it stays open for that loop (POSIX); that the same number may be closed twice
(`drop_fd` after the connection itself) and hit another file is not modelled. A
lost subscription is never renewed (`ensure_subconnectioin` has no caller), so
`MessagesArrive` says nothing of it. A script whose file cannot be read ends its job
without an answer (`ScriptUnread`, and the history `unread`); its callback waits for
ever, as nothing in `redisd.lua` has a timeout.

### Login

| code | model |
|---|---|
| `account_online_list`, `account_freeze_list`, `account_wait_list` of each server | `online`, `freeze`, `wait` |
| `wait_login_list` | `waitLogin` |
| the account object, the user object; `user_rid` of the account | `account`; `user`; `hasUser` |
| `cookie_map`, `cache_data` of `cached.lua`; reads under way | `cookie`, `cached`; `loads` |
| statements of each hibernation | `saves` |
| what a server has published; what it has not taken | `out`; `inbox` |
| `login`, `check_account_callback`, `wait_account_login`, `check_account_login` | `Login`, `CheckAccount`, `AskedFor`, `CheckAccountLogin` |
| `ACCOUNT_D.login` by way of the login queue | `DoLogin` |
| `callback_get_user_list`, `load_user_callback`, `read_user_callback`, `set_login_user` | `GetUserList`, `LoadUser`, `ReadUser`, `SetLoginUser` |
| `hiberate`, `hiberate_callback` | `Hiberate`, `SaveDone` |
| `connection_lost` of agent, account and user; `logout_callback` | `Lose`, `AccountLost`; `LogoutTimer` |
| `deal_with_reply` | `Receive` |

All tables, the publisher's too, are fed by the messages alone. An assertion in
`set_rid_object` ends `time_update` of `redis_queued.lua` and so the rest of the
messages taken with the one that raised it (`Interrupt`); `interrupted` remembers
it. A save announces its end when the count of its statements is zero, and a part of
the user that has not changed says so at once: what is published is START; START and
END; or START and two ENDs, whether statements are under way or not (`Hibernation`,
`SaveSays`). The timers of 15 s, 100 s, 2 and 10 minutes wait until messages are delivered
(`Delivered`) or all is quiet (`Quiet`): their times are long to the 100 ms of a
message. The login queue is a pass-through: its load limit always answers false
and its entries go with their agents.

`Homes` says who plays when a run begins: a client on one server, or one on each of
several, which is what two servers do that both see the account offline. The clients
that come after them are those of the run.

What the model shows of the design, without a property: two servers that both see
the account offline let it in twice, and the end of one object marks it offline for
all; a login that does not have to wait never asks whether the account is frozen; a
client whose place in `wait_login_list` another takes is told nothing; an account
destructed while its user is read leaves a user without account, until the next login
or ten idle minutes. What it shows against the code's own words is in section 5.

### MaJiang and CompleteHands

`all_card_idx` and `king_num` grow tile by tile, in ascending order and kings last,
and `answer` is what `check_can_hu` says of them; the operators are the functions of
`majiang.rs` by name. Its loops are recursive functions over the number of turns
(`CombineList`, `Search`, `Colours`), so that they can be proved about. Only the
order of the sets in a list that is shown differs from the code.

`CompleteHands` is the reference for the runs: all tiles and kings make sets of three
and at most one pair (`Covered`). With two kings or more a win can be missed (1 3 4 4
5 7 and two kings), since sets without kings are taken first; nothing in the
repository says that this may not be, and `NoWinMissed` is stated for one king at most.

## 3. Runs

| run | instance | shows |
|---|---|---|
| `room` | 3 users, 2 desks, 422 thousand states | a user enters one desk and then the other, leaves, is logged out by the timer, comes back, while another desk plays |
| `room_crowd` | 4 users, 1 desk | the fourth user meets a desk that is full, or gets full in between |
| `ddz_desk` | hands of 2 cards, 1 bottom card, 1 redeal, late bids up to 4 in the list, one seat drawn to bid first; 1.0 million states | all games; hands of two and three cards have plays that win and plays that do not, wins that raise, bombs (2 cards) and rounds that go round more than once |
| `db_request` | both databases, 2 workers, 2 requests of all 5 kinds with callback or, one, without; 888 thousand states | every outcome of every call, a connection that passes from one request to the other, two connections in the pool |
| `connections` | 1 accepted and 1 dialled socket on 1 descriptor, 3 WebSockets, one of them dialled and of the name of another, 2 connections at most in a run, 2 messages; 515 thousand states | a descriptor that changes hands while messages, kicks and losses of the old connection are under way; events that come too early for a dialled socket; a name that is shared |
| `framing` | heads of 2 bytes, messages of 2 to 6, 4 bytes at most received, 7 in the socket, 4 messages; 31 thousand states | short writes, pieces that end anywhere, messages that are too long, and too many bytes for a read |
| `http` | 3 requests, 2 cookies, 1 call, 2 threads; 47 thousand states | cookies that come again, an answer before the request is kept, slow clients and clients that leave |
| `http_recv` | the same, smaller, with the handler of the repository | section 5 |
| `redis` | 3 commands and subscriptions in all, 2 messages, 1 loss; 345 thousand states | both threads on the same connections, a loop that waits for another, a script that is not there |
| `login` | 2 servers, one a gate; a client that plays and one that logs in; saves of 1 statement; 3.8 million states | the second client takes the account over, from the same server or another, in every order of messages, reads, saves and timers |
| `login_crowd` | 2 servers, no gate, no statements; 3 clients, one or two of which play on a server each when the run begins; 1.9 million states | logins that take each other's place in `wait_login_list` and as readers of the user's data, an account with two objects that end one after the other, the assertion on a second object of a server and the loss of the messages behind it |
| `mahjong` | hands of up to 9 tiles, 3 of them kings at most, out of 10 tiles; 150 thousand states | runs, sets, pairs, winds and dragons, with and without kings |

Bounds. Three users fill a desk, so a game can run; the second desk is where
things would go wrong between desks; the fourth user matters only for a full
desk and has a run of its own. Users are symmetric in `Room`: no handler
compares two of them. Hands of 17 cards differ from hands of 2 only in how long a
game takes. Two requests suffice for every pair of hazards (a late result and a
timeout, a connection and its next user, an order and its inverse); the
properties proved in section 4 hold for any number. A batch or transaction has
two statements: one may fail before and one after the other is executed. One
descriptor makes every new socket meet the name of the one before; two
connections are the old and the new. Two cookies for three requests make them
come round. Three commands or calls in all let two commands share a connection
while the subscription is replaced. A WebSocket that is dialled and one of a client
with its name are a shared name; the third is a connection of its own beside them. In
`ddz_desk` one seat stands for all that may be drawn, as the game is the same from each
of them; one redeal is counted and reset as two are. In `login` one client plays when the
run begins and one logs in: the waits, saves and messages of two objects one after the
other. What takes more clients is in `login_crowd`: two logins with one client that plays
give a waiter that another replaces and a reader that another replaces; an account that is
played on two servers at once, and a third login, give the assertion. That run has no
gates, so that part of `TablesInv` which is about frozen accounts is empty there; the run
`login` has them. Nine tiles hold every way two sets and a pair, or three sets,
can overlap.

The requests, connections, messages and clients of a run come to an end, and it
stops there; those runs do not check for deadlock. The room and the game do.

Properties worth a sentence:

- `SeatsAgree`, `NobodyMissing`, `PlayersStay` (room): the two tables of a desk
  name each other; nobody starts a game with an empty seat; while a game runs its
  players keep record, desk and seat, whatever logouts and ticks come.
- `TurnsInv`, `BiddingInv`, `RoundGoesToLastPlayer`, `StakeStartsFresh` (game):
  during play somebody has the turn and only hands that won are empty; nobody is asked
  to beat his own cards; neither is said of one whose win raised half-way. The lord is
  the last who called; the round goes to the one who played last; the stake counts the
  calls of this deal only.
- `GameEnds` (game): a game that starts ends, or is stuck at a winner of a failed win
  who has to lead (`LeadsWithNoCards`); no other failed win keeps it from its end.
- `PoolInv` (requests): an idle connection has no open transaction.
- `CalledOnce` (requests) is the refinement of `DbPromise`. A result that comes
  after the timeout finds no cookie; a timeout after the result finds none either.
- `TransactionsUndone`: on MySQL a transaction whose session was not replaced is
  all or nothing. `SqliteKeepsOrder`: the one thread of SQLite executes what was
  asked first, first. MySQL's ten threads do not, and no code waits for a save
  before it loads again.
- `KeepsSessions` (connections) is the refinement of `Session`; `TablesInv` says
  that the engine's table and the script's are the same whenever the script has
  caught up, whatever was told twice or too late. Both, and `MessagesMeetOwnAgent`, are
  about the connections whose name no other may have at the time.
- `CommandsAnswered` (Redis): a command with a callback is answered if its script
  could be read; those behind one that could not are answered all the same.
- `InOrder` (framing) is the refinement of `Channel`; `BytesInv` that buffers and
  socket hold exactly the bytes of the messages that are not there yet.
- `RepliesInv`, `NothingLostWhileSubscribed` (Redis): a command never gets the
  reply of another; a subscription that works loses and doubles nothing, though its
  loop starts late.
- `TablesInv` (login): when nothing is under way the tables of all servers agree,
  an account that is taken to be online has an object somewhere, and none is
  frozen; so nobody is kept out by a message that came late. It is not claimed
  after an assertion has cut a batch of messages short, and says nothing of the marks
  of waiting logins (section 5).
- `NobodyWaits` (login): when nothing is under way nobody waits for the account any
  more: who waited is let in or gone, though the account was frozen in between.
  `WaitEnds` (login_crowd) says that a wait ends although clients come and go and take
  each other's place, unless an assertion cuts a batch of messages short: then a
  DESTRUCT may be lost and the wait does last its 15 s.
- The invariants of several parts (`BiddingInv`, `BytesInv`, `TablesInv`, ...) are
  conjunctions of the named ones above them, most of them with `TypeOK`.

Fairness. `GameEnds` needs that a turn not taken by its player is taken by the
timer: weak fairness of `Turn`, justified by `time_update` being called every
second and by limits of 10 and 30 seconds. `Turn` includes the players' own
moves since the timer counts from the last of them. `EveryoneCalled` needs weak
fairness of the one-second `timer_handle` for each request, since a request that
stays gets older than `TIMEOUT`. Nothing is assumed of the workers or the
database. `LossNoticed` assumes of the engine's threads and timers that they run,
of peers nothing. `TakenIsReceived` assumes that the receiver's poll thread runs;
of the sender nothing, so a message whose last bytes wait in `out_buffer` for a
next one may wait for ever, and the property leaves it out. `EveryoneIsAnswered`
assumes that threads run and that a client sends its body or leaves: the code
waits for it without a limit. `CommandsAnswered` and `MessagesArrive` assume that
threads run and that Redis answers a command or its connection breaks: without a
timeout, a reply that is owed on a connection that stays up would be waited for
without end. `WaitEnds` assumes only that something goes on:
the databases answer and messages are taken, as long as there are any; no timer
is needed for it. `Room` has no liveness property: a user may stay away for ever.

## 4. Proofs

Each theorem is of the form `Spec => []Inv`, an action property, or a refinement,
and holds for every value of the constants that satisfies the assumption named in
the component's module (`RoomAssumption`, `DdzAssumption`, `DbAssumption`,
`ConnectionsAssumption`, `HttpAssumption`, `RedisAssumption`, `LoginAssumption`,
`FramingAssumption`, `MaJiangAssumption`): numbers are numbers, a head is not empty and can be read, sets
that are to be disjoint are, `None` is nothing else. TLC evaluates them in the runs.
The invariants of a proof were checked by TLC on the instances of section 3 before
they were proved.

`RoomProofs`, for any set of users, any number of desks:

- `TypeCorrect`; `SeatTablesAgree`, `GamesHaveThreeUsers`: `[]SeatsAgree`,
  `[]NobodyMissing`. `NobodyMissing` is inductive only with `SeatsAgree` (a leave
  clears the wheel that `users` names) and with the fact that a playing desk has all
  wheels ready or all wheels taken; `SeatsAgree` needs `TypeOK`. Each action has one
  step in the proof, and `DeskUserEnter` and `DeskUserLeave` one lemma each.
- `GamesKeepTheirPlayers`: `PlayersStay`, which is `[][...]_vars`.
- `DesksAreGames`: `DesksRunGames`, that every desk implements `DeskGame`. `ready` and
  `playing` of one desk change only together, so each action is a step of the desk's
  game or leaves it alone.
- `PickedDesksSeat`: `PickedDeskSeats`. The room picks a desk by the number of its
  users, the desk looks for a wheel; that the one implies the other is counting: by
  `SeatsAgree` three taken wheels have three different users.

`GameProofs`, Dou Dizhu, for hands, bottom cards and redeals of any size, and late bids of any
number:

- `TypesHold`; `BiddingIsFair`, `TurnsCanBeTaken`, `StakeIsOfThisDeal`: `[]BiddingInv`,
  `[]TurnsInv`, `[]StakeStartsFresh`; `RoundsAreWon`: `RoundGoesToLastPlayer`.
  `TableInv` says who has the turn and the cards in each step, and that three bids are
  in the list before play begins. On top of it `BidInv` is about the list of bids,
  `StakeInv` about the doubling and the calls, `RoundInv` about the plays: one pass at
  most in a row, and whose turn follows on whose play; a win that raises leaves the turn
  with a hand that is in `undone`, the only kind that may be empty. "choose" is
  accepted in every step, so each says what a late bid leaves alone.
- `GameRefinesDesk`: `ImplementsDeskGame`.

`GameProofs`, mahjong, for hands of any size and any number of kings, of any tiles with
up to four of each, with runs of winds and dragons or without, and for any number a king
is shown as that is not a tile:

- `HandsShown`: `[]HandInv`. Whatever list `check_can_hu` shows has all tiles of the
  hand, each as often as the hand does, is made of sets that are what they say and of one
  pair at most, and uses up all kings and no more. The inductive invariant is
  `HandIInv`: the answer is that of `CheckCanHu` for the hand at its side; all the work
  is in `HandIInvImplies`, which is about the algorithm. Each of its loops is shown to
  exist as a function and to keep its values in a set (`Loop`, `LoopTyped`). What the loops
  keep does not depend on which lists they try nor on which is best: a list
  that is not refused covers every tile of its colour, and three times its sets and
  twice its pairs are the tiles and the kings it takes (`Uses`). `Uses` holds for a
  list of sets and what is left (`Combine`), so for the best of several (`BestOf`), so
  for a colour (`ColorCombine`); over five colours it adds up (`ColoursUse`), and the pairs that
  get a king, the pair that stays and the sets of kings take the rest
  (`FullHuShown`, `PairOfKings`, `PairThatStays`). That the kings that remain come out
  as whole sets is counting modulo three, and is where the length test at the
  beginning of `check_can_hu` is needed.

`DbRequestProofs`, for any number of requests and workers, any choice of databases and
request kinds:

- `TypesHold`: `Spec => []TypeOK`.
- `PoolStaysClean`: `[]PoolInv`. The invariant follows a connection through a
  job: it is open only between a begin and the commit or rollback that every path
  to "report" passes.
- `PoolStaysSmall`: `[]ConnectionsBounded`. A worker takes a connection from the
  pool or makes one only when the pool is empty; the invariant counts by
  cardinality over the busy workers, all of whom are threads of the database's
  pool.
- `CallbacksOnce`: `Spec => CalledOnce`, the refinement of `DbPromise`: initial
  states map to initial states, and each step to a step of `DbPromise` or a
  stutter. Its invariant says that a callback that was called is not waiting, and
  that only requests made have either.
- `SqliteInOrder`: `SqliteKeepsOrder`. `QueueInv`: the jobs of SQLite wait in the order
  they were asked, behind the one in work and the results on their way.
- `TransactionsWhole`: `[]TransactionsUndone`. `WholeInv` says of each point of a
  transaction what it has done so far, and that nothing of it is committed before the
  commit unless the session was replaced.

`ConnectionsProofs`, for any peers, descriptors, connections and messages:

All of it is about connections whose name is their own (`Own`), with any number of
others beside them that share one.

- `ConnInvHolds`: the invariant. Engine and script share only names, so it speaks
  of each place in `exec_list`, of what the script will know when it gets there. What
  has a message behind the first n entries, or may still be read (`Comes`), has been
  announced by then (`Announced`) and is the last to take its name (`Leads`); the
  message is the next one after those it has been given (`Awaits`, with the numbers of
  what is in the wire, `WireInv`), or its agent has ended (`Dead`). `Follows` says of a
  name without a connection who will tell the script, and of one with a connection
  where its agent is to come from.
- `MessagesMeet`, `TablesAgree`: `[]MessagesMeetOwnAgent`, `[]TablesInv`.
- `ImplementsSession`: `KeepsSessions`, the refinement of `Session`; that the number of
  a message is the next one is what `Awaits` says at the head of the queue.

`HttpProofs`, for any requests, calls, threads and cookies:

- `TypesHold`; `AnswersReachOwn`: `[]AnswersOwnRequest`. What waits to be taken will
  have cookies that are free by then (`CookiesInv`); an entry of `exec_list` names the
  request its cookie stands for, and no two the same cookie (`EntriesInv`); so a job
  answers the request it was written for (`OwnAnswers`).
- `NobodyIsAnswered`: with the handler of the repository, which takes the first
  parameter for the cookie (`CookieParam` = 1), no request of a client is ever answered,
  and what is kept stays in `HttpMgr` until its cookie comes again. The run
  `http_recv` has the trace; the theorem says that no load, order or number of threads
  helps.

`RedisProofs`, for any commands, subscriptions, messages and losses:

- `RepliesAreOwn`: `[]RepliesInv`. A connection has at most one user and nothing to
  come while it is idle (`ConnInv`), two connections are enough, and an answer is that
  of the command that was asked (`AskInv`).
- `NothingIsLost`: `[]NothingLostWhileSubscribed`. The connection of a subscription
  goes from the redis thread to one loop and nobody else has it (`OwnerInv`, with
  `CountInv` for those still to be made); what the script has, the channel and the
  socket follow on each other (`FollowInv`).

`LoginProofs`, for any servers, gates, clients and statements of a save:

- `LoginInvHolds`: the invariant. The tables of a server are fed by messages in pairs,
  START and END of a save, CONSTRUCT and DESTRUCT of an account object; it speaks of
  what a table will say once the messages in its queue are taken (`Settles`). A freeze
  is then off, or a server still has an END to say or statements to be answered
  (`FreezeInv`); all servers will say the same of who is online, and if that is
  somebody there is an account object or a server with something to say of one
  (`OnlineInv`). A server says the second of a pair after the first (`SavesTold`,
  `ObjectsTold`). An assertion that ends a batch of messages undoes the first two, so
  these are claimed as long as none has.
- `TablesAgree`: `[]TablesInv`: at rest nothing is left to say.

`FramingProofs`, for messages, heads, limits and sockets of any size, cut up in any way:

- `FramingInvHolds`, `BytesKeepTheirOrder`: `[]BytesInv`. `StreamInv`: what the receiver
  has, the socket and what the sender kept are, one behind the other, a stream that
  begins with the message after the last one received and ends with the last one sent,
  also after the sender has closed, when its end may be missing. `CountInv`: the
  messages received are the first ones, in order. A write and a read move bytes within
  the stream and a send appends a message, so the work is in the loop of
  `try_dispatch_message`: `DispatchDefined` shows that it is a function of the place,
  from the end of the buffer to its beginning, and `DispatchTakes` that it takes
  messages with all their bytes, the right ones, and stops before one that is not there
  as a whole or at one that is longer than `ReadData`. Both are inductions over places,
  done with the least number for which they fail (`AllNumbers`).
- `ImplementsChannel`: `InOrder`, the refinement of `Channel`. A read that gives
  messages is `Receive`; a connection that ends is `End`, or `Break`, for which
  `TooManyToFit` counts: more than `TooBig` bytes of messages that all fit are more than
  `TooBig \div ReadData` messages.

Only model-checked: `Sound` and `NoWinMissed` of `CompleteHands`, which compare the
answer with all ways to lay out the hand; that definition is a recursive operator, which
TLAPS cannot take, and what it says of all hands is an induction over them.
`RequestsInv`, which is about the handler as it would have to be (`CookieParam` = 3), and
`NobodyWaits`, which needs to know of every waiter who is going to tell it, are left to
TLC as well. Liveness (`GameEnds`, `EveryoneCalled`, `LossNoticed`, `TakenIsReceived`,
`EveryoneIsAnswered`, `CommandsAnswered`, `MessagesArrive`, `WaitEnds`) is beyond TLAPS
here, as is ENABLED, and stays with TLC.

## 5. Where code and comments disagree

One run, `http_recv`, shows a state that the code's own text says cannot be:
`execute_http_func` calls `http_server_msg_recv` with method, headers, cookie, url,
body and address, and the handler still takes the cookie first, so that no request
to the server is answered.

The modules state more of what comments say and the code does not do. These are
not among the runs; add one to the configuration named (as an INVARIANT, or a
PROPERTY for those marked \*) and TLC shows the state.

| property | configuration | what TLC shows |
|---|---|---|
| `IdleDeskHasNoGhost` | `MCRoom` | a player that leaves during a game is never known to its desk as having left (`entity_leave` does not call `user_leave` then, so `is_escape` is always 0); when the game is over its record goes and its seat stays taken for ever, though `ddz_desk.lua:168` says that the end of the game clears all the state |
| `PlayersHaveRecords` | `MCRoom` | a user that logged out, sits and gets ready within ten seconds is destructed by the timer or not depending on when the game starts; a game can run with a player without a record, against `room.lua:58`, and its end then fails in `get_all_pea_amount` |
| `RecordedDeskSeats` | `MCRoomCrowd` | a user refused by a desk has the desk in its record, which `room.lua:118` calls the desk entered |
| `NobodyPlaysFromAnEmptyHand` | `MCDdzDesk` | a win that raises in `get_all_pea_amount`, since the room has dropped a record of the desk (`PlayersHaveRecords`), leaves the game in play with an empty hand, though `ddz_desk.lua:301` says that the position has won the match |
| `LordIsFinal`\* | `MCDdzDesk` | a bid during play deals the bottom cards again, to a new lord, though `ddz_desk.lua:99` says `finish_lord` determines him at last |
| `RetriesStartFresh` | `MCDdzDesk` | redeals are counted over games, unless a game was given up (`ddz_desk.lua:168`) |
| `ZeroMeansDone` | `MCDbRequest` | MySQL statements that fail are reported as 0, which `db_trait.rs:9` gives to those done |
| `TransactionsAllOrNothing` | `MCDbRequest` | SQLite transactions are not transactions, and a MySQL transaction goes on in autocommit on the session that replaced its own; `dbd.lua:275` tells transactions from batches by this |
| `LostMeetsOwnAgent` | `MCConnections` | the loss of a kicked connection ends the agent of the one that got its name; `global_comm.lua:67` speaks of the agent of this port |
| `EachMeetsOwnAgent` | `MCConnections` | WebSockets that go by one name have one agent, the last one's, and the messages of all come to it; `websocket_mgr.rs:31` makes the name, `unique`, of the token of an event loop that has no other connection |
| `EveryLossNoticed`\* | `MCConnections` | the end of a dialled socket that comes between `mio_event_mgr.rs:163` and `177` is dropped, though `read_end_callback` (`mio_event_mgr.rs:416`) is there to tell the script of every end: engine and script keep the connection for ever, if the script does not end it |
| `TablesAlwaysAgree` | `MCLoginCrowd`, with `MaxAgents` = 4 | messages lost with a batch that an assertion ended leave a server with an account online that nobody has, though `deal_with_respone_list` (`redis_queued.lua:100`) is for all of them |
| `MarksMeanWaiting` | `MCLogin` | an account is marked as waited for, and others kept out, when nobody waits: `logind.lua:177` and `194` publish CANCEL_WAIT_LOGIN and `accountd.lua:303` is there for it, but `deal_with_reply` knows no such channel |
| `FrozenWhileSaved` | `MCLogin` | END_HIBERNATE comes before the statements of the save are answered, since a part that has not changed says it is done (`user.lua:160`); `userd.lua:75` calls what announces it the callback of having frozen the user's record |

## 6. What is not modelled

- In the modelled parts: `db_select_sync` and `db_insert_sync`, which run a
  statement on the script thread with a connection of the same pool; MySQL's own
  rollback of a transaction on a deadlock between sessions; the walk of
  `timer_handle` over a table its callbacks insert into; the messages a room sends
  to its users; the pea amounts; `check_connect_timeout` compares milliseconds
  with a limit written in seconds (`MAX_KEEP_CONN`), which the model covers by
  letting any idle connection be too old.
- Connections between servers: `connectd.lua` and the forwarding of a gate; sequence
  numbers of messages; `new_client` fails as a whole when `peer_addr` does.
- Several accounts at once: `time_handle` of `logind.lua` returns after the first
  waiting login whose client is still there, and the others wait for its next turn.
- Logins that end at once (wrong password, ban, no such account) and the creation
  of accounts and users. The reads of a login succeed, except where a failure is an
  outcome of `LoadUser` and `GetUserList`: a timed out read of the account would
  create it anew. The marks online (10000 s) and frozen (100 s) do not age.
- Attributes of users and what of them a save writes; `shutdown`, which nothing in
  the repository calls.
- Commands between servers (`internal_commd.lua`, `cmd_logic.lua`): a command goes
  through three servers and their tables, whose messages `Login` and `Redis` model
  only as far as they need them.
- Card rules of Dou Dizhu (`ddz_d.lua`), items and containers: sequential code
  without state between calls, or bookkeeping on one thread. Planned last.
- Parts that stay out: the encoding of names and values (an external crate), SQL
  text, console, logs, start-up and import of scripts, client scripts,
  `LuaPanda.lua` (a vendored debugger), `http_mgr_old.rs` (not compiled).

## 7. Plan

Done: `DeskGame`, `Room`, `DdzDesk`; `DbPromise`, `DbRequest`; `Session`,
`Connections`; `Channel`, `Framing`; `Http`; `Redis`; `Login`; `MaJiang`,
`CompleteHands`; proofs about nine of them (section 4).

1. `Cards`, the kinds of hands of Dou Dizhu and their comparison; items; commands
   between servers, composed with `Room`.
