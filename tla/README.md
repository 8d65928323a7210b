# A verification project for gocygame

gocygame is a framework for game servers in Go (`libs/`) with a set of server
processes built on it (`apps/`). This directory holds TLA+ models of its
concurrent and distributed parts, TLC configurations that check them on small
instances, and TLAPS proofs. Paths below are relative to `src/`.

Run a check with `tlc -workers 2 -config MCSession.cfg MCSession`, a proof with
`tlapm LibsProof.tla`.

## 1. Inventory

How a process works: one goroutine, `Pooller.Pool` (`libs/utils/service.go`), is
the main loop. It takes calls from `ChanServer.ChanCall`, expired timers from
`TimerServer.ChanTimer` and callbacks from `GoServer.ChanCb`, and runs every
handler of the application. Each tcp connection has a reading goroutine, which
posts accept, receive and close events into `ChanCall` (and blocks while it is
full), and a writing goroutine, `sendLoop`. Outgoing connections belong to a
`tcp.Client`, whose goroutine redials. The processes find each other through a
cluster server, register with each other, and the gate passes what clients ask
for on to login and game servers.

| Component | State | Operations | What makes it hard | What makes it correct |
|---|---|---|---|---|
| **Session** `libs/net/tcp/session.go` | lock, closeFlag, closeChan, sendChan, connection | Send, Close, sendLoop | Send and Close on any goroutine, full channel, blocked write | no panic, no hang; in-order delivery; a refusal means closed |
| **chanrpc** `libs/chanrpc/chanrpc.go` | ChanCall, ChanAsynRet, pendingAsynCall | Call, AsynCall, Go, exec, ret, Close | Close against callers, counters beside channels | one true answer per call; the server never blocks |
| **Client, TcpClientMgr** `libs/net/tcp/client.go`, `apps/common/net/tcp_client.go` | client goroutine, closeFlag, sessions; map of entries | connect, Stop; AddClient, RemoveClient, session events | stale events of replaced clients; Stop waits in the main loop | events reach their own session; one client runs; Stop returns |
| **Main loop** `service.go`, `libs/go/go.go`, `libs/timer/timer.go` | queues, pendingGo, linear list, timers | Pool, Go, LinearContext.Go, Cb, Close, AfterFunc, Stop | callbacks that start functions; stop of a timer that has expired; shutdown | order of linear callbacks, every callback runs, Close ends |
| **Wheel timer** `libs/timer/wheel.go` | five wheels with pointers, nodes | SetTimer, DelTimer, Step | carry between wheels, unsigned remainders | a timer fires exactly on time |
| **Cluster server** `apps/clustersvr` and `apps/common/net/tcp_cluster.go` | registry, subscriptions, sessions | register, remove, broadcast | old sessions against new ones, lost broadcasts, restarts | what servers know agrees with the registry |
| **SvrsMgr, SvrGroup** `apps/common/net/server_mgr.go`, `svr_info`, `session`, `strategy`, `tools` | groups, tmp sessions, attributes, selectors | register request and answer, offline, send | events of several connections of one server overlap | both ends hold the living session; no closed session in a group |
| **Gate** `apps/gatesvr/src/player` with `loginsvr`, `gamesvr` | three maps of players, their state | accept, login, answers, close, server closed | late answers, refusals, repeated requests, double logins, broken links | one login of a session at a time, which comes to an end; no dangling player; logouts told |
| **Tcp and websocket servers** `libs/net/tcp/server.go`, `websocket.go` | listener, set of sessions | accept, serve, Stop | accept against Stop | those the application knows are closed by Stop; sessions leave the set; the process ends |
| **Framing, codec** `libs/net/tcp/protocol.go`, `apps/common/net/codec`, `OnRecv` of the logic sessions | widths and limits of the parsers, the byte stream | Marshal, Write, Read, Unmarshal, OnRecv | unsigned lengths of several widths, limits that differ, a broken stream, empty bodies | a reader stays in step with a writer |
| **Selectors, consistent hash** `apps/common/net/strategy`, `libs/utils/consisten_hash.go`, `apps/dbsvr/src/db` | members, ring, current id | add, remove, generate, SetElementId, Select | colliding spots panic half way; goroutines share a selector | an answer is a member and the owner of its id; only keys of the one that comes or goes move |
| **Logger** `libs/log` | channel, lock, Writer with its file and indices, the files | doPrintf, goLogWrite, Close, Write, rotate | rotation at the limit, at midnight and at start; Close against blocked callers | every line printed is in the files, in order |
| **grpc balancer** `libs/grpc/balancer` | list of addresses with flags, addrCh, waitCh | watchAddrUpdates, Up, down, Get, Close | Gets that wait between connections that come and go | no waiter is missed; grpc follows the list |
| **etcd registry** `libs/grpc/etcd`, `server.go`, `client.go` | key, lease, version; the watch | Register, UnRegister, Next | a new watch for every call; keys outlive their servers | the client's list is that of etcd, and converges to the servers that run |
| **Database server and client** `apps/dbsvr/src/operation`, `apps/common/dbengine` | requests in goroutines, their results, callbacks | Do, onRecvMsg, goroutine, callback, onRecvData (left out: no answer reaches it) | requests end in any order, connections break and come back | an answer is that of the request, and comes to the server that asked |
| **Cron expressions** `libs/timer/cronexpr.go`, `CronFunc` of `timer.go` | expression, timer | NewCronExpr, Next, CronFunc, Stop | ends of minutes, days, months and years; late callbacks | the next time is the first that the expression allows |
| **Bootstrap** `RunMutli` in `service.go` | started services | start, stop by priority | failing start, shutdown against traffic | a signal ends the process, main loop first |

Configuration, csv tables, the event listener, generated protocol code, examples
and test clients are not modelled (file input, tables filled at start, generated
or not part of the program). The hazards in PROJECT.json name the lines.

## 2. Modules

`Session` (with `Fifo` for the view of a suffix), refined to `Outbox`; `ChanRpc`;
`TcpClient`; `TcpServer`; `ServiceLoop`; `ClusterMgr`; `SvrLink`; `GateLogin`: each
is a module of its own with an `MC...` module and configurations. The libraries that
work on their own, `WheelTimer`, `Log`, `Balancer` (extended by `EtcdRegistry`),
`Selector`, `Framing`, `Cron` and `DbService`, have one `MC` module in common,
`MCLibs`: its variable `lib` says which of them runs, and the others stay in their
initial state, so that nothing is interleaved that does not interact. The
proofs are in modules of their own: `LibsProof` (Session, Balancer with EtcdRegistry,
DbService, Log, WheelTimer), `ChanRpcProof`, `TcpClientProof`, `ServersProof` (TcpServer,
ClusterMgr), `ServiceLoopProof` (ServiceLoop, Framing, Cron), `SvrLinkProof` and
`GateLoginProof` (GateLogin, Selector). They rest on `SeqLemmas`: facts about queues,
about quotients and remainders, and the induction and the existence of recursive functions
that section 4 explains. `Fifo` defines what the queues' proofs speak of (prefixes and
suffixes by index, the elements of a queue, how many of them are in a set). In every module an
action has the name of the function it models; comments give the rest. Operators
marked "Mutant" are broken variants of the definition that follows them, used to
show that a property can fail; no specification uses them.

**Session.** One action per step between two synchronisation points. `readers`
and `writer` are the RWMutex; Send runs `SendLock`, `SendCheck` (closeFlag),
`SendPush` or `SendFull` (the `select` with `default`), `SendReturn`. A full
channel makes Send unlock and close the session. Close runs `CloseLock`,
`CloseAgain` or `CloseConn`, `CloseCloseChan`, `CloseSendChan`, `CloseUnlock`.
`sendLoop` may take the branch of closeChan or of sendChan whenever both are
ready; a closed sendChan still yields its buffer (`LoopReceive`), then ends it
(`LoopDrained`). A message may be rejected by the encoder (`LoopReject`), written
(`LoopWrite`), or lost with a connection that does not work (`LoopLose`). The
peer reads when it likes: `LoopWrite` has no fairness, so a blocked write is a
behaviour. Sends on and closes of closed channels are recorded in `panicked`.

**Outbox.** What a session promises: messages are accepted while it is open, and
delivered in the order of acceptance; it may be cut at any time and then delivers
nothing more. `Session` implements it with the mapping of `Abstract`.

**ChanRpc.** Clients make synchronous calls, asynchronous calls and posts.
`pendingAsynCall` is a variable of its own, incremented (`AsynCount`) after the
send as the code does. A function that runs may panic before or after it has
returned something; `Exec` and `Ret` follow `exec` and `ret`. `Server.Close`
closes ChanCall and drains it with errors.

**TcpClient.** The entry of one server at TcpClientMgr, the goroutine of each
Client that was made for it, and ChanCall between the two. `Client.Stop` is cut
at `wg.Wait`: `BeginStop` and `StopReturns`; meanwhile the main loop handles
nothing. ChanCall is bounded, and goroutines block in `ChanServer.Go`.

**TcpServer.** A process from `RunMutli`'s start to its exit: the goroutine of
`RunMutli` (`main`), the main loop (`pool`), the listener and one goroutine per
connection (`pc`). `Stop` is cut where others can come between: closing the listener,
the start of `Range`, each visit. A `Range` may or may not see a session stored
meanwhile, as sync.Map allows. `kind` is what the configuration asks for, tcp (or tls)
or websocket: the latter has a handshake before the session is stored, and its
listener's goroutine panics when Stop closes the listener (`WsServeFails`), which
ends the process at whatever point Close has reached. Errors that Accept reports
as temporary, after which it tries again, are left out, and so is the inside of
`Session.Close`, which is `Session`'s.

**ServiceLoop.** `Pool` up to its end with the functions, linear contexts and
timers. A function may post to the main loop (`RunPost`) and block there. What
application callbacks do is external: they may start functions and set or stop
timers.

**ClusterMgr.** The registry and the subscription lists of the cluster server, the
connections of the servers to it with the messages in flight, and what each server
knows (`peers`). Servers restart at other addresses, connections break with
messages lost, the cluster server restarts empty. `StaysRegistered` and
`KnowsRegistry` state how far the code copes with sessions that overlap.

**SvrLink.** Both ends of the link between two servers: successive sessions of the
dialler, their logic sessions at both ends, registration and its answer, the
entries of the two SvrGroups and the closing of the session that was registered
before. `Shared` tells whether the dialler uses one message dispatcher for both
kinds of session, as gamesvr, loginsvr, dbsvr and worldsvr do, or two (gatesvr).

**GateLogin.** Clients, the gate, a login server and a game server. `where` says in
which map of the gate a player is; `state`, `uid` and `gsId` are its fields. The
links between servers break; the gate sends into a broken link until it handles the
close event. `loginMgr` and the game server's `playerMgr` are one action each.
Either server may refuse a login (`LoginFailed`, `GameLoginRefused`): the gate handles an
error of both, although the game server of the repository never answers one, which is
what `Refuses` is for. The account of a session is what the login server answers, so
two sessions may have the same one, and no property says that an account has one player. The empty login group, from which the hash selector cannot
select (it divides by zero, which the main loop recovers), is the case
"no login server".

**WheelTimer.** `SetTimer`, `DelTimer` and `Step` with the number and the sizes of
the wheels as a constant. The history variable `due` counts down independently.

**Log.** `doPrintf` is cut at the lock and at the send (`LogLock`, `LogPrint`);
`Close` at the lock and at `wg.Wait` (`LogCloseWant`, `LogCloseLock`,
`LogCloseEnd`); `goLogWrite` takes a line at a time (`LogWrite`), writes it with
the whole of `Write`, rotation and failing file calls included, and exits the
process after a fatal line, whatever else is in the channel. The disk outlives the
process; `LogRestart` is a new one that finds the files. Every line has size 1,
so that "the line no longer fits" is a count. The readings of the clock in
one `Write` may see two days.

**Balancer, EtcdRegistry.** A function that holds `mu` is one step;
`watchAddrUpdates` has one per update. In `Balancer` a watcher reports anything, and
Gets wait, give up, and meet `Close`. `EtcdRegistry` puts the code's watcher in its
place: servers that put their key every nine seconds with a lease of ten, whose
UnRegister cancels its context before it deletes with it, so that the key stays until
the lease ends (`Expire`); and a client that reads the keys once and then opens a
watch per call of `Next`. `stale` records the servers whose last event the client
could not see or had to ignore.

**Selector.** The ring with any hash values of the spots (`SpotHashes`), sorted by
`Generate` (a spot's place is its rank), or left as the walk over the map had built it
when two nodes collide and `generate` panics; `GetNode` is the binary search of
`sort.Search`, with its bounds after each round. Every node has `VirualSpots` spots: the
weights are 1, and then the share that the code computes in floating point is the whole
number, for the 40 spots of the code with any group of less than 249 nodes. `use` tells the
three uses apart; for the redis pools `SetElementId` and `Select` are two steps of a
goroutine, between which another one may set its own key.

**Framing.** Bytes have `FrameBase` values, and a uint32 four of them; heads and
lengths are put and got digit by digit, with the wrap of `uint32` where the code
subtracts. The sizes of messages are chosen around each limit and width. A stream
may be cut at any byte. `OnRecv` drops heartbeats, and messages without a body, on
which the code panics and recovers.

**Cron.** `NextTime` is the five loops of `Next` as one recursive function of the loop
and the time it has come to. `initFlag` is unset just as long as this time is the
upcoming second, because every round of a loop leaves it later. The calendar is a constant,
so that months and years may have any length; `CronAssumption` wants its days in order, and
two years of it behind the bound of the clock, for `Next` looks no further. `CronCb`
may come late. Parsing starts at the items of a field.

**DbService.** `Do` drops the error of Send; `OnRecvMsg` starts a goroutine with
results of its own; `Operate` ends it, in any order; `DbCallback` answers to the
session the request came by, if it is still connected; and with `RecvAnswer` the client
takes the answer. What an operation does is external: it returns a message, an error,
or nothing. The model ends there, because in the repository nothing comes of an
answer. The group `Do` needs comes with the answer to a registration, which arrives only
where the two kinds of session have dispatchers of their own (finding 3), as at the
gate, and the module assumes them. But there `DBEngineClient.Start` registers
`onRecvData` in `GetMsgDispatcher()`, which is the dispatcher of client sessions
(`apps/common/dbengine/db_client.go:30`, `apps/gatesvr/src/server.go:119-125`), while an answer
comes on a `SvrSession` that has the other one (`server_mgr.go:313`). That one
does not know the message, and hands it to `onRecvSvrTransmit`, which would send it to
every player, its head naming none. So under neither arrangement is a handler called
with an answer; and no server makes a request.

## 3. What the runs check

| Run | Distinct states | Shows |
|---|---|---|
| `session` | 36 002 | no panic (`NoPanic`), refusals and the end of sendLoop close the session (`RefusedMeansClosed`), every call and goroutine ends, and accepted messages are written if the peer reads (`GoesOn`), refinement (`ImplementsOutbox`) |
| `chanrpc` | 63 872 | every call is in exactly one place, answered once and truthfully, the counter is exact and the server never blocks (`AnsweredOnce`); calls return (`CallsReturn`) |
| `tcp_client` | 55 430 | events of replaced clients reach nobody else's logic session, one client at a time runs (`ReplacedIsGone`); logic sessions end and Stop returns with the exception below (`ClientEnds`) |
| `tcp_server` | 80 143 | connections the main loop knows are closed when Stop returns (`StopCloses`); ended ones leave the set and their logic sessions are closed, and a signal ends the process (`ServerEnds`) |
| `service_loop` | 61 764 | order of linear callbacks, and every callback runs (`CallbacksInOrder`), stopped timers are silent (`StoppedIsSilent`), the loop ends (`CloseEnds`) |
| `cluster` | 139 515 | registry and knowledge agree, registrations last (`RegistryHolds`), convergence (`Converges`) |
| `svr_link` | 7 359 | groups hold open sessions, sending follows registration, both ends agree (`LinkHolds`), a living link heals (`Heals`) |
| `gate_login` | 168 874 | a session has one login under way at most (`OneLogin`), no dangling player and eviction (`NoDeadPlayer`), logouts told (`OfflineTold`), logins complete, refused by either server or not (`LoginCompletes`) |
| `libs` | 439 243 | wheel timers fire exactly when due (`OnTime`); no log line is lost or out of order (`LogKept`) and nobody waits for ever in the logger (`LogEnds`); the balancer misses no waiter (`NoLostWakeup`); grpc follows the balancer's list and the list follows etcd (`ClientFollows`), and converges (`MCListConverges`); selectors answer with the owner, and keys stay where they can (`SelectsRight`); frames stay in step (`FramesInStep`); crons run at the first time allowed (`CronFollows`); a database answer is that of its request, is taken once and where the request was made, and is lost only with the connection (`DbAnswers`) |
| `cluster_unsubscribe` | | a counterexample: closed sessions stay subscribed |
| `gate_offline` | | a counterexample: an early leaver is never reported offline |
| `svr_shared_dispatcher` | | a counterexample: the game server cannot reach the world server |

**Bounds.** Session: two goroutines with two Sends and any number of Closes each, a
channel of one: enough for Send against Send on a full channel, Send against Close
and Close against Close. ChanRpc: two clients, two calls, ChanCall of two, one
answer: full queues on both sides, and one client's calls between the other's.
TcpClient: two addresses, three orders, three sessions, ChanCall of three, one
message: add, move and delete in any order with a session of the old client still
queued. TcpServer: two connections, ChanCall of one, one message each: a goroutine
blocked behind the other's event at every step of the shutdown, and a connection that
comes at any step of it. ServiceLoop: one timer, channels of one, three functions, three posts:
every channel full while the loop ends. ClusterMgr: two servers, of which one wants
the other, two addresses, four sessions, two faults: a restart and a broken
connection, with old and new sessions of one server. SvrLink: three sessions, so
that a late request, a late close and a living session meet; one notice. GateLogin:
two clients, two accounts, two tries, one broken link, and a game server that may
refuse any login; in `gate_offline`, which shows what this repository's servers do, it
never does (`Refuses`).

In `libs`, WheelTimer: wheels of 4, 2
and 4 slots, every interval from 1 to 31 at every position of the pointers; the
wheel sizes only matter as the factors of the arithmetic, and an extra wheel
repeats the step from the second to the third. Log: two callers, a channel of
one, files of three lines, seven lines, two days, two processes: one caller
blocked while the other prints, two rotations of one day and one of the next, a
full and a half full file met at start, Close against both callers. Balancer and
EtcdRegistry: two servers, two entries of each in the list, two Gets, two starts,
two events in a watch: an old entry of a server whose `down` comes behind the new
one, a restart at the same address, an event left behind in a response, two waiters on one channel. Selector:
three nodes of two spots each on a ring of three places, every such hash, with and
without collisions, keys before, at and after the spots, two goroutines. Framing: two
messages, bytes of four values, widths of one, two and four bytes, limits below, at
and above the widths, so that every one of the code's comparisons is met from both
sides by the lengths of the messages. Cron: minutes and hours of two, days of eight
seconds, weeks of four days, four years of two months with one of another length;
the 48 expressions that the code accepts of 108; the clock runs through nearly six days, past
two ends of months and one of a year. DbService: two
clients with two connections each and two requests: of one client over both
connections, or of both at once. Bounds on calls, orders, sessions
and faults are guards of the environment's actions and stop no reaction of the
code. Deadlock is not checked by TLC, because every system here ends when the
bounded environment has nothing left to do or the process has stopped; that
nobody waits for ever is a property of its own (`GoesOn`, `CallsReturn`,
`ClientEnds`, `ServerEnds`, `CloseEnds`, `LogEnds`, `Heals`, `LoginCompletes`).

**Fairness.** Goroutines are scheduled (WF of their steps), the main loop is too.
The session's write lock is acquired under strong fairness, because Go's RWMutex
makes later readers wait for a waiting writer. The goroutines of the
connections in TcpServer have strong fairness, because Go serves those that wait to
send on a channel in their order. Nothing is assumed of the network,
the peer, timers, clients or the application, nor of `LoopWrite`; only
`DrainsIfPeerReads` assumes, in its own statement, that the peer reads.
Handlers of received messages and of close events are fair because main loops run
and broken connections are noticed, by tcp or by the heartbeat. In `libs` only the
registry has fairness (`RpcFairness`): the goroutines of servers and client go on;
leases end; and a server's renewals, nine seconds apart, do not for ever fall into
the moment between two watches of the client (strong fairness of `SeenRenew` and
`SeenNineSeconds`), which is not a matter of scheduling but of the two time scales.
Strong fairness of `Expire` makes up for `MaxEvents`, which may hold it back. `LogEnds`
takes no fairness: it says that while somebody waits a goroutine of the logger can
go on, and every such step leaves less to do.

**Exceptions stated in properties.** `ClientEnds` excepts the state
`Stuck`: the main loop waits in `Client.Stop` for a goroutine that waits for room
in ChanCall, which only the main loop makes. The code can get there, ChanCall being
bounded. `KnowsRegistry` speaks of removed servers only for servers that have not
lost their cluster connection (`fresh`), `StaysRegistered` only of sessions whose
predecessors were closed before (`clean`), because answers only add and late closes
do remove. `LinkHolds` speaks of two dispatchers; what one does is `Notified`. `LoginCompletes`
excepts broken links: nothing times a login out (a todo in the code says so), and
`OfflineTold` players that leave before their game server is known. `LogKept`
excepts lines behind a fatal one, and what the history `logCause` names: a failing
file call; a full file met by a first Write, which is archived under an index that is
then used again, so that the next rotation replaces the archive (`file.go:129`,
`158`); and midnight between two readings of the clock in one Write (`file.go:57`,
`130`). `ClientFollows` and `ListConverges` except the servers in `stale`, whose last
event fell between two watches or stayed behind in one. `SelectsRight` lets a
goroutine of the database server get the pool of another one's key if that one has set it
in between (`alone`). `FramesInStep` excepts messages without a body, and lengths
that their width cuts off. What is excepted here is what the code does, and a property
would not notice if it did it more often: the hazards at these lines name no property
in PROJECT.json, and say which one excepts them.

**Findings.**
1. `apps/clustersvr/src/svrs_mgr/mgr.go:159`: the loop under the comment 取消订阅
   (unsubscribe) appends the tail of the list to the list, and removes nothing.
2. `apps/gatesvr/src/player/mgr.go:102`: the notice under the comment 通知Game服务器
   玩家下线 is not sent for players whose game server's id has not arrived.
3. `apps/gamesvr/src/server.go:67-68` with `apps/common/net/server_mgr.go:57-61`:
   with a shared dispatcher the handler of the registration's answer is replaced, so
   the 通知world服务器 of `apps/gamesvr/src/player/mgr.go:59` finds no world server.

## 4. What is proved

The theorems hold for every value of the constants that satisfies the `ASSUME` of the
module, which says no more than that capacities and bounds are numbers (a channel
that is made with a capacity has a positive one), that tables have the right domains,
that a mark such as `None` is none of the values it is told from, and, of the calendar
of Cron, that a day is followed by the next one and the end is never met. One theorem has
a hypothesis of its own, named below. TLC checked each inductive invariant on the
run of its component before it was proved.

None of the properties is inductive. Each proof has the same course: an invariant
`IInv` (or `SrvInv`, `RegInv`, `DbInv`, `LogInv`, `WheelInv`, `FrameInv`, `SelInv`,
`CronInv`, `LogTypes`) made of named parts; one lemma for each
action, or group of actions, that shows that a step keeps it, with a step for each
part that the action can disturb; a lemma that collects them to `Spec => []IInv`;
and the theorems from that. Messages are followed through queues by three views: the
elements of a queue (`Elems`), how many of them are in a set (`Count`), and suffixes.

What the recursive functions compute is proved as well. The library's induction rules have
an operator as a parameter and cannot be used here, but its theorem that the order of the
numbers is well founded speaks of sets only. From it `SeqLemmas` derives that a set of
numbers has a least element (`LeastElement`), from that induction as a statement about
sets of numbers (`IntervalInduction`: a set that contains the first number of an interval,
and with one the next, contains the interval), and from both that a recursive function
exists: over the numbers (`RecursionExists`), and for a loop whose every round lowers a
measure (`LoopExists`).

**Session** (`LibsProof`). `TypeCorrect`; `NeverPanics`: no send on a closed channel, no
second close of one; `WireIsPrefix`: what is written is a prefix of what was accepted;
`RefusalIsFinal`: a refusal or an ended sendLoop means a session closed as a whole;
`SessionImplementsOutbox`: the refinement, initial states and steps. `LockInv` says
who is in the lock from where the goroutines are; `CloseInv`, which channels are closed
from the stages of Close, and that a Send past its check holds the read lock, so that
closeFlag cannot have been set; `FifoInv`, that sendChan is a suffix of the accepted
messages and what is in flight is the one before it. The refinement takes from the
invariant that a message is accepted only with closeFlag unset, and that what is
delivered is the next accepted message.

**ChanRpc** (`ChanRpcProof`). `TypeCorrect`, in which ChanAsynRet never holds more
than its capacity; `EveryCallAnsweredOnce` (`AnsweredOnce`); and the action property
`AnswersAreFinal`: a call answered once is never answered again. The invariant counts
the places of each call (`PlacesInv`: exactly one for a call that was begun),
the synchronous calls of a client that waits (`WaitInv`), and ties every answer, wherever it is,
to whether the function ran (`TruthInv`). `pendingAsynCall` is exact because each of
its increments and decrements moves one call.

**Main loop** (`ServiceLoopProof`). `TypeCorrect`; `CallbacksAreKept`
(`CallbacksInOrder`); and the action property `StoppedTimersAreSilent`
(`StoppedIsSilent`). The order of linear callbacks rests on this: as many goroutines wait for
the mutex as the list has entries, and the entry that one of them takes is older than the rest of the
list and younger than every callback that was sent (`ListInv`, `JobInv`, `SentInv`),
although any of the goroutines may get the mutex first. `pendingGo` is the number of
goroutines that have not ended plus the callbacks that wait.

**Client** (`TcpClientProof`). `TypeCorrect` and `ReplacedLeavesNothing`
(`ReplacedIsGone`). Entries are matched by address, not by client, so that what keeps
the events of a replaced client from its successor is their order in ChanCall.
`BlocksInv` says it for each session: its events begin once, at a connect in the queue
or with the entry in place; between that and an event of another session lies its
close; and without a goroutine that works on it, its close is in the queue. So the
head of the queue is never another session's while the entry has one, and the close
resets the entry in time. `RunInv` (only the client in place runs) makes the next
client post behind the last one's close; `FreshInv` says that a session has no events
before its connect is posted; `OrderInv` bounds the clients by the orders.

**Tcp server** (`ServersProof`). `TcpTypeCorrect` and `StopClosesConnections`
(`StopCloses`). `ConnInv` says which goroutines have their session in the set, and
that the main loop knows of a connection only after it was stored; `StopInv`, that
Stop runs when the main loop has ended, and that the walk has yet to visit what it
has not closed.

**Cluster server** (`ServersProof`). `TypeCorrect` and `ServersFindEachOther`
(`RegistryHolds`). For a pair of servers, `KnowsRegistry` says that the last message
in flight that speaks of the second, or what the first knows if there is none, gives
the address in the registry (`Leads`); the lemmas are about appending to such an inbox
and taking from it. `SubscribedInv` is what the bug of finding 1 leaves: sessions are
never taken from the subscribers, so that a registered server is one of them.

**SvrLink** (`SvrLinkProof`). `TypeCorrect`; `EntriesCanBeUsed` (`EntryUsable`), for
one dispatcher or two; and `BothEndsHoldTheLink` (`LinkHolds`) under the hypothesis
`~Shared`, which the gate satisfies, and without which the registration's answer is
not understood (finding 3). `LiveInv` is the core: a connection that lives and is open at the dialler
has its request under way, or is the entry at the acceptor with the answer
under way or the entry at the dialler.

**Gate** (`GateLoginProof`). `TypeCorrect`; `OneLoginAtATime` (`OneLogin`);
`NoPlayerIsLeft` (`NoDeadPlayer`); `OfflineIsTold` (`OfflineTold`); with a game server that
refuses logins or one that does not. `OneLogin` counts the requests, answers and game
messages of a session over both links, so that a late answer cannot meet a second login
of that session; two sessions of one account are two players. `OnlineInv` gives `OfflineTold`: while no link breaks, an
account that is online at the game server has a player at the gate, or a message under
way that makes it one or puts it offline.

**Balancer and registry** (`LibsProof`). `GetsAreWoken` (`NoLostWakeup`) and
`ConnectionsFollowTheList` (`GrpcFollows`) of the balancer alone; `RegistryIsFollowed`
(`ClientFollows`) and `RegTypeCorrect` of both together. `ListInv` says that a server is in the list
once and that the numbers of its entries grow, so that `Up` and `down` for
an entry that was replaced do not meet the new one. `FollowsInv` follows a change
from etcd through the events of the watch and what is left of a response to the list:
the last of them that speaks of a server has its version (`Told`).

**Database server** (`LibsProof`). `AnswersReachTheAsker` (`DbAnswers`) and
`DbTypeCorrect`. `PlaceInv` says that a request is in one place at a time: on its way,
in a goroutine, in ChanCb, in an answer under way, or in one that was taken; and that it has
the result of its own operation there. Nothing is proved of handlers, which are not called. `AskedInv` ties the session of a request to who asked, and
`AnsweredInv` says that a request whose connection is there is in one of these places.

**Log** (`LibsProof`). `LogTypeCorrect`, with any faults of the file system, and `LinesKept`
(`LogKept`). `ChanInv` says that the channel holds the
last lines that were printed, in order, so that what is taken from it is the next one;
`FilesInv` that what was taken is in the files or was cut off by an exit. Of the files it
needs more than their order: the archives of a day are numbered from 1 without a gap, so
that the index `getCurFileIndex` finds is behind all others (`FreeIndex`), and a Writer
that has written keeps the index of its file one behind the last archive (`WriterOK`), so
that a rotation replaces no archive (`Archive`). All of it holds while the history names
no cause; a file found full by the first Write breaks `WriterOK`.

**Wheel timer** (`LibsProof`). `WheelTypeCorrect` and `TimersOnTime` (`OnTime`), for any
number of wheels of any sizes. `WheelInv` gives every node in slot k of a wheel its place
in time (`Waits`): k lies further on than the pointer, the ticks that are left are those of
the slots between, less what the lower pointers have run already, plus what the node will
have to wait in lower wheels; and the node leaves its wheel before any pointer above moves
past what it needs. `Base` is a product over the wheels below, and `Place` and `Turn`, walks over
the wheels, are followed by induction over their number.

**Framing** (`ServiceLoopProof`). `FrameTypeCorrect` and `ReaderInStep` (`FramesInStep`), for
any base of the bytes, messages and limits. `FrameInv` says that in what is left of the
stream the frames that were written and not read lie one behind the other, up to where it
was cut (`FramesAt`). So the reader stands at the head of a frame, and what it finds there is
what `PutLen` had put, digit by digit, taken modulo the width: the length itself, or, where
the width has cut it off, one that the reader refuses.

**Selectors** (`GateLoginProof`). `SelTypeCorrect` and `SelectsCorrectly` (`SelectsRight`), for any
nodes, hash values and keys. `SelInv` has a ring that is made of spots of members, all of
them and in order unless two nodes collide (`RingInv`, `Made`); ids that were answered for
the group as it is or was (`AskedInv`); and that what the search finds is the owner
(`SelectsOwner`). That a sort by rank is a sort, and that the rounds of `sort.Search` keep the
sought index between their bounds until they meet, are inductions of their own.

**Crons** (`ServiceLoopProof`). `CronTypeCorrect` and `CronsRunOnTime` (`CronFollows`), for
any calendar in order and any expressions. `CronInv` says little; the work is what
`NextTime` computes (`NextFinds`). Wherever the search has come (`At`), the loops before the
one it is in match, and, but for the upcoming second, a field that does not match yet has begun its
round, all finer fields being at their lowest values. A round ends where the next one begins
(`RoundEnds`), a month of any length too, and no second that is passed in it matches; so nothing
the expression allows is passed over. The search ends because every step is to a later time or to the
next loop (`ToGo`).

**Only model-checked.** All liveness (`GoesOn`, `CallsReturn`, `ClientEnds`, `ServerEnds`,
`CloseEnds`, `Converges`, `Heals`, `LoginCompletes`, `MCListConverges`), and `LogEnds`, which is about
ENABLED: the provers do not reach them. `MCTypeOK` only joins the type invariants of the
libraries, each of which is proved by itself. That the values the `MC` modules give to the
constants satisfy the `ASSUME`s is TLC's to check.

## 5. Plan

Written first, because everything else runs on them: Session, chanrpc, the client
and server, and the main loop; then the protocols between processes: cluster,
registration, login; then the libraries of the run `libs`. Next, in this order:

1. Compositions: ChanRpc as an abstract queue implemented by its ChanCall, used as
   the mailbox of TcpClient, TcpServer and ServiceLoop; SvrLink under TcpClient's
   sessions.
2. Groups of several servers in SvrLink, with the range lookups of `SendByCSId`;
   `RunMutli` with several services, which no main function has; descriptors of a
   client that redials.

## 6. Abstractions and what is left out

Messages are identities, payloads and encodings are left out; addresses, accounts
and sessions are model values. Times are left out: timers expire when they like,
redials happen when they like, a heartbeat timeout is one cause of a lost
connection. In TcpClient the whole manager at the process's end
(`TcpClientMgr.Stop`) and clients without AutoReconnect, which no server uses, are
not modelled. In ClusterMgr there is one group of servers (`Clus_grp`); in SvrLink
one server id per group; in GateLogin one login and one game server, and no
forwarding of other messages. WheelTimer leaves out the order within a slot and
handlers that set timers. Log leaves out levels and the console; EtcdRegistry several
services of one server; Selector weights other than 1 and operations nobody calls;
Framing the order of bytes within a head.

Not modelled, with reasons:

- Forwarding at the gate (`apps/gatesvr/src/server.go:182-221`). Nothing in the
  repository sets `Session_attribute_player_id`, so that every message of a client
  is refused at line 185; in the other direction the first player who is gone panics,
  because line 213 compares an interface that holds a nil pointer with nil. Neither
  changes the state of the gate.
- The descriptor that `libs/net/tcp/client.go:135` leaves open when it redials
  after an error of the peer: no model here counts descriptors.
- The panic of a websocket server's goroutine at Stop (`libs/net/tcp/websocket.go:80`)
  is an action of TcpServer (`WsServeFails`), but no property calls it wrong.
- Answers to a login that are lost with the link (`apps/gatesvr/src/player/mgr.go:144`):
  `LoginCompletes` excepts them, the code having a todo in place of a timeout.
- `DBEngineClient.onRecvData` and the handlers it would call
  (`apps/common/dbengine/db_client.go:30`, `96-120`): no answer reaches them, as section 2 says
  under DbService.
- The Dial functions of the redis pools (`apps/dbsvr/src/db/mgr.go:30`) capture the
  variable of the loop, so that all pools dial the last address; the pools are
  values here, and their connections external.
- Reading of configuration and csv tables, the event listener, generated protocol
  code, examples and test clients.
