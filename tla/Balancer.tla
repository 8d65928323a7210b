-------------------------------- MODULE Balancer --------------------------------
(***************************************************************************)
(* The balancer of the grpc clients (libs/grpc/balancer/serverid.go).  It  *)
(* keeps the addresses a naming watcher reports, tells grpc which ones to  *)
(* connect to, learns by Up and down which ones are connected, and gives   *)
(* one of those to each Get.  A Get that finds none waits on a channel     *)
(* that Up closes.                                                         *)
(*                                                                         *)
(* An address is a grpc.Address: the server's own address and a pointer to *)
(* its metadata, so that one decoded anew is another address; num tells    *)
(* the entries a server has had in the list apart.  The functions that     *)
(* hold mu are one step each, but for watchAddrUpdates, which takes one    *)
(* step per update.                                                        *)
(*                                                                         *)
(* The watcher reports any updates here; EtcdRegistry.tla has the one of   *)
(* the code.  grpc itself (the actions marked external) keeps a connection *)
(* for every address of the list it has read last.                         *)
(***************************************************************************)
EXTENDS Integers, Sequences

CONSTANTS
  Servers,   \* addresses of servers
  Callers,   \* goroutines that call Get
  NoList,    \* addrCh is empty
  MaxEntries \* bound: entries a server ever has in the list

Address == [addr : Servers, ver : Nat, num : Nat]

ASSUME BalancerAssumption == NoList \notin Seq(Address)

VARIABLES
  addrs,      \* addrs: the addresses, each with its flag connected
  entries,    \* how many entries each server has had
  watching,   \* the goroutine of watchAddrUpdates runs
  todo,       \* updates watchAddrUpdates still has to apply; it has mu
  mu,         \* watchAddrUpdates holds mu
  addrCh,     \* the list waiting in addrCh
  next,       \* index, from 0, of the next address for Get
  waitCh,     \* waitCh is not nil
  done,       \* Close was called
  waiting,    \* the Gets that wait: "no", on waitCh, or on a channel since "closed"
  dialled,    \* grpc: addresses it has a connection for, made or not
  connected   \* grpc: those of them that are up, and of which the balancer was told

balVars == <<addrs, entries, watching, todo, mu, addrCh, next, waitCh, done, waiting, dialled, connected>>

BalInit ==
  /\ addrs = <<>> /\ entries = [s \in Servers |-> 0]
  /\ watching = FALSE /\ todo = <<>> /\ mu = FALSE /\ addrCh = NoList
  /\ next = 0 /\ waitCh = FALSE /\ done = FALSE
  /\ waiting = [c \in Callers |-> "no"]
  /\ dialled = {} /\ connected = {}

Positions == 1..Len(addrs)
Has(s) == \E i \in Positions : addrs[i].addr.addr = s

\* Start, with the resolver's watcher.
BalStart ==
  /\ ~watching /\ ~mu /\ ~done /\ watching' = TRUE
  /\ UNCHANGED <<addrs, entries, todo, mu, addrCh, next, waitCh, done, waiting, dialled, connected>>

\* watchAddrUpdates, once its watcher has returned the updates.
WatchLock(updates) ==
  /\ watching /\ ~mu /\ mu' = TRUE /\ todo' = updates
  /\ UNCHANGED <<addrs, entries, watching, addrCh, next, waitCh, done, waiting, dialled, connected>>

Added(s, ver) ==
  /\ entries' = [entries EXCEPT ![s] = @ + 1]
  /\ addrs' = Append(addrs, [addr |-> [addr |-> s, ver |-> ver, num |-> entries'[s]],
                             connected |-> FALSE])

\* Mutant: a server that is known already is added once more.
WatchAddTwice(s, ver) == Added(s, ver)

\* naming.Add: an address that exists keeps its entry, and its metadata.
WatchAdd(s, ver) == IF Has(s) THEN UNCHANGED <<addrs, entries>> ELSE Added(s, ver)

\* naming.Delete.
WatchDelete(s) ==
  /\ UNCHANGED entries
  /\ \/ ~Has(s) /\ UNCHANGED addrs
     \/ \E i \in Positions :
          /\ addrs[i].addr.addr = s
          /\ addrs' = [j \in 1..(Len(addrs) - 1) |-> IF j < i THEN addrs[j] ELSE addrs[j + 1]]

\* The next update.
WatchApply ==
  /\ mu /\ todo # <<>> /\ todo' = Tail(todo)
  /\ LET u == Head(todo)
     IN  IF u.op = "add" THEN WatchAdd(u.addr, u.ver) ELSE WatchDelete(u.addr)
  /\ UNCHANGED <<watching, mu, addrCh, next, waitCh, done, waiting, dialled, connected>>

\* Mutant: an unread list is left in the channel.
WatchNotifyKeeps ==
  /\ mu /\ todo = <<>> /\ mu' = FALSE /\ watching' = ~done
  /\ addrCh' = IF done \/ addrCh # NoList THEN addrCh ELSE [i \in Positions |-> addrs[i].addr]
  /\ UNCHANGED <<addrs, entries, todo, next, waitCh, done, waiting, dialled, connected>>

\* The list replaces one that was not read; once the balancer is closed the
\* goroutine ends instead.
WatchNotify ==
  /\ mu /\ todo = <<>> /\ mu' = FALSE /\ watching' = ~done
  /\ addrCh' = IF done THEN addrCh ELSE [i \in Positions |-> addrs[i].addr]
  /\ UNCHANGED <<addrs, entries, todo, next, waitCh, done, waiting, dialled, connected>>

\* Whoever waits on waitCh wakes up.
Wake(w) == [c \in Callers |-> IF w[c] = "waitCh" THEN "closed" ELSE w[c]]
SetConnected(gone, up) ==
  [i \in Positions |->
     [addrs[i] EXCEPT !.connected = (@ \/ addrs[i].addr \in up) /\ addrs[i].addr \notin gone]]

\* Mutant: the waiting Gets are woken by the second connection only.
UpLate(a) ==
  /\ ~mu /\ connected' = connected \cup {a}
  /\ addrs' = SetConnected({}, {a})
  /\ LET first == {i \in Positions : addrs'[i].connected} \in {{1, 2}}
     IN  /\ waitCh' = (waitCh /\ ~first)
         /\ waiting' = IF waitCh /\ first THEN Wake(waiting) ELSE waiting
  /\ UNCHANGED <<entries, watching, todo, mu, addrCh, next, done, dialled>>

\* Up: grpc has connected to the address.  Waiting Gets are notified if it is
\* the only connected one.
Up(a) ==
  /\ ~mu /\ connected' = connected \cup {a}
  /\ addrs' = SetConnected({}, {a})
  /\ LET again == \E i \in Positions : addrs[i].addr = a /\ addrs[i].connected
         only == \E i \in Positions : addrs'[i].connected
                                        /\ \A j \in Positions \ {i} : ~addrs'[j].connected
     IN  IF waitCh /\ only /\ ~again
         THEN waitCh' = FALSE /\ waiting' = Wake(waiting)
         ELSE UNCHANGED <<waitCh, waiting>>
  /\ UNCHANGED <<entries, watching, todo, mu, addrCh, next, done, dialled>>

\* down.
Down(a) ==
  /\ ~mu /\ connected' = connected \ {a}
  /\ addrs' = SetConnected({a}, {})
  /\ UNCHANGED <<entries, watching, todo, mu, addrCh, next, waitCh, done, waiting, dialled>>

\* External: grpc takes the list; it calls down for the connections it closes.
ReadList ==
  /\ ~mu /\ addrCh # NoList /\ addrCh' = NoList
  /\ LET list == {addrCh[i] : i \in DOMAIN addrCh}
     IN  /\ dialled' = list /\ connected' = connected \cap list
         /\ addrs' = SetConnected(connected \ list, {})
  /\ UNCHANGED <<entries, watching, todo, mu, next, waitCh, done, waiting>>

(* ------------------------------------ Get ------------------------------ *)

\* The index the rotation starts from, and how far from it a position is.
First == IF next >= Len(addrs) THEN 0 ELSE next
Distance(i) == (i - 1 - First + Len(addrs)) % Len(addrs)

\* The next connected address in the rotation.
Chosen(i) ==
  /\ i \in Positions /\ addrs[i].connected
  /\ \A j \in Positions : addrs[j].connected => Distance(i) <= Distance(j)
NoneConnected == \A i \in Positions : ~addrs[i].connected

Rotate2(i) == next' = i % Len(addrs)

\* Get with a serverId in its context answers with the entry of that server, or
\* with an error if it is not connected or its version is not the one asked for.
GetById(s) == {addrs[i].addr : i \in {j \in Positions : addrs[j].addr.addr = s}}

\* Get: an address is connected.
GetFound(c) ==
  /\ ~mu /\ ~done /\ waiting[c] = "no"
  /\ \E i \in Positions : Chosen(i) /\ Rotate2(i)
  /\ UNCHANGED <<addrs, entries, watching, todo, mu, addrCh, waitCh, done, waiting, dialled, connected>>

\* Get without BlockingWait: the next address whether it is connected or not,
\* an error when there is none.
GetFailFast(c) ==
  /\ ~mu /\ ~done /\ waiting[c] = "no" /\ NoneConnected
  /\ next' = IF addrs = <<>> THEN next ELSE First + 1
  /\ UNCHANGED <<addrs, entries, watching, todo, mu, addrCh, waitCh, done, waiting, dialled, connected>>

\* Get with BlockingWait, when no address is connected.
GetWaits(c) ==
  /\ ~mu /\ ~done /\ waiting[c] = "no" /\ NoneConnected
  /\ next' = IF addrs = <<>> THEN next ELSE First
  /\ waitCh' = TRUE /\ waiting' = [waiting EXCEPT ![c] = "waitCh"]
  /\ UNCHANGED <<addrs, entries, watching, todo, mu, addrCh, done, dialled, connected>>

\* Mutant: returns what was connected, or goes on waiting on the old channel.
GetWakesOnce(c) ==
  /\ ~mu /\ waiting[c] = "closed"
  /\ \/ done /\ waiting' = [waiting EXCEPT ![c] = "no"] /\ UNCHANGED <<next, waitCh>>
     \/ /\ ~done /\ \E i \in Positions : Chosen(i) /\ Rotate2(i)
        /\ waiting' = [waiting EXCEPT ![c] = "no"] /\ UNCHANGED waitCh
     \/ /\ ~done /\ NoneConnected /\ UNCHANGED <<next, waitCh>>
        /\ waiting' = [waiting EXCEPT ![c] = "waitCh"]
  /\ UNCHANGED <<addrs, entries, watching, todo, mu, addrCh, done, dialled, connected>>

\* The channel it waits on was closed: an address, an error after Close, or
\* another wait when the connection has gone again.
GetWakes(c) ==
  /\ ~mu /\ waiting[c] = "closed"
  /\ \/ done /\ waiting' = [waiting EXCEPT ![c] = "no"] /\ UNCHANGED <<next, waitCh>>
     \/ /\ ~done /\ \E i \in Positions : Chosen(i) /\ Rotate2(i)
        /\ waiting' = [waiting EXCEPT ![c] = "no"] /\ UNCHANGED waitCh
     \/ /\ ~done /\ NoneConnected /\ next' = IF addrs = <<>> THEN next ELSE First
        /\ waitCh' = TRUE /\ waiting' = [waiting EXCEPT ![c] = "waitCh"]
  /\ UNCHANGED <<addrs, entries, watching, todo, mu, addrCh, done, dialled, connected>>

\* The caller's context ends.
GetGivesUp(c) ==
  /\ waiting[c] # "no" /\ waiting' = [waiting EXCEPT ![c] = "no"]
  /\ UNCHANGED <<addrs, entries, watching, todo, mu, addrCh, next, waitCh, done, dialled, connected>>

\* Close, and the end of addrCh for grpc.
BalClose ==
  /\ ~mu /\ ~done /\ done' = TRUE
  /\ waitCh' = FALSE /\ waiting' = IF waitCh THEN Wake(waiting) ELSE waiting
  /\ addrCh' = NoList
  /\ UNCHANGED <<addrs, entries, watching, todo, mu, next, dialled, connected>>

Get(c) == GetFound(c) \/ GetFailFast(c) \/ GetWaits(c) \/ GetGivesUp(c)

\* Any updates a watcher may return: of servers it has not reported too often.
Updates == {u \in [op : {"add", "delete"}, addr : Servers, ver : {1}] :
              u.op = "add" => entries[u.addr] < MaxEntries}

\* External: grpc has made a connection, or one breaks.
Connects(a) == a \in dialled \ connected /\ Up(a)
Breaks(a) == a \in connected /\ Down(a)

BalNext ==
  \/ BalStart \/ WatchApply \/ WatchNotify \/ ReadList \/ BalClose
  \/ \E u \in Updates : WatchLock(<<u>>)
  \/ \E u, v \in Updates : u.addr # v.addr /\ WatchLock(<<u, v>>)
  \/ \E a \in dialled : Connects(a) \/ Breaks(a)
  \/ \E c \in Callers : Get(c) \/ GetWakes(c)

BalSpec == BalInit /\ [][BalNext]_balVars

-------------------------------------------------------------------------------
\* Types of the variables.
BalTypeOK ==
  /\ addrs \in Seq([addr : Address, connected : BOOLEAN])
  /\ entries \in [Servers -> Nat]
  /\ todo \in Seq([op : {"add", "delete"}, addr : Servers, ver : Nat])
  /\ watching \in BOOLEAN /\ mu \in BOOLEAN /\ (todo # <<>> => mu)
  /\ addrCh = NoList \/ addrCh \in Seq(Address)
  /\ next \in Nat /\ waitCh \in BOOLEAN /\ done \in BOOLEAN
  /\ waiting \in [Callers -> {"no", "waitCh", "closed"}]
  /\ dialled \subseteq Address /\ connected \subseteq dialled

\* A Get waits on waitCh only while no address is connected and the balancer
\* is open: neither the order of Up, down and updates of the list, nor a Get
\* that begins between them, makes Up count two connections, which would
\* close no channel, while somebody waits (serverid.go:138, 244-249, 285-290).
NoLostWakeup ==
  /\ waitCh => NoneConnected /\ ~done
  /\ \A c \in Callers : waiting[c] = "waitCh" => waitCh

\* What grpc has read, or will read next, is the list as it is, so that it
\* connects to every server of the list and to no other, however many changes
\* it slept through; and the flags of the entries are those of its connections,
\* although Up and down may come for an entry that is gone or was replaced by a
\* new one of the same server (serverid.go:44-87, 122-157).
GrpcFollows ==
  /\ \A i \in Positions : addrs[i].connected <=> addrs[i].addr \in connected
  /\ ~mu /\ ~done =>
       LET list == {addrs[i].addr : i \in Positions}
       IN  IF addrCh = NoList THEN dialled = list
           ELSE list = {addrCh[i] : i \in DOMAIN addrCh}
===============================================================================
