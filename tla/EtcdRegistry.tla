------------------------------ MODULE EtcdRegistry ------------------------------
(***************************************************************************)
(* Servers that register themselves in etcd (libs/grpc/etcd/service.go,    *)
(* libs/grpc/server.go) and a client that follows the registry (libs/grpc/ *)
(* etcd/client.go, libs/grpc/client.go) with the balancer of Balancer.tla. *)
(*                                                                         *)
(* A server puts its key with a new lease of ten seconds every nine; the   *)
(* key outlives the server until the lease ends.  The client reads the     *)
(* keys once; every later call of Next opens a watch of its own, takes one *)
(* response from it and leaves it, so that what happens between two calls  *)
(* is not seen.  A server is its address; a process started again at the   *)
(* same address has another version.  The client is not closed here, and   *)
(* what grpc and its callers do with the list is left to Balancer.tla.     *)
(***************************************************************************)
EXTENDS Balancer, FiniteSets

CONSTANTS
  MaxStarts,   \* bound: processes started, and renewals so late that the lease
               \* has ended, of all servers together
  MaxEvents    \* bound: events in a watch not yet received

ASSUME RegistryAssumption ==
  {MaxStarts, MaxEvents} \subseteq Nat

VARIABLES
  proc,      \* process of each server: "down", "up", "stopping" (in UnRegister)
  version,   \* its version
  renewal,   \* its registering goroutine: "none", "due" (to grant and put), "waits"
  key,       \* etcd: the version in the value of its key, 0 for no key
  watcher,   \* the client: "new", "first" (Next will read the keys), "between"
             \* two watches, "watches"
  events,    \* etcd: events of the watch, not yet received
  started,   \* processes started so far, and late renewals
  stale      \* history: servers whose last event was lost or ignored

regVars == <<proc, version, renewal, key, watcher, events, started, stale>>
rpcVars == <<balVars, regVars>>

RegInit ==
  /\ proc = [s \in Servers |-> "down"] /\ version = [s \in Servers |-> 0]
  /\ renewal = [s \in Servers |-> "none"] /\ key = [s \in Servers |-> 0]
  /\ watcher = "new" /\ events = <<>>
  /\ started = 0 /\ stale = {}
  /\ BalInit

(* ------------------------------------ etcd ----------------------------- *)

Event(op, s, ver) == [op |-> op, addr |-> s, ver |-> ver]

\* A key changes: an open watch gets the event, else nobody does.
Changes(op, s, ver) ==
  /\ key' = [key EXCEPT ![s] = IF op = "add" THEN ver ELSE 0]
  /\ IF watcher = "watches"
     THEN Len(events) < MaxEvents /\ events' = Append(events, Event(op, s, ver)) /\ UNCHANGED stale
     ELSE stale' = stale \cup {s} /\ UNCHANGED events

\* The lease of the key ends, unless it was renewed less than nine seconds ago.
Expire(s) ==
  /\ key[s] # 0 /\ renewal[s] # "waits"
  /\ IF renewal[s] = "due" THEN started < MaxStarts /\ started' = started + 1
     ELSE UNCHANGED started
  /\ Changes("delete", s, 0)
  /\ UNCHANGED <<proc, version, renewal, watcher, balVars>>

(* ---------------------------------- A server --------------------------- *)

\* Start: RegisterService starts the goroutine, and the server listens.
Start(s) ==
  /\ proc[s] = "down" /\ started < MaxStarts /\ started' = started + 1
  /\ proc' = [proc EXCEPT ![s] = "up"]
  /\ version' = [version EXCEPT ![s] = @ + 1]
  /\ renewal' = [renewal EXCEPT ![s] = "due"]
  /\ UNCHANGED <<key, watcher, events, stale, balVars>>

\* Mutant: puts the key when it starts, and no more.
RenewOnce(s) ==
  /\ renewal[s] = "due" /\ proc[s] = "up"
  /\ renewal' = [renewal EXCEPT ![s] = "waits"]
  /\ IF key[s] = 0 THEN Changes("add", s, version[s]) ELSE UNCHANGED <<key, events, stale>>
  /\ UNCHANGED <<proc, version, watcher, started, balVars>>

\* Grant, then Put with the new lease.
Renew(s) ==
  /\ renewal[s] = "due" /\ proc[s] = "up"
  /\ renewal' = [renewal EXCEPT ![s] = "waits"]
  /\ Changes("add", s, version[s])
  /\ UNCHANGED <<proc, version, watcher, started, balVars>>

\* Either fails, and the goroutine ends for good; Put does if UnRegister has
\* cancelled its context.
RenewFails(s) ==
  /\ renewal[s] = "due" /\ renewal' = [renewal EXCEPT ![s] = "none"]
  /\ UNCHANGED <<proc, version, key, watcher, events, started, stale, balVars>>

NineSeconds(s) ==
  /\ renewal[s] = "waits" /\ renewal' = [renewal EXCEPT ![s] = "due"]
  /\ UNCHANGED <<proc, version, key, watcher, events, started, stale, balVars>>

\* UnRegister, called by Stop.
UnRegister(s) ==
  /\ proc[s] = "up" /\ proc' = [proc EXCEPT ![s] = "stopping"]
  /\ UNCHANGED <<version, renewal, key, watcher, events, started, stale, balVars>>

\* The goroutine sees the cancelled context.  It passes the same context to
\* Delete, which fails: the key stays.
Cancelled(s) ==
  /\ proc[s] = "stopping" /\ renewal[s] = "waits"
  /\ renewal' = [renewal EXCEPT ![s] = "none"]
  /\ UNCHANGED <<proc, version, key, watcher, events, started, stale, balVars>>

\* wg.Wait is over, and the grpc server stops.
Stopped(s) ==
  /\ proc[s] = "stopping" /\ renewal[s] = "none" /\ proc' = [proc EXCEPT ![s] = "down"]
  /\ UNCHANGED <<version, renewal, key, watcher, events, started, stale, balVars>>

Crash(s) ==
  /\ proc[s] # "down" /\ proc' = [proc EXCEPT ![s] = "down"]
  /\ renewal' = [renewal EXCEPT ![s] = "none"]
  /\ UNCHANGED <<version, key, watcher, events, started, stale, balVars>>

(* ---------------------------------- The client ------------------------- *)

\* Start of the client: the balancer's Start resolves the target and starts
\* the goroutine of watchAddrUpdates.
StartClient ==
  /\ watcher = "new" /\ watcher' = "first" /\ BalStart
  /\ UNCHANGED <<proc, version, renewal, key, events, started, stale>>

ServersOf(updates) == {updates[i].addr : i \in DOMAIN updates}
KeysPut == {s \in Servers : key[s] # 0}

\* Next, called for the first time, returns the keys there are, in any order.
FirstKeys ==
  /\ watcher = "first" /\ KeysPut # {} /\ watcher' = "between"
  /\ \E updates \in [1..Cardinality(KeysPut) -> {Event("add", s, key[s]) : s \in KeysPut}] :
       ServersOf(updates) = KeysPut /\ WatchLock(updates)
  /\ stale' = {}
  /\ UNCHANGED <<proc, version, renewal, key, events, started>>

\* There are none, or the request fails: it goes on to watch.
FirstNone ==
  /\ watcher = "first" /\ watcher' = "between"
  /\ stale' = KeysPut
  /\ UNCHANGED <<proc, version, renewal, key, events, started, balVars>>

\* Next opens a watch, of what happens from now on.
Watch ==
  /\ watcher = "between" /\ ~mu /\ watcher' = "watches" /\ events' = <<>>
  /\ UNCHANGED <<proc, version, renewal, key, started, stale, balVars>>

\* It returns the updates of the first response, which holds some of the
\* events; nobody receives the others.
Response ==
  /\ watcher = "watches" /\ watcher' = "between"
  /\ \E n \in 1..Len(events) :
       /\ WatchLock(SubSeq(events, 1, n))
       /\ stale' = (stale \ ServersOf(SubSeq(events, 1, n)))
                     \cup ServersOf(SubSeq(events, n + 1, Len(events)))
  /\ events' = <<>>
  /\ UNCHANGED <<proc, version, renewal, key, started>>

\* An address the list has already with another version.
Ignored(u) == u.op = "add" /\ \E a \in GetById(u.addr) : a.ver # u.ver

\* watchAddrUpdates applies an update; one that is ignored may be news.
ApplyUpdate ==
  /\ WatchApply
  /\ stale' = stale \cup {u.addr : u \in {v \in {Head(todo)} : Ignored(v)}}
  /\ UNCHANGED <<proc, version, renewal, key, watcher, events, started>>

NotifyGrpc == WatchNotify /\ UNCHANGED regVars

-------------------------------------------------------------------------------
Server(s) ==
  \/ Start(s) \/ Renew(s) \/ RenewFails(s) \/ NineSeconds(s)
  \/ UnRegister(s) \/ Cancelled(s) \/ Stopped(s) \/ Crash(s) \/ Expire(s)
Follows == FirstKeys \/ FirstNone \/ Watch \/ Response \/ ApplyUpdate \/ NotifyGrpc

RpcNext == StartClient \/ Follows \/ \E s \in Servers : Server(s)

\* A renewal, or the end of the nine seconds before it, while a watch is open
\* and nothing else happens.
Quiet == watcher = "watches" /\ events = <<>>
SeenRenew(s) == Quiet /\ Renew(s)
SeenNineSeconds(s) == Quiet /\ NineSeconds(s)

\* The goroutines do what they have to; leases end; and the renewals of a
\* server do not for ever fall between two watches: nine seconds lie between
\* them, and only a moment between the watches.  (Nothing delays the end of a
\* lease in etcd; that it may be delayed here is due to MaxEvents.)
RpcFairness ==
  /\ \A s \in Servers :
       /\ WF_rpcVars(Renew(s) \/ NineSeconds(s) \/ Cancelled(s) \/ Stopped(s))
       /\ SF_rpcVars(SeenRenew(s)) /\ SF_rpcVars(SeenNineSeconds(s))
       /\ SF_rpcVars(renewal[s] = "none" /\ Expire(s))
  /\ WF_rpcVars(Follows)

RpcSpec == RegInit /\ [][RpcNext]_rpcVars /\ RpcFairness

-------------------------------------------------------------------------------
\* Types of the variables.
RegTypeOK ==
  /\ BalTypeOK
  /\ proc \in [Servers -> {"down", "up", "stopping"}]
  /\ version \in [Servers -> 0..MaxStarts] /\ key \in [Servers -> 0..MaxStarts]
  /\ renewal \in [Servers -> {"none", "due", "waits"}]
  /\ watcher \in {"new", "first", "between", "watches"}
  /\ events \in Seq([op : {"add", "delete"}, addr : Servers, ver : 0..MaxStarts])
  /\ started \in 0..MaxStarts
  /\ stale \subseteq Servers

\* The list of the client is that of etcd, but for servers whose last event
\* fell between two watches, stayed behind in one that was left, or was the
\* new value of an address the balancer had already: there is no other way
\* to miss one, also not between the first reading and the first watch, and a
\* call by server id is given the version in etcd
\* (client.go:26-76, serverid.go:43-74, 184-202).
ListFollows ==
  watcher \in {"between", "watches"} /\ ~mu =>
    \A s \in Servers \ (stale \cup ServersOf(events)) :
      IF key[s] = 0 THEN GetById(s) = {} ELSE {a.ver : a \in GetById(s)} = {key[s]}

\* From etcd to the connections: the list follows the keys, and grpc the list.
ClientFollows == ListFollows /\ GrpcFollows

Serving(s) == proc[s] = "up" /\ renewal[s] # "none"

\* A server that stays registered comes into the list and stays in it, and
\* one that stays away leaves it, although its key is not deleted, unless the
\* end of its lease was not seen (service.go:52-81, client.go:53-76).
ListConverges ==
  \A s \in Servers :
    /\ <>[]Serving(s) => <>[](Has(s) \/ watcher = "new")
    /\ <>[](proc[s] = "down") => <>[](~Has(s) \/ s \in stale)
===============================================================================
