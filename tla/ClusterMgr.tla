------------------------------ MODULE ClusterMgr ------------------------------
(***************************************************************************)
(* The cluster server's registry (apps/clustersvr/src/svrs_mgr/mgr.go) and *)
(* the other servers' side of it, TcpClientCluster (apps/common/net/       *)
(* tcp_cluster.go).  A server registers itself and the types it wants to   *)
(* hear of on every connection it makes; the cluster answers with the      *)
(* servers it knows and broadcasts what changes.  Connections break and    *)
(* each end notices in its own time; servers and the cluster restart.      *)
(*                                                                         *)
(* A tcp session is a number, in the order the sessions are made.  One     *)
(* server group is modelled: groups share nothing.                         *)
(***************************************************************************)
EXTENDS Fifo

CONSTANTS
  Nodes,        \* servers, by type and id
  Types,        \* server types
  SvrType,      \* the type of each server
  Subs,         \* Publish_svrs_: the types each server asks for
  Addrs,        \* addresses a server may have
  FirstAddr,    \* the address each server starts with
  None,         \* no address, no session
  MaxSessions,  \* bound: connections made
  MaxFaults     \* bound: broken connections and restarts

ASSUME ClusterMgrAssumption ==
  /\ SvrType \in [Nodes -> Types] /\ Subs \in [Nodes -> SUBSET Types]
  /\ FirstAddr \in [Nodes -> Addrs]
  /\ None \notin Addrs \cup Nat \cup Nodes
  /\ MaxSessions \in Nat /\ MaxFaults \in Nat

Sessions == 1..MaxSessions

VARIABLES
  svrs,      \* svrs_info_: the address registered for each server, or None
  publish,   \* publish_svrs_: for each type, the sessions subscribed to it
  pubInfo,   \* m_publish_info_: the servers with a recorded subscription
  made,      \* sessions made so far
  node,      \* the server that made each session
  up,        \* sessions whose connection works
  asked,     \* the address in the register request in flight, or None
  reg,       \* the session attribute svr_info: the registered address, or None
  closed,    \* sessions whose close the cluster has handled
  toClient,  \* messages in flight to the server, per session
  addr,      \* the address of each server
  link,      \* the session each server's logic session is on, or None
  peers,     \* m_svr_sessions_: the servers each server keeps a client for
  fresh,     \* history: no connection was lost since the server started
  clean,     \* history: sessions that registered after the server's older ones closed
  faults

clusterVars == <<svrs, publish, pubInfo, reg, closed, clean>>
netVars == <<made, node, up, asked, toClient>>
nodeVars == <<addr, link, peers, fresh>>
vars == <<clusterVars, netVars, nodeVars, faults>>

NoPeers == [m \in Nodes |-> None]

Init ==
  /\ svrs = NoPeers /\ publish = [t \in Types |-> <<>>] /\ pubInfo = {}
  /\ made = 0 /\ node = [s \in Sessions |-> None]
  /\ up = {} /\ closed = {} /\ clean = {}
  /\ asked = [s \in Sessions |-> None] /\ reg = [s \in Sessions |-> None]
  /\ toClient = [s \in Sessions |-> <<>>]
  /\ addr = FirstAddr
  /\ link = [n \in Nodes |-> None]
  /\ peers = [n \in Nodes |-> NoPeers]
  /\ fresh = Nodes
  /\ faults = 0

(* ------------------------------ The cluster ---------------------------- *)

\* Session.Send to every entry of a subscriber list, one message per entry;
\* what is sent on a broken connection is lost.
Broadcast(chan, list, msg) ==
  [s \in Sessions |->
     IF s \in up THEN chan[s] \o [i \in 1..Count(list, {s}) |-> msg] ELSE chan[s]]

Msg(opr, m, a) == [opr |-> opr, svrs |-> [NoPeers EXCEPT ![m] = a], m |-> m]
Response(table, types) ==
  [opr |-> "res", m |-> None,
   svrs |-> [m \in Nodes |-> IF SvrType[m] \in types THEN table[m] ELSE None]]

\* The older sessions of the session's server are all closed.
Alone(s) == \A t \in Sessions : t < s /\ node[t] = node[s] => t \in closed

\* Mutant: a session subscribes only to a type nobody has subscribed to.
RecvRegisterFirst(s) ==
  LET n == node[s]
      a == asked[s]
      chan == Broadcast(toClient, publish[SvrType[n]], Msg("add", n, a))
  IN  /\ a # None /\ s \notin closed
      /\ asked' = [asked EXCEPT ![s] = None]
      /\ reg' = [reg EXCEPT ![s] = a]
      /\ svrs' = [svrs EXCEPT ![n] = a]
      /\ pubInfo' = pubInfo \cup {n}
      /\ publish' = [t \in Types |-> IF t \in Subs[n] /\ publish[t] = <<>> THEN <<s>> ELSE publish[t]]
      /\ toClient' = IF s \in up THEN [chan EXCEPT ![s] = Append(@, Response(svrs', Subs[n]))] ELSE chan
      /\ clean' = IF Alone(s) THEN clean \cup {s} ELSE clean
      /\ UNCHANGED <<made, node, up, closed, nodeVars, faults>>

\* onrecv_register: record the server, announce it to the subscribers of its
\* type, subscribe the session, answer with the servers of the types asked for.
RecvRegister(s) ==
  LET n == node[s]
      a == asked[s]
      chan == Broadcast(toClient, publish[SvrType[n]], Msg("add", n, a))
  IN  /\ a # None /\ s \notin closed
      /\ asked' = [asked EXCEPT ![s] = None]
      /\ reg' = [reg EXCEPT ![s] = a]
      /\ svrs' = [svrs EXCEPT ![n] = a]
      /\ pubInfo' = pubInfo \cup {n}
      /\ publish' = [t \in Types |-> IF t \in Subs[n] THEN Append(publish[t], s) ELSE publish[t]]
      /\ toClient' = IF s \in up THEN [chan EXCEPT ![s] = Append(@, Response(svrs', Subs[n]))] ELSE chan
      /\ clean' = IF Alone(s) THEN clean \cup {s} ELSE clean
      /\ UNCHANGED <<made, node, up, closed, nodeVars, faults>>

\* The loop that unsubscribes a session: where it is first found, what follows
\* it is appended to the list once more, so that nothing is removed.
Unsubscribe(list, s) ==
  LET before == {i \in DOMAIN list : \A j \in 1..i : list[j] # s}
  IN  IF s \in Elems(list)
      THEN list \o SubSeq(list, Cardinality(before) + 2, Len(list))
      ELSE list

\* Mutant: the whole group is deleted, not the server.
RemoveSvrGroup(s) ==
  LET n == node[s]
  IN  IF reg[s] = None \/ n \notin pubInfo
      THEN UNCHANGED <<svrs, publish, pubInfo, toClient>>
      ELSE /\ publish' = [t \in Types |-> IF t \in Subs[n] THEN Unsubscribe(publish[t], s) ELSE publish[t]]
           /\ pubInfo' = pubInfo \ {n}
           /\ svrs' = NoPeers
           /\ toClient' = Broadcast(toClient, publish'[SvrType[n]], Msg("del", n, None))

\* Mutant: the recorded subscription is not deleted.
RemoveSvrKeepsInfo(s) ==
  LET n == node[s]
  IN  IF reg[s] = None \/ n \notin pubInfo
      THEN UNCHANGED <<svrs, publish, pubInfo, toClient>>
      ELSE /\ publish' = [t \in Types |-> IF t \in Subs[n] THEN Unsubscribe(publish[t], s) ELSE publish[t]]
           /\ svrs' = [svrs EXCEPT ![n] = None]
           /\ toClient' = Broadcast(toClient, publish'[SvrType[n]], Msg("del", n, None))
           /\ UNCHANGED pubInfo

\* RemoveSvr: the registration found under the session's server key goes,
\* whichever session made it.
RemoveSvr(s) ==
  LET n == node[s]
  IN  IF reg[s] = None \/ n \notin pubInfo
      THEN UNCHANGED <<svrs, publish, pubInfo, toClient>>
      ELSE /\ publish' = [t \in Types |-> IF t \in Subs[n] THEN Unsubscribe(publish[t], s) ELSE publish[t]]
           /\ pubInfo' = pubInfo \ {n}
           /\ svrs' = [svrs EXCEPT ![n] = None]
           /\ toClient' = Broadcast(toClient, publish'[SvrType[n]], Msg("del", n, None))

\* The close event of a session: what it had not delivered is lost, and its
\* Close callback runs RemoveSvr.
OnClose(s) ==
  /\ s \in 1..made /\ s \notin up /\ s \notin closed
  /\ closed' = closed \cup {s}
  /\ asked' = [asked EXCEPT ![s] = None]
  /\ RemoveSvr(s)
  /\ UNCHANGED <<reg, clean, made, node, up, nodeVars, faults>>

\* The cluster process restarts with an empty registry.
ClusterRestart ==
  /\ faults < MaxFaults /\ faults' = faults + 1
  /\ svrs' = NoPeers /\ publish' = [t \in Types |-> <<>>] /\ pubInfo' = {}
  /\ reg' = [s \in Sessions |-> None] /\ asked' = [s \in Sessions |-> None]
  /\ closed' = 1..made /\ up' = {} /\ clean' = {}
  /\ UNCHANGED <<made, node, toClient, nodeVars>>

(* ----------------------- TcpClientCluster, the servers ----------------- *)

\* Dial, onSessionConnect and its callback: connect and ask to be registered.
Connect(n) ==
  /\ link[n] = None /\ made < MaxSessions
  /\ made' = made + 1
  /\ node' = [node EXCEPT ![made + 1] = n]
  /\ up' = up \cup {made + 1}
  /\ asked' = [asked EXCEPT ![made + 1] = addr[n]]
  /\ link' = [link EXCEPT ![n] = made + 1]
  /\ UNCHANGED <<clusterVars, toClient, addr, peers, fresh, faults>>

\* What a message is about: onRecvRegisterSvr adds every server of the answer,
\* onRecvBroadSvr skips the server itself.
Tells(msg, n, m) == IF msg.opr = "res" THEN msg.svrs[m] # None ELSE msg.m = m /\ m # n

\* What a server knows after a message: AddClient replaces the client of a
\* server that moved, RemoveClient takes any address.
Learn(n, known, msg) == [m \in Nodes |-> IF Tells(msg, n, m) THEN msg.svrs[m] ELSE known[m]]

\* Mutant: AddClient does nothing for a server it has a client for.
RecvMsgKeeps(n) ==
  LET s == link[n]
      new == Learn(n, peers[n], Head(toClient[s]))
  IN  /\ s # None /\ toClient[s] # <<>>
      /\ peers' = [peers EXCEPT ![n] = [m \in Nodes |->
                     IF @[m] # None /\ new[m] # None THEN @[m] ELSE new[m]]]
      /\ toClient' = [toClient EXCEPT ![s] = Tail(@)]
      /\ UNCHANGED <<clusterVars, made, node, up, asked, addr, link, fresh, faults>>

RecvMsg(n) ==
  LET s == link[n]
  IN  /\ s # None /\ toClient[s] # <<>>
      /\ peers' = [peers EXCEPT ![n] = Learn(n, @, Head(toClient[s]))]
      /\ toClient' = [toClient EXCEPT ![s] = Tail(@)]
      /\ UNCHANGED <<clusterVars, made, node, up, asked, addr, link, fresh, faults>>

\* onSessionClose at the server: what is in flight to it is lost, what it
\* knows is kept, and the client redials.
LinkLost(n) ==
  LET s == link[n]
  IN  /\ s # None /\ s \notin up
      /\ link' = [link EXCEPT ![n] = None]
      /\ toClient' = [toClient EXCEPT ![s] = <<>>]
      /\ fresh' = fresh \ {n}
      /\ UNCHANGED <<clusterVars, made, node, up, asked, addr, peers, faults>>

\* A server process restarts, perhaps at another address.
Restart(n) ==
  LET s == link[n]
  IN  /\ faults < MaxFaults /\ faults' = faults + 1
      /\ \E a \in Addrs : addr' = [addr EXCEPT ![n] = a]
      /\ link' = [link EXCEPT ![n] = None]
      /\ peers' = [peers EXCEPT ![n] = NoPeers]
      /\ fresh' = fresh \cup {n}
      /\ up' = up \ {s}
      /\ toClient' = [t \in Sessions |-> IF t = s THEN <<>> ELSE toClient[t]]
      /\ UNCHANGED <<clusterVars, made, node, asked>>

\* The network breaks a connection, or one end closes it: the heartbeat timed
\* out or the send buffer was full.
Break(s) ==
  /\ faults < MaxFaults /\ faults' = faults + 1
  /\ s \in up
  /\ up' = up \ {s}
  /\ UNCHANGED <<clusterVars, made, node, asked, toClient, nodeVars>>

Next ==
  \/ ClusterRestart
  \/ \E s \in Sessions : RecvRegister(s) \/ OnClose(s) \/ Break(s)
  \/ \E n \in Nodes : Connect(n) \/ RecvMsg(n) \/ LinkLost(n) \/ Restart(n)

\* The main loops run, and either end of a broken connection notices: a read
\* fails or the heartbeat times out.
Spec == Init /\ [][Next]_vars
             /\ \A s \in Sessions : WF_vars(RecvRegister(s)) /\ WF_vars(OnClose(s))
             /\ \A n \in Nodes : WF_vars(Connect(n)) /\ WF_vars(RecvMsg(n)) /\ WF_vars(LinkLost(n))

-------------------------------------------------------------------------------
Table == [Nodes -> Addrs \cup {None}]
Msgs == [opr : {"add", "del", "res"}, svrs : Table, m : Nodes \cup {None}]

\* Types of the variables.  A server has a recorded subscription exactly as
\* long as it is registered: RemoveSvr, which starts from the one, would
\* otherwise leave the other behind (mgr.go:137-165, 178).
TypeOK ==
  /\ svrs \in Table
  /\ publish \in [Types -> Seq(Sessions)]
  /\ pubInfo = {n \in Nodes : svrs[n] # None}
  /\ made \in 0..MaxSessions
  /\ node \in [Sessions -> Nodes \cup {None}]
  /\ up \subseteq 1..made /\ closed \subseteq 1..made /\ clean \subseteq 1..made
  /\ asked \in [Sessions -> Addrs \cup {None}]
  /\ reg \in [Sessions -> Addrs \cup {None}]
  /\ toClient \in [Sessions -> Seq(Msgs)]
  /\ addr \in [Nodes -> Addrs]
  /\ link \in [Nodes -> Sessions \cup {None}]
  /\ peers \in [Nodes -> Table]
  /\ fresh \subseteq Nodes /\ faults \in 0..MaxFaults

\* All messages of the inbox, handled in order, take what n knows of m from a
\* to b: the last one about m says b.
Leads(inbox, n, m, a, b) ==
  LET about == {i \in DOMAIN inbox : Tells(inbox[i], n, m)}
  IN  IF about = {} THEN a = b
      ELSE \E i \in about : (\A j \in about : j <= i) /\ inbox[i].svrs[m] = b

Registered(n) == link[n] # None /\ link[n] \in up \ closed /\ reg[link[n]] # None
Wanted(n) == {m \in Nodes \ {n} : SvrType[m] \in Subs[n]}

\* A server that is registered misses nothing: the answer and the broadcasts
\* in flight to it, handled in order, leave it with the address of every
\* server that is registered with a type it asked for.  Nor does it keep a
\* server that is gone, unless it has lost a connection since it started: what
\* is removed meanwhile nobody tells it, because the answer to a registration
\* only adds (mgr.go:84-125, 179-191, tcp_cluster.go:76-85).
KnowsRegistry ==
  \A n \in Nodes : Registered(n) =>
    \A m \in Wanted(n) : svrs[m] # None \/ n \in fresh =>
      Leads(toClient[link[n]], n, m, peers[n][m], svrs[m])

\* A server stays registered, at its address, while its session lives, if its
\* older sessions were closed before it registered.  Otherwise the late close
\* of an old session cancels the new registration, or the late request of an
\* old session replaces it (mgr.go:82, 130-178).
StaysRegistered ==
  \A s \in clean : s \notin closed /\ (\A t \in Sessions : t > s => node[t] # node[s] \/ reg[t] = None)
                   => svrs[node[s]] = reg[s]

\* Servers find each other: a server that lives is in the registry, and the
\* registry is what servers know (mgr.go:57-194).
RegistryHolds == StaysRegistered /\ KnowsRegistry

\* When nothing breaks any more, every server that is connected comes to know
\* the address of every registered server it asked for, and keeps it, through
\* restarts of either side before.
Converges ==
  <>[](\A n \in Nodes : \A m \in Wanted(n) :
         link[n] # None /\ svrs[m] # None => peers[n][m] = svrs[m])

\* A session that is closed is no longer subscribed, as the comment at
\* mgr.go:144 says of the loop below it.  It does not hold: mgr.go:159 appends
\* to the list without removing from it.
Unsubscribed ==
  \A t \in Types : \A i \in DOMAIN publish[t] : publish[t][i] \notin closed
===============================================================================
