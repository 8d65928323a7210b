------------------------------- MODULE TcpClient -------------------------------
(***************************************************************************)
(* A server's connection to one other server: tcp.Client                   *)
(* (libs/net/tcp/client.go), whose goroutine dials, receives and redials,  *)
(* and TcpClientMgr (apps/common/net/tcp_client.go), whose handlers run on *)
(* the main loop.  They meet in two places: the bounded channel ChanCall,  *)
(* in which the goroutine blocks when it is full, and Client.Stop, in      *)
(* which the main loop waits for the goroutine.                            *)
(*                                                                         *)
(* The manager's map has one entry here (one server type and id).  Each    *)
(* AddClient that replaces or creates the entry makes a new Client; they   *)
(* are numbered 1, 2, ... and so are the tcp sessions.                     *)
(***************************************************************************)
EXTENDS Naturals, Sequences

CONSTANTS
  Addrs,        \* addresses the peer is announced at
  None,         \* no entry, session or address
  CallCap,      \* capacity of ChanCall
  MaxOrders,    \* bound: add and delete orders from the cluster
  MaxSessions,  \* bound: tcp sessions ever established
  MaxRecv       \* bound: messages received on one session

ASSUME TcpClientAssumption ==
  /\ None \notin Addrs \cup Nat \cup [cli : Nat, addr : Addrs, session : {None} \cup Nat]
  /\ CallCap \in Nat \ {0}
  /\ MaxOrders \in Nat /\ MaxSessions \in Nat /\ MaxRecv \in Nat

ClientIds == 1..MaxOrders
SessionIds == 1..MaxSessions

VARIABLES
  chanCall,   \* queued calls for the main loop
  orders,     \* orders sent so far
  mainPc,     \* "select", or "stop" inside Client.Stop
  next,       \* while mainPc = "stop": the address to connect to next, or None
  info,       \* the clientInfo entry: client, address, logic session; or None
  clients,    \* number of tcp.Client objects made
  pc,         \* the connect goroutine of each client
  addr,       \* Client.Addr
  closeFlag,  \* Client.closeFlag
  member,     \* the session in Client.sessions, or None
  session,    \* the session the goroutine works on, or None
  sessions,   \* number of tcp sessions made
  owner,      \* the client that made each session
  alive,      \* session is open and its connection works
  received,   \* messages received on each session
  logic       \* the logic session on top: "none", "open", "closed", "twice"

mgrVars == <<orders, mainPc, next, info, clients, addr, logic>>
cliVars == <<pc, closeFlag, member, session, sessions, owner, alive, received>>
vars == <<chanCall, mgrVars, cliVars>>

Event(type, s) == [type |-> type, s |-> s]
Order(type, a) == [type |-> type, a |-> a]

Init ==
  /\ chanCall = <<>> /\ orders = 0
  /\ mainPc = "select" /\ next = None /\ info = None
  /\ clients = 0
  /\ pc = [c \in ClientIds |-> "none"]
  /\ addr = [c \in ClientIds |-> None]
  /\ closeFlag = [c \in ClientIds |-> FALSE]
  /\ member = [c \in ClientIds |-> None]
  /\ session = [c \in ClientIds |-> None]
  /\ sessions = 0
  /\ owner = [s \in SessionIds |-> None]
  /\ alive = [s \in SessionIds |-> FALSE]
  /\ received = [s \in SessionIds |-> 0]
  /\ logic = [s \in SessionIds |-> "none"]

Goto(c, l) == pc' = [pc EXCEPT ![c] = l]
\* Mutant: one call more than the channel holds.
PostOver(x) == Len(chanCall) <= CallCap /\ chanCall' = Append(chanCall, x)
Post(x) == Len(chanCall) < CallCap /\ chanCall' = Append(chanCall, x)

(* ------------------ Client.connect, one goroutine per client ----------- *)

\* The dial succeeds: newSession.
Dial(c) ==
  /\ pc[c] = "dial" /\ sessions < MaxSessions
  /\ sessions' = sessions + 1
  /\ session' = [session EXCEPT ![c] = sessions + 1]
  /\ owner' = [owner EXCEPT ![sessions + 1] = c]
  /\ alive' = [alive EXCEPT ![sessions + 1] = TRUE]
  /\ Goto(c, "dialled")
  /\ UNCHANGED <<chanCall, mgrVars, closeFlag, member, received>>

\* The dial fails: return if the client is stopped (closeFlag or ctx), else
\* wait for ConnectInterval and dial again.
DialFail(c) ==
  /\ pc[c] = "dial" /\ closeFlag[c]
  /\ Goto(c, "done")
  /\ UNCHANGED <<chanCall, mgrVars, closeFlag, member, session, sessions, owner,
                 alive, received>>

\* Mutant: closeFlag is not tested again under the lock.
JoinAnyway(c) ==
  /\ pc[c] = "dialled"
  /\ member' = [member EXCEPT ![c] = session[c]]
  /\ Goto(c, "connect")
  /\ UNCHANGED <<chanCall, mgrVars, closeFlag, session, sessions, owner, alive, received>>

\* Under the lock: a stopped client closes the fresh session, otherwise the
\* session joins Client.sessions.
Join(c) ==
  /\ pc[c] = "dialled"
  /\ IF closeFlag[c]
     THEN /\ alive' = [alive EXCEPT ![session[c]] = FALSE]
          /\ session' = [session EXCEPT ![c] = None]
          /\ Goto(c, "done")
          /\ UNCHANGED member
     ELSE /\ member' = [member EXCEPT ![c] = session[c]]
          /\ Goto(c, "connect")
          /\ UNCHANGED <<alive, session>>
  /\ UNCHANGED <<chanCall, mgrVars, closeFlag, sessions, owner, received>>

\* ChanServer.Go blocks while ChanCall is full.
PostConnect(c) ==
  /\ pc[c] = "connect"
  /\ Post(Event("connect", session[c]))
  /\ Goto(c, "receive")
  /\ UNCHANGED <<mgrVars, closeFlag, member, session, sessions, owner, alive, received>>

PostRecv(c) ==
  /\ pc[c] = "receive" /\ alive[session[c]]
  /\ received[session[c]] < MaxRecv
  /\ Post(Event("recv", session[c]))
  /\ received' = [received EXCEPT ![session[c]] = @ + 1]
  /\ UNCHANGED <<mgrVars, pc, closeFlag, member, session, sessions, owner, alive>>

\* Mutant: ClosedKey is posted without blocking, and lost when ChanCall is full.
PostCloseLossy(c) ==
  /\ pc[c] = "receive" /\ ~alive[session[c]]
  /\ IF Len(chanCall) < CallCap THEN Post(Event("close", session[c])) ELSE UNCHANGED chanCall
  /\ Goto(c, "leave")
  /\ UNCHANGED <<mgrVars, closeFlag, member, session, sessions, owner, alive, received>>

\* Receive fails, because the peer went away or the session was closed here.
PostClose(c) ==
  /\ pc[c] = "receive" /\ ~alive[session[c]]
  /\ Post(Event("close", session[c]))
  /\ Goto(c, "leave")
  /\ UNCHANGED <<mgrVars, closeFlag, member, session, sessions, owner, alive, received>>

\* The session leaves Client.sessions; a client that is not stopped redials.
Leave(c) ==
  /\ pc[c] = "leave"
  /\ member' = [member EXCEPT ![c] = None]
  /\ session' = [session EXCEPT ![c] = None]
  /\ Goto(c, IF closeFlag[c] THEN "done" ELSE "dial")
  /\ UNCHANGED <<chanCall, mgrVars, closeFlag, sessions, owner, alive, received>>

\* The peer closes the connection, the network breaks it, or the heartbeat
\* (OnHeartBeat) closes the session after its timeout.
ConnectionLost(s) ==
  /\ alive[s]
  /\ alive' = [alive EXCEPT ![s] = FALSE]
  /\ UNCHANGED <<chanCall, mgrVars, pc, closeFlag, member, session, sessions, owner, received>>

(* ------------------------ The manager, on the main loop ---------------- *)

\* The cluster connection announces a server, or that it went away.
SendOrder ==
  /\ orders < MaxOrders
  /\ orders' = orders + 1
  /\ \E o \in {Order("add", a) : a \in Addrs} \cup {Order("del", None)} : Post(o)
  /\ UNCHANGED <<mainPc, next, info, clients, addr, logic, cliVars>>

Pop(type) == /\ mainPc = "select" /\ chanCall # <<>>
             /\ Head(chanCall).type = type
             /\ chanCall' = Tail(chanCall)

OnClose(s) == IF s = None THEN logic
              ELSE [logic EXCEPT ![s] = IF @ = "open" THEN "closed" ELSE "twice"]

\* A new clientInfo, whose client starts to connect.
Install(a) ==
  /\ clients' = clients + 1
  /\ addr' = [addr EXCEPT ![clients + 1] = a]
  /\ info' = [cli |-> clients + 1, addr |-> a, session |-> None]

\* Client.Stop up to wg.Wait: flag, and Close on the member session.
BeginStop(c) ==
  /\ closeFlag' = [closeFlag EXCEPT ![c] = TRUE]
  /\ alive' = IF member[c] = None THEN alive ELSE [alive EXCEPT ![member[c]] = FALSE]
  /\ logic' = OnClose(info.session)
  /\ mainPc' = "stop"

\* AddClient: nothing to do for the same address ...
AddSame ==
  /\ Pop("add")
  /\ info # None /\ info.addr = Head(chanCall).a
  /\ UNCHANGED <<mgrVars, cliVars>>

\* ... a first client ...
AddNew ==
  /\ Pop("add")
  /\ info = None
  /\ Install(Head(chanCall).a)
  /\ Goto(clients + 1, "dial")
  /\ UNCHANGED <<orders, mainPc, next, logic, closeFlag, member, session, sessions,
                 owner, alive, received>>

\* ... or, at another address, the old client is stopped first.
AddMoved ==
  /\ Pop("add")
  /\ info # None /\ info.addr # Head(chanCall).a
  /\ next' = Head(chanCall).a
  /\ BeginStop(info.cli)
  /\ UNCHANGED <<orders, info, clients, addr, pc, member, session, sessions, owner, received>>

\* RemoveClient deletes the entry and stops the client.
RemoveNone ==
  /\ Pop("del") /\ info = None
  /\ UNCHANGED <<mgrVars, cliVars>>

Remove ==
  /\ Pop("del") /\ info # None
  /\ next' = None
  /\ BeginStop(info.cli)
  /\ UNCHANGED <<orders, info, clients, addr, pc, member, session, sessions, owner, received>>

\* Mutant: Stop does not wait for the goroutine.
StopReturnsAtOnce ==
  /\ mainPc = "stop"
  /\ mainPc' = "select" /\ next' = None
  /\ IF next # None
     THEN Install(next) /\ Goto(clients + 1, "dial")
     ELSE info' = None /\ UNCHANGED <<clients, addr, pc>>
  /\ UNCHANGED <<chanCall, orders, logic, closeFlag, member, session, sessions, owner,
                 alive, received>>

\* wg.Wait returns when the goroutine is done; the order is completed.
StopReturns ==
  /\ mainPc = "stop" /\ pc[info.cli] = "done"
  /\ mainPc' = "select" /\ next' = None
  /\ IF next # None
     THEN Install(next) /\ Goto(clients + 1, "dial")
     ELSE info' = None /\ UNCHANGED <<clients, addr, pc>>
  /\ UNCHANGED <<chanCall, orders, logic, closeFlag, member, session, sessions, owner,
                 alive, received>>

\* The entry an event is for: found by type and id, then by address.
Matches(s) == info # None /\ info.addr = addr[owner[s]]

\* onSessionConnect: a logic session, or Close when the entry is gone.
OnConnect ==
  /\ Pop("connect")
  /\ LET s == Head(chanCall).s
     IN  IF Matches(s)
         THEN /\ info' = [info EXCEPT !.session = s]
              /\ logic' = [logic EXCEPT ![s] = "open"]
              /\ UNCHANGED alive
         ELSE /\ alive' = [alive EXCEPT ![s] = FALSE]
              /\ UNCHANGED <<info, logic>>
  /\ UNCHANGED <<orders, mainPc, next, clients, addr, pc, closeFlag, member, session,
                 sessions, owner, received>>

\* onSessionRecv; without a logic session the call panics and is recovered.
OnRecv ==
  /\ Pop("recv")
  /\ alive' = IF Matches(Head(chanCall).s) THEN alive
              ELSE [alive EXCEPT ![Head(chanCall).s] = FALSE]
  /\ UNCHANGED <<mgrVars, pc, closeFlag, member, session, sessions, owner, received>>

\* Mutant: session_ is not set to nil.
OnSessionCloseKeeps ==
  /\ Pop("close")
  /\ logic' = IF Matches(Head(chanCall).s) /\ info.session # None
              THEN OnClose(info.session) ELSE logic
  /\ UNCHANGED <<info, orders, mainPc, next, clients, addr, cliVars>>

\* onSessionClose; the same panic, before session_ is reset.
OnSessionClose ==
  /\ Pop("close")
  /\ IF Matches(Head(chanCall).s) /\ info.session # None
     THEN /\ logic' = OnClose(info.session)
          /\ info' = [info EXCEPT !.session = None]
     ELSE UNCHANGED <<logic, info>>
  /\ UNCHANGED <<orders, mainPc, next, clients, addr, cliVars>>

Goroutine(c) == DialFail(c) \/ Join(c) \/ PostConnect(c) \/ PostClose(c) \/ Leave(c)
MainLoop == AddSame \/ AddNew \/ AddMoved \/ RemoveNone \/ Remove \/ StopReturns
            \/ OnConnect \/ OnRecv \/ OnSessionClose

Next ==
  \/ MainLoop \/ SendOrder
  \/ \E c \in ClientIds : Goroutine(c) \/ Dial(c) \/ PostRecv(c)
  \/ \E s \in SessionIds : ConnectionLost(s)

\* The main loop and the goroutines run; what the network, the peer and the
\* cluster do is up to them.
Spec == Init /\ [][Next]_vars /\ WF_vars(MainLoop)
             /\ \A c \in ClientIds : WF_vars(Goroutine(c))

-------------------------------------------------------------------------------
Events == [type : {"connect", "recv", "close"}, s : SessionIds]
          \cup [type : {"add", "del"}, a : Addrs \cup {None}]

\* Types of the variables; ChanCall never holds more than its capacity.
TypeOK ==
  /\ chanCall \in Seq(Events) /\ Len(chanCall) <= CallCap
  /\ orders \in 0..MaxOrders
  /\ mainPc \in {"select", "stop"}
  /\ info = None \/ info \in [cli : ClientIds, addr : Addrs, session : {None} \cup SessionIds]
  /\ clients \in 0..MaxOrders /\ sessions \in 0..MaxSessions
  /\ pc \in [ClientIds -> {"none", "dial", "dialled", "connect", "receive", "leave", "done"}]
  /\ closeFlag \in [ClientIds -> BOOLEAN]
  /\ member \in [ClientIds -> {None} \cup SessionIds]
  /\ session \in [ClientIds -> {None} \cup SessionIds]
  /\ alive \in [SessionIds -> BOOLEAN]
  /\ logic \in [SessionIds -> {"none", "open", "closed", "twice"}]

\* An event of one tcp session never reaches the logic session of another,
\* although entries are matched by address only and a client may be replaced
\* by one with the same address while events of the old one are queued:
\* connect finds no other session in place, recv and close find their own or
\* none (tcp_client.go:135-196).
OwnSession ==
  mainPc = "select" /\ chanCall # <<>> /\ Head(chanCall).type \in {"connect", "recv", "close"} =>
    LET e == Head(chanCall)
    IN  Matches(e.s) => IF e.type = "connect" THEN info.session = None
                        ELSE info.session \in {None, e.s}

\* A logic session is closed at most once: a second OnClose would work on
\* fields the first one has set to nil (svr_session.go:90-103).
ClosedOnce == \A s \in SessionIds : logic[s] # "twice"

\* Only the client in place runs: a client that was replaced or removed has
\* returned from its goroutine before its successor starts.
OneClientRuns ==
  \A c \in ClientIds : pc[c] \notin {"none", "done"} => info # None /\ info.cli = c

\* A client that was replaced leaves nothing to its successor: neither events,
\* nor a logic session to close again, nor a goroutine (tcp_client.go:71-110,
\* 135-196).
ReplacedIsGone == OwnSession /\ ClosedOnce /\ OneClientRuns

\* The main loop waits in Stop for a goroutine that waits for room in
\* ChanCall, which only the main loop can make.
Stuck == mainPc = "stop" /\ Len(chanCall) = CallCap
LogicEnd == \A s \in SessionIds :
               (logic[s] = "open" /\ ~alive[s]) ~> (logic[s] = "closed" \/ Stuck)
StopEnd == (mainPc = "stop") ~> (mainPc = "select" \/ Stuck)

\* Every logic session whose connection is gone is closed in the end, and
\* Client.Stop returns to the main loop, even if it comes between a dial and
\* the session joining Client.sessions (client.go:124); both unless Stuck
\* (tcp_client.go:81, 132).
ClientEnds == LogicEnd /\ StopEnd
===============================================================================
