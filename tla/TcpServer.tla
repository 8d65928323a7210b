------------------------------- MODULE TcpServer -------------------------------
(***************************************************************************)
(* A server process from its start to its exit, around its listener:       *)
(* tcpServer and wsServer (libs/net/tcp/server.go, websocket.go), whose    *)
(* goroutines accept connections, receive, and post to ChanCall; the main  *)
(* loop, which handles these calls (gatesvr/src/server.go stands for all   *)
(* servers); and the goroutine of RunMutli (libs/utils/service.go), which  *)
(* starts the service and on a signal ends first its main loop, then the   *)
(* listener and the sessions.  The inside of a session is in Session, that *)
(* of chanrpc in ChanRpc, the rest of the main loop in ServiceLoop.        *)
(***************************************************************************)
EXTENDS Naturals, Sequences

CONSTANTS
  Conns,     \* connections that clients may make
  Kinds,     \* listeners the configuration may ask for: "tcp" (or tls), "ws"
  CallCap,   \* capacity of ChanCall
  MaxRecv    \* bound: messages received on one connection

ASSUME TcpServerAssumption ==
  /\ Kinds \subseteq {"tcp", "ws"} /\ Kinds # {}
  /\ CallCap \in Nat \ {0} /\ MaxRecv \in Nat

VARIABLES
  kind,      \* the configured listener
  process,   \* "up", "exited", or "crashed" by a panic nobody recovers
  main,      \* the goroutine of RunMutli and Close
  pool,      \* the goroutine of Pool: "none", "select", "end", "done"
  listener,  \* "none", "open", "closed"
  callOpen,  \* ChanCall is not closed
  chanCall,  \* ChanCall
  pc,        \* the goroutine of each connection
  conn,      \* its socket: "none", "up", "lost" by the peer, "closed" by Session.Close
  received,  \* messages received on it
  sessions,  \* tcpServer.sessions
  walk,      \* sessions that the Range of Stop still visits
  logic      \* the logic session on it: "none", "open", "closed"

procVars == <<kind, process, main, pool, listener>>
callVars == <<callOpen, chanCall>>
connVars == <<pc, conn, received, sessions>>
tcpVars == <<procVars, callVars, connVars, walk, logic>>

TcpInit ==
  /\ kind \in Kinds
  /\ process = "up" /\ main = "start" /\ pool = "none" /\ listener = "none"
  /\ callOpen = TRUE /\ chanCall = <<>>
  /\ pc = [c \in Conns |-> "none"]
  /\ conn = [c \in Conns |-> "none"]
  /\ received = [c \in Conns |-> 0]
  /\ sessions = {} /\ walk = {}
  /\ logic = [c \in Conns |-> "none"]

Goto(c, l) == pc' = [pc EXCEPT ![c] = l]
CloseSession(c) == conn' = [conn EXCEPT ![c] = "closed"]

\* Mutant: one call more than the channel holds.
GoOver(type, c) ==
  /\ callOpen => Len(chanCall) <= CallCap
  /\ chanCall' = IF callOpen THEN Append(chanCall, [type |-> type, c |-> c]) ELSE chanCall

\* ChanServer.Go: blocks while ChanCall is full; once it is closed the send
\* panics, which Go recovers.
Go(type, c) ==
  /\ callOpen => Len(chanCall) < CallCap
  /\ chanCall' = IF callOpen THEN Append(chanCall, [type |-> type, c |-> c]) ELSE chanCall

(* ------------------------- The listener's goroutine -------------------- *)

\* A client connects: a goroutine with the connection, or one of http.Server
\* that reads its request.
Accept(c) ==
  /\ listener = "open" /\ pc[c] = "none"
  /\ Goto(c, IF kind = "ws" THEN "upgrade" ELSE "store")
  /\ conn' = [conn EXCEPT ![c] = "up"]
  /\ UNCHANGED <<procVars, callVars, received, sessions, walk, logic>>

\* Accept fails once the listener is closed.  serve returns; the goroutine
\* of a websocket server panics with the error, and nothing recovers it.
WsServeFails ==
  /\ kind = "ws" /\ listener = "closed"
  /\ process' = "crashed"
  /\ UNCHANGED <<kind, main, pool, listener, callVars, connVars, walk, logic>>

(* --------------- handleNewConn, or ServeHTTP of a websocket ------------- *)

\* The request is a websocket handshake, or it is refused.
Upgrade(c) ==
  /\ pc[c] = "upgrade"
  /\ \/ Goto(c, "store") /\ UNCHANGED conn
     \/ Goto(c, "gone") /\ CloseSession(c)
  /\ UNCHANGED <<procVars, callVars, received, sessions, walk, logic>>

\* newSession, then Store, which a Range under way may miss.
Store(c) ==
  /\ pc[c] = "store"
  /\ sessions' = sessions \cup {c}
  /\ walk' \in IF main = "walk" THEN {walk, walk \cup {c}} ELSE {walk}
  /\ Goto(c, "accept")
  /\ UNCHANGED <<procVars, callVars, conn, received, logic>>

PostAccept(c) ==
  /\ pc[c] = "accept"
  /\ Go("accept", c)
  /\ Goto(c, "receive")
  /\ UNCHANGED <<procVars, callOpen, conn, received, sessions, walk, logic>>

\* Receive: a message ...
Receive(c) ==
  /\ pc[c] = "receive" /\ conn[c] = "up" /\ received[c] < MaxRecv
  /\ received' = [received EXCEPT ![c] = @ + 1]
  /\ Goto(c, "recv")
  /\ UNCHANGED <<procVars, callVars, conn, sessions, walk, logic>>

\* ... one that is too long or that Unmarshal rejects ...
ReceiveBad(c) ==
  /\ pc[c] = "receive" /\ conn[c] = "up"
  /\ Goto(c, "close")
  /\ UNCHANGED <<procVars, callVars, conn, received, sessions, walk, logic>>

\* ... or the end of the connection.
ReceiveEnd(c) ==
  /\ pc[c] = "receive" /\ conn[c] # "up"
  /\ Goto(c, "close")
  /\ UNCHANGED <<procVars, callVars, conn, received, sessions, walk, logic>>

PostRecv(c) ==
  /\ pc[c] = "recv"
  /\ Go("recv", c)
  /\ Goto(c, "receive")
  /\ UNCHANGED <<procVars, callOpen, conn, received, sessions, walk, logic>>

\* Mutant: the call is dropped when ChanCall is full.
PostCloseLossy(c) ==
  /\ pc[c] = "close"
  /\ IF Len(chanCall) < CallCap THEN Go("close", c) ELSE UNCHANGED chanCall
  /\ Goto(c, "defer")
  /\ UNCHANGED <<procVars, callOpen, conn, received, sessions, walk, logic>>

PostClose(c) ==
  /\ pc[c] = "close"
  /\ Go("close", c)
  /\ Goto(c, "defer")
  /\ UNCHANGED <<procVars, callOpen, conn, received, sessions, walk, logic>>

\* The deferred Close and Delete.
DeferClose(c) ==
  /\ pc[c] = "defer"
  /\ CloseSession(c)
  /\ Goto(c, "delete")
  /\ UNCHANGED <<procVars, callVars, received, sessions, walk, logic>>

Delete(c) ==
  /\ pc[c] = "delete"
  /\ sessions' = sessions \ {c}
  /\ walk' = walk \ {c}
  /\ Goto(c, "gone")
  /\ UNCHANGED <<procVars, callVars, conn, received, logic>>

\* The client goes away, or the network.
ConnectionLost(c) ==
  /\ conn[c] = "up"
  /\ conn' = [conn EXCEPT ![c] = "lost"]
  /\ UNCHANGED <<procVars, callVars, pc, received, sessions, walk, logic>>

(* ------------------------------- The main loop ------------------------- *)

Pop(type) == /\ pool = "select" /\ chanCall # <<>>
             /\ Head(chanCall).type = type
             /\ chanCall' = Tail(chanCall)

\* onTcpAccept: a logic session for the connection.
OnTcpAccept ==
  /\ Pop("accept")
  /\ logic' = [logic EXCEPT ![Head(chanCall).c] = "open"]
  /\ UNCHANGED <<procVars, callOpen, connVars, walk>>

\* onTcpRecv: the message goes to the logic session, if there is one; its
\* handler may close the session, as a heartbeat that runs out does.
OnTcpRecv ==
  /\ Pop("recv")
  /\ UNCHANGED <<procVars, callOpen, connVars, walk, logic>>

Kick(c) ==
  /\ pool = "select" /\ logic[c] = "open" /\ conn[c] # "closed"
  /\ CloseSession(c)
  /\ UNCHANGED <<procVars, callVars, pc, received, sessions, walk, logic>>

\* onTcpClose: the logic session ends.
OnTcpClose ==
  /\ Pop("close")
  /\ logic' = [logic EXCEPT ![Head(chanCall).c] = "closed"]
  /\ UNCHANGED <<procVars, callOpen, connVars, walk>>

\* ChanServer.Close drops what is queued; GoServer.Close follows.
PoolEnds ==
  /\ pool = "closing"
  /\ pool' = "end"
  /\ callOpen' = FALSE /\ chanCall' = <<>>
  /\ UNCHANGED <<kind, process, main, listener, connVars, walk, logic>>

(* -------------------------- RunMutli, one service ---------------------- *)

\* CreateTcpServer, CreateTLSServer or CreateWSServer: it listens, unless the
\* address or the certificate is no good.
CreateServer == listener' \in {"open", "none"}

\* The service's Start, with that of the listener's goroutine; when it fails
\* the process ends.
Start ==
  /\ main = "start"
  /\ CreateServer
  /\ IF listener' = "open" THEN main' = "pool" /\ UNCHANGED process
                           ELSE process' = "exited" /\ UNCHANGED main
  /\ UNCHANGED <<kind, pool, callVars, connVars, walk, logic>>

\* The goroutine of Pool, then signal.Notify.
StartPool ==
  /\ main = "pool"
  /\ main' = "wait" /\ pool' = "select"
  /\ UNCHANGED <<kind, process, listener, callVars, connVars, walk, logic>>

\* The signal; chanSig has no buffer, so one that comes earlier is lost.
Signal ==
  /\ main = "wait"
  /\ main' = "closeSig"
  /\ UNCHANGED <<kind, process, pool, listener, callVars, connVars, walk, logic>>

\* Mutant: the service is closed before its main loop is ended.
CloseFirst ==
  /\ main = "closeSig"
  /\ main' = "listener"
  /\ UNCHANGED <<kind, process, pool, listener, callVars, connVars, walk, logic>>

\* closeSig[i] <- true meets the select of Pool.
CloseSig ==
  /\ main = "closeSig" /\ pool = "select"
  /\ main' = "closeEnd" /\ pool' = "closing"
  /\ UNCHANGED <<kind, process, listener, callVars, connVars, walk, logic>>

\* closeEndSig, which the goroutine of Pool sends last.
CloseEnd ==
  /\ main = "closeEnd" /\ pool = "end"
  /\ main' = "listener" /\ pool' = "done"
  /\ UNCHANGED <<kind, process, listener, callVars, connVars, walk, logic>>

\* Stop: the listener ...
StopListener ==
  /\ main = "listener"
  /\ main' = "range" /\ listener' = "closed"
  /\ UNCHANGED <<kind, process, pool, callVars, connVars, walk, logic>>

\* ... then the sessions that are stored ...
StopRange ==
  /\ main = "range"
  /\ main' = "walk" /\ walk' = sessions
  /\ UNCHANGED <<kind, process, pool, listener, callVars, connVars, logic>>

StopVisit(c) ==
  /\ main = "walk" /\ c \in walk
  /\ CloseSession(c)
  /\ walk' = walk \ {c}
  /\ UNCHANGED <<procVars, callVars, pc, received, sessions, logic>>

\* ... and Stop returns.
StopReturns ==
  /\ main = "walk" /\ walk = {}
  /\ main' = "stopped"
  /\ UNCHANGED <<kind, process, pool, listener, callVars, connVars, walk, logic>>

\* The other managers stop; wg.Wait; main returns.
Exit ==
  /\ main = "stopped" /\ pool = "done"
  /\ process' = "exited"
  /\ UNCHANGED <<kind, main, pool, listener, callVars, connVars, walk, logic>>

Handler(c) ==
  \/ Upgrade(c) \/ Store(c) \/ PostAccept(c) \/ ReceiveEnd(c) \/ PostRecv(c)
  \/ PostClose(c) \/ DeferClose(c) \/ Delete(c)
MainLoop == OnTcpAccept \/ OnTcpRecv \/ OnTcpClose
Service ==
  \/ StartPool \/ CloseSig \/ PoolEnds \/ CloseEnd \/ StopListener \/ StopRange
  \/ StopReturns \/ Exit \/ \E c \in Conns : StopVisit(c)

TcpNext ==
  /\ process = "up"
  /\ \/ MainLoop \/ Service \/ Start \/ Signal \/ WsServeFails
     \/ \E c \in Conns : \/ Handler(c) \/ Accept(c) \/ Receive(c) \/ ReceiveBad(c)
                         \/ ConnectionLost(c) \/ Kick(c)

\* Goroutines run; the main loop's select does not pass over the signal for
\* ever, and goroutines that wait for ChanCall are served in their turn.
\* Clients, what they send, and the signal come or not.
TcpSpec == /\ TcpInit /\ [][TcpNext]_tcpVars
           /\ WF_tcpVars(process = "up" /\ MainLoop) /\ WF_tcpVars(process = "up" /\ Service)
           /\ \A c \in Conns : SF_tcpVars(process = "up" /\ Handler(c))

-------------------------------------------------------------------------------
\* Types of the variables; ChanCall never holds more than its capacity.
TcpTypeOK ==
  /\ kind \in Kinds /\ process \in {"up", "exited", "crashed"}
  /\ main \in {"start", "pool", "wait", "closeSig", "closeEnd", "listener", "range",
               "walk", "stopped"}
  /\ pool \in {"none", "select", "closing", "end", "done"}
  /\ listener \in {"none", "open", "closed"}
  /\ callOpen \in BOOLEAN
  /\ chanCall \in Seq([type : {"accept", "recv", "close"}, c : Conns])
  /\ Len(chanCall) <= CallCap
  /\ pc \in [Conns -> {"none", "upgrade", "store", "accept", "receive", "recv", "close",
                       "defer", "delete", "gone"}]
  /\ conn \in [Conns -> {"none", "up", "lost", "closed"}]
  /\ sessions \subseteq Conns /\ walk \subseteq sessions
  /\ logic \in [Conns -> {"none", "open", "closed"}]

\* A connection that the main loop was told of is closed when Stop returns,
\* although goroutines go on storing sessions while Stop walks them: those it
\* can miss are of connections the main loop, ended by then, never heard of
\* (server.go:64-79, service.go:109-112).
StopCloses == main = "stopped" => \A c \in Conns : logic[c] = "open" => conn[c] = "closed"

SessionsEnd ==
  \A c \in Conns :
    (c \in sessions /\ conn[c] # "up")
      ~> \/ process # "up"
         \/ c \notin sessions /\ (logic[c] = "closed" \/ ~callOpen)
Exits == main = "closeSig" ~> process # "up"


\* A connection that ends leaves sessions, and its logic session is closed
\* unless the main loop was ended first (server.go:81-96); after a signal the
\* process ends, whatever its connections do: goroutines that wait for room
\* in ChanCall do not hold it (service.go:107-116).
ServerEnds == SessionsEnd /\ Exits
===============================================================================
