------------------------------- MODULE DbService -------------------------------
(***************************************************************************)
(* Requests to the database server: DBEngineClient.Do of the servers that  *)
(* use it (apps/common/dbengine/db_client.go), and the dbOperationMgr that *)
(* runs each request in a goroutine of GoServer and answers from the main  *)
(* loop (apps/dbsvr/src/operation/mgr.go).  An answer goes to the logic    *)
(* session the request came from, which may have lost its connection, and  *)
(* names no request.                                                       *)
(*                                                                         *)
(* A client has one connection to the database server at a time; how it is *)
(* registered and missed is in SvrLink.tla.  With one dispatcher for both  *)
(* kinds of session a client never registers, and Do returns an error; a   *)
(* client of this module has one for each kind, as the gate.  There Start  *)
(* registers onRecvData in the one that no answer is dispatched by         *)
(* (db_client.go:30): the module follows an answer until its client has    *)
(* taken it from the connection, and no handler is called.                 *)
(*                                                                         *)
(* A request is named by its number, a response by the request it is       *)
(* computed from.                                                          *)
(***************************************************************************)
EXTENDS Naturals, Sequences, FiniteSets

CONSTANTS
  DbClients,     \* servers that send requests
  DbMaxRequests, \* bound: requests
  DbMaxLinks     \* bound: connections of each client

ASSUME DbAssumption == DbMaxRequests \in Nat /\ DbMaxLinks \in Nat

Requests == 1..DbMaxRequests

\* What an operation returns: a message, an error, or nothing: it is unknown,
\* its data cannot be decoded, it panics, or it does not want to answer, as
\* opr_test_recv.
Verdicts == {"message", "error", "nothing"}

VARIABLES
  dbGroup,   \* Svr_group_ of each client: "nil", "empty" or "session"
  dbLink,    \* number of its connection
  dbAlive,   \* the connection has not broken
  toDb,      \* requests on their way, or waiting in ChanCall: [req, link]
  toClient,  \* answers on their way, or waiting in ChanCall: [req, verdict]
  dbSink,    \* session of each request received: client and connection
  dbRuns,    \* requests whose goroutine runs
  dbResult,  \* handler_resp_msg and handler_err of each request
  dbChanCb,  \* ChanCb: requests whose callback waits
  dbReceived, \* history: the answers each client has taken
  dbAsked    \* history: every Do with a group: client, connection, and whether
             \* the connection was there; and what its operation returned

dbVars == <<dbGroup, dbLink, dbAlive, toDb, toClient, dbSink, dbRuns, dbResult, dbChanCb, dbReceived, dbAsked>>

Link == [client : DbClients, link : 1..DbMaxLinks]
NoResult == [req |-> 0, verdict |-> "nothing"]

DbInit ==
  /\ dbGroup = [c \in DbClients |-> "nil"] /\ dbLink = [c \in DbClients |-> 0]
  /\ dbAlive = [c \in DbClients |-> FALSE]
  /\ toDb = [c \in DbClients |-> <<>>] /\ toClient = [c \in DbClients |-> <<>>]
  /\ dbSink = [n \in {} |-> 0] /\ dbRuns = {} /\ dbResult = [n \in {} |-> NoResult]
  /\ dbChanCb = <<>>
  /\ dbReceived = [c \in DbClients |-> <<>>] /\ dbAsked = <<>>

\* onResRegister: the group has a session.
DbRegistered(c) ==
  /\ dbGroup[c] # "session" /\ dbLink[c] < DbMaxLinks
  /\ dbGroup' = [dbGroup EXCEPT ![c] = "session"]
  /\ dbLink' = [dbLink EXCEPT ![c] = @ + 1] /\ dbAlive' = [dbAlive EXCEPT ![c] = TRUE]
  /\ UNCHANGED <<toDb, toClient, dbSink, dbRuns, dbResult, dbChanCb, dbReceived, dbAsked>>

\* The connection breaks: nothing arrives any more but what has been received,
\* and waits for one of the main loops.
DbBreaks(c) ==
  /\ dbAlive[c] /\ dbAlive' = [dbAlive EXCEPT ![c] = FALSE]
  /\ \E i \in 0..Len(toDb[c]) : toDb' = [toDb EXCEPT ![c] = SubSeq(@, 1, i)]
  /\ \E i \in 0..Len(toClient[c]) : toClient' = [toClient EXCEPT ![c] = SubSeq(@, 1, i)]
  /\ UNCHANGED <<dbGroup, dbLink, dbSink, dbRuns, dbResult, dbChanCb, dbReceived, dbAsked>>

\* The close of the session comes behind what it has received; OnSvrOffline
\* takes the session from the group.
DbOffline(c) ==
  /\ dbGroup[c] = "session" /\ ~dbAlive[c] /\ toClient[c] = <<>>
  /\ dbGroup' = [dbGroup EXCEPT ![c] = "empty"]
  /\ UNCHANGED <<dbLink, dbAlive, toDb, toClient, dbSink, dbRuns, dbResult, dbChanCb, dbReceived, dbAsked>>

\* Do with a group.  The error of Send is dropped, so that a request that
\* cannot be sent is lost without a word.  (Without a group Do returns an
\* error, and nothing changes.)
Do(c) ==
  /\ dbGroup[c] # "nil" /\ Len(dbAsked) < DbMaxRequests
  /\ dbAsked' = Append(dbAsked,
       [client |-> c, link |-> dbLink[c], sent |-> dbAlive[c], returned |-> "nothing"])
  /\ toDb' = IF dbAlive[c] THEN [toDb EXCEPT ![c] = Append(@, [req |-> Len(dbAsked'), link |-> dbLink[c]])]
             ELSE toDb
  /\ UNCHANGED <<dbGroup, dbLink, dbAlive, toClient, dbSink, dbRuns, dbResult, dbChanCb, dbReceived>>

\* onRecvMsg starts a goroutine, with result variables of its own.
OnRecvMsg(c) ==
  /\ toDb[c] # <<>> /\ toDb' = [toDb EXCEPT ![c] = Tail(@)]
  /\ LET n == Head(toDb[c]).req
     IN  /\ dbSink' = [m \in DOMAIN dbSink \cup {n} |->
                        IF m = n THEN [client |-> c, link |-> Head(toDb[c]).link] ELSE dbSink[m]]
         /\ dbResult' = [m \in DOMAIN dbResult \cup {n} |-> IF m = n THEN NoResult ELSE dbResult[m]]
         /\ dbRuns' = dbRuns \cup {n}
  /\ UNCHANGED <<dbGroup, dbLink, dbAlive, toClient, dbChanCb, dbReceived, dbAsked>>

\* Mutant: the result variables belong to the manager.
OperateShared(n, v) ==
  /\ n \in dbRuns /\ dbRuns' = dbRuns \ {n}
  /\ dbResult' = [m \in DOMAIN dbResult |-> [req |-> n, verdict |-> v]]
  /\ dbChanCb' = Append(dbChanCb, n)
  /\ dbAsked' = [dbAsked EXCEPT ![n].returned = v]
  /\ UNCHANGED <<dbGroup, dbLink, dbAlive, toDb, toClient, dbSink, dbReceived>>

\* The goroutine ends, in any order with the others; its callback is sent even
\* if it panics.
Operate(n, v) ==
  /\ n \in dbRuns /\ dbRuns' = dbRuns \ {n}
  /\ dbResult' = [dbResult EXCEPT ![n] = [req |-> n, verdict |-> v]]
  /\ dbChanCb' = Append(dbChanCb, n)
  /\ dbAsked' = [dbAsked EXCEPT ![n].returned = v]
  /\ UNCHANGED <<dbGroup, dbLink, dbAlive, toDb, toClient, dbSink, dbReceived>>

\* The connection a request came by is the one its client has now.
SinkAlive(n) == LET s == dbSink[n] IN dbAlive[s.client] /\ dbLink[s.client] = s.link

\* Mutant: answers on the connection the client has now.
DbCallbackNow ==
  /\ dbChanCb # <<>> /\ dbChanCb' = Tail(dbChanCb)
  /\ LET n == Head(dbChanCb)
         c == dbSink[n].client
     IN  toClient' = IF dbResult[n].verdict # "nothing" /\ dbAlive[c]
                     THEN [toClient EXCEPT ![c] = Append(@, dbResult[n])] ELSE toClient
  /\ UNCHANGED <<dbGroup, dbLink, dbAlive, toDb, dbSink, dbRuns, dbResult, dbReceived, dbAsked>>

\* The callback in the main loop: an answer, if there is something to say, to
\* the session the request came from; it is lost if that has ended.
DbCallback ==
  /\ dbChanCb # <<>> /\ dbChanCb' = Tail(dbChanCb)
  /\ LET n == Head(dbChanCb)
     IN  toClient' = IF dbResult[n].verdict # "nothing" /\ SinkAlive(n)
                     THEN [toClient EXCEPT ![dbSink[n].client] = Append(@, dbResult[n])]
                     ELSE toClient
  /\ UNCHANGED <<dbGroup, dbLink, dbAlive, toDb, dbSink, dbRuns, dbResult, dbReceived, dbAsked>>

\* SvrSession.OnRecv: the client takes an answer.  Its session dispatches by
\* Svr_msg_dispatcher_, which does not know the message: at the gate
\* onRecvSvrTransmit sends it to every player, for its head names none.
RecvAnswer(c) ==
  /\ toClient[c] # <<>> /\ toClient' = [toClient EXCEPT ![c] = Tail(@)]
  /\ dbReceived' = [dbReceived EXCEPT ![c] = Append(@, Head(toClient[c]))]
  /\ UNCHANGED <<dbGroup, dbLink, dbAlive, toDb, dbSink, dbRuns, dbResult, dbChanCb, dbAsked>>

DbNext ==
  \/ \E c \in DbClients :
       \/ DbRegistered(c) \/ DbBreaks(c) \/ DbOffline(c)
       \/ Do(c) \/ OnRecvMsg(c) \/ RecvAnswer(c)
  \/ \E n \in dbRuns, v \in Verdicts : Operate(n, v)
  \/ DbCallback

DbSpec == DbInit /\ [][DbNext]_dbVars

-------------------------------------------------------------------------------
DbResult == [req : Requests \cup {0}, verdict : Verdicts]

\* Types of the variables.
DbTypeOK ==
  /\ dbGroup \in [DbClients -> {"nil", "empty", "session"}]
  /\ dbLink \in [DbClients -> 0..DbMaxLinks] /\ dbAlive \in [DbClients -> BOOLEAN]
  /\ toDb \in [DbClients -> Seq([req : Requests, link : 1..DbMaxLinks])]
  /\ toClient \in [DbClients -> Seq(DbResult)]
  /\ DOMAIN dbSink \subseteq Requests /\ \A n \in DOMAIN dbSink : dbSink[n] \in Link
  /\ dbRuns \subseteq DOMAIN dbSink /\ DOMAIN dbResult = DOMAIN dbSink
  /\ dbChanCb \in Seq(DOMAIN dbSink)
  /\ dbReceived \in [DbClients -> Seq(DbResult)]
  /\ dbAsked \in Seq([client : DbClients, link : 1..DbMaxLinks, sent : BOOLEAN, returned : Verdicts])

UnderWay(n) ==
  \/ n \in dbRuns
  \/ \E i \in DOMAIN dbChanCb : dbChanCb[i] = n
  \/ \E c \in DbClients :
       \/ \E i \in DOMAIN toDb[c] : toDb[c][i].req = n
       \/ \E i \in DOMAIN toClient[c] : toClient[c][i].req = n

\* A server takes at most one answer to a request, the server that made it and
\* no other, with what the operation of that very request returned, and only
\* over the connection the request went by, in whatever order goroutines and
\* callbacks come; and none comes in the end only if the operation has none, or
\* if the connection was not there, or broke (operation/mgr.go:47-101,
\* db_client.go:79-82).  What becomes of an answer that was taken is not said:
\* no handler of the code is called with it.
DbAnswers ==
  /\ \A c \in DbClients :
       /\ \A i, j \in DOMAIN dbReceived[c] : dbReceived[c][i].req = dbReceived[c][j].req => i = j
       /\ \A i \in DOMAIN dbReceived[c] :
            LET asked == dbAsked[dbReceived[c][i].req]
            IN  asked.client = c /\ asked.returned = dbReceived[c][i].verdict
       /\ \A i \in DOMAIN toClient[c] : dbAsked[toClient[c][i].req].link = dbLink[c]
  /\ \A n \in DOMAIN dbAsked :
       LET asked == dbAsked[n]
       IN  asked.sent /\ asked.returned # "nothing" /\ ~UnderWay(n)
             /\ dbAlive[asked.client] /\ dbLink[asked.client] = asked.link
           => \E i \in DOMAIN dbReceived[asked.client] : dbReceived[asked.client][i].req = n
===============================================================================
