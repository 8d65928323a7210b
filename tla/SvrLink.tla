-------------------------------- MODULE SvrLink --------------------------------
(***************************************************************************)
(* The link between two servers, seen by SvrsMgr (apps/common/net/         *)
(* server_mgr.go) at both ends.  The dialler makes one tcp session after   *)
(* another, with a SvrSession on each; it registers itself, and adds the   *)
(* acceptor to its SvrGroup when the answer comes.  The acceptor, with a   *)
(* ClientSession on each connection, adds the dialler to its own group     *)
(* when it is asked to.  A group has one entry per server id, one here: a  *)
(* new registration closes the session of the old one.                     *)
(*                                                                         *)
(* Each end handles the events of one session in order (accept, messages,  *)
(* close).  The dialler has a single goroutine, so its sessions follow     *)
(* each other; the acceptor has one per connection, and events of several  *)
(* connections reach its main loop in any order.                           *)
(***************************************************************************)
EXTENDS Naturals, Sequences

CONSTANTS
  None,          \* no session
  Shared,        \* both message dispatchers of the dialler are one object
  MaxSessions,   \* bound: connections ever made
  MaxNotices     \* bound: notices the dialler tries to send

ASSUME SvrLinkAssumption ==
  /\ Shared \in BOOLEAN
  /\ MaxSessions \in Nat \ {0} /\ MaxNotices \in Nat
  /\ None \notin Nat

Ends == {"dialler", "acceptor"}
Ids == 1..MaxSessions

VARIABLES
  dialled,   \* connections made so far
  live,      \* the tcp session is open and delivers
  stream,    \* [end][s]: messages received and on their way to an end
  logic,     \* [end][s]: the logic session: "none", "open", "closed"
  attr,      \* [end][s]: Session_attribute_key_svr_info is set
  entry,     \* [end]: session of the other server in its SvrGroup
  answered,  \* history: sessions whose answer the dialler has handled
  notices    \* notices the dialler has tried to send

vars == <<dialled, live, stream, logic, attr, entry, answered, notices>>

Init ==
  /\ dialled = 0
  /\ live = [s \in Ids |-> FALSE]
  /\ stream = [e \in Ends |-> [s \in Ids |-> <<>>]]
  /\ logic = [e \in Ends |-> [s \in Ids |-> "none"]]
  /\ attr = [e \in Ends |-> [s \in Ids |-> FALSE]]
  /\ entry = [e \in Ends |-> None]
  /\ answered = {} /\ notices = 0

(* ------------------------------- The tcp layer ------------------------- *)

\* The client goroutine dials, and redials once it has left the session
\* before; the acceptor's listener takes the connection.
Dial ==
  /\ dialled < MaxSessions /\ (dialled > 0 => ~live[dialled])
  /\ dialled' = dialled + 1
  /\ live' = [live EXCEPT ![dialled + 1] = TRUE]
  /\ UNCHANGED <<stream, logic, attr, entry, answered, notices>>

\* Some of what is on its way at the end of a connection is still handled.
Truncated(st, s) ==
  {[e \in Ends |-> [st[e] EXCEPT ![s] = SubSeq(@, 1, IF e = "dialler" THEN i ELSE j)]] :
     i \in 0..Len(st["dialler"][s]), j \in 0..Len(st["acceptor"][s])}

\* The connection breaks, or one of OnHeartBeat closes it after its timeout.
\* Each end handles the close event in its own time.
Lost(s) ==
  /\ live[s]
  /\ live' = [live EXCEPT ![s] = FALSE]
  /\ stream' \in Truncated(stream, s)
  /\ UNCHANGED <<dialled, logic, attr, entry, answered, notices>>

\* Session.Send to the end e: nothing arrives once the connection is gone.
Sent(st, e, s, m) == IF live[s] THEN [st EXCEPT ![e][s] = Append(@, m)] ELSE st
Received(e, s) == [stream EXCEPT ![e][s] = Tail(@)]

(* --------------------------------- SvrGroup ---------------------------- *)

\* Mutant: the session of an earlier registration is left open.
AddSessionNoKick(e, s, st) ==
  /\ attr' = [attr EXCEPT ![e][s] = TRUE]
  /\ entry' = [entry EXCEPT ![e] = s]
  /\ stream' = st /\ UNCHANGED live

\* AddSession: an earlier session of the same server is kicked.
AddSession(e, s, st) ==
  /\ attr' = [attr EXCEPT ![e][s] = TRUE]
  /\ entry' = [entry EXCEPT ![e] = s]
  /\ LET old == entry[e]
     IN  IF old # None /\ live[old]
         THEN live' = [live EXCEPT ![old] = FALSE] /\ stream' \in Truncated(st, old)
         ELSE stream' = st /\ UNCHANGED live

\* RemoveSession: only if the session was not kicked.
RemoveSession(e, s) == entry' = IF entry[e] = s THEN [entry EXCEPT ![e] = None] ELSE entry

\* Select: the group has one element, or none while it has no entry.
Select(e) == {s \in Ids : entry[e] = s}

\* SvrGroup.Send, an error when nothing is selected.
SendToGroup(e, to, m) ==
  stream' = IF Select(e) = {} THEN stream
            ELSE Sent(stream, to, CHOOSE s \in Select(e) : TRUE, m)

(* ------------------------------- The two ends -------------------------- *)

\* CreateSvrSession or CreateClientSession, then OnCreate.
Create(e, s) == logic[e][s] = "none" /\ logic' = [logic EXCEPT ![e][s] = "open"]

\* regSvrCallBack.
RegSvr(s) == Sent(stream, "acceptor", s, "register")

\* OnSvrOffline: a session that was never registered has no attribute.
OnSvrOffline(e, s) == IF attr[e][s] THEN RemoveSession(e, s) ELSE UNCHANGED entry

\* The sessions of the dialler follow each other.
Turn(s) == s \in 1..dialled /\ (s > 1 => logic["dialler"][s - 1] = "closed")

\* onSessionConnect with createInnerSvrSession, whose accept callback registers.
OnConnect(s) ==
  /\ Turn(s) /\ Create("dialler", s)
  /\ stream' = RegSvr(s)
  /\ UNCHANGED <<dialled, live, attr, entry, answered, notices>>

\* OnAccept.
OnAccept(s) ==
  /\ s \in 1..dialled /\ Create("acceptor", s)
  /\ UNCHANGED <<dialled, live, stream, attr, entry, answered, notices>>

\* OnRecv of the logic session: its next message.
Receives(e, s, m) == logic[e][s] = "open" /\ stream[e][s] # <<>> /\ Head(stream[e][s]) = m

\* Mutant: a registration is refused while an older one is in place.
OnReqRegisterRefuses(s) ==
  /\ Receives("acceptor", s, "register")
  /\ IF entry["acceptor"] = None
     THEN AddSession("acceptor", s, Sent(Received("acceptor", s), "dialler", s, "answer"))
     ELSE stream' = Received("acceptor", s) /\ UNCHANGED <<live, attr, entry>>
  /\ UNCHANGED <<dialled, logic, answered, notices>>

\* onReqRegister at the acceptor.
OnReqRegister(s) ==
  /\ Receives("acceptor", s, "register")
  /\ IF entry["acceptor"] = s
     THEN stream' = Received("acceptor", s) /\ UNCHANGED <<live, attr, entry>>
     ELSE AddSession("acceptor", s, Sent(Received("acceptor", s), "dialler", s, "answer"))
  /\ UNCHANGED <<dialled, logic, answered, notices>>

\* Register replaces the handler of a message id.  With one dispatcher for
\* both kinds of session, the id of the answer, which is that of the request,
\* belongs to onReqRegister; it panics on a SvrSession, and the main loop recovers.
AnswerDispatched == ~Shared

\* onResRegister at the dialler.
OnResRegister(s) ==
  /\ Receives("dialler", s, "answer")
  /\ answered' = answered \cup {s}
  /\ IF AnswerDispatched /\ entry["dialler"] # s
     THEN AddSession("dialler", s, Received("dialler", s))
     ELSE stream' = Received("dialler", s) /\ UNCHANGED <<live, attr, entry>>
  /\ UNCHANGED <<dialled, logic, notices>>

\* SendBySvrType at the dialler.
Notify ==
  /\ notices < MaxNotices
  /\ notices' = notices + 1
  /\ SendToGroup("dialler", "acceptor", "notice")
  /\ UNCHANGED <<dialled, live, logic, attr, entry, answered>>

\* The world server has no handler for it, which Dispatch reports.
OnNotice(s) ==
  /\ Receives("acceptor", s, "notice")
  /\ stream' = Received("acceptor", s)
  /\ UNCHANGED <<dialled, live, logic, attr, entry, answered, notices>>

\* The close event, after everything received.
Ended(e, s) == logic[e][s] = "open" /\ ~live[s] /\ stream[e][s] = <<>>

\* Mutant: m_attribute_ is cleared before the callback.
OnCloseClearsFirst(e, s) ==
  /\ Ended(e, s)
  /\ logic' = [logic EXCEPT ![e][s] = "closed"]
  /\ attr' = [attr EXCEPT ![e][s] = FALSE]
  /\ UNCHANGED <<dialled, live, stream, entry, answered, notices>>

\* Mutant: m_attribute_ is not cleared.
OnCloseKeepsAttr(e, s) ==
  /\ Ended(e, s)
  /\ logic' = [logic EXCEPT ![e][s] = "closed"]
  /\ OnSvrOffline(e, s)
  /\ UNCHANGED <<dialled, live, stream, attr, answered, notices>>

\* OnClose of the logic session, with OnSvrOffline.
OnClose(e, s) ==
  /\ Ended(e, s)
  /\ logic' = [logic EXCEPT ![e][s] = "closed"]
  /\ attr' = [attr EXCEPT ![e][s] = FALSE]
  /\ OnSvrOffline(e, s)
  /\ UNCHANGED <<dialled, live, stream, answered, notices>>

\* Events of TcpClientMgr at one end, of SvrsMgr at the other.
DiallerLoop(s) == OnConnect(s) \/ OnResRegister(s) \/ OnClose("dialler", s)
AcceptorLoop(s) == OnAccept(s) \/ OnReqRegister(s) \/ OnNotice(s) \/ OnClose("acceptor", s)

Next ==
  \/ Dial \/ Notify
  \/ \E s \in Ids : Lost(s) \/ DiallerLoop(s) \/ AcceptorLoop(s)

\* Both main loops handle what reaches them, and the client redials.
Spec == Init /\ [][Next]_vars /\ WF_vars(Dial)
             /\ \A s \in Ids : WF_vars(DiallerLoop(s)) /\ WF_vars(AcceptorLoop(s))

-------------------------------------------------------------------------------
\* Types of the variables; only an open logic session has attributes.
TypeOK ==
  /\ dialled \in 0..MaxSessions /\ notices \in 0..MaxNotices
  /\ live \in [Ids -> BOOLEAN]
  /\ stream \in [Ends -> [Ids -> Seq({"register", "answer", "notice"})]]
  /\ logic \in [Ends -> [Ids -> {"none", "open", "closed"}]]
  /\ attr \in [Ends -> [Ids -> BOOLEAN]]
  /\ \A e \in Ends, s \in Ids : attr[e][s] => logic[e][s] = "open"
  /\ entry \in [Ends -> Ids \cup {None}]
  /\ answered \subseteq Ids

EntryOpen == \A e \in Ends : entry[e] # None => logic[e][entry[e]] = "open"
RegisteredFirst ==
  \A s \in Ids : logic["acceptor"][s] = "open"
                   /\ (\E i \in DOMAIN stream["acceptor"][s] : stream["acceptor"][s][i] = "notice")
                 => attr["acceptor"][s]

\* The entry of a group can be used: it is never a session that was closed,
\* which AddSession and SendToSvr would call although OnClose has set its tcp
\* session to nil (svr_info.go:74, 125, client_session.go:105,
\* svr_session.go:98); and what the dialler sends through it reaches the
\* acceptor after the registration of the session (server_mgr.go:155, 266).
EntryUsable == EntryOpen /\ RegisteredFirst

\* Nothing of the session is on its way.
Settled(s) == \A e \in Ends : logic[e][s] = "open" /\ stream[e][s] = <<>>

\* While a connection lives and nothing is on its way, both ends hold it as
\* their session with the other server, even if requests of older connections
\* were handled late and older sessions closed after it was registered
\* (svr_info.go:64-91, 99-113).
Agreed == \A s \in Ids : live[s] /\ Settled(s) => \A e \in Ends : entry[e] = s

\* Both ends hold the same connection, an open one, which they can send through.
LinkHolds == EntryUsable /\ Agreed

\* A connection that lives on is registered at both ends in the end, whatever
\* happens to the others (server_mgr.go:220-285).
Heals == \A s \in Ids : live[s] ~> (~live[s] \/ \A e \in Ends : entry[e] = s)

\* The dialler can send to a server that has accepted its registration.  It
\* does not hold with a shared dispatcher.
Notified == \A s \in answered : logic["dialler"][s] = "open" => entry["dialler"] = s
===============================================================================
