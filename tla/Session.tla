------------------------------- MODULE Session -------------------------------
(***************************************************************************)
(* tcp.Session (libs/net/tcp/session.go): a connection with a bounded send *)
(* channel and its writer goroutine, sendLoop.  Any goroutine may call     *)
(* Send or Close; sendLoop itself calls Close when it ends.  Send runs     *)
(* under the read lock, Close under the write lock.  One action per step   *)
(* between two synchronisation points of the code.                         *)
(***************************************************************************)
EXTENDS Naturals, Sequences, Fifo

CONSTANTS
  Procs,     \* goroutines that call Send and Close
  Loop,      \* the sendLoop goroutine
  NoMsg,     \* nothing in flight
  SendCap,   \* sendChanSize, the capacity of sendChan
  MaxSends   \* bound: calls of Send per goroutine

ASSUME SessionAssumption ==
  /\ Loop \notin Procs
  /\ NoMsg \notin Procs \X Nat
  /\ SendCap \in Nat \ {0}
  /\ MaxSends \in Nat

Threads == Procs \cup {Loop}
Messages == Procs \X (0..MaxSends)  \* sends are numbered from 1

VARIABLES
  pc,             \* where each goroutine is
  sent,           \* number of Send calls each goroutine has begun
  result,         \* what the last Send of each goroutine returned
  readers,        \* holders of lock.RLock
  writer,         \* holders of lock.Lock (at most one)
  closeFlag,      \* session.closeFlag
  connUp,         \* the connection takes bytes
  closeChanOpen,  \* closeChan is not closed yet
  sendChanOpen,   \* sendChan is not closed yet
  sendChan,       \* the messages buffered in sendChan
  inflight,       \* the message sendLoop has received and not yet written
  panicked,       \* goroutines that sent on, or closed, a closed channel
  accepted,       \* history: messages pushed on sendChan, in order
  wire            \* history: messages written to a working connection

lockVars == <<readers, writer>>
closeVars == <<closeFlag, connUp, closeChanOpen, sendChanOpen>>
callVars == <<sent, result>>
history == <<accepted, wire>>
vars == <<pc, sent, result, readers, writer, closeFlag, connUp, closeChanOpen,
          sendChanOpen, sendChan, inflight, panicked, accepted, wire>>

\* newSession, which also starts sendLoop.
Init ==
  /\ pc = [t \in Threads |-> IF t = Loop THEN "select" ELSE "idle"]
  /\ sent = [p \in Procs |-> 0]
  /\ result = [p \in Procs |-> "none"]
  /\ readers = {} /\ writer = {}
  /\ closeFlag = FALSE /\ connUp = TRUE
  /\ closeChanOpen = TRUE /\ sendChanOpen = TRUE
  /\ sendChan = <<>> /\ inflight = NoMsg
  /\ panicked = {}
  /\ accepted = <<>> /\ wire = <<>>

Goto(t, l) == pc' = [pc EXCEPT ![t] = l]

(* --------------------------------- Send -------------------------------- *)

\* Send takes the read lock.
SendLock(p) ==
  /\ pc[p] = "idle" /\ sent[p] < MaxSends
  /\ writer = {}
  /\ readers' = readers \cup {p}
  /\ sent' = [sent EXCEPT ![p] = @ + 1]
  /\ Goto(p, "check")
  /\ UNCHANGED <<result, writer, closeVars, sendChan, inflight, panicked, history>>

\* Mutant: Send does not look at closeFlag.
SendCheckNoFlag(p) ==
  /\ pc[p] = "check"
  /\ Goto(p, "push")
  /\ UNCHANGED <<callVars, lockVars, closeVars, sendChan, inflight, panicked, history>>

\* The closeFlag test of Send.
SendCheck(p) ==
  /\ pc[p] = "check"
  /\ IF closeFlag
     THEN /\ result' = [result EXCEPT ![p] = "closed"]
          /\ readers' = readers \ {p}
          /\ Goto(p, "idle")
     ELSE /\ Goto(p, "push")
          /\ UNCHANGED <<result, readers>>
  /\ UNCHANGED <<sent, writer, closeVars, sendChan, inflight, panicked, history>>

\* Mutant: the buffer takes one message more than its capacity.
SendPushOver(p) ==
  /\ pc[p] = "push"
  /\ sendChanOpen /\ Len(sendChan) <= SendCap
  /\ sendChan' = Append(sendChan, <<p, sent[p]>>)
  /\ accepted' = Append(accepted, <<p, sent[p]>>)
  /\ Goto(p, "pushed")
  /\ UNCHANGED <<callVars, lockVars, closeVars, inflight, panicked, wire>>

\* The non-blocking select of Send, when the send case can run: it does when
\* the buffer has room, and a send on a closed channel panics (with the read
\* lock still held).
SendPush(p) ==
  /\ pc[p] = "push"
  /\ sendChanOpen => Len(sendChan) < SendCap
  /\ IF sendChanOpen
     THEN /\ sendChan' = Append(sendChan, <<p, sent[p]>>)
          /\ accepted' = Append(accepted, <<p, sent[p]>>)
          /\ Goto(p, "pushed")
          /\ UNCHANGED panicked
     ELSE /\ panicked' = panicked \cup {p}
          /\ Goto(p, "dead")
          /\ UNCHANGED <<sendChan, accepted>>
  /\ UNCHANGED <<callVars, lockVars, closeVars, inflight, wire>>

\* Mutants: a full channel is reported but the session is not closed, or it is
\* closed with the read lock still held.
SendFullNoClose(p) ==
  /\ pc[p] = "push"
  /\ sendChanOpen /\ Len(sendChan) >= SendCap
  /\ readers' = readers \ {p}
  /\ result' = [result EXCEPT ![p] = "full"]
  /\ Goto(p, "idle")
  /\ UNCHANGED <<sent, writer, closeVars, sendChan, inflight, panicked, history>>
SendFullHoldingLock(p) ==
  /\ pc[p] = "push"
  /\ sendChanOpen /\ Len(sendChan) >= SendCap
  /\ result' = [result EXCEPT ![p] = "full"]
  /\ Goto(p, "lock")
  /\ UNCHANGED <<sent, lockVars, closeVars, sendChan, inflight, panicked, history>>

\* The default branch of the select: the read lock is released, then Close.
SendFull(p) ==
  /\ pc[p] = "push"
  /\ sendChanOpen /\ Len(sendChan) >= SendCap
  /\ readers' = readers \ {p}
  /\ result' = [result EXCEPT ![p] = "full"]
  /\ Goto(p, "lock")
  /\ UNCHANGED <<sent, writer, closeVars, sendChan, inflight, panicked, history>>

\* The last RUnlock of Send.
SendReturn(p) ==
  /\ pc[p] = "pushed"
  /\ readers' = readers \ {p}
  /\ result' = [result EXCEPT ![p] = "ok"]
  /\ Goto(p, "idle")
  /\ UNCHANGED <<sent, writer, closeVars, sendChan, inflight, panicked, history>>

(* --------------------------------- Close ------------------------------- *)

\* The owner of the session closes it: server Stop, kick, heartbeat timeout.
CloseCall(p) ==
  /\ pc[p] = "idle"
  /\ Goto(p, "lock")
  /\ UNCHANGED <<callVars, lockVars, closeVars, sendChan, inflight, panicked, history>>

CloseLock(t) ==
  /\ pc[t] = "lock"
  /\ readers = {} /\ writer = {}
  /\ writer' = {t}
  /\ Goto(t, "locked")
  /\ UNCHANGED <<callVars, readers, closeVars, sendChan, inflight, panicked, history>>

\* The second Close finds closeFlag set and returns.
CloseAgain(t) ==
  /\ pc[t] = "locked" /\ closeFlag
  /\ Goto(t, "unlock")
  /\ UNCHANGED <<callVars, lockVars, closeVars, sendChan, inflight, panicked, history>>

\* closeFlag is set and the connection closed.
CloseConn(t) ==
  /\ pc[t] = "locked" /\ ~closeFlag
  /\ closeFlag' = TRUE
  /\ connUp' = FALSE
  /\ Goto(t, "closeChan")
  /\ UNCHANGED <<callVars, lockVars, closeChanOpen, sendChanOpen, sendChan,
                 inflight, panicked, history>>

CloseCloseChan(t) ==
  /\ pc[t] = "closeChan"
  /\ closeChanOpen' = FALSE
  /\ panicked' = IF closeChanOpen THEN panicked ELSE panicked \cup {t}
  /\ Goto(t, "sendChan")
  /\ UNCHANGED <<callVars, lockVars, closeFlag, connUp, sendChanOpen, sendChan,
                 inflight, history>>

CloseSendChan(t) ==
  /\ pc[t] = "sendChan"
  /\ sendChanOpen' = FALSE
  /\ panicked' = IF sendChanOpen THEN panicked ELSE panicked \cup {t}
  /\ Goto(t, "unlock")
  /\ UNCHANGED <<callVars, lockVars, closeFlag, connUp, closeChanOpen, sendChan,
                 inflight, history>>

\* The deferred Unlock: Close returns, and sendLoop with it.
CloseUnlock(t) ==
  /\ pc[t] = "unlock"
  /\ writer' = writer \ {t}
  /\ Goto(t, IF t = Loop THEN "done" ELSE "idle")
  /\ UNCHANGED <<callVars, readers, closeVars, sendChan, inflight, panicked, history>>

(* ------------------------------- sendLoop ------------------------------ *)

\* select picks a ready case at random: closeChan closed ...
LoopStop ==
  /\ pc[Loop] = "select" /\ ~closeChanOpen
  /\ Goto(Loop, "lock")
  /\ UNCHANGED <<callVars, lockVars, closeVars, sendChan, inflight, panicked, history>>

\* ... or a message, buffered messages of a closed channel included ...
LoopReceive ==
  /\ pc[Loop] = "select" /\ sendChan # <<>>
  /\ inflight' = Head(sendChan)
  /\ sendChan' = Tail(sendChan)
  /\ Goto(Loop, "write")
  /\ UNCHANGED <<callVars, lockVars, closeVars, panicked, history>>

\* ... or sendChan closed and drained.
LoopDrained ==
  /\ pc[Loop] = "select" /\ sendChan = <<>> /\ ~sendChanOpen
  /\ Goto(Loop, "lock")
  /\ UNCHANGED <<callVars, lockVars, closeVars, sendChan, inflight, panicked, history>>

\* Mutants: a rejected message is skipped, or ends sendLoop without Close.
LoopRejectSkip ==
  /\ pc[Loop] = "write"
  /\ inflight' = NoMsg
  /\ Goto(Loop, "select")
  /\ UNCHANGED <<callVars, lockVars, closeVars, sendChan, panicked, history>>
LoopRejectNoClose ==
  /\ pc[Loop] = "write"
  /\ inflight' = NoMsg
  /\ Goto(Loop, "done")
  /\ UNCHANGED <<callVars, lockVars, closeVars, sendChan, panicked, history>>

\* codec.Marshal fails, or msgParser.Write refuses the length: sendLoop ends.
LoopReject ==
  /\ pc[Loop] = "write"
  /\ inflight' = NoMsg
  /\ Goto(Loop, "lock")
  /\ UNCHANGED <<callVars, lockVars, closeVars, sendChan, panicked, history>>

\* conn.Write succeeds.  It may block as long as the peer does not read.
LoopWrite ==
  /\ pc[Loop] = "write" /\ connUp
  /\ wire' = Append(wire, inflight)
  /\ inflight' = NoMsg
  /\ Goto(Loop, "select")
  /\ UNCHANGED <<callVars, lockVars, closeVars, sendChan, panicked, accepted>>

\* conn.Write on a dead connection: MsgParser.Write ignores its error.
LoopLose ==
  /\ pc[Loop] = "write" /\ ~connUp
  /\ inflight' = NoMsg
  /\ Goto(Loop, "select")
  /\ UNCHANGED <<callVars, lockVars, closeVars, sendChan, panicked, history>>

\* The network or the peer breaks the connection.
PeerGone ==
  /\ connUp
  /\ connUp' = FALSE
  /\ UNCHANGED <<pc, callVars, lockVars, closeFlag, closeChanOpen, sendChanOpen,
                 sendChan, inflight, panicked, history>>

SendRun(p) == SendCheck(p) \/ SendPush(p) \/ SendFull(p) \/ SendReturn(p)

Close(t) == \/ CloseLock(t) \/ CloseAgain(t) \/ CloseConn(t)
            \/ CloseCloseChan(t) \/ CloseSendChan(t) \/ CloseUnlock(t)

SendLoop == \/ LoopStop \/ LoopReceive \/ LoopDrained
            \/ LoopReject \/ LoopWrite \/ LoopLose

Next ==
  \/ \E p \in Procs : SendLock(p) \/ SendRun(p) \/ CloseCall(p)
  \/ \E t \in Threads : Close(t)
  \/ SendLoop
  \/ PeerGone

\* A goroutine inside Send or Close keeps running: the steps there are local,
\* and sync.RWMutex lets every waiting writer in eventually.  sendLoop runs
\* too, except that conn.Write on a working connection takes as long as the
\* peer takes to read.
Fairness ==
  /\ \A p \in Procs : WF_vars(SendRun(p))
  /\ \A t \in Threads : SF_vars(CloseLock(t)) /\ WF_vars(Close(t))
  /\ WF_vars(LoopStop \/ LoopReceive \/ LoopDrained \/ LoopLose)

Spec == Init /\ [][Next]_vars /\ Fairness

-------------------------------------------------------------------------------
PcValues == {"idle", "check", "push", "pushed", "lock", "locked", "closeChan",
             "sendChan", "unlock", "dead", "select", "write", "done"}

\* Types of the variables; sendChan never holds more than its capacity.
TypeOK ==
  /\ pc \in [Threads -> PcValues]
  /\ sent \in [Procs -> 0..MaxSends]
  /\ result \in [Procs -> {"none", "ok", "closed", "full"}]
  /\ readers \subseteq Procs /\ writer \subseteq Threads
  /\ closeFlag \in BOOLEAN /\ connUp \in BOOLEAN
  /\ closeChanOpen \in BOOLEAN /\ sendChanOpen \in BOOLEAN
  /\ sendChan \in Seq(Messages) /\ Len(sendChan) <= SendCap
  /\ inflight \in Messages \cup {NoMsg}
  /\ panicked \subseteq Threads
  /\ accepted \in Seq(Messages) /\ wire \in Seq(Messages)

\* No goroutine ever sends on a closed sendChan or closes a channel twice,
\* whatever the interleaving of Send, Close and the end of sendLoop
\* (session.go:57, 91, 92): the lock and closeFlag suffice.
NoPanic == panicked = {}

\* What is on the wire is what Send accepted, in that order and without a
\* gap, although sendLoop picks between closeChan and sendChan at random and
\* a closed channel still yields its buffer (session.go:102-105).
WirePrefix == PrefixOf(wire, accepted)

\* A caller that was refused, and a sendLoop that gave up on a message, leave
\* a session that is closed as a whole: flag, connection and both channels.
\* No session is left half open, accepting messages nobody will write.
RefusedMeansClosed ==
  (writer = {} /\ (pc[Loop] = "done" \/ \E p \in Procs : pc[p] = "idle" /\ result[p] \in {"closed", "full"}))
     => closeFlag /\ ~connUp /\ ~closeChanOpen /\ ~sendChanOpen

\* Every call of Send and Close returns, even while the peer reads nothing,
\* and closing a session ends its sendLoop goroutine, even when messages are
\* still buffered or conn.Write was blocked (session.go:49-125).
NobodyHangs == /\ \A p \in Procs : (pc[p] # "idle") ~> (pc[p] = "idle")
               /\ closeFlag ~> (pc[Loop] = "done")

\* A Session is an Outbox: messages are accepted until closeFlag is set and
\* delivered while the connection is up.
Abstract == INSTANCE Outbox
              WITH delivered <- wire, closed <- closeFlag, cut <- ~connUp

ImplementsOutbox == Abstract!Spec

\* If the peer keeps reading, every accepted message is written unless the
\* connection goes down first: sendLoop cannot stop on a session that stays up.
DrainsIfPeerReads == WF_vars(LoopWrite) => Abstract!Drains

\* A session goes on: no call or goroutine of it hangs, and it delivers while
\* the peer reads (session.go:49-125).
GoesOn == NobodyHangs /\ DrainsIfPeerReads
===============================================================================
