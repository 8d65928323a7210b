------------------------------- MODULE LibsProof -------------------------------
(***************************************************************************)
(* What holds of a session (Session.tla), of the grpc balancer and the     *)
(* etcd registry it follows (Balancer.tla, EtcdRegistry.tla), of the       *)
(* requests to the database server (DbService.tla), of the log files       *)
(* (Log.tla) and of the wheel timer (WheelTimer.tla), for every value of   *)
(* their constants.  The components share no variable; their proofs share  *)
(* the lemmas about queues and numbers.                                    *)
(***************************************************************************)
EXTENDS Session, EtcdRegistry, DbService, Log, WheelTimer, SeqLemmas

(* ------------------------------- Session ------------------------------- *)

SendPcs == {"check", "push", "pushed"}
ClosePcs == {"locked", "closeChan", "sendChan", "unlock"}

\* Who holds the lock is where the goroutines are.
LockInv ==
  /\ \A p \in Procs : pc[p] \in {"idle", "lock"} \cup SendPcs \cup ClosePcs
  /\ pc[Loop] \in {"select", "write", "lock", "done"} \cup ClosePcs
  /\ \A p \in Procs : p \in readers <=> pc[p] \in SendPcs
  /\ \A t \in Threads : t \in writer <=> pc[t] \in ClosePcs
  /\ \A t, u \in writer : t = u
  /\ writer # {} => readers = {}

\* The stages of Close, each passed once.
CloseInv ==
  /\ panicked = {}
  /\ closeFlag => ~connUp
  /\ \A p \in Procs : pc[p] \in {"push", "pushed"} => ~closeFlag
  /\ \A t \in Threads : pc[t] \in {"closeChan", "sendChan", "unlock"} => closeFlag
  /\ closeChanOpen <=> ~closeFlag \/ \E t \in Threads : pc[t] = "closeChan"
  /\ sendChanOpen <=> ~closeFlag \/ \E t \in Threads : pc[t] \in {"closeChan", "sendChan"}

\* What accepted, sendChan, inflight and wire have in common.
FifoInv ==
  /\ SuffixOf(sendChan, accepted)
  /\ Len(wire) + Len(sendChan) <= Len(accepted)
  /\ pc[Loop] = "write" =>
       /\ Len(wire) + Len(sendChan) < Len(accepted)
       /\ inflight = accepted[Len(accepted) - Len(sendChan)]
       /\ connUp => Len(wire) + Len(sendChan) + 1 = Len(accepted)
  /\ pc[Loop] = "select" /\ connUp => Len(wire) + Len(sendChan) = Len(accepted)

\* A refusal is final.
RefusedInv ==
  /\ \A p \in Procs : result[p] = "closed" => closeFlag
  /\ \A p \in Procs : result[p] = "full" => closeFlag \/ pc[p] \in {"lock", "locked"}
  /\ pc[Loop] = "done" => closeFlag

IInv == TypeOK /\ LockInv /\ CloseInv /\ FifoInv /\ WirePrefix /\ RefusedInv

\* Every step keeps the variables in their types.
LEMMA TypeStep ==
  TypeOK /\ FifoInv /\ [Next]_vars => TypeOK'
<1> SUFFICES ASSUME TypeOK, FifoInv, [Next]_vars PROVE TypeOK'
  OBVIOUS
<1> USE SessionAssumption DEF TypeOK, PcValues, Messages, Threads
<1>1. ASSUME NEW p \in Procs, SendLock(p) PROVE TypeOK'
  BY <1>1 DEF SendLock, Goto, callVars, lockVars, closeVars, history
<1>2. ASSUME NEW p \in Procs, SendCheck(p) PROVE TypeOK'
  BY <1>2 DEF SendCheck, Goto, callVars, lockVars, closeVars, history
<1>3. ASSUME NEW p \in Procs, SendPush(p) PROVE TypeOK'
  <2>1. <<p, sent[p]>> \in Messages
    OBVIOUS
  <2>2. CASE sendChanOpen
    <3>1. /\ Append(sendChan, <<p, sent[p]>>) \in Seq(Messages)
          /\ Len(Append(sendChan, <<p, sent[p]>>)) = Len(sendChan) + 1
          /\ Append(accepted, <<p, sent[p]>>) \in Seq(Messages)
          /\ Len(sendChan) \in Nat
      BY <2>1, AppendProperties, LenProperties
    <3>2. Len(sendChan) < SendCap
      BY <2>2, <1>3 DEF SendPush
    <3>3. sendChan' \in Seq(Messages) /\ Len(sendChan') = Len(sendChan) + 1
      BY <3>1, <2>2, <1>3 DEF SendPush
    <3>4. accepted' \in Seq(Messages)
      BY <3>1, <2>2, <1>3 DEF SendPush
    <3>5. pc' \in [Threads -> PcValues]
      BY <2>2, <1>3 DEF SendPush, Goto, callVars, lockVars, closeVars, history
    <3>6. Len(sendChan') <= SendCap
      <4> HIDE DEF TypeOK
      <4>1. QED
        BY <3>1, <3>2, <3>3, SessionAssumption
    <3>7. QED
      BY <3>3, <3>4, <3>5, <3>6, <2>2, <1>3 DEF SendPush, Goto, callVars, lockVars, closeVars, history
  <2>3. CASE ~sendChanOpen
    BY <2>3, <1>3 DEF SendPush, Goto, callVars, lockVars, closeVars, history
  <2>4. QED
    BY <2>2, <2>3
<1>4. ASSUME NEW p \in Procs, SendFull(p) PROVE TypeOK'
  BY <1>4 DEF SendFull, Goto, callVars, lockVars, closeVars, history
<1>5. ASSUME NEW p \in Procs, SendReturn(p) PROVE TypeOK'
  BY <1>5 DEF SendReturn, Goto, callVars, lockVars, closeVars, history
<1>6. ASSUME NEW p \in Procs, CloseCall(p) PROVE TypeOK'
  BY <1>6 DEF CloseCall, Goto, callVars, lockVars, closeVars, history
<1>7. ASSUME NEW t \in Threads, CloseLock(t) PROVE TypeOK'
  BY <1>7 DEF CloseLock, Goto, callVars, lockVars, closeVars, history
<1>8. ASSUME NEW t \in Threads, CloseAgain(t) PROVE TypeOK'
  BY <1>8 DEF CloseAgain, Goto, callVars, lockVars, closeVars, history
<1>9. ASSUME NEW t \in Threads, CloseConn(t) PROVE TypeOK'
  BY <1>9 DEF CloseConn, Goto, callVars, lockVars, closeVars, history
<1>10. ASSUME NEW t \in Threads, CloseCloseChan(t) PROVE TypeOK'
  BY <1>10 DEF CloseCloseChan, Goto, callVars, lockVars, closeVars, history
<1>11. ASSUME NEW t \in Threads, CloseSendChan(t) PROVE TypeOK'
  BY <1>11 DEF CloseSendChan, Goto, callVars, lockVars, closeVars, history
<1>12. ASSUME NEW t \in Threads, CloseUnlock(t) PROVE TypeOK'
  BY <1>12 DEF CloseUnlock, Goto, callVars, lockVars, closeVars, history
<1>13. CASE LoopStop
  BY <1>13 DEF LoopStop, Goto, callVars, lockVars, closeVars, history
<1>14. CASE LoopReceive
  <2>1. /\ Head(sendChan) \in Messages
        /\ Tail(sendChan) \in Seq(Messages)
        /\ Len(Tail(sendChan)) = Len(sendChan) - 1
    BY <1>14, HeadTailProperties DEF LoopReceive
  <2>2. QED
    BY <2>1, <1>14, LenProperties DEF LoopReceive, Goto, callVars, lockVars, closeVars, history
<1>15. CASE LoopDrained
  BY <1>15 DEF LoopDrained, Goto, callVars, lockVars, closeVars, history
<1>16. CASE LoopReject
  BY <1>16 DEF LoopReject, Goto, callVars, lockVars, closeVars, history
<1>17. CASE LoopWrite
  <2>1. inflight \in Messages
    BY <1>17, LenProperties, ElementOfSeq DEF LoopWrite, FifoInv
  <2>2. QED
    BY <2>1, <1>17, AppendProperties DEF LoopWrite, Goto, callVars, lockVars, closeVars, history
<1>18. CASE LoopLose
  BY <1>18 DEF LoopLose, Goto, callVars, lockVars, closeVars, history
<1>19. CASE PeerGone
  BY <1>19 DEF PeerGone, Goto, callVars, lockVars, closeVars, history
<1>20. CASE UNCHANGED vars
  BY <1>20 DEF vars
<1>21. QED
  BY <1>1, <1>2, <1>3, <1>4, <1>5, <1>6, <1>7, <1>8, <1>9, <1>10, <1>11, <1>12, <1>13, <1>14, <1>15, <1>16, <1>17, <1>18, <1>19, <1>20 DEF Next, SendRun, Close, SendLoop

\* The lock is held by one writer or by readers only.
LEMMA LockStep ==
  TypeOK /\ LockInv /\ CloseInv /\ [Next]_vars => LockInv'
<1> SUFFICES ASSUME TypeOK, LockInv, CloseInv, [Next]_vars PROVE LockInv'
  OBVIOUS
<1> USE SessionAssumption DEF TypeOK, LockInv, CloseInv, SendPcs, ClosePcs, Threads
<1>1. ASSUME NEW p \in Procs, SendLock(p) PROVE LockInv'
  BY <1>1 DEF SendLock, Goto, callVars, lockVars, closeVars, history
<1>2. ASSUME NEW p \in Procs, SendCheck(p) PROVE LockInv'
  <2>1. pc[p] = "check" /\ pc' = [pc EXCEPT ![p] = IF closeFlag THEN "idle" ELSE "push"]
    BY <1>2 DEF SendCheck, Goto, callVars, lockVars, closeVars, history
  <2>2. readers' = (IF closeFlag THEN readers \ {p} ELSE readers) /\ writer' = writer
    BY <1>2 DEF SendCheck, Goto, callVars, lockVars, closeVars, history
  <2>3. QED
    BY <2>1, <2>2
<1>3. ASSUME NEW p \in Procs, SendPush(p) PROVE LockInv'
  <2>1. pc[p] = "push" /\ pc' = [pc EXCEPT ![p] = "pushed"]
    BY <1>3 DEF SendPush, Goto, callVars, lockVars, closeVars, history
  <2>2. UNCHANGED <<readers, writer>>
    BY <1>3 DEF SendPush, Goto, callVars, lockVars, closeVars, history
  <2>3. QED
    BY <2>1, <2>2
<1>4. ASSUME NEW p \in Procs, SendFull(p) PROVE LockInv'
  BY <1>4 DEF SendFull, Goto, callVars, lockVars, closeVars, history
<1>5. ASSUME NEW p \in Procs, SendReturn(p) PROVE LockInv'
  BY <1>5 DEF SendReturn, Goto, callVars, lockVars, closeVars, history
<1>6. ASSUME NEW p \in Procs, CloseCall(p) PROVE LockInv'
  BY <1>6 DEF CloseCall, Goto, callVars, lockVars, closeVars, history
<1>7. ASSUME NEW t \in Threads, CloseLock(t) PROVE LockInv'
  BY <1>7 DEF CloseLock, Goto, callVars, lockVars, closeVars, history
<1>8. ASSUME NEW t \in Threads, CloseAgain(t) PROVE LockInv'
  BY <1>8 DEF CloseAgain, Goto, callVars, lockVars, closeVars, history
<1>9. ASSUME NEW t \in Threads, CloseConn(t) PROVE LockInv'
  BY <1>9 DEF CloseConn, Goto, callVars, lockVars, closeVars, history
<1>10. ASSUME NEW t \in Threads, CloseCloseChan(t) PROVE LockInv'
  BY <1>10 DEF CloseCloseChan, Goto, callVars, lockVars, closeVars, history
<1>11. ASSUME NEW t \in Threads, CloseSendChan(t) PROVE LockInv'
  BY <1>11 DEF CloseSendChan, Goto, callVars, lockVars, closeVars, history
<1>12. ASSUME NEW t \in Threads, CloseUnlock(t) PROVE LockInv'
  BY <1>12 DEF CloseUnlock, Goto, callVars, lockVars, closeVars, history
<1>13. CASE LoopStop
  BY <1>13 DEF LoopStop, Goto, callVars, lockVars, closeVars, history
<1>14. CASE LoopReceive
  BY <1>14 DEF LoopReceive, Goto, callVars, lockVars, closeVars, history
<1>15. CASE LoopDrained
  BY <1>15 DEF LoopDrained, Goto, callVars, lockVars, closeVars, history
<1>16. CASE LoopReject
  BY <1>16 DEF LoopReject, Goto, callVars, lockVars, closeVars, history
<1>17. CASE LoopWrite
  BY <1>17 DEF LoopWrite, Goto, callVars, lockVars, closeVars, history
<1>18. CASE LoopLose
  BY <1>18 DEF LoopLose, Goto, callVars, lockVars, closeVars, history
<1>19. CASE PeerGone
  BY <1>19 DEF PeerGone, Goto, callVars, lockVars, closeVars, history
<1>20. CASE UNCHANGED vars
  BY <1>20 DEF vars
<1>21. QED
  BY <1>1, <1>2, <1>3, <1>4, <1>5, <1>6, <1>7, <1>8, <1>9, <1>10, <1>11, <1>12, <1>13, <1>14, <1>15, <1>16, <1>17, <1>18, <1>19, <1>20 DEF Next, SendRun, Close, SendLoop

\* Close runs its stages once; nobody pushes meanwhile.
LEMMA CloseStep ==
  TypeOK /\ LockInv /\ CloseInv /\ [Next]_vars => CloseInv'
<1> SUFFICES ASSUME TypeOK, LockInv, CloseInv, [Next]_vars PROVE CloseInv'
  OBVIOUS
<1> USE SessionAssumption DEF TypeOK, LockInv, CloseInv, SendPcs, ClosePcs, Threads
<1>1. ASSUME NEW p \in Procs, SendLock(p) PROVE CloseInv'
  BY <1>1 DEF SendLock, Goto, callVars, lockVars, closeVars, history
<1>2. ASSUME NEW p \in Procs, SendCheck(p) PROVE CloseInv'
  BY <1>2 DEF SendCheck, Goto, callVars, lockVars, closeVars, history
<1>3. ASSUME NEW p \in Procs, SendPush(p) PROVE CloseInv'
  BY <1>3 DEF SendPush, Goto, callVars, lockVars, closeVars, history
<1>4. ASSUME NEW p \in Procs, SendFull(p) PROVE CloseInv'
  BY <1>4 DEF SendFull, Goto, callVars, lockVars, closeVars, history
<1>5. ASSUME NEW p \in Procs, SendReturn(p) PROVE CloseInv'
  BY <1>5 DEF SendReturn, Goto, callVars, lockVars, closeVars, history
<1>6. ASSUME NEW p \in Procs, CloseCall(p) PROVE CloseInv'
  BY <1>6 DEF CloseCall, Goto, callVars, lockVars, closeVars, history
<1>7. ASSUME NEW t \in Threads, CloseLock(t) PROVE CloseInv'
  BY <1>7 DEF CloseLock, Goto, callVars, lockVars, closeVars, history
<1>8. ASSUME NEW t \in Threads, CloseAgain(t) PROVE CloseInv'
  BY <1>8 DEF CloseAgain, Goto, callVars, lockVars, closeVars, history
<1>9. ASSUME NEW t \in Threads, CloseConn(t) PROVE CloseInv'
  BY <1>9 DEF CloseConn, Goto, callVars, lockVars, closeVars, history
<1>10. ASSUME NEW t \in Threads, CloseCloseChan(t) PROVE CloseInv'
  BY <1>10 DEF CloseCloseChan, Goto, callVars, lockVars, closeVars, history
<1>11. ASSUME NEW t \in Threads, CloseSendChan(t) PROVE CloseInv'
  BY <1>11 DEF CloseSendChan, Goto, callVars, lockVars, closeVars, history
<1>12. ASSUME NEW t \in Threads, CloseUnlock(t) PROVE CloseInv'
  BY <1>12 DEF CloseUnlock, Goto, callVars, lockVars, closeVars, history
<1>13. CASE LoopStop
  BY <1>13 DEF LoopStop, Goto, callVars, lockVars, closeVars, history
<1>14. CASE LoopReceive
  BY <1>14 DEF LoopReceive, Goto, callVars, lockVars, closeVars, history
<1>15. CASE LoopDrained
  BY <1>15 DEF LoopDrained, Goto, callVars, lockVars, closeVars, history
<1>16. CASE LoopReject
  BY <1>16 DEF LoopReject, Goto, callVars, lockVars, closeVars, history
<1>17. CASE LoopWrite
  BY <1>17 DEF LoopWrite, Goto, callVars, lockVars, closeVars, history
<1>18. CASE LoopLose
  BY <1>18 DEF LoopLose, Goto, callVars, lockVars, closeVars, history
<1>19. CASE PeerGone
  BY <1>19 DEF PeerGone, Goto, callVars, lockVars, closeVars, history
<1>20. CASE UNCHANGED vars
  BY <1>20 DEF vars
<1>21. QED
  BY <1>1, <1>2, <1>3, <1>4, <1>5, <1>6, <1>7, <1>8, <1>9, <1>10, <1>11, <1>12, <1>13, <1>14, <1>15, <1>16, <1>17, <1>18, <1>19, <1>20 DEF Next, SendRun, Close, SendLoop

\* sendChan stays the unsent end of accepted, and inflight the message before it.
LEMMA FifoStep ==
  TypeOK /\ LockInv /\ CloseInv /\ FifoInv /\ [Next]_vars => FifoInv'
<1> SUFFICES ASSUME TypeOK, LockInv, CloseInv, FifoInv, [Next]_vars PROVE FifoInv'
  OBVIOUS
<1> USE SessionAssumption DEF TypeOK, LockInv, CloseInv, FifoInv, SendPcs, ClosePcs, Threads, Messages
<1>1. ASSUME NEW p \in Procs, SendLock(p) PROVE FifoInv'
  BY <1>1 DEF SendLock, Goto, callVars, lockVars, closeVars, history
<1>2. ASSUME NEW p \in Procs, SendCheck(p) PROVE FifoInv'
  BY <1>2 DEF SendCheck, Goto, callVars, lockVars, closeVars, history
<1>3. ASSUME NEW p \in Procs, SendPush(p) PROVE FifoInv'
  <2> DEFINE m == <<p, sent[p]>>
  <2>1. sendChanOpen
    BY <1>3 DEF SendPush
  <2>2. m \in Messages
    OBVIOUS
  <2>3. /\ sendChan' = Append(sendChan, m)
        /\ accepted' = Append(accepted, m)
        /\ UNCHANGED <<wire, inflight, connUp>>
        /\ pc'[Loop] = pc[Loop]
    BY <1>3, <2>1 DEF SendPush, Goto, callVars, lockVars, closeVars, history
  <2>4. SuffixOf(sendChan', accepted')
    BY <2>2, <2>3, SuffixAppend
  <2>5. /\ Len(sendChan') = Len(sendChan) + 1
        /\ Len(accepted') = Len(accepted) + 1
        /\ \A i \in 1..Len(accepted) : accepted'[i] = accepted[i]
        /\ Len(sendChan) \in Nat /\ Len(accepted) \in Nat /\ Len(wire) \in Nat
    BY <2>2, <2>3, AppendProperties, LenProperties
  <2> HIDE SessionAssumption DEF TypeOK, LockInv, CloseInv, FifoInv
  <2>6. Len(accepted') - Len(sendChan') = Len(accepted) - Len(sendChan)
    BY <2>5
  <2>7. ASSUME pc[Loop] = "write" PROVE inflight' = accepted'[Len(accepted') - Len(sendChan')]
    <3>1. Len(wire) + Len(sendChan) < Len(accepted) /\ inflight = accepted[Len(accepted) - Len(sendChan)]
      BY <2>7 DEF FifoInv
    <3>2. Len(accepted) - Len(sendChan) \in 1..Len(accepted)
      BY <2>5, <3>1
    <3>3. QED
      BY <2>3, <2>5, <2>6, <3>1, <3>2
  <2>8. QED
    BY <2>3, <2>4, <2>5, <2>7 DEF FifoInv
<1>4. ASSUME NEW p \in Procs, SendFull(p) PROVE FifoInv'
  BY <1>4 DEF SendFull, Goto, callVars, lockVars, closeVars, history
<1>5. ASSUME NEW p \in Procs, SendReturn(p) PROVE FifoInv'
  BY <1>5 DEF SendReturn, Goto, callVars, lockVars, closeVars, history
<1>6. ASSUME NEW p \in Procs, CloseCall(p) PROVE FifoInv'
  BY <1>6 DEF CloseCall, Goto, callVars, lockVars, closeVars, history
<1>7. ASSUME NEW t \in Threads, CloseLock(t) PROVE FifoInv'
  BY <1>7 DEF CloseLock, Goto, callVars, lockVars, closeVars, history
<1>8. ASSUME NEW t \in Threads, CloseAgain(t) PROVE FifoInv'
  BY <1>8 DEF CloseAgain, Goto, callVars, lockVars, closeVars, history
<1>9. ASSUME NEW t \in Threads, CloseConn(t) PROVE FifoInv'
  BY <1>9 DEF CloseConn, Goto, callVars, lockVars, closeVars, history
<1>10. ASSUME NEW t \in Threads, CloseCloseChan(t) PROVE FifoInv'
  BY <1>10 DEF CloseCloseChan, Goto, callVars, lockVars, closeVars, history
<1>11. ASSUME NEW t \in Threads, CloseSendChan(t) PROVE FifoInv'
  BY <1>11 DEF CloseSendChan, Goto, callVars, lockVars, closeVars, history
<1>12. ASSUME NEW t \in Threads, CloseUnlock(t) PROVE FifoInv'
  BY <1>12 DEF CloseUnlock, Goto, callVars, lockVars, closeVars, history
<1>13. CASE LoopStop
  BY <1>13 DEF LoopStop, Goto, callVars, lockVars, closeVars, history
<1>14. CASE LoopReceive
  <2>1. /\ SuffixOf(sendChan', accepted)
        /\ Len(sendChan') + 1 = Len(sendChan)
        /\ inflight' = accepted[Len(accepted) - Len(sendChan')]
    BY <1>14, SuffixTail DEF LoopReceive
  <2>2. Len(sendChan') \in Nat /\ Len(accepted) \in Nat /\ Len(wire) \in Nat
    BY <1>14, LenProperties, HeadTailProperties DEF LoopReceive
  <2>3. /\ UNCHANGED <<accepted, wire, connUp>>
        /\ pc[Loop] = "select" /\ pc'[Loop] = "write"
    BY <1>14 DEF LoopReceive, Goto, callVars, lockVars, closeVars, history
  <2> HIDE SessionAssumption DEF TypeOK, LockInv, CloseInv, FifoInv
  <2>4. QED
    BY <2>1, <2>2, <2>3 DEF FifoInv
<1>15. CASE LoopDrained
  BY <1>15 DEF LoopDrained, Goto, callVars, lockVars, closeVars, history
<1>16. CASE LoopReject
  BY <1>16 DEF LoopReject, Goto, callVars, lockVars, closeVars, history
<1>17. CASE LoopWrite
  <2>1. Len(wire') = Len(wire) + 1
    BY <1>17, AppendProperties DEF LoopWrite
  <2>2. Len(wire) + Len(sendChan) + 1 = Len(accepted)
    BY <1>17 DEF LoopWrite
  <2>3. Len(sendChan) \in Nat /\ Len(accepted) \in Nat /\ Len(wire) \in Nat
    BY LenProperties
  <2>4. QED
    BY <1>17, <2>1, <2>2, <2>3 DEF LoopWrite, Goto, callVars, lockVars, closeVars, history
<1>18. CASE LoopLose
  BY <1>18 DEF LoopLose, Goto, callVars, lockVars, closeVars, history
<1>19. CASE PeerGone
  BY <1>19 DEF PeerGone, Goto, callVars, lockVars, closeVars, history
<1>20. CASE UNCHANGED vars
  BY <1>20 DEF vars
<1>21. QED
  BY <1>1, <1>2, <1>3, <1>4, <1>5, <1>6, <1>7, <1>8, <1>9, <1>10, <1>11, <1>12, <1>13, <1>14, <1>15, <1>16, <1>17, <1>18, <1>19, <1>20 DEF Next, SendRun, Close, SendLoop

\* Only the next accepted message is ever written.
LEMMA WireStep ==
  TypeOK /\ LockInv /\ FifoInv /\ WirePrefix /\ [Next]_vars => WirePrefix'
<1> SUFFICES ASSUME TypeOK, LockInv, FifoInv, WirePrefix, [Next]_vars PROVE WirePrefix'
  OBVIOUS
<1> USE SessionAssumption DEF TypeOK, LockInv, FifoInv, WirePrefix, SendPcs, ClosePcs, Threads, Messages
<1>1. ASSUME NEW p \in Procs, SendLock(p) PROVE WirePrefix'
  BY <1>1 DEF SendLock, Goto, callVars, lockVars, closeVars, history
<1>2. ASSUME NEW p \in Procs, SendCheck(p) PROVE WirePrefix'
  BY <1>2 DEF SendCheck, Goto, callVars, lockVars, closeVars, history
<1>3. ASSUME NEW p \in Procs, SendPush(p) PROVE WirePrefix'
  <2>1. <<p, sent[p]>> \in Messages /\ accepted \in Seq(Messages) /\ wire \in Seq(Messages)
    OBVIOUS
  <2> HIDE SessionAssumption DEF TypeOK, LockInv, FifoInv, WirePrefix
  <2>2. UNCHANGED wire /\ accepted' \in {accepted, Append(accepted, <<p, sent[p]>>)}
    BY <1>3 DEF SendPush, Goto, callVars, lockVars, closeVars, history
  <2>3. QED
    BY <2>1, <2>2, PrefixGrow DEF WirePrefix
<1>4. ASSUME NEW p \in Procs, SendFull(p) PROVE WirePrefix'
  BY <1>4 DEF SendFull, Goto, callVars, lockVars, closeVars, history
<1>5. ASSUME NEW p \in Procs, SendReturn(p) PROVE WirePrefix'
  BY <1>5 DEF SendReturn, Goto, callVars, lockVars, closeVars, history
<1>6. ASSUME NEW p \in Procs, CloseCall(p) PROVE WirePrefix'
  BY <1>6 DEF CloseCall, Goto, callVars, lockVars, closeVars, history
<1>7. ASSUME NEW t \in Threads, CloseLock(t) PROVE WirePrefix'
  BY <1>7 DEF CloseLock, Goto, callVars, lockVars, closeVars, history
<1>8. ASSUME NEW t \in Threads, CloseAgain(t) PROVE WirePrefix'
  BY <1>8 DEF CloseAgain, Goto, callVars, lockVars, closeVars, history
<1>9. ASSUME NEW t \in Threads, CloseConn(t) PROVE WirePrefix'
  BY <1>9 DEF CloseConn, Goto, callVars, lockVars, closeVars, history
<1>10. ASSUME NEW t \in Threads, CloseCloseChan(t) PROVE WirePrefix'
  BY <1>10 DEF CloseCloseChan, Goto, callVars, lockVars, closeVars, history
<1>11. ASSUME NEW t \in Threads, CloseSendChan(t) PROVE WirePrefix'
  BY <1>11 DEF CloseSendChan, Goto, callVars, lockVars, closeVars, history
<1>12. ASSUME NEW t \in Threads, CloseUnlock(t) PROVE WirePrefix'
  BY <1>12 DEF CloseUnlock, Goto, callVars, lockVars, closeVars, history
<1>13. CASE LoopStop
  BY <1>13 DEF LoopStop, Goto, callVars, lockVars, closeVars, history
<1>14. CASE LoopReceive
  BY <1>14 DEF LoopReceive, Goto, callVars, lockVars, closeVars, history
<1>15. CASE LoopDrained
  BY <1>15 DEF LoopDrained, Goto, callVars, lockVars, closeVars, history
<1>16. CASE LoopReject
  BY <1>16 DEF LoopReject, Goto, callVars, lockVars, closeVars, history
<1>17. CASE LoopWrite
  <2>1. /\ accepted \in Seq(Messages) /\ wire \in Seq(Messages)
        /\ Len(sendChan) \in Nat /\ Len(accepted) \in Nat /\ Len(wire) \in Nat
    BY LenProperties
  <2>2. /\ Len(wire) + Len(sendChan) + 1 = Len(accepted)
        /\ inflight = accepted[Len(accepted) - Len(sendChan)]
    BY <1>17 DEF LoopWrite
  <2> HIDE SessionAssumption DEF TypeOK, LockInv, FifoInv, WirePrefix
  <2>3. Len(accepted) - Len(sendChan) = Len(wire) + 1 /\ Len(wire) < Len(accepted)
    BY <2>1, <2>2
  <2>4. wire' = Append(wire, accepted[Len(wire) + 1]) /\ UNCHANGED accepted
    BY <1>17, <2>2, <2>3 DEF LoopWrite
  <2>5. QED
    BY <2>1, <2>3, <2>4, PrefixExtend DEF WirePrefix
<1>18. CASE LoopLose
  BY <1>18 DEF LoopLose, Goto, callVars, lockVars, closeVars, history
<1>19. CASE PeerGone
  BY <1>19 DEF PeerGone, Goto, callVars, lockVars, closeVars, history
<1>20. CASE UNCHANGED vars
  BY <1>20 DEF vars
<1>21. QED
  BY <1>1, <1>2, <1>3, <1>4, <1>5, <1>6, <1>7, <1>8, <1>9, <1>10, <1>11, <1>12, <1>13, <1>14, <1>15, <1>16, <1>17, <1>18, <1>19, <1>20 DEF Next, SendRun, Close, SendLoop

\* A refused caller finds closeFlag set, or is about to set it.
LEMMA RefusedStep ==
  TypeOK /\ LockInv /\ CloseInv /\ RefusedInv /\ [Next]_vars => RefusedInv'
<1> SUFFICES ASSUME TypeOK, LockInv, CloseInv, RefusedInv, [Next]_vars PROVE RefusedInv'
  OBVIOUS
<1> USE SessionAssumption DEF TypeOK, LockInv, CloseInv, RefusedInv, SendPcs, ClosePcs, Threads
<1>1. ASSUME NEW p \in Procs, SendLock(p) PROVE RefusedInv'
  BY <1>1 DEF SendLock, Goto, callVars, lockVars, closeVars, history
<1>2. ASSUME NEW p \in Procs, SendCheck(p) PROVE RefusedInv'
  BY <1>2 DEF SendCheck, Goto, callVars, lockVars, closeVars, history
<1>3. ASSUME NEW p \in Procs, SendPush(p) PROVE RefusedInv'
  BY <1>3 DEF SendPush, Goto, callVars, lockVars, closeVars, history
<1>4. ASSUME NEW p \in Procs, SendFull(p) PROVE RefusedInv'
  BY <1>4 DEF SendFull, Goto, callVars, lockVars, closeVars, history
<1>5. ASSUME NEW p \in Procs, SendReturn(p) PROVE RefusedInv'
  BY <1>5 DEF SendReturn, Goto, callVars, lockVars, closeVars, history
<1>6. ASSUME NEW p \in Procs, CloseCall(p) PROVE RefusedInv'
  BY <1>6 DEF CloseCall, Goto, callVars, lockVars, closeVars, history
<1>7. ASSUME NEW t \in Threads, CloseLock(t) PROVE RefusedInv'
  BY <1>7 DEF CloseLock, Goto, callVars, lockVars, closeVars, history
<1>8. ASSUME NEW t \in Threads, CloseAgain(t) PROVE RefusedInv'
  BY <1>8 DEF CloseAgain, Goto, callVars, lockVars, closeVars, history
<1>9. ASSUME NEW t \in Threads, CloseConn(t) PROVE RefusedInv'
  BY <1>9 DEF CloseConn, Goto, callVars, lockVars, closeVars, history
<1>10. ASSUME NEW t \in Threads, CloseCloseChan(t) PROVE RefusedInv'
  BY <1>10 DEF CloseCloseChan, Goto, callVars, lockVars, closeVars, history
<1>11. ASSUME NEW t \in Threads, CloseSendChan(t) PROVE RefusedInv'
  BY <1>11 DEF CloseSendChan, Goto, callVars, lockVars, closeVars, history
<1>12. ASSUME NEW t \in Threads, CloseUnlock(t) PROVE RefusedInv'
  BY <1>12 DEF CloseUnlock, Goto, callVars, lockVars, closeVars, history
<1>13. CASE LoopStop
  BY <1>13 DEF LoopStop, Goto, callVars, lockVars, closeVars, history
<1>14. CASE LoopReceive
  BY <1>14 DEF LoopReceive, Goto, callVars, lockVars, closeVars, history
<1>15. CASE LoopDrained
  BY <1>15 DEF LoopDrained, Goto, callVars, lockVars, closeVars, history
<1>16. CASE LoopReject
  BY <1>16 DEF LoopReject, Goto, callVars, lockVars, closeVars, history
<1>17. CASE LoopWrite
  BY <1>17 DEF LoopWrite, Goto, callVars, lockVars, closeVars, history
<1>18. CASE LoopLose
  BY <1>18 DEF LoopLose, Goto, callVars, lockVars, closeVars, history
<1>19. CASE PeerGone
  BY <1>19 DEF PeerGone, Goto, callVars, lockVars, closeVars, history
<1>20. CASE UNCHANGED vars
  BY <1>20 DEF vars
<1>21. QED
  BY <1>1, <1>2, <1>3, <1>4, <1>5, <1>6, <1>7, <1>8, <1>9, <1>10, <1>11, <1>12, <1>13, <1>14, <1>15, <1>16, <1>17, <1>18, <1>19, <1>20 DEF Next, SendRun, Close, SendLoop

\* The invariant is inductive.
LEMMA InductiveInvariant == Spec => []IInv
<1>1. Init => IInv
  <2> SUFFICES ASSUME Init PROVE IInv
    OBVIOUS
  <2> USE SessionAssumption DEF Init
  <2>1. /\ sendChan \in Seq(Messages) /\ accepted \in Seq(Messages) /\ wire \in Seq(Messages)
        /\ Len(sendChan) = 0 /\ Len(accepted) = 0 /\ Len(wire) = 0
    BY EmptySeq
  <2>2. TypeOK
    <3>1. pc \in [Threads -> PcValues]
      BY DEF PcValues
    <3>2. sent \in [Procs -> 0..MaxSends] /\ result \in [Procs -> {"none", "ok", "closed", "full"}]
      OBVIOUS
    <3>3. Len(sendChan) <= SendCap
      BY <2>1
    <3>4. QED
      BY <2>1, <3>1, <3>2, <3>3 DEF TypeOK
  <2>3. LockInv /\ CloseInv /\ RefusedInv
    BY DEF LockInv, CloseInv, RefusedInv, SendPcs, ClosePcs, Threads
  <2>4. FifoInv /\ WirePrefix
    BY <2>1 DEF FifoInv, WirePrefix, SuffixOf, PrefixOf, Threads
  <2>5. QED
    BY <2>2, <2>3, <2>4 DEF IInv
<1>2. IInv /\ [Next]_vars => IInv'
  BY TypeStep, LockStep, CloseStep, FifoStep, WireStep, RefusedStep DEF IInv
<1>3. QED
  BY <1>1, <1>2, PTL DEF Spec

\* The variables keep their types and sendChan its capacity (session.go:147).
THEOREM TypeCorrect == Spec => []TypeOK
<1>1. IInv => TypeOK
  BY DEF IInv
<1>2. QED
  BY <1>1, InductiveInvariant, PTL

\* For any number of goroutines sending and closing, none sends on a closed
\* channel and none closes a channel twice (session.go:49-98).
THEOREM NeverPanics == Spec => []NoPanic
<1>1. IInv => NoPanic
  BY DEF IInv, CloseInv, NoPanic
<1>2. QED
  BY <1>1, InductiveInvariant, PTL

\* The wire holds an initial part of what was accepted (session.go:100-125).
THEOREM WireIsPrefix == Spec => []WirePrefix
<1>1. IInv => WirePrefix
  BY DEF IInv
<1>2. QED
  BY <1>1, InductiveInvariant, PTL

\* A refused caller and an ended sendLoop leave a closed session behind.
THEOREM RefusalIsFinal == Spec => []RefusedMeansClosed
<1>1. IInv => RefusedMeansClosed
  <2> SUFFICES ASSUME IInv, writer = {},
                      pc[Loop] = "done" \/ \E p \in Procs : pc[p] = "idle" /\ result[p] \in {"closed", "full"}
               PROVE  closeFlag /\ ~connUp /\ ~closeChanOpen /\ ~sendChanOpen
    BY DEF RefusedMeansClosed
  <2>1. closeFlag
    BY DEF IInv, RefusedInv
  <2>2. \A t \in Threads : pc[t] \notin {"closeChan", "sendChan"}
    BY DEF IInv, LockInv, ClosePcs
  <2>3. QED
    BY <2>1, <2>2 DEF IInv, CloseInv
<1>2. QED
  BY <1>1, InductiveInvariant, PTL

\* Every step of a Session is a step of the Outbox, or leaves it unchanged.
THEOREM SessionImplementsOutbox == Spec => ImplementsOutbox
<1>1. Init => Abstract!Init
  BY DEF Init, Abstract!Init
<1>2. IInv /\ [Next]_vars => [Abstract!Next]_(Abstract!vars)
  <2> SUFFICES ASSUME IInv, [Next]_vars PROVE [Abstract!Next]_(Abstract!vars)
    OBVIOUS
  <2> USE DEF Abstract!vars, Goto, callVars, lockVars, closeVars, history
  <2>1. ASSUME NEW p \in Procs, SendLock(p) \/ SendCheck(p) \/ SendFull(p) \/ SendReturn(p) \/ CloseCall(p)
        PROVE  UNCHANGED Abstract!vars
    BY <2>1 DEF SendLock, SendCheck, SendFull, SendReturn, CloseCall
  <2>2. ASSUME NEW p \in Procs, SendPush(p) PROVE [Abstract!Accept]_(Abstract!vars)
    <3>1. <<p, sent[p]>> \in Messages
      BY DEF IInv, TypeOK, Messages
    <3>2. ~closeFlag
      BY <2>2 DEF SendPush, IInv, CloseInv
    <3>3. QED
      BY <3>1, <3>2, <2>2 DEF SendPush, Abstract!Accept
  <2>3. ASSUME NEW t \in Threads, CloseConn(t) PROVE [Abstract!Cut \/ Abstract!Close]_(Abstract!vars)
    <3>1. CASE connUp
      BY <3>1, <2>3 DEF CloseConn, Abstract!Cut
    <3>2. CASE ~connUp
      BY <3>2, <2>3 DEF CloseConn, Abstract!Close, IInv, TypeOK
    <3>3. QED
      BY <3>1, <3>2
  <2>4. ASSUME NEW t \in Threads, Close(t), ~CloseConn(t) PROVE UNCHANGED Abstract!vars
    BY <2>4 DEF Close, CloseLock, CloseAgain, CloseCloseChan, CloseSendChan, CloseUnlock
  <2>5. CASE LoopStop \/ LoopReceive \/ LoopDrained \/ LoopReject \/ LoopLose
    BY <2>5 DEF LoopStop, LoopReceive, LoopDrained, LoopReject, LoopLose
  <2>6. CASE LoopWrite
    <3>1. /\ Len(sendChan) \in Nat /\ Len(accepted) \in Nat /\ Len(wire) \in Nat
          /\ Len(wire) + Len(sendChan) + 1 = Len(accepted)
          /\ inflight = accepted[Len(accepted) - Len(sendChan)]
      BY <2>6, LenProperties DEF LoopWrite, IInv, FifoInv, TypeOK
    <3>2. Len(accepted) - Len(sendChan) = Len(wire) + 1 /\ Len(wire) < Len(accepted)
      BY <3>1
    <3>3. wire' = Append(wire, accepted[Len(wire) + 1])
      BY <2>6, <3>1, <3>2 DEF LoopWrite
    <3>4. Abstract!Deliver
      BY <2>6, <3>2, <3>3 DEF LoopWrite, Abstract!Deliver
    <3>5. QED
      BY <3>4 DEF Abstract!Next
  <2>7. CASE PeerGone
    BY <2>7 DEF PeerGone, Abstract!Cut, Abstract!Next
  <2>8. CASE UNCHANGED vars
    BY <2>8 DEF vars
  <2>9. QED
    BY <2>1, <2>2, <2>3, <2>4, <2>5, <2>6, <2>7, <2>8
       DEF Next, SendRun, SendLoop, Abstract!Next
<1>3. QED
  BY <1>1, <1>2, InductiveInvariant, PTL DEF Spec, ImplementsOutbox, Abstract!Spec

(* ------------------------------- Balancer ------------------------------ *)

Entry == [addr : Address, connected : BOOLEAN]
Update == [op : {"add", "delete"}, addr : Servers, ver : Nat]

\* A server is in the list once, and what grpc was told of has a number that
\* a later entry of the same server does not have.
ListInv ==
  /\ \A i, j \in Positions : addrs[i].addr.addr = addrs[j].addr.addr => i = j
  /\ \A i \in Positions : addrs[i].addr.num <= entries[addrs[i].addr.addr]
  /\ \A a \in dialled : a.num <= entries[a.addr]
  /\ addrCh # NoList => \A i \in DOMAIN addrCh : addrCh[i].num <= entries[addrCh[i].addr]

BalInv == BalTypeOK /\ ListInv /\ NoLostWakeup /\ GrpcFollows

\* A function on an initial part of the numbers is a sequence.
LEMMA ListOf ==
  ASSUME NEW S, NEW n \in Nat, NEW f \in [1..n -> S]
  PROVE  f \in Seq(S) /\ Len(f) = n
BY SeqDef, LenProperties

\* The invariant holds before the first event.
LEMMA BalStarts == BalInit => BalInv
<1> SUFFICES ASSUME BalInit PROVE BalInv
  OBVIOUS
<1>1. <<>> \in Seq(Entry) /\ <<>> \in Seq(Update) /\ Len(<<>>) = 0
  OBVIOUS
<1>2. Positions = {}
  BY <1>1 DEF BalInit, Positions
<1>3. BalTypeOK
  BY <1>1 DEF BalInit, BalTypeOK, Entry, Update
<1>4. ListInv /\ NoLostWakeup
  BY <1>2 DEF BalInit, ListInv, NoLostWakeup
<1>5. GrpcFollows
  BY <1>2 DEF BalInit, GrpcFollows
<1>6. QED
  BY <1>3, <1>4, <1>5 DEF BalInv

\* The flags after Up, down or a new list.
LEMMA Flags ==
  ASSUME BalTypeOK, NEW gone, NEW up, addrs' = SetConnected(gone, up)
  PROVE  /\ addrs' \in Seq(Entry) /\ Positions' = Positions
         /\ \A i \in Positions :
              /\ addrs'[i].addr = addrs[i].addr
              /\ addrs'[i].connected <=> (addrs[i].connected \/ addrs[i].addr \in up) /\ addrs[i].addr \notin gone
<1> DEFINE n == Len(addrs)
           Flag(i) == (addrs[i].connected \/ addrs[i].addr \in up) /\ addrs[i].addr \notin gone
<1>1. addrs \in Seq(Entry) /\ n \in Nat /\ Positions = 1..n
  BY LenProperties DEF BalTypeOK, Entry, Positions
<1>2. \A i \in 1..n : addrs[i] \in Entry
  BY <1>1, ElementOfSeq
<1>3. addrs' = [i \in 1..n |-> [addrs[i] EXCEPT !.connected = Flag(i)]]
  BY <1>1, <1>2 DEF SetConnected, Entry
<1>4. \A i \in 1..n : [addrs[i] EXCEPT !.connected = Flag(i)] \in Entry
  BY <1>2 DEF Entry
<1>5. addrs' \in [1..n -> Entry]
  <2> HIDE DEF Entry, n
  <2>1. QED
    BY <1>3, <1>4
<1>6. addrs' \in Seq(Entry) /\ Len(addrs') = n
  <2> HIDE DEF n
  <2>1. QED
    BY <1>1, <1>5, ListOf
<1>7. \A i \in 1..n : addrs'[i].addr = addrs[i].addr /\ addrs'[i].connected = Flag(i)
  BY <1>2, <1>3 DEF Entry
<1>8. QED
  BY <1>1, <1>6, <1>7 DEF Positions

\* Up, down and the reading of a list leave the list itself as it is.
LEMMA ListKept ==
  ASSUME BalTypeOK, ListInv, NEW gone, NEW up, addrs' = SetConnected(gone, up), UNCHANGED entries,
         \/ UNCHANGED <<dialled, addrCh>>
         \/ addrCh # NoList /\ addrCh' = NoList /\ dialled' = {addrCh[i] : i \in DOMAIN addrCh}
  PROVE  ListInv'
<1>1. Positions' = Positions /\ \A i \in Positions : addrs'[i].addr = addrs[i].addr
  BY Flags
<1>2. \A a \in dialled' : a.num <= entries[a.addr]
  BY DEF ListInv
<1>3. addrCh' # NoList => \A i \in DOMAIN addrCh' : addrCh'[i].num <= entries[addrCh'[i].addr]
  BY DEF ListInv
<1>4. QED
  BY <1>1, <1>2, <1>3 DEF ListInv

\* What the steps of the balancer and of grpc leave of the types.
LEMMA UpStep ==
  ASSUME BalInv, NEW a \in dialled, Up(a) PROVE BalInv'
<1>1. /\ addrs' = SetConnected({}, {a}) /\ connected' = connected \cup {a} /\ ~mu
      /\ UNCHANGED <<entries, watching, todo, mu, addrCh, next, done, dialled>>
  BY DEF Up
<1>2. /\ addrs' \in Seq(Entry) /\ Positions' = Positions
      /\ \A i \in Positions :
           /\ addrs'[i].addr = addrs[i].addr
           /\ addrs'[i].connected <=> addrs[i].connected \/ addrs[i].addr = a
  <2>1. BalTypeOK
    BY DEF BalInv
  <2>2. /\ addrs' \in Seq(Entry) /\ Positions' = Positions
        /\ \A i \in Positions :
             /\ addrs'[i].addr = addrs[i].addr
             /\ addrs'[i].connected <=>
                  (addrs[i].connected \/ addrs[i].addr \in {a}) /\ addrs[i].addr \notin {}
    BY <1>1, <2>1, Flags
  <2>3. QED
    BY <2>2
<1>3. /\ waitCh' \in BOOLEAN /\ waiting' \in [Callers -> {"no", "waitCh", "closed"}]
  BY DEF Up, BalInv, BalTypeOK, Wake
<1>4. BalTypeOK'
  BY <1>1, <1>2, <1>3 DEF BalInv, BalTypeOK, Entry
<1>5. ListInv'
  BY <1>1, ListKept DEF BalInv
<1>6. NoLostWakeup'
  <2>1. \A i, j \in Positions : addrs[i].addr = a /\ addrs[j].addr = a => i = j
    BY DEF BalInv, ListInv
  <2>2. CASE waitCh /\ \E i \in Positions : addrs[i].addr = a
    <3>1. PICK i \in Positions : addrs[i].addr = a
      BY <2>2
    <3>2. /\ ~\E k \in Positions : addrs[k].addr = a /\ addrs[k].connected
          /\ addrs'[i].connected /\ \A j \in Positions \ {i} : ~addrs'[j].connected
      BY <1>2, <2>1, <2>2, <3>1 DEF BalInv, NoLostWakeup, NoneConnected
    <3>3. waitCh' = FALSE /\ waiting' = Wake(waiting)
      BY <2>2, <3>1, <3>2 DEF Up
    <3>4. \A c \in Callers : waiting'[c] # "waitCh"
      BY <3>3 DEF Wake
    <3>5. QED
      BY <3>3, <3>4 DEF NoLostWakeup
  <2>3. CASE waitCh /\ ~\E i \in Positions : addrs[i].addr = a
    <3>1. \A i \in Positions : ~addrs'[i].connected
      BY <1>2, <2>3 DEF BalInv, NoLostWakeup, NoneConnected
    <3>2. UNCHANGED <<waitCh, waiting>>
      BY <1>2, <3>1 DEF Up
    <3>3. QED
      BY <1>1, <1>2, <3>1, <3>2 DEF BalInv, NoLostWakeup, NoneConnected
  <2>4. CASE ~waitCh
    BY <2>4 DEF Up, BalInv, NoLostWakeup
  <2>5. QED
    BY <2>2, <2>3, <2>4
<1>7. GrpcFollows'
  <2>1. \A i \in Positions' : addrs'[i].connected <=> addrs'[i].addr \in connected'
    BY <1>1, <1>2 DEF BalInv, GrpcFollows
  <2>2. {addrs'[i].addr : i \in Positions'} = {addrs[i].addr : i \in Positions}
    BY <1>2
  <2>3. QED
    BY <1>1, <2>1, <2>2 DEF BalInv, GrpcFollows
<1>8. QED
  BY <1>4, <1>5, <1>6, <1>7 DEF BalInv

\* A connection breaks, or grpc reads a list.
LEMMA DownStep ==
  ASSUME BalInv, NEW a, Down(a) \/ ReadList PROVE BalInv'
<1> DEFINE list == {addrCh[i] : i \in DOMAIN addrCh}
<1>1. /\ ~mu /\ UNCHANGED <<entries, watching, todo, mu, next, waitCh, done, waiting>>
      /\ \/ /\ UNCHANGED <<dialled, addrCh>>
            /\ addrs' = SetConnected({a}, {}) /\ connected' = connected \ {a}
         \/ /\ addrCh # NoList /\ addrCh' = NoList /\ dialled' = list
            /\ addrs' = SetConnected(connected \ list, {}) /\ connected' = connected \cap list
  BY DEF Down, ReadList
<1>2. PICK gone : addrs' = SetConnected(gone, {}) /\ connected' = connected \ gone
  <2>1. connected \cap list = connected \ (connected \ list)
    OBVIOUS
  <2>2. QED
    BY <1>1, <2>1
<1>3. /\ addrs' \in Seq(Entry) /\ Positions' = Positions
      /\ \A i \in Positions :
           /\ addrs'[i].addr = addrs[i].addr
           /\ addrs'[i].connected <=> addrs[i].connected /\ addrs[i].addr \notin gone
  BY <1>2, Flags DEF BalInv
<1>4. BalTypeOK'
  <2>1. list \subseteq Address \/ addrCh = NoList
    BY ElementOfSeq, LenProperties DEF BalInv, BalTypeOK
  <2>2. dialled' \subseteq Address /\ connected' \subseteq dialled' /\ (addrCh' = NoList \/ addrCh' = addrCh)
    BY <1>1, <2>1 DEF BalInv, BalTypeOK
  <2>3. QED
    BY <1>1, <1>3, <2>2 DEF BalInv, BalTypeOK, Entry
<1>5. ListInv'
  BY <1>1, ListKept DEF BalInv
<1>6. NoLostWakeup'
  BY <1>1, <1>3 DEF BalInv, NoLostWakeup, NoneConnected
<1>7. GrpcFollows'
  <2>1. \A i \in Positions' : addrs'[i].connected <=> addrs'[i].addr \in connected'
    BY <1>2, <1>3 DEF BalInv, GrpcFollows
  <2>2. {addrs'[i].addr : i \in Positions'} = {addrs[i].addr : i \in Positions}
    BY <1>3
  <2>3. QED
    BY <1>1, <2>1, <2>2 DEF BalInv, GrpcFollows
<1>8. QED
  BY <1>4, <1>5, <1>6, <1>7 DEF BalInv

\* What an update leaves of the list, and of the numbers given.
LEMMA WatchAdds ==
  ASSUME BalInv, NEW s \in Servers, NEW ver \in Nat, WatchAdd(s, ver)
  PROVE  /\ addrs' \in Seq(Entry) /\ entries' \in [Servers -> Nat]
         /\ \A t \in Servers : entries[t] <= entries'[t]
         /\ \/ Has(s) /\ UNCHANGED <<addrs, entries>>
            \/ /\ ~Has(s) /\ Len(addrs') = Len(addrs) + 1
               /\ \A i \in Positions : addrs'[i] = addrs[i]
               /\ addrs'[Len(addrs')] = [addr |-> [addr |-> s, ver |-> ver, num |-> entries'[s]],
                                         connected |-> FALSE]
               /\ entries'[s] = entries[s] + 1
<1>1. addrs \in Seq(Entry) /\ entries \in [Servers -> Nat]
  BY DEF BalInv, BalTypeOK, Entry
<1>2. CASE Has(s)
  BY <1>1, <1>2 DEF WatchAdd
<1>3. CASE ~Has(s)
  <2> DEFINE e == [addr |-> [addr |-> s, ver |-> ver, num |-> entries'[s]], connected |-> FALSE]
  <2>1. entries' = [entries EXCEPT ![s] = @ + 1] /\ addrs' = Append(addrs, e)
    BY <1>3 DEF WatchAdd, Added
  <2>2. entries' \in [Servers -> Nat] /\ entries'[s] = entries[s] + 1 /\ \A t \in Servers : entries[t] <= entries'[t]
    BY <1>1, <2>1
  <2>3. e \in Entry
    BY <2>2 DEF Entry, Address
  <2> HIDE DEF e
  <2>4. /\ addrs' \in Seq(Entry) /\ Len(addrs') = Len(addrs) + 1
        /\ \A i \in 1..Len(addrs) : addrs'[i] = addrs[i]
        /\ addrs'[Len(addrs) + 1] = e
    BY <1>1, <2>1, <2>3, AppendProperties
  <2>5. QED
    BY <1>3, <2>2, <2>4 DEF Positions, e
<1>4. QED
  BY <1>2, <1>3

\* A deletion takes the server's entry from the list, if there is one.
LEMMA WatchDeletes ==
  ASSUME BalInv, NEW s \in Servers, WatchDelete(s)
  PROVE  /\ addrs' \in Seq(Entry) /\ UNCHANGED entries
         /\ \/ ~Has(s) /\ UNCHANGED addrs
            \/ \E i \in Positions :
                 /\ addrs[i].addr.addr = s /\ Len(addrs') = Len(addrs) - 1
                 /\ \A j \in Positions' : addrs'[j] = IF j < i THEN addrs[j] ELSE addrs[j + 1]
<1>1. addrs \in Seq(Entry) /\ Len(addrs) \in Nat
  BY LenProperties DEF BalInv, BalTypeOK, Entry
<1>2. CASE ~Has(s) /\ UNCHANGED addrs
  BY <1>1, <1>2 DEF WatchDelete
<1>3. ASSUME NEW i \in Positions, addrs[i].addr.addr = s,
             addrs' = [j \in 1..(Len(addrs) - 1) |-> IF j < i THEN addrs[j] ELSE addrs[j + 1]]
      PROVE  /\ addrs' \in Seq(Entry) /\ Len(addrs') = Len(addrs) - 1
             /\ \A j \in Positions' : addrs'[j] = IF j < i THEN addrs[j] ELSE addrs[j + 1]
  <2>1. i \in 1..Len(addrs) /\ Len(addrs) - 1 \in Nat
    BY <1>1, <1>3 DEF Positions
  <2>2. \A j \in 1..Len(addrs) : addrs[j] \in Entry
    BY <1>1, ElementOfSeq
  <2>3. ASSUME NEW j \in 1..(Len(addrs) - 1) PROVE (IF j < i THEN addrs[j] ELSE addrs[j + 1]) \in Entry
    <3>1. j \in 1..Len(addrs) /\ j + 1 \in 1..Len(addrs)
      BY <1>1
    <3>2. QED
      BY <2>2, <3>1
  <2>4. addrs' \in [1..(Len(addrs) - 1) -> Entry]
    <3> HIDE DEF Entry
    <3>1. QED
      BY <1>3, <2>3
  <2>5. addrs' \in Seq(Entry) /\ Len(addrs') = Len(addrs) - 1
    BY <2>1, <2>4, ListOf
  <2>6. QED
    BY <1>3, <2>5 DEF Positions
<1>4. QED
  BY <1>2, <1>3 DEF WatchDelete

\* The list after an update: of what it held, and of a new entry with a new number.
LEMMA ListUpdated ==
  ASSUME BalInv, NEW u \in Update,
         (IF u.op = "add" THEN WatchAdd(u.addr, u.ver) ELSE WatchDelete(u.addr)),
         UNCHANGED <<dialled, connected, addrCh>>
  PROVE  /\ addrs' \in Seq(Entry) /\ entries' \in [Servers -> Nat] /\ ListInv'
         /\ \A i \in Positions' : addrs'[i].connected <=> addrs'[i].addr \in connected
         /\ NoneConnected => NoneConnected'
<1>1. /\ addrs \in Seq(Entry) /\ entries \in [Servers -> Nat] /\ Len(addrs) \in Nat
      /\ u.addr \in Servers /\ u.ver \in Nat /\ u.op \in {"add", "delete"}
  BY LenProperties DEF BalInv, BalTypeOK, Entry, Update
<1>2. \A i \in Positions : addrs[i] \in Entry
  BY <1>1, ElementOfSeq DEF Positions
<1>3. /\ dialled \subseteq Address /\ connected \subseteq dialled
      /\ addrCh # NoList => \A i \in DOMAIN addrCh : addrCh[i] \in Address
  BY ElementOfSeq, LenProperties DEF BalInv, BalTypeOK
<1>4. ListInv /\ \A i \in Positions : addrs[i].connected <=> addrs[i].addr \in connected
  BY DEF BalInv, GrpcFollows
<1>5. CASE UNCHANGED <<addrs, entries>>
  BY <1>1, <1>4, <1>5 DEF ListInv, NoneConnected, Positions
<1>6. CASE u.op = "add" /\ ~Has(u.addr)
  <2> DEFINE s == u.addr
             n == Len(addrs)
  <2>1. /\ addrs' \in Seq(Entry) /\ entries' \in [Servers -> Nat]
        /\ \A t \in Servers : entries[t] <= entries'[t]
        /\ Len(addrs') = n + 1
        /\ \A i \in Positions : addrs'[i] = addrs[i]
        /\ addrs'[n + 1] = [addr |-> [addr |-> s, ver |-> u.ver, num |-> entries'[s]],
                                  connected |-> FALSE]
        /\ entries'[s] = entries[s] + 1
    BY <1>1, <1>6, WatchAdds
  <2>2. Positions = 1..n /\ Positions' = 1..(n + 1) /\ n \in Nat
    BY <1>1, <2>1 DEF Positions
  <2>3. addrs'[n + 1].addr.addr = s /\ addrs'[n + 1].addr.num = entries'[s] /\ ~addrs'[n + 1].connected
    BY <2>1
  <2>4. \A i \in Positions : addrs[i].addr.addr # s /\ addrs[i].addr.addr \in Servers /\ addrs[i].addr.num \in Nat
    BY <1>2, <1>6 DEF Has, Entry, Address
  <2>5. addrs'[n + 1].addr \notin connected
    BY <1>1, <1>3, <1>4, <2>1, <2>3 DEF ListInv, Address
  <2> HIDE DEF s, n
  <2>6. \A i \in Positions' : i \in Positions \/ i = n + 1
    BY <2>2
  <2>7. \A i, j \in Positions' : addrs'[i].addr.addr = addrs'[j].addr.addr => i = j
    BY <1>4, <2>1, <2>3, <2>4, <2>6 DEF ListInv
  <2>8. \A i \in Positions' : addrs'[i].addr.num <= entries'[addrs'[i].addr.addr]
    <3>1. \A i \in Positions : addrs'[i].addr.num <= entries'[addrs'[i].addr.addr]
      BY <1>1, <1>4, <2>1, <2>4 DEF ListInv
    <3>2. entries'[s] \in Nat
      BY <1>1, <2>1 DEF s
    <3>3. QED
      BY <2>3, <2>6, <3>1, <3>2
  <2>9. /\ \A a \in dialled' : a.num <= entries'[a.addr]
        /\ addrCh' # NoList => \A i \in DOMAIN addrCh' : addrCh'[i].num <= entries'[addrCh'[i].addr]
    BY <1>1, <1>3, <1>4, <2>1 DEF ListInv, Address
  <2>10. \A i \in Positions' : addrs'[i].connected <=> addrs'[i].addr \in connected
    BY <1>4, <2>1, <2>3, <2>5, <2>6
  <2>11. NoneConnected => NoneConnected'
    BY <2>1, <2>3, <2>6 DEF NoneConnected
  <2>12. QED
    BY <2>1, <2>7, <2>8, <2>9, <2>10, <2>11 DEF ListInv
<1>7. CASE u.op = "delete" /\ Has(u.addr)
  <2>1. /\ addrs' \in Seq(Entry) /\ UNCHANGED entries
        /\ \/ ~Has(u.addr) /\ UNCHANGED addrs
           \/ \E i \in Positions :
                /\ addrs[i].addr.addr = u.addr /\ Len(addrs') = Len(addrs) - 1
                /\ \A j \in Positions' : addrs'[j] = IF j < i THEN addrs[j] ELSE addrs[j + 1]
    BY <1>1, <1>7, WatchDeletes
  <2>2. PICK i \in Positions :
          /\ addrs[i].addr.addr = u.addr /\ Len(addrs') = Len(addrs) - 1
          /\ \A j \in Positions' : addrs'[j] = IF j < i THEN addrs[j] ELSE addrs[j + 1]
    BY <1>7, <2>1
  <2> DEFINE From(j) == IF j < i THEN j ELSE j + 1
  <2>3. /\ \A j \in Positions' : From(j) \in Positions /\ addrs'[j] = addrs[From(j)]
        /\ \A j, k \in Positions' : From(j) = From(k) => j = k
    BY <1>1, <2>2 DEF Positions
  <2> HIDE DEF From
  <2>4. \A j, k \in Positions' : addrs'[j].addr.addr = addrs'[k].addr.addr => j = k
    BY <1>4, <2>3 DEF ListInv
  <2>5. /\ \A j \in Positions' : addrs'[j].addr.num <= entries'[addrs'[j].addr.addr]
        /\ \A a \in dialled' : a.num <= entries'[a.addr]
        /\ addrCh' # NoList => \A j \in DOMAIN addrCh' : addrCh'[j].num <= entries'[addrCh'[j].addr]
    BY <1>4, <2>1, <2>3 DEF ListInv
  <2>6. \A j \in Positions' : addrs'[j].connected <=> addrs'[j].addr \in connected
    BY <1>4, <2>3
  <2>7. NoneConnected => NoneConnected'
    BY <2>3 DEF NoneConnected
  <2>8. QED
    BY <1>1, <2>1, <2>4, <2>5, <2>6, <2>7 DEF ListInv
<1>8. QED
  <2>1. CASE u.op = "add" /\ Has(u.addr)
    BY <1>1, <1>5, <2>1, WatchAdds
  <2>2. CASE u.op = "delete" /\ ~Has(u.addr)
    <3>1. WatchDelete(u.addr)
      BY <2>2
    <3>2. UNCHANGED <<addrs, entries>>
      BY <2>2, <3>1 DEF WatchDelete, Has
    <3>3. QED
      BY <1>5, <3>2
  <2>3. QED
    BY <1>1, <1>6, <1>7, <2>1, <2>2

\* A step that leaves the list and its connections as they are.
LEMMA ListSame ==
  ASSUME BalInv, UNCHANGED <<addrs, entries, addrCh, dialled, connected>>
  PROVE  /\ ListInv' /\ (NoneConnected' <=> NoneConnected)
         /\ mu' \/ UNCHANGED <<mu, done>> => GrpcFollows'
<1>1. Positions' = Positions
  BY DEF Positions
<1>2. ListInv'
  BY <1>1 DEF BalInv, ListInv
<1>3. NoneConnected' <=> NoneConnected
  BY <1>1 DEF NoneConnected
<1>4. ASSUME mu' \/ UNCHANGED <<mu, done>> PROVE GrpcFollows'
  <2>1. \A i \in Positions' : addrs'[i].connected <=> addrs'[i].addr \in connected'
    BY <1>1 DEF BalInv, GrpcFollows
  <2>2. {addrs'[i].addr : i \in Positions'} = {addrs[i].addr : i \in Positions}
    BY <1>1
  <2>3. QED
    BY <1>4, <2>1, <2>2 DEF BalInv, GrpcFollows
<1>5. QED
  BY <1>2, <1>3, <1>4

\* The steps of watchAddrUpdates.
LEMMA WatchStep ==
  ASSUME BalInv, \/ BalStart \/ WatchApply \/ WatchNotify
                 \/ \E updates \in Seq(Update) : WatchLock(updates)
  PROVE  BalInv'
<1>1. CASE BalStart
  <2>1. BalTypeOK'
    BY <1>1 DEF BalStart, BalInv, BalTypeOK
  <2>2. NoLostWakeup' /\ ListInv' /\ GrpcFollows'
    BY <1>1, ListSame DEF BalStart, BalInv, NoLostWakeup
  <2>3. QED
    BY <2>1, <2>2 DEF BalInv
<1>2. CASE WatchApply
  <2> DEFINE u == Head(todo)
  <2>1. /\ mu /\ todo # <<>> /\ todo' = Tail(todo)
        /\ (IF u.op = "add" THEN WatchAdd(u.addr, u.ver) ELSE WatchDelete(u.addr))
        /\ UNCHANGED <<watching, mu, addrCh, next, waitCh, done, waiting, dialled, connected>>
    BY <1>2 DEF WatchApply
  <2>2. todo \in Seq(Update)
    BY DEF BalInv, BalTypeOK, Update
  <2>3. u \in Update /\ todo' \in Seq(Update)
    BY <2>1, <2>2, HeadTailProperties
  <2> HIDE DEF u
  <2>4. /\ addrs' \in Seq(Entry) /\ entries' \in [Servers -> Nat] /\ ListInv'
        /\ \A i \in Positions' : addrs'[i].connected <=> addrs'[i].addr \in connected
        /\ NoneConnected => NoneConnected'
    BY <2>1, <2>3, ListUpdated
  <2>5. BalTypeOK'
    BY <2>1, <2>3, <2>4 DEF BalInv, BalTypeOK, Entry, Update
  <2>6. NoLostWakeup'
    BY <2>1, <2>4 DEF BalInv, NoLostWakeup
  <2>7. GrpcFollows'
    BY <2>1, <2>4 DEF GrpcFollows
  <2>8. QED
    BY <2>4, <2>5, <2>6, <2>7 DEF BalInv
<1>3. CASE WatchNotify
  <2> DEFINE list == [i \in Positions |-> addrs[i].addr]
  <2>1. addrs \in Seq(Entry) /\ Len(addrs) \in Nat /\ Positions = 1..Len(addrs)
    BY LenProperties DEF BalInv, BalTypeOK, Entry, Positions
  <2>2. \A i \in Positions : addrs[i].addr \in Address
    <3>1. \A i \in Positions : addrs[i] \in Entry
      BY <2>1, ElementOfSeq
    <3>2. QED
      BY <3>1 DEF Entry
  <2>3. list \in Seq(Address) /\ list # NoList /\ DOMAIN list = Positions
    <3>1. list \in [1..Len(addrs) -> Address]
      BY <2>1, <2>2
    <3>2. QED
      BY <2>1, <3>1, ListOf, BalancerAssumption
  <2>4. \A i \in Positions : list[i] = addrs[i].addr
    OBVIOUS
  <2>5. /\ mu /\ todo = <<>> /\ mu' = FALSE /\ watching' = ~done
        /\ addrCh' = IF done THEN addrCh ELSE list
        /\ UNCHANGED <<addrs, entries, todo, next, waitCh, done, waiting, dialled, connected>>
    BY <1>3 DEF WatchNotify
  <2> HIDE DEF list
  <2>6. BalTypeOK'
    BY <2>3, <2>5 DEF BalInv, BalTypeOK
  <2>7. ListInv'
    BY <2>3, <2>4, <2>5 DEF BalInv, ListInv, Positions
  <2>8. NoLostWakeup'
    BY <2>5 DEF BalInv, NoLostWakeup, NoneConnected, Positions
  <2>9. GrpcFollows'
    <3>1. {addrs[i].addr : i \in Positions} = {list[i] : i \in Positions}
      BY <2>4
    <3>2. Positions' = Positions
      BY <2>5 DEF Positions
    <3>3. \A i \in Positions' : addrs'[i].connected <=> addrs'[i].addr \in connected'
      BY <2>5, <3>2 DEF BalInv, GrpcFollows
    <3>4. done \/ (addrCh' # NoList /\ {addrs'[i].addr : i \in Positions'} = {addrCh'[i] : i \in DOMAIN addrCh'})
      <4>1. CASE ~done
        <5>1. addrCh' = list
          BY <2>5, <4>1
        <5>2. {addrs'[i].addr : i \in Positions'} = {addrs[i].addr : i \in Positions}
          BY <2>5, <3>2
        <5>3. QED
          BY <2>3, <3>1, <5>1, <5>2
      <4>2. QED
        BY <4>1
    <3>5. done' = done
      BY <2>5
    <3>6. QED
      BY <3>3, <3>4, <3>5 DEF GrpcFollows
  <2>10. QED
    BY <2>6, <2>7, <2>8, <2>9 DEF BalInv
<1>4. ASSUME NEW updates \in Seq(Update), WatchLock(updates) PROVE BalInv'
  BY <1>4 DEF WatchLock, BalInv, BalTypeOK, ListInv, NoLostWakeup, NoneConnected, GrpcFollows,
              Positions, Update
<1>5. QED
  BY <1>1, <1>2, <1>3, <1>4

\* The rotation stays a number.
LEMMA Rotates ==
  ASSUME BalTypeOK
  PROVE  /\ First \in Nat /\ First + 1 \in Nat
         /\ \A i \in Positions : Rotate2(i) => next' \in Nat
<1>1. next \in Nat /\ Len(addrs) \in Nat
  BY LenProperties DEF BalTypeOK
<1>2. First \in Nat
  BY <1>1 DEF First
<1>3. ASSUME NEW i \in Positions, Rotate2(i) PROVE next' \in Nat
  <2>1. i \in Nat /\ Len(addrs) > 0
    BY <1>1 DEF Positions
  <2>2. QED
    BY <1>1, <1>3, <2>1 DEF Rotate2
<1>4. QED
  BY <1>2, <1>3

\* Get and Close.
LEMMA GetStep ==
  ASSUME BalInv, BalClose \/ \E c \in Callers : Get(c) \/ GetWakes(c)
  PROVE  BalInv'
<1>1. /\ next \in Nat /\ waiting \in [Callers -> {"no", "waitCh", "closed"}]
      /\ waitCh \in BOOLEAN /\ done \in BOOLEAN /\ BalTypeOK /\ NoLostWakeup
  BY DEF BalInv, BalTypeOK
<1>2. CASE BalClose
  <2>1. waiting' \in [Callers -> {"no", "waitCh", "closed"}]
    BY <1>1, <1>2 DEF BalClose, Wake
  <2>2. \A c \in Callers : waiting'[c] # "waitCh"
    BY <1>1, <1>2 DEF BalClose, Wake, NoLostWakeup
  <2>3. QED
    BY <1>2, <2>1, <2>2 DEF BalClose, BalInv, BalTypeOK, ListInv, NoLostWakeup, GrpcFollows, Positions
<1>3. ASSUME NEW c \in Callers, Get(c) \/ GetWakes(c) PROVE BalInv'
  <2>1. /\ next' \in Nat /\ waitCh' \in BOOLEAN
        /\ waiting' \in [Callers -> {"no", "waitCh", "closed"}]
        /\ UNCHANGED <<addrs, entries, watching, todo, mu, addrCh, done, dialled, connected>>
    <3>1. CASE GetFound(c)
      BY <1>1, <3>1, Rotates DEF GetFound, Chosen
    <3>2. CASE GetFailFast(c)
      BY <1>1, <3>2, Rotates DEF GetFailFast
    <3>3. CASE GetWaits(c)
      BY <1>1, <3>3, Rotates DEF GetWaits
    <3>4. CASE GetGivesUp(c)
      BY <1>1, <3>4 DEF GetGivesUp
    <3>5. CASE GetWakes(c)
      BY <1>1, <3>5, Rotates DEF GetWakes, Chosen
    <3>6. QED
      BY <1>3, <3>1, <3>2, <3>3, <3>4, <3>5 DEF Get
  <2>2. NoLostWakeup'
    <3>1. NoneConnected' <=> NoneConnected
      BY <2>1 DEF NoneConnected, Positions
    <3>2. CASE UNCHANGED waitCh /\ \A d \in Callers : waiting'[d] = "waitCh" => waiting[d] = "waitCh"
      BY <1>1, <2>1, <3>1, <3>2 DEF NoLostWakeup
    <3>3. CASE waitCh' = TRUE /\ NoneConnected /\ ~done
      BY <2>1, <3>1, <3>3 DEF NoLostWakeup
    <3>4. \/ UNCHANGED waitCh /\ waiting' = [waiting EXCEPT ![c] = "no"]
          \/ UNCHANGED waitCh /\ UNCHANGED waiting
          \/ waitCh' = TRUE /\ NoneConnected /\ ~done
      BY <1>3 DEF Get, GetFound, GetFailFast, GetWaits, GetGivesUp, GetWakes
    <3>5. QED
      BY <1>1, <3>2, <3>3, <3>4
  <2>3. BalTypeOK' /\ ListInv' /\ GrpcFollows'
    BY <2>1, ListSame DEF BalInv, BalTypeOK
  <2>4. QED
    BY <2>2, <2>3 DEF BalInv
<1>4. QED
  BY <1>2, <1>3

\* The invariant is inductive.
LEMMA BalInvariant == BalSpec => []BalInv
<1>1. BalInv /\ [BalNext]_balVars => BalInv'
  <2> SUFFICES ASSUME BalInv, [BalNext]_balVars PROVE BalInv'
    OBVIOUS
  <2>1. CASE BalStart \/ WatchApply \/ WatchNotify
    BY <2>1, WatchStep
  <2>2. CASE ReadList
    BY <2>2, DownStep
  <2>3. CASE BalClose
    BY <2>3, GetStep
  <2>4. ASSUME NEW u \in Updates, WatchLock(<<u>>) PROVE BalInv'
    <3>1. u \in Update
      BY DEF Updates, Update
    <3>2. <<u>> \in Seq(Update)
      BY <3>1
    <3>3. QED
      BY <2>4, <3>2, WatchStep
  <2>5. ASSUME NEW u \in Updates, NEW v \in Updates, WatchLock(<<u, v>>) PROVE BalInv'
    <3>1. u \in Update /\ v \in Update
      BY DEF Updates, Update
    <3>2. <<u, v>> \in Seq(Update)
      BY <3>1
    <3>3. QED
      BY <2>5, <3>2, WatchStep
  <2>6. ASSUME NEW a \in dialled, Connects(a) \/ Breaks(a) PROVE BalInv'
    BY <2>6, UpStep, DownStep DEF Connects, Breaks
  <2>7. CASE \E c \in Callers : Get(c) \/ GetWakes(c)
    BY <2>7, GetStep
  <2>8. CASE UNCHANGED balVars
    <3>1. BalTypeOK'
      BY <2>8 DEF balVars, BalInv, BalTypeOK
    <3>2. NoLostWakeup' /\ ListInv' /\ GrpcFollows'
      BY <2>8, ListSame DEF balVars, BalInv, NoLostWakeup
    <3>3. QED
      BY <3>1, <3>2 DEF BalInv
  <2>9. QED
    BY <2>1, <2>2, <2>3, <2>4, <2>5, <2>6, <2>7, <2>8 DEF BalNext
<1>2. QED
  BY <1>1, BalStarts, PTL DEF BalSpec

\* A Get waits on waitCh only while no address is connected and the balancer is
\* open, for any number of servers, of Gets and of updates in any order, because
\* a server is in the list only once (serverid.go:138, 244-249, 285-290).
THEOREM GetsAreWoken == BalSpec => []NoLostWakeup
<1>1. BalInv => NoLostWakeup
  BY DEF BalInv
<1>2. QED
  BY <1>1, BalInvariant, PTL

\* grpc's connections, or the list it reads next, are those of the balancer,
\* and the flags of the entries say which of them are up
\* (serverid.go:44-87, 122-157).
THEOREM ConnectionsFollowTheList == BalSpec => []GrpcFollows
<1>1. BalInv => GrpcFollows
  BY DEF BalInv
<1>2. QED
  BY <1>1, BalInvariant, PTL

(* ----------------------------- EtcdRegistry ---------------------------- *)

\* What etcd reports: a put has a version.
Change == {u \in [op : {"add", "delete"}, addr : Servers, ver : 0..MaxStarts] : u.op = "add" => u.ver # 0}
Value(u) == IF u.op = "add" THEN u.ver ELSE 0

\* The last change of a server in q, unless the server is in S, is what k says of it.
LastOf(q, i) == \A j \in DOMAIN q : j > i => q[j].addr # q[i].addr
Told(q, k, S) == \A i \in DOMAIN q : q[i].addr \notin S /\ LastOf(q, i) => k[q[i].addr] = Value(q[i])

\* The balancer's list has of a server what etcd has.
Listed(s) == IF key[s] = 0 THEN GetById(s) = {} ELSE {a.ver : a \in GetById(s)} = {key[s]}

\* How the client and etcd are related.
EtcdInv ==
  /\ \A s \in Servers : version[s] <= started /\ (renewal[s] # "none" => version[s] # 0)
  /\ IsFiniteSet(KeysPut)
  /\ events \in Seq(Change) /\ todo \in Seq(Change)
  /\ watcher # "watches" => events = <<>>
  /\ mu => watcher = "between"
  /\ watcher \in {"new", "first"} => addrs = <<>>

FollowsInv ==
  /\ Told(events, key, {}) /\ Told(todo, key, stale)
  /\ watcher \in {"between", "watches"} =>
       \A s \in Servers \ (stale \cup ServersOf(events) \cup ServersOf(todo)) : Listed(s)

RegInv == BalInv /\ RegTypeOK /\ EtcdInv /\ FollowsInv

\* A change at the end of a queue is the last of its server.
LEMMA ToldAppend ==
  ASSUME NEW q \in Seq(Change), NEW e \in Change, NEW k \in [Servers -> Nat], Told(q, k, {})
  PROVE  /\ Told(Append(q, e), [k EXCEPT ![e.addr] = Value(e)], {})
         /\ ServersOf(Append(q, e)) = ServersOf(q) \cup {e.addr}
<1> DEFINE n == Len(q)
           Q == Append(q, e)
           K == [k EXCEPT ![e.addr] = Value(e)]
<1>1. n \in Nat /\ DOMAIN q = 1..n /\ \A i \in 1..n : q[i] \in Change
  BY LenProperties, ElementOfSeq
<1>2. Q \in Seq(Change) /\ Len(Q) = n + 1 /\ Q[n + 1] = e /\ \A i \in 1..n : Q[i] = q[i]
  BY AppendProperties
<1>3. DOMAIN Q = 1..(n + 1)
  BY <1>2, LenProperties
<1>4. \A u \in Change : u.addr \in Servers
  BY DEF Change
<1>5. K[e.addr] = Value(e) /\ \A s \in Servers : s # e.addr => K[s] = k[s]
  BY <1>4
<1> HIDE DEF n, Q, K, Change
<1>6. ASSUME NEW i \in DOMAIN Q, LastOf(Q, i) PROVE K[Q[i].addr] = Value(Q[i])
  <2>1. CASE i = n + 1
    BY <1>2, <1>5, <2>1
  <2>2. CASE i \in 1..n
    <3>1. Q[n + 1].addr # Q[i].addr
      BY <1>1, <1>3, <1>6, <2>2 DEF LastOf
    <3>2. LastOf(q, i)
      <4>1. \A j \in 1..n : j \in 1..(n + 1)
        BY <1>1
      <4>2. QED
        BY <1>1, <1>2, <1>3, <1>6, <2>2, <4>1 DEF LastOf
    <3>3. k[q[i].addr] = Value(q[i])
      BY <1>1, <2>2, <3>2 DEF Told
    <3>4. QED
      BY <1>1, <1>2, <1>4, <1>5, <2>2, <3>1, <3>3
  <2>3. QED
    BY <1>1, <1>3, <2>1, <2>2
<1>7. ServersOf(Q) = ServersOf(q) \cup {e.addr}
  <2>1. ASSUME NEW s \in ServersOf(Q) PROVE s \in ServersOf(q) \cup {e.addr}
    <3>1. PICK i \in 1..(n + 1) : s = Q[i].addr
      BY <1>3 DEF ServersOf
    <3>2. i = n + 1 \/ i \in 1..n
      BY <1>1
    <3>3. QED
      BY <1>1, <1>2, <3>1, <3>2 DEF ServersOf
  <2>2. ASSUME NEW s \in ServersOf(q) \cup {e.addr} PROVE s \in ServersOf(Q)
    <3>1. n + 1 \in 1..(n + 1) /\ \A i \in 1..n : i \in 1..(n + 1)
      BY <1>1
    <3>2. CASE s = e.addr
      BY <1>2, <1>3, <3>1, <3>2 DEF ServersOf
    <3>3. CASE s \in ServersOf(q)
      BY <1>1, <1>2, <1>3, <3>1, <3>3 DEF ServersOf
    <3>4. QED
      BY <3>2, <3>3
  <2>3. QED
    BY <2>1, <2>2
<1>8. QED
  BY <1>6, <1>7 DEF Told, Q, K

\* A key that changes unseen is excepted from then on.
LEMMA ToldExcept ==
  ASSUME NEW q \in Seq(Change), NEW k \in [Servers -> Nat], NEW S, Told(q, k, S),
         NEW s \in Servers, NEW v
  PROVE  Told(q, [k EXCEPT ![s] = v], S \cup {s})
<1>1. DOMAIN q = 1..Len(q) /\ \A i \in 1..Len(q) : q[i] \in Change
  BY LenProperties, ElementOfSeq
<1>2. \A i \in DOMAIN q : q[i].addr \in Servers
  BY <1>1 DEF Change
<1>3. QED
  BY <1>2 DEF Told

\* What is known to be stale may grow.
LEMMA ToldMore ==
  ASSUME NEW q, NEW k, NEW S, NEW R, Told(q, k, S), S \subseteq R PROVE Told(q, k, R)
BY DEF Told

\* The first change is taken from a queue.
LEMMA ToldTail ==
  ASSUME NEW q \in Seq(Change), q # <<>>, NEW k, NEW S, Told(q, k, S)
  PROVE  /\ Told(Tail(q), k, S) /\ Head(q) \in Change /\ Tail(q) \in Seq(Change)
         /\ Head(q).addr \notin S \cup ServersOf(Tail(q)) => k[Head(q).addr] = Value(Head(q))
         /\ ServersOf(q) = ServersOf(Tail(q)) \cup {Head(q).addr}
<1> DEFINE n == Len(q)
           T == Tail(q)
<1>1. n \in Nat \ {0} /\ DOMAIN q = 1..n
  BY LenProperties, EmptySeq
<1>2. /\ T \in Seq(Change) /\ Len(T) = n - 1 /\ Head(q) \in Change
      /\ \A i \in 1..(n - 1) : T[i] = q[i + 1]
  BY HeadTailProperties
<1>3. DOMAIN T = 1..(n - 1)
  BY <1>2, LenProperties
<1>4. Head(q) = q[1]
  OBVIOUS
<1> HIDE DEF n, T, Change
<1>5. \A i \in 1..n : i = 1 \/ (i - 1 \in 1..(n - 1) /\ (i - 1) + 1 = i)
  BY <1>1
<1>6. \A i \in 1..(n - 1) : i + 1 \in 1..n /\ 1 \in 1..n
  BY <1>1
<1>7. ASSUME NEW i \in 1..(n - 1), LastOf(T, i) PROVE LastOf(q, i + 1)
  <2>1. ASSUME NEW j \in 1..n, j > i + 1 PROVE q[j].addr # q[i + 1].addr
    <3>1. j - 1 \in 1..(n - 1) /\ (j - 1) + 1 = j /\ j - 1 > i
      BY <1>1, <2>1
    <3>2. QED
      BY <1>2, <1>3, <1>7, <3>1 DEF LastOf
  <2>2. QED
    BY <1>1, <2>1 DEF LastOf
<1>8. Told(T, k, S)
  BY <1>1, <1>2, <1>3, <1>6, <1>7 DEF Told
<1>9. ASSUME Head(q).addr \notin S \cup ServersOf(T) PROVE k[Head(q).addr] = Value(Head(q))
  <2>1. LastOf(q, 1)
    <3>1. \A j \in 1..n : j > 1 => j - 1 \in 1..(n - 1) /\ q[j] = T[j - 1]
      BY <1>1, <1>2, <1>5
    <3>2. QED
      BY <1>1, <1>3, <1>4, <1>9, <3>1 DEF LastOf, ServersOf
  <2>2. 1 \in DOMAIN q
    BY <1>1
  <2>3. QED
    BY <1>4, <1>9, <2>1, <2>2 DEF Told
<1>10. ServersOf(q) = ServersOf(T) \cup {Head(q).addr}
  <2>1. ASSUME NEW s \in ServersOf(q) PROVE s \in ServersOf(T) \cup {Head(q).addr}
    <3>1. PICK i \in 1..n : s = q[i].addr
      BY <1>1 DEF ServersOf
    <3>2. CASE i = 1
      BY <1>4, <3>1, <3>2
    <3>3. CASE i - 1 \in 1..(n - 1) /\ (i - 1) + 1 = i
      <4>1. s = T[i - 1].addr
        BY <1>2, <3>1, <3>3
      <4>2. QED
        BY <1>3, <3>3, <4>1 DEF ServersOf
    <3>4. QED
      BY <1>5, <3>2, <3>3
  <2>2. ASSUME NEW s \in ServersOf(T) \cup {Head(q).addr} PROVE s \in ServersOf(q)
    <3>1. CASE s = Head(q).addr
      BY <1>1, <1>4, <3>1 DEF ServersOf
    <3>2. CASE s \in ServersOf(T)
      BY <1>1, <1>2, <1>3, <1>6, <3>2 DEF ServersOf
    <3>3. QED
      BY <2>2, <3>1, <3>2
  <2>3. QED
    BY <2>1, <2>2
<1>11. QED
  BY <1>2, <1>8, <1>9, <1>10 DEF T

\* What is taken from the front of a queue tells of every server that is not
\* in the rest.
LEMMA ToldCut ==
  ASSUME NEW q \in Seq(Change), NEW k, NEW S, NEW n \in 1..Len(q), Told(q, k, S)
  PROVE  LET front == SubSeq(q, 1, n)
             rest == SubSeq(q, n + 1, Len(q))
         IN  /\ front \in Seq(Change)
             /\ Told(front, k, S \cup ServersOf(rest))
             /\ ServersOf(q) = ServersOf(front) \cup ServersOf(rest)
<1> DEFINE m == Len(q)
           F == SubSeq(q, 1, n)
           R == SubSeq(q, n + 1, m)
<1>1. m \in Nat /\ n \in 1..m /\ DOMAIN q = 1..m /\ \A i \in 1..m : q[i] \in Change
  BY LenProperties, ElementOfSeq
<1>2. F \in Seq(Change) /\ Len(F) = n /\ \A i \in 1..n : F[i] = q[i]
  <2>1. \A i \in 1..n : q[i] \in Change
    BY <1>1
  <2>2. 1 \in Int /\ n \in Int /\ n - 1 + 1 = n /\ 1 <= n /\ \A i \in 1..n : 1 + i - 1 = i
    BY <1>1
  <2>3. QED
    BY <2>1, <2>2, SubSeqProperties
<1>3. R \in Seq(Change) /\ Len(R) = m - n /\ \A i \in 1..(m - n) : R[i] = q[n + i]
  <2>1. \A i \in (n + 1)..m : q[i] \in Change
    BY <1>1
  <2>2. n + 1 \in Int /\ m \in Int /\ m - (n + 1) + 1 = m - n /\ (\A i \in 1..(m - n) : (n + 1) + i - 1 = n + i)
    BY <1>1
  <2> DEFINE a == n + 1
  <2>3. a \in Int /\ m \in Int /\ m - a + 1 = m - n /\ (\A i \in 1..(m - n) : a + i - 1 = n + i) /\ (a <= m \/ m - n = 0)
    <3>1. n + 1 <= m \/ m - n = 0
      <4>1. m \in Nat /\ n \in Nat /\ n <= m
        BY <1>1
      <4> HIDE DEF m
      <4>2. QED
        BY <4>1
    <3>2. QED
      BY <2>2, <3>1 DEF a
  <2> HIDE DEF a
  <2>4. \A i \in a..m : q[i] \in Change
    BY <2>1 DEF a
  <2>5. /\ SubSeq(q, a, m) \in Seq(Change)
        /\ Len(SubSeq(q, a, m)) = IF a <= m THEN m - a + 1 ELSE 0
        /\ \A i \in 1..(m - a + 1) : SubSeq(q, a, m)[i] = q[a + i - 1]
    <3> HIDE DEF m
    <3>1. QED
      BY <2>3, <2>4, SubSeqProperties
  <2>6. R = SubSeq(q, a, m)
    BY DEF a
  <2> HIDE DEF m, R
  <2>7. QED
    BY <2>3, <2>5, <2>6
<1>4. DOMAIN F = 1..n /\ DOMAIN R = 1..(m - n)
  BY <1>2, <1>3, LenProperties
<1> HIDE DEF m, F, R, Change
<1>5. \A j \in 1..m : j \in 1..n \/ (j - n \in 1..(m - n) /\ n + (j - n) = j)
  BY <1>1
<1>6. (\A i \in 1..n : i \in 1..m) /\ (\A i \in 1..(m - n) : n + i \in 1..m)
  BY <1>1
<1>7. ASSUME NEW i \in 1..n, LastOf(F, i), F[i].addr \notin ServersOf(R) PROVE LastOf(q, i)
  <2>1. ASSUME NEW j \in 1..m, j > i PROVE q[j].addr # q[i].addr
    <3>1. CASE j \in 1..n
      BY <1>2, <1>4, <1>7, <2>1, <3>1 DEF LastOf
    <3>2. CASE j - n \in 1..(m - n) /\ n + (j - n) = j
      <4>1. R[j - n] = q[j] /\ j - n \in DOMAIN R /\ F[i] = q[i]
        BY <1>2, <1>3, <1>4, <1>7, <3>2
      <4>2. R[j - n].addr \in ServersOf(R)
        BY <4>1 DEF ServersOf
      <4>3. QED
        BY <1>7, <4>1, <4>2
    <3>3. QED
      BY <1>5, <3>1, <3>2
  <2>2. QED
    BY <1>1, <2>1 DEF LastOf
<1>8. Told(F, k, S \cup ServersOf(R))
  BY <1>1, <1>2, <1>4, <1>6, <1>7 DEF Told
<1>9. ServersOf(q) = ServersOf(F) \cup ServersOf(R)
  <2>1. ASSUME NEW s \in ServersOf(q) PROVE s \in ServersOf(F) \cup ServersOf(R)
    <3>1. PICK j \in 1..m : s = q[j].addr
      BY <1>1 DEF ServersOf
    <3>2. CASE j \in 1..n
      BY <1>2, <1>4, <3>1, <3>2 DEF ServersOf
    <3>3. CASE j - n \in 1..(m - n) /\ n + (j - n) = j
      <4>1. s = R[j - n].addr
        BY <1>3, <3>1, <3>3
      <4>2. QED
        BY <1>4, <3>3, <4>1 DEF ServersOf
    <3>4. QED
      BY <1>5, <3>2, <3>3
  <2>2. ASSUME NEW s \in ServersOf(F) \cup ServersOf(R) PROVE s \in ServersOf(q)
    <3>1. CASE s \in ServersOf(F)
      <4>1. PICK i \in 1..n : s = F[i].addr
        BY <1>4, <3>1 DEF ServersOf
      <4>2. QED
        BY <1>1, <1>2, <1>6, <4>1 DEF ServersOf
    <3>2. CASE s \in ServersOf(R)
      <4>1. PICK i \in 1..(m - n) : s = R[i].addr
        BY <1>4, <3>2 DEF ServersOf
      <4>2. n + i \in 1..m /\ s = q[n + i].addr
        BY <1>3, <1>6, <4>1
      <4>3. QED
        BY <1>1, <4>2 DEF ServersOf
    <3>3. QED
      BY <2>2, <3>1, <3>2
  <2>3. QED
    BY <2>1, <2>2
<1>10. QED
  BY <1>2, <1>8, <1>9 DEF m, F, R

\* The invariant holds before the first registration.
LEMMA RegStarts == RegInit => RegInv
<1> SUFFICES ASSUME RegInit PROVE RegInv
  OBVIOUS
<1>1. BalInv
  BY BalStarts DEF RegInit
<1>2. MaxStarts \in Nat
  BY RegistryAssumption
<1>3. <<>> \in Seq(Change) /\ DOMAIN <<>> = {}
  OBVIOUS
<1>4. RegTypeOK
  BY <1>1, <1>2 DEF RegInit, RegTypeOK, BalInv
<1>5. KeysPut = {}
  BY DEF RegInit, KeysPut
<1>6. EtcdInv
  BY <1>3, <1>5, FS_EmptySet DEF RegInit, BalInit, EtcdInv
<1>7. FollowsInv
  BY <1>3 DEF RegInit, BalInit, FollowsInv, Told
<1>8. QED
  BY <1>1, <1>4, <1>6, <1>7 DEF RegInv

\* What the list has of a server after an update.
LEMMA Applied ==
  ASSUME BalInv, NEW u \in Update,
         (IF u.op = "add" THEN WatchAdd(u.addr, u.ver) ELSE WatchDelete(u.addr))
  PROVE  /\ \A t \in Servers : t # u.addr => GetById(t)' = GetById(t)
         /\ u.op = "add" /\ Has(u.addr) => GetById(u.addr)' = GetById(u.addr) /\ GetById(u.addr) # {}
         /\ u.op = "add" /\ ~Has(u.addr) => \E a : a.ver = u.ver /\ GetById(u.addr)' = {a}
         /\ u.op = "delete" => GetById(u.addr)' = {}
<1> DEFINE s == u.addr
           n == Len(addrs)
<1>1. /\ n \in Nat /\ s \in Servers /\ u.ver \in Nat /\ u.op \in {"add", "delete"} /\ Positions = 1..n
  BY LenProperties DEF BalInv, BalTypeOK, Update, Positions
<1>2. \A t : GetById(t) = {addrs[i].addr : i \in {j \in Positions : addrs[j].addr.addr = t}}
  BY DEF GetById
<1>3. \A t : GetById(t)' = {addrs'[i].addr : i \in {j \in Positions' : addrs'[j].addr.addr = t}}
  BY DEF GetById
<1>4. CASE u.op = "add" /\ Has(s)
  <2>1. UNCHANGED addrs
    BY <1>4 DEF WatchAdd
  <2>2. Positions' = Positions
    BY <2>1 DEF Positions
  <2>3. GetById(s) # {}
    BY <1>2, <1>4 DEF Has
  <2>4. QED
    BY <1>2, <1>3, <1>4, <2>1, <2>2, <2>3
<1>5. CASE u.op = "add" /\ ~Has(s)
  <2> DEFINE e == [addr |-> [addr |-> s, ver |-> u.ver, num |-> entries'[s]], connected |-> FALSE]
  <2>1. Len(addrs') = n + 1 /\ (\A i \in Positions : addrs'[i] = addrs[i]) /\ addrs'[n + 1] = e
    BY <1>1, <1>5, WatchAdds
  <2>2. Positions' = 1..(n + 1)
    BY <2>1 DEF Positions
  <2>3. \A i \in Positions' : i \in Positions \/ i = n + 1
    BY <1>1, <2>2
  <2>4. \A i \in Positions : i \in Positions'
    BY <1>1, <2>2
  <2>5. n + 1 \in Positions'
    BY <1>1, <2>2
  <2>6. e.addr.addr = s /\ e.addr.ver = u.ver
    OBVIOUS
  <2>7. \A i \in Positions : addrs[i].addr.addr # s
    BY <1>5 DEF Has
  <2> HIDE DEF s, n, e
  <2>8. GetById(s)' = {e.addr}
    BY <1>3, <2>1, <2>3, <2>5, <2>6, <2>7
  <2>9. ASSUME NEW t \in Servers, t # s PROVE GetById(t)' = GetById(t)
    BY <1>2, <1>3, <2>1, <2>3, <2>4, <2>6, <2>9
  <2>10. QED
    BY <1>5, <2>6, <2>8, <2>9 DEF s
<1>6. CASE u.op = "delete" /\ ~Has(s)
  <2>1. WatchDelete(s)
    BY <1>6
  <2>2. UNCHANGED addrs
    BY <1>6, <2>1 DEF WatchDelete, Has
  <2>3. Positions' = Positions
    BY <2>2 DEF Positions
  <2>4. GetById(s) = {}
    BY <1>2, <1>6 DEF Has
  <2>5. QED
    BY <1>2, <1>3, <1>6, <2>2, <2>3, <2>4
<1>7. CASE u.op = "delete" /\ Has(s)
  <2>1. WatchDelete(s)
    BY <1>7
  <2>2. PICK i \in Positions :
          /\ addrs[i].addr.addr = s /\ Len(addrs') = n - 1
          /\ \A j \in Positions' : addrs'[j] = IF j < i THEN addrs[j] ELSE addrs[j + 1]
    BY <1>1, <1>7, <2>1, WatchDeletes
  <2>3. Positions' = 1..(n - 1)
    BY <2>2 DEF Positions
  <2> DEFINE From(j) == IF j < i THEN j ELSE j + 1
  <2>4. \A j \in Positions' : From(j) \in Positions \ {i} /\ addrs'[j] = addrs[From(j)]
    BY <1>1, <2>2, <2>3
  <2>5. \A j \in Positions \ {i} : \E k \in Positions' : From(k) = j
    <3>1. ASSUME NEW j \in Positions \ {i} PROVE \E k \in Positions' : From(k) = j
      <4>1. CASE j < i
        <5>1. j \in Positions' /\ From(j) = j
          BY <1>1, <2>3, <4>1
        <5>2. QED
          BY <5>1
      <4>2. CASE j > i
        <5>1. j - 1 \in Positions' /\ From(j - 1) = j
          BY <1>1, <2>3, <4>2
        <5>2. QED
          BY <5>1
      <4>3. QED
        BY <1>1, <4>1, <4>2
    <3>2. QED
      BY <3>1
  <2>6. \A j \in Positions \ {i} : addrs[j].addr.addr # s
    BY <2>2 DEF BalInv, ListInv
  <2> HIDE DEF From, s, n
  <2>7. GetById(s)' = {}
    BY <1>3, <2>4, <2>6
  <2>8. ASSUME NEW t \in Servers, t # s PROVE GetById(t)' = GetById(t)
    <3>1. ASSUME NEW a \in GetById(t)' PROVE a \in GetById(t)
      BY <1>2, <1>3, <2>4, <3>1
    <3>2. ASSUME NEW a \in GetById(t) PROVE a \in GetById(t)'
      <4>1. PICK j \in Positions : addrs[j].addr = a /\ addrs[j].addr.addr = t
        BY <1>2, <3>2
      <4>2. j # i
        BY <2>2, <2>8, <4>1
      <4>3. PICK k \in Positions' : From(k) = j
        BY <2>5, <4>1, <4>2
      <4>4. addrs'[k].addr = a /\ addrs'[k].addr.addr = t
        BY <2>4, <4>1, <4>3
      <4>5. QED
        BY <1>3, <4>3, <4>4
    <3>3. QED
      BY <3>1, <3>2
  <2>9. QED
    BY <1>7, <2>7, <2>8 DEF s
<1>8. QED
  BY <1>1, <1>4, <1>5, <1>6, <1>7

\* A key changes: the open watch gets the change, or nobody does.
LEMMA KeyChanges ==
  ASSUME RegInv, NEW s \in Servers, NEW op \in {"add", "delete"}, NEW ver \in 0..MaxStarts,
         op = "add" => ver # 0, Changes(op, s, ver), UNCHANGED <<balVars, watcher>>
  PROVE  /\ key' \in [Servers -> 0..MaxStarts] /\ stale' \subseteq Servers
         /\ IsFiniteSet(KeysPut') /\ events' \in Seq(Change)
         /\ watcher # "watches" => events' = <<>>
         /\ FollowsInv'
<1> DEFINE e == Event(op, s, ver)
<1>1. /\ e \in Change /\ e.addr = s /\ Value(e) = IF op = "add" THEN ver ELSE 0
      /\ Value(e) \in 0..MaxStarts
  BY RegistryAssumption DEF Event, Change, Value
<1>2. /\ key \in [Servers -> 0..MaxStarts] /\ stale \subseteq Servers /\ IsFiniteSet(KeysPut)
      /\ events \in Seq(Change) /\ todo \in Seq(Change) /\ (watcher # "watches" => events = <<>>)
      /\ Told(events, key, {}) /\ Told(todo, key, stale)
      /\ mu => watcher = "between"
      /\ todo # <<>> => mu
  BY DEF RegInv, RegTypeOK, BalTypeOK, EtcdInv, FollowsInv
<1>3. key \in [Servers -> Nat]
  BY <1>2, RegistryAssumption
<1>4. key' = [key EXCEPT ![s] = Value(e)]
  BY <1>1 DEF Changes
<1>5. \/ watcher = "watches" /\ events' = Append(events, e) /\ UNCHANGED stale
      \/ watcher # "watches" /\ stale' = stale \cup {s} /\ UNCHANGED events
  BY DEF Changes
<1> HIDE DEF e
<1>6. key' \in [Servers -> 0..MaxStarts] /\ stale' \subseteq Servers
  BY <1>1, <1>2, <1>4, <1>5
<1>7. IsFiniteSet(KeysPut')
  <2>1. KeysPut' \subseteq KeysPut \cup {s}
    BY <1>2, <1>4 DEF KeysPut
  <2>2. QED
    BY <1>2, <2>1, FS_AddElement, FS_Subset
<1>8. \A t \in Servers : t # s => (Listed(t)' <=> Listed(t))
  <2>1. \A t \in Servers : GetById(t)' = GetById(t)
    BY DEF balVars, GetById, Positions
  <2>2. QED
    BY <1>2, <1>4, <2>1 DEF Listed
<1>9. todo' = todo /\ watcher' = watcher
  BY DEF balVars
<1>10. CASE watcher = "watches"
  <2>1. events' = Append(events, e) /\ UNCHANGED stale
    BY <1>5, <1>10
  <2>2. Told(events', key', {}) /\ ServersOf(events') = ServersOf(events) \cup {s}
    BY <1>1, <1>2, <1>3, <1>4, <2>1, ToldAppend
  <2>3. todo = <<>> /\ DOMAIN todo = {}
    BY <1>2, <1>10
  <2>4. Told(todo', key', stale')
    BY <1>9, <2>3 DEF Told
  <2>5. events' \in Seq(Change)
    BY <1>1, <1>2, <2>1, AppendProperties
  <2>6. \A t \in Servers \ (stale' \cup ServersOf(events') \cup ServersOf(todo')) : Listed(t)'
    BY <1>8, <1>9, <1>10, <2>1, <2>2 DEF RegInv, FollowsInv
  <2>7. QED
    BY <1>6, <1>7, <1>9, <1>10, <2>2, <2>4, <2>5, <2>6 DEF FollowsInv
<1>11. CASE watcher # "watches"
  <2>1. stale' = stale \cup {s} /\ events' = events /\ events = <<>>
    BY <1>2, <1>5, <1>11
  <2>2. Told(events', key', {})
    BY <2>1 DEF Told
  <2>3. Told(todo', key', stale')
    BY <1>2, <1>3, <1>4, <1>9, <2>1, ToldExcept
  <2>4. watcher \in {"between", "watches"} =>
          \A t \in Servers \ (stale' \cup ServersOf(events') \cup ServersOf(todo')) : Listed(t)'
    BY <1>8, <1>9, <2>1 DEF RegInv, FollowsInv
  <2>5. QED
    BY <1>2, <1>6, <1>7, <1>9, <2>1, <2>2, <2>3, <2>4 DEF FollowsInv
<1>12. QED
  BY <1>10, <1>11

\* The list and what is waiting are left as they are.
LEMMA BalSame == ASSUME BalInv, UNCHANGED balVars PROVE BalInv'
<1>1. BalTypeOK'
  BY DEF balVars, BalInv, BalTypeOK
<1>2. NoLostWakeup' /\ ListInv' /\ GrpcFollows'
  BY ListSame DEF balVars, BalInv, NoLostWakeup
<1>3. QED
  BY <1>1, <1>2 DEF BalInv

\* Nothing that the list and the registry have in common changes.
LEMMA FollowsSame ==
  ASSUME FollowsInv, UNCHANGED <<addrs, todo, events, key, stale, watcher>> PROVE FollowsInv'
<1>1. \A t \in Servers : Listed(t)' <=> Listed(t)
  BY DEF Listed, GetById, Positions
<1>2. QED
  BY <1>1 DEF FollowsInv

\* A sequence of changes is one of updates.
LEMMA ChangesAreUpdates ==
  ASSUME NEW q \in Seq(Change)
  PROVE  q \in Seq(Update) /\ q \in Seq([op : {"add", "delete"}, addr : Servers, ver : 0..MaxStarts])
<1>1. Change \subseteq Update
  BY RegistryAssumption DEF Change, Update
<1>2. Change \subseteq [op : {"add", "delete"}, addr : Servers, ver : 0..MaxStarts]
  BY DEF Change
<1> HIDE DEF Change, Update
<1>3. q \in [1..Len(q) -> Change] /\ Len(q) \in Nat
  BY SeqDef, LenProperties
<1>4. q \in [1..Len(q) -> Update] /\ q \in [1..Len(q) -> [op : {"add", "delete"}, addr : Servers, ver : 0..MaxStarts]]
  BY <1>1, <1>2, <1>3
<1>5. QED
  BY <1>3, <1>4, ListOf

\* A server starts, renews, stops or crashes, or its lease ends.
LEMMA ServerStep ==
  ASSUME RegInv, NEW s \in Servers, Server(s) PROVE RegInv'
<1>1. /\ RegTypeOK /\ EtcdInv /\ FollowsInv /\ BalInv /\ MaxStarts \in Nat
      /\ UNCHANGED <<balVars, watcher>>
  BY RegistryAssumption
     DEF RegInv, Server, Start, Renew, RenewFails, NineSeconds, UnRegister, Cancelled, Stopped, Crash, Expire
<1>2. BalInv' /\ BalTypeOK'
  BY <1>1, BalSame DEF BalInv
<1>3. /\ proc' \in [Servers -> {"down", "up", "stopping"}] /\ version' \in [Servers -> 0..MaxStarts]
      /\ renewal' \in [Servers -> {"none", "due", "waits"}] /\ started' \in 0..MaxStarts
      /\ \A t \in Servers : version'[t] <= started' /\ (renewal'[t] # "none" => version'[t] # 0)
  <2> USE DEF RegTypeOK, EtcdInv
  <2>1. CASE Start(s)
    BY <1>1, <2>1 DEF Start
  <2>2. CASE Renew(s)
    BY <1>1, <2>2 DEF Renew
  <2>3. CASE RenewFails(s)
    BY <1>1, <2>3 DEF RenewFails
  <2>4. CASE NineSeconds(s)
    BY <1>1, <2>4 DEF NineSeconds
  <2>5. CASE UnRegister(s)
    BY <1>1, <2>5 DEF UnRegister
  <2>6. CASE Cancelled(s)
    BY <1>1, <2>6 DEF Cancelled
  <2>7. CASE Stopped(s)
    BY <1>1, <2>7 DEF Stopped
  <2>8. CASE Crash(s)
    BY <1>1, <2>8 DEF Crash
  <2>9. CASE Expire(s)
    BY <1>1, <2>9 DEF Expire
  <2>10. QED
    BY <2>1, <2>2, <2>3, <2>4, <2>5, <2>6, <2>7, <2>8, <2>9 DEF Server
<1>4. /\ key' \in [Servers -> 0..MaxStarts] /\ stale' \subseteq Servers
      /\ IsFiniteSet(KeysPut') /\ events' \in Seq(Change)
      /\ watcher # "watches" => events' = <<>>
      /\ FollowsInv'
  <2>1. CASE UNCHANGED <<key, events, stale>>
    <3>1. KeysPut' = KeysPut
      BY <2>1 DEF KeysPut
    <3>2. QED
      BY <1>1, <2>1, <3>1, FollowsSame DEF RegTypeOK, EtcdInv, balVars
  <2>2. CASE Renew(s)
    <3>1. version[s] \in 0..MaxStarts /\ version[s] # 0 /\ Changes("add", s, version[s])
      BY <1>1, <2>2 DEF Renew, RegTypeOK, EtcdInv
    <3>2. QED
      BY <1>1, <3>1, KeyChanges
  <2>3. CASE Expire(s)
    <3>1. 0 \in 0..MaxStarts /\ Changes("delete", s, 0)
      BY <1>1, <2>3 DEF Expire
    <3>2. QED
      BY <1>1, <3>1, KeyChanges
  <2>4. QED
    BY <2>1, <2>2, <2>3
       DEF Server, Start, RenewFails, NineSeconds, UnRegister, Cancelled, Stopped, Crash
<1>5. events' \in Seq([op : {"add", "delete"}, addr : Servers, ver : 0..MaxStarts])
  BY <1>4, ChangesAreUpdates
<1>6. RegTypeOK'
  BY <1>1, <1>2, <1>3, <1>4, <1>5 DEF RegTypeOK
<1>7. EtcdInv'
  BY <1>1, <1>3, <1>4 DEF EtcdInv, balVars
<1>8. QED
  BY <1>2, <1>4, <1>6, <1>7 DEF RegInv

\* Next returns: the updates are changes, the last of a server tells what etcd
\* has of it, and every other server is listed.
LEMMA WatchLockStep ==
  ASSUME RegInv, watcher' = "between", events' = <<>>, UNCHANGED <<proc, version, renewal, key, started>>,
         NEW updates \in Seq(Change), WatchLock(updates), stale' \subseteq Servers,
         Told(updates, key, stale'),
         \A s \in Servers \ (stale' \cup ServersOf(updates)) : Listed(s)
  PROVE  RegInv'
<1>1. /\ RegTypeOK /\ EtcdInv /\ BalInv /\ todo' = updates /\ mu' = TRUE
      /\ UNCHANGED addrs
  BY DEF RegInv, WatchLock
<1>2. BalInv'
  BY <1>1, ChangesAreUpdates, WatchStep
<1>3. events' \in Seq(Change) /\ DOMAIN events' = {}
  OBVIOUS
<1>4. RegTypeOK'
  BY <1>1, <1>2, <1>3, ChangesAreUpdates DEF RegTypeOK, BalInv
<1>5. KeysPut' = KeysPut
  BY DEF KeysPut
<1>6. EtcdInv'
  BY <1>1, <1>3, <1>5 DEF EtcdInv
<1>7. \A s \in Servers : Listed(s)' <=> Listed(s)
  BY <1>1 DEF Listed, GetById, Positions
<1>8. FollowsInv'
  BY <1>1, <1>3, <1>7 DEF FollowsInv, Told
<1>9. QED
  BY <1>2, <1>4, <1>6, <1>8 DEF RegInv

\* The steps of the client.
LEMMA ClientStep ==
  ASSUME RegInv, StartClient \/ Follows PROVE RegInv'
<1>1. RegTypeOK /\ EtcdInv /\ FollowsInv /\ BalInv /\ BalTypeOK
  BY DEF RegInv, BalInv
<1>2. CASE StartClient
  <2>1. /\ watcher = "new" /\ watcher' = "first" /\ BalStart
        /\ UNCHANGED <<proc, version, renewal, key, events, started, stale, addrs, todo, mu>>
    BY <1>2 DEF StartClient, BalStart
  <2>2. BalInv'
    BY <1>1, <2>1, WatchStep
  <2>3. KeysPut' = KeysPut
    BY <2>1 DEF KeysPut
  <2>4. RegTypeOK' /\ EtcdInv'
    BY <1>1, <2>1, <2>2, <2>3 DEF RegTypeOK, EtcdInv, BalInv
  <2>5. FollowsInv'
    BY <1>1, <2>1 DEF FollowsInv
  <2>6. QED
    BY <2>2, <2>4, <2>5 DEF RegInv
<1>3. CASE FirstKeys
  <2>1. watcher = "first" /\ addrs = <<>> /\ events = <<>> /\ key \in [Servers -> 0..MaxStarts]
    BY <1>1, <1>3 DEF FirstKeys, EtcdInv, RegTypeOK
  <2>2. PICK updates \in [1..Cardinality(KeysPut) -> {Event("add", s, key[s]) : s \in KeysPut}] :
          ServersOf(updates) = KeysPut /\ WatchLock(updates)
    BY <1>3 DEF FirstKeys
  <2>3. Cardinality(KeysPut) \in Nat
    BY <1>1, FS_CardinalityType DEF EtcdInv
  <2>4. \A s \in KeysPut : Event("add", s, key[s]) \in Change
    BY <2>1 DEF Event, Change, KeysPut
  <2>5. updates \in [1..Cardinality(KeysPut) -> Change]
    <3> HIDE DEF Change
    <3>1. {Event("add", s, key[s]) : s \in KeysPut} \subseteq Change
      BY <2>4
    <3>2. QED
      BY <2>2, <3>1
  <2>6. updates \in Seq(Change) /\ DOMAIN updates = 1..Cardinality(KeysPut)
    BY <2>2, <2>3, <2>5, ListOf
  <2>7. stale' = {} /\ watcher' = "between" /\ UNCHANGED <<proc, version, renewal, key, events, started>>
    BY <1>3 DEF FirstKeys
  <2>8. Told(updates, key, stale')
    <3>1. \A s \in KeysPut : Event("add", s, key[s]).addr = s /\ Value(Event("add", s, key[s])) = key[s]
      BY DEF Event, Value
    <3>2. \A i \in DOMAIN updates : \E s \in KeysPut : updates[i] = Event("add", s, key[s])
      BY <2>2
    <3>3. QED
      BY <3>1, <3>2 DEF Told
  <2>9. \A s \in Servers \ (stale' \cup ServersOf(updates)) : Listed(s)
    <3>1. \A s \in Servers \ KeysPut : key[s] = 0
      BY <2>1 DEF KeysPut
    <3>2. \A s : GetById(s) = {}
      BY <2>1 DEF GetById, Positions
    <3>3. QED
      BY <2>2, <3>1, <3>2 DEF Listed
  <2>10. events' = <<>> /\ stale' \subseteq Servers
    BY <2>1, <2>7
  <2>11. QED
    BY <2>2, <2>6, <2>7, <2>8, <2>9, <2>10, WatchLockStep
<1>4. CASE FirstNone
  <2>1. /\ watcher = "first" /\ watcher' = "between" /\ stale' = KeysPut
        /\ UNCHANGED <<proc, version, renewal, key, events, started, balVars>>
    BY <1>4 DEF FirstNone
  <2>2. addrs = <<>> /\ events = <<>> /\ ~mu /\ todo = <<>>
    BY <1>1, <2>1 DEF EtcdInv, BalTypeOK
  <2>3. BalInv' /\ KeysPut' = KeysPut
    BY <1>1, <2>1, BalSame DEF KeysPut
  <2>4. KeysPut \subseteq Servers
    BY DEF KeysPut
  <2>5. RegTypeOK'
    BY <1>1, <2>1, <2>3, <2>4 DEF RegTypeOK, BalInv
  <2>6. EtcdInv'
    BY <1>1, <2>1, <2>2, <2>3 DEF EtcdInv, balVars
  <2>7. FollowsInv'
    <3>1. \A s \in Servers \ KeysPut : key[s] = 0
      BY DEF KeysPut
    <3>2. \A s : GetById(s) = {}
      BY <2>2 DEF GetById, Positions
    <3>3. \A s \in Servers \ KeysPut : Listed(s)
      BY <3>1, <3>2 DEF Listed
    <3>4. \A s \in Servers : Listed(s)' <=> Listed(s)
      BY <2>1 DEF Listed, GetById, Positions, balVars
    <3>5. QED
      BY <2>1, <2>2, <3>3, <3>4 DEF FollowsInv, Told, balVars
  <2>8. QED
    BY <2>3, <2>5, <2>6, <2>7 DEF RegInv
<1>5. CASE Watch
  <2>1. /\ watcher = "between" /\ ~mu /\ watcher' = "watches" /\ events' = <<>>
        /\ UNCHANGED <<proc, version, renewal, key, started, stale, balVars>>
    BY <1>5 DEF Watch
  <2>2. events = <<>> /\ events' \in Seq(Change)
    BY <1>1, <2>1 DEF EtcdInv
  <2>3. BalInv' /\ KeysPut' = KeysPut
    BY <1>1, <2>1, BalSame DEF KeysPut
  <2>4. RegTypeOK'
    BY <1>1, <2>1, <2>2, <2>3 DEF RegTypeOK, BalInv
  <2>5. EtcdInv'
    BY <1>1, <2>1, <2>2, <2>3 DEF EtcdInv, balVars
  <2>6. FollowsInv'
    <3>1. \A s \in Servers : Listed(s)' <=> Listed(s)
      BY <2>1 DEF Listed, GetById, Positions, balVars
    <3>2. QED
      BY <1>1, <2>1, <2>2, <3>1 DEF FollowsInv, balVars
  <2>7. QED
    BY <2>3, <2>4, <2>5, <2>6 DEF RegInv
<1>6. CASE Response
  <2>1. PICK n \in 1..Len(events) :
          /\ WatchLock(SubSeq(events, 1, n))
          /\ stale' = (stale \ ServersOf(SubSeq(events, 1, n)))
                        \cup ServersOf(SubSeq(events, n + 1, Len(events)))
    BY <1>6 DEF Response
  <2> DEFINE front == SubSeq(events, 1, n)
             rest == SubSeq(events, n + 1, Len(events))
  <2>2. /\ front \in Seq(Change) /\ Told(front, key, {} \cup ServersOf(rest))
        /\ ServersOf(events) = ServersOf(front) \cup ServersOf(rest)
    <3>1. events \in Seq(Change) /\ Told(events, key, {})
      BY <1>1 DEF EtcdInv, FollowsInv
    <3>2. QED
      BY <3>1, ToldCut
  <2>3. /\ watcher = "watches" /\ watcher' = "between" /\ events' = <<>>
        /\ UNCHANGED <<proc, version, renewal, key, started>>
    BY <1>6 DEF Response
  <2>4. WatchLock(front) /\ stale' = (stale \ ServersOf(front)) \cup ServersOf(rest)
    BY <2>1
  <2> HIDE DEF front, rest
  <2>5. Told(front, key, stale')
    BY <2>2, <2>4, ToldMore
  <2>6. todo = <<>> /\ ServersOf(todo) = {}
    <3>1. todo = <<>>
      BY <1>1, <2>3 DEF EtcdInv, BalTypeOK
    <3>2. QED
      BY <3>1 DEF ServersOf
  <2>7. \A s \in Servers \ (stale' \cup ServersOf(front)) : Listed(s)
    BY <1>1, <2>2, <2>3, <2>4, <2>6 DEF FollowsInv
  <2>8. stale' \subseteq Servers
    <3>1. \A i \in DOMAIN events : events[i].addr \in Servers
      BY <1>1, ElementOfSeq, LenProperties DEF EtcdInv, Change
    <3>2. ServersOf(events) \subseteq Servers
      BY <3>1 DEF ServersOf
    <3>3. QED
      BY <1>1, <2>2, <2>4, <3>2 DEF RegTypeOK
  <2>9. QED
    BY <2>2, <2>3, <2>4, <2>5, <2>7, <2>8, WatchLockStep
<1>7. CASE ApplyUpdate
  <2>0. PICK u : u = Head(todo)
    OBVIOUS
  <2>1. /\ mu /\ todo # <<>> /\ todo' = Tail(todo) /\ WatchApply
        /\ (IF u.op = "add" THEN WatchAdd(u.addr, u.ver) ELSE WatchDelete(u.addr))
        /\ stale' = stale \cup {v.addr : v \in {x \in {u} : Ignored(x)}}
        /\ UNCHANGED <<proc, version, renewal, key, watcher, events, started, mu>>
    BY <1>7, <2>0 DEF ApplyUpdate, WatchApply
  <2>2. BalInv'
    BY <1>1, <2>1, WatchStep
  <2>3. /\ Told(Tail(todo), key, stale) /\ u \in Change /\ Tail(todo) \in Seq(Change)
        /\ u.addr \notin stale \cup ServersOf(Tail(todo)) => key[u.addr] = Value(u)
        /\ ServersOf(todo) = ServersOf(Tail(todo)) \cup {u.addr}
    <3>1. todo \in Seq(Change) /\ Told(todo, key, stale)
      BY <1>1 DEF EtcdInv, FollowsInv
    <3>2. QED
      BY <2>0, <2>1, <3>1, ToldTail
  <2>4. u \in Update /\ u.addr \in Servers /\ u.op \in {"add", "delete"} /\ (u.op = "add" => u.ver # 0)
    BY <2>3, RegistryAssumption DEF Change, Update
  <2>5. /\ \A t \in Servers : t # u.addr => GetById(t)' = GetById(t)
        /\ u.op = "add" /\ Has(u.addr) => GetById(u.addr)' = GetById(u.addr) /\ GetById(u.addr) # {}
        /\ u.op = "add" /\ ~Has(u.addr) => \E a : a.ver = u.ver /\ GetById(u.addr)' = {a}
        /\ u.op = "delete" => GetById(u.addr)' = {}
    BY <1>1, <2>1, <2>4, Applied
  <2>6. watcher = "between" /\ events = <<>>
    BY <1>1, <2>1 DEF EtcdInv
  <2>7. ASSUME NEW s \in Servers \ (stale' \cup ServersOf(events') \cup ServersOf(todo')) PROVE Listed(s)'
    <3>1. s \notin stale /\ s \notin ServersOf(events) /\ s \notin ServersOf(Tail(todo))
      BY <2>1, <2>7
    <3>2. CASE s # u.addr
      <4>1. Listed(s)
        BY <1>1, <2>3, <2>6, <3>1, <3>2 DEF FollowsInv
      <4>2. QED
        BY <2>1, <2>5, <3>2, <4>1 DEF Listed
    <3>3. CASE s = u.addr
      <4>1. key'[s] = Value(u)
        BY <2>1, <2>3, <3>1, <3>3
      <4>2. ~Ignored(u)
        BY <2>1, <2>7, <3>3
      <4>3. CASE u.op = "delete"
        BY <2>5, <3>3, <4>1, <4>3 DEF Listed, Value
      <4>4. CASE u.op = "add" /\ Has(s)
        <5>1. \A a \in GetById(s) : a.ver = u.ver
          BY <3>3, <4>2, <4>4 DEF Ignored
        <5>2. {a.ver : a \in GetById(s)'} = {u.ver}
          BY <2>5, <3>3, <4>4, <5>1
        <5>3. QED
          BY <2>4, <4>1, <4>4, <5>2 DEF Listed, Value
      <4>5. CASE u.op = "add" /\ ~Has(s)
        <5>1. {a.ver : a \in GetById(s)'} = {u.ver}
          BY <2>5, <3>3, <4>5
        <5>2. QED
          BY <2>4, <4>1, <4>5, <5>1 DEF Listed, Value
      <4>6. QED
        BY <2>4, <4>3, <4>4, <4>5
    <3>4. QED
      BY <3>2, <3>3
  <2>8. stale' \subseteq Servers /\ Told(todo', key', stale')
    <3>1. stale' = stale \/ stale' = stale \cup {u.addr}
      BY <2>1
    <3>2. stale \subseteq stale'
      BY <2>1
    <3>3. QED
      BY <1>1, <2>1, <2>3, <2>4, <3>1, <3>2, ToldMore DEF RegTypeOK
  <2>9. KeysPut' = KeysPut
    BY <2>1 DEF KeysPut
  <2>10. RegTypeOK' /\ EtcdInv'
    BY <1>1, <2>1, <2>2, <2>3, <2>6, <2>8, <2>9 DEF RegTypeOK, EtcdInv, BalInv
  <2>11. FollowsInv'
    BY <1>1, <2>1, <2>7, <2>8 DEF FollowsInv
  <2>12. QED
    BY <2>2, <2>10, <2>11 DEF RegInv
<1>8. CASE NotifyGrpc
  <2>1. WatchNotify /\ UNCHANGED <<proc, version, renewal, key, watcher, events, started, stale>>
    BY <1>8 DEF NotifyGrpc, regVars
  <2>2. UNCHANGED <<addrs, todo>> /\ mu' = FALSE
    BY <2>1 DEF WatchNotify
  <2>3. BalInv'
    BY <1>1, <2>1, WatchStep
  <2>4. KeysPut' = KeysPut
    BY <2>1 DEF KeysPut
  <2>5. RegTypeOK' /\ EtcdInv'
    BY <1>1, <2>1, <2>2, <2>3, <2>4 DEF RegTypeOK, EtcdInv, BalInv
  <2>6. FollowsInv'
    BY <1>1, <2>1, <2>2, FollowsSame
  <2>7. QED
    BY <2>3, <2>5, <2>6 DEF RegInv
<1>9. QED
  BY <1>2, <1>3, <1>4, <1>5, <1>6, <1>7, <1>8 DEF Follows

\* The invariant is inductive.
LEMMA RegInvariant == RpcSpec => []RegInv
<1>1. RegInv /\ [RpcNext]_rpcVars => RegInv'
  <2> SUFFICES ASSUME RegInv, [RpcNext]_rpcVars PROVE RegInv'
    OBVIOUS
  <2>1. CASE StartClient \/ Follows
    BY <2>1, ClientStep
  <2>2. CASE \E s \in Servers : Server(s)
    BY <2>2, ServerStep
  <2>3. CASE UNCHANGED rpcVars
    <3>1. /\ UNCHANGED <<balVars, proc, version, renewal, key, watcher, events, started, stale>>
          /\ UNCHANGED <<addrs, todo, mu>>
      BY <2>3 DEF rpcVars, regVars, balVars
    <3>2. BalInv' /\ FollowsInv' /\ KeysPut' = KeysPut
      BY <3>1, BalSame, FollowsSame DEF RegInv, KeysPut
    <3>3. RegTypeOK' /\ EtcdInv'
      BY <3>1, <3>2 DEF RegInv, RegTypeOK, EtcdInv, BalInv
    <3>4. QED
      BY <3>2, <3>3 DEF RegInv
  <2>4. QED
    BY <2>1, <2>2, <2>3 DEF RpcNext
<1>2. QED
  BY <1>1, RegStarts, PTL DEF RpcSpec

\* The list of the client is that of etcd, but for servers whose last event
\* nobody received or the balancer ignored, and grpc's connections follow the
\* list, for any number of servers, starts and events
\* (client.go:26-76, serverid.go:43-74, 122-157).
THEOREM RegistryIsFollowed == RpcSpec => []ClientFollows
<1>1. RegInv => ClientFollows
  <2> SUFFICES ASSUME RegInv PROVE ListFollows /\ GrpcFollows
    BY DEF ClientFollows
  <2>1. GrpcFollows
    BY DEF RegInv, BalInv
  <2>2. ASSUME ~mu PROVE ServersOf(todo) = {}
    <3>1. todo = <<>>
      BY <2>2 DEF RegInv, BalInv, BalTypeOK
    <3>2. QED
      BY <3>1 DEF ServersOf
  <2>3. ListFollows
    BY <2>2 DEF RegInv, FollowsInv, ListFollows, Listed
  <2>4. QED
    BY <2>1, <2>3
<1>2. QED
  BY <1>1, RegInvariant, PTL

\* The variables of the balancer and of the registration keep their types.
THEOREM RegTypeCorrect == RpcSpec => [](BalTypeOK /\ RegTypeOK)
<1>1. RegInv => BalTypeOK /\ RegTypeOK
  BY DEF RegInv, BalInv
<1>2. QED
  BY <1>1, RegInvariant, PTL

(* ------------------------------ DbService ------------------------------ *)

Distinct(q) == \A i, j \in DOMAIN q : q[i] = q[j] => i = j
Asked == [client : DbClients, link : 1..DbMaxLinks, sent : BOOLEAN, returned : Verdicts]
Sent == [req : Requests, link : 1..DbMaxLinks]

\* A group without a session has no connection, and no answer waits; one that
\* had a session had a connection.
GroupInv ==
  \A c \in DbClients :
    /\ dbGroup[c] # "session" => ~dbAlive[c] /\ toClient[c] = <<>>
    /\ dbGroup[c] # "nil" => dbLink[c] # 0

\* Who asked is whom the session of a request says.
AskedInv ==
  /\ \A n \in DOMAIN dbAsked : dbAsked[n].link <= dbLink[dbAsked[n].client]
  /\ \A n \in DOMAIN dbSink :
       /\ n \in DOMAIN dbAsked
       /\ dbSink[n].client = dbAsked[n].client /\ dbSink[n].link = dbAsked[n].link

Done(n) == n \in DOMAIN dbSink /\ n \notin dbRuns /\ n \notin Elems(dbChanCb)

\* A request is in one place at a time, and keeps its sender and its result.
CallbackInv ==
  /\ Distinct(dbChanCb)
  /\ \A n \in Elems(dbChanCb) :
       n \notin dbRuns /\ dbResult[n] = [req |-> n, verdict |-> dbAsked[n].returned]
ToDbInv ==
  \A c \in DbClients :
    /\ Distinct(toDb[c])
    /\ \A x \in Elems(toDb[c]) :
         /\ x.req \in DOMAIN dbAsked /\ x.req \notin DOMAIN dbSink
         /\ dbAsked[x.req].client = c /\ dbAsked[x.req].link = x.link
ToClientInv ==
  \A c \in DbClients :
    /\ Distinct(toClient[c])
    /\ \A x \in Elems(toClient[c]) :
         /\ Done(x.req) /\ x \notin Elems(dbReceived[c])
         /\ dbAsked[x.req].client = c /\ dbAsked[x.req].link = dbLink[c]
         /\ x.verdict = dbAsked[x.req].returned
ReceivedInv ==
  \A c \in DbClients :
    /\ Distinct(dbReceived[c])
    /\ \A x \in Elems(dbReceived[c]) :
         /\ Done(x.req) /\ dbAsked[x.req].client = c
         /\ x.verdict = dbAsked[x.req].returned
PlaceInv == CallbackInv /\ ToDbInv /\ ToClientInv /\ ReceivedInv

\* A request whose connection is there is under way, its answer has been taken,
\* or it has no answer.
Way(n) ==
  \/ n \in dbRuns \/ n \in Elems(dbChanCb)
  \/ \E c \in DbClients : \/ \E x \in Elems(toDb[c]) : x.req = n
                          \/ \E x \in Elems(toClient[c]) : x.req = n
Received(n) == \E x \in Elems(dbReceived[dbAsked[n].client]) : x.req = n
Due(n) ==
  /\ dbAsked[n].sent /\ dbAsked[n].returned # "nothing"
  /\ dbAlive[dbAsked[n].client] /\ dbLink[dbAsked[n].client] = dbAsked[n].link
AnsweredInv == \A n \in DOMAIN dbAsked : Due(n) => Way(n) \/ Received(n)

\* DbTypeOK, with names for the records.
DbTypes ==
  /\ dbGroup \in [DbClients -> {"nil", "empty", "session"}]
  /\ dbLink \in [DbClients -> 0..DbMaxLinks] /\ dbAlive \in [DbClients -> BOOLEAN]
  /\ toDb \in [DbClients -> Seq(Sent)]
  /\ toClient \in [DbClients -> Seq(DbResult)]
  /\ DOMAIN dbSink \subseteq Requests /\ \A n \in DOMAIN dbSink : dbSink[n] \in Link
  /\ dbRuns \subseteq DOMAIN dbSink /\ DOMAIN dbResult = DOMAIN dbSink
  /\ dbChanCb \in Seq(DOMAIN dbSink)
  /\ dbReceived \in [DbClients -> Seq(DbResult)]
  /\ dbAsked \in Seq(Asked)

DbInv == DbTypes /\ GroupInv /\ AskedInv /\ PlaceInv /\ AnsweredInv

\* Putting something new in a queue, taking the first, and cutting a queue
\* short leave it without repetitions.
LEMMA DistinctAppend ==
  ASSUME NEW T, NEW q \in Seq(T), NEW m \in T, Distinct(q), m \notin Elems(q)
  PROVE  Distinct(Append(q, m))
<1>1. /\ Len(q) \in Nat /\ DOMAIN q = 1..Len(q) /\ DOMAIN Append(q, m) = 1..(Len(q) + 1)
      /\ \A i \in 1..Len(q) : Append(q, m)[i] = q[i]
      /\ Append(q, m)[Len(q) + 1] = m
  BY LenProperties, AppendProperties
<1>2. \A i \in 1..(Len(q) + 1) : i \in 1..Len(q) \/ i = Len(q) + 1
  BY <1>1
<1>3. \A i \in 1..Len(q) : q[i] # m
  BY <1>1 DEF Elems
<1>4. QED
  BY <1>1, <1>2, <1>3 DEF Distinct

\* The rest of a queue does not hold its head again.
LEMMA DistinctTail ==
  ASSUME NEW T, NEW q \in Seq(T), q # <<>>, Distinct(q)
  PROVE  Distinct(Tail(q)) /\ Head(q) \notin Elems(Tail(q))
<1>1. Len(q) \in Nat \ {0} /\ DOMAIN q = 1..Len(q)
  BY LenProperties, EmptySeq
<1>2. DOMAIN Tail(q) = 1..(Len(q) - 1) /\ \A i \in 1..(Len(q) - 1) : Tail(q)[i] = q[i + 1]
  BY HeadTailProperties, LenProperties
<1>3. Head(q) = q[1]
  OBVIOUS
<1>4. 1 \in 1..Len(q) /\ \A i \in 1..(Len(q) - 1) : i + 1 \in 1..Len(q) /\ i + 1 # 1
  BY <1>1
<1>5. \A i, j \in 1..(Len(q) - 1) : i + 1 = j + 1 => i = j
  BY <1>1
<1>6. Distinct(Tail(q))
  BY <1>1, <1>2, <1>4, <1>5 DEF Distinct
<1>7. Head(q) \notin Elems(Tail(q))
  BY <1>1, <1>2, <1>3, <1>4 DEF Distinct, Elems
<1>8. QED
  BY <1>6, <1>7

\* An initial part of a queue of distinct elements has distinct elements.
LEMMA DistinctCut ==
  ASSUME NEW T, NEW q \in Seq(T), NEW k \in 0..Len(q), Distinct(q)
  PROVE  Distinct(SubSeq(q, 1, k))
<1>1. Len(q) \in Nat /\ DOMAIN q = 1..Len(q) /\ k \in 0..Len(q) /\ \A i \in 1..Len(q) : q[i] \in T
  BY LenProperties, ElementOfSeq
<1>2. \A i \in 1..k : i \in 1..Len(q)
  BY <1>1
<1>3. /\ SubSeq(q, 1, k) \in Seq(T) /\ Len(SubSeq(q, 1, k)) = k
      /\ \A i \in 1..k : SubSeq(q, 1, k)[i] = q[i]
  <2>1. \A i \in 1..k : q[i] \in T
    BY <1>1, <1>2
  <2>2. 1 \in Int /\ k \in Int /\ k - 1 + 1 = k /\ (1 <= k \/ k = 0) /\ \A i \in 1..k : 1 + i - 1 = i
    BY <1>1
  <2>3. QED
    BY <2>1, <2>2, SubSeqProperties
<1>4. DOMAIN SubSeq(q, 1, k) = 1..k
  BY <1>3, LenProperties
<1>5. QED
  BY <1>1, <1>2, <1>3, <1>4 DEF Distinct

\* The empty queue has distinct elements.
LEMMA DistinctEmpty == Distinct(<<>>)
BY DEF Distinct

\* A sequence over a set is one over a larger set.
LEMMA SeqWiden ==
  ASSUME NEW S, NEW T, S \subseteq T, NEW q \in Seq(S)
  PROVE  q \in Seq(T)
<1>1. Len(q) \in Nat /\ q \in [1..Len(q) -> S]
  BY SeqDef, LenProperties
<1>2. q \in [1..Len(q) -> T]
  BY <1>1
<1>3. QED
  BY <1>1, <1>2, SeqDef

\* The invariant holds before the first request.
LEMMA DbStarts == DbInit => DbInv
<1> SUFFICES ASSUME DbInit PROVE DbInv
  OBVIOUS
<1>1. /\ <<>> \in Seq(Sent) /\ <<>> \in Seq(DbResult) /\ <<>> \in Seq(DOMAIN dbSink) /\ <<>> \in Seq(Asked)
      /\ Elems(<<>>) = {} /\ Distinct(<<>>)
  BY ElemsEmpty, DistinctEmpty
<1>2. DOMAIN dbSink = {} /\ DOMAIN dbResult = {} /\ DOMAIN dbAsked = {}
  BY DEF DbInit
<1>3. DbTypes
  BY <1>1, <1>2, DbAssumption DEF DbInit, DbTypes
<1>4. GroupInv /\ AskedInv /\ PlaceInv /\ AnsweredInv
  BY <1>1, <1>2 DEF DbInit, GroupInv, AskedInv, PlaceInv, CallbackInv, ToDbInv, ToClientInv, ReceivedInv, AnsweredInv
<1>5. QED
  BY <1>3, <1>4 DEF DbInv

\* A connection is registered, breaks, or its session is taken from the group.
LEMMA LinkStep ==
  ASSUME DbInv, NEW c \in DbClients, DbRegistered(c) \/ DbBreaks(c) \/ DbOffline(c)
  PROVE  DbInv'
<1>1. DbTypes /\ GroupInv /\ AskedInv /\ PlaceInv /\ AnsweredInv
  BY DEF DbInv
<1>2. CASE DbRegistered(c)
  <2>1. toClient[c] = <<>> /\ dbLink[c] \in 0..DbMaxLinks /\ dbLink'[c] = dbLink[c] + 1
    BY <1>1, <1>2 DEF DbRegistered, GroupInv, DbTypes
  <2>2. DbTypes'
    BY <1>1, <1>2, <2>1, DbAssumption DEF DbRegistered, DbTypes
  <2>3. GroupInv'
    BY <1>1, <1>2, <2>1 DEF DbRegistered, GroupInv, DbTypes
  <2>4. \A n \in DOMAIN dbAsked : dbAsked[n].client \in DbClients /\ dbAsked[n].link \in Nat
    <3>1. \A n \in DOMAIN dbAsked : dbAsked[n] \in Asked
      BY <1>1, ElementOfSeq, LenProperties DEF DbTypes
    <3>2. QED
      BY <3>1, DbAssumption DEF Asked
  <2>5. AskedInv'
    <3>1. \A d \in DbClients : dbLink[d] \in Nat /\ dbLink'[d] \in Nat /\ dbLink[d] <= dbLink'[d]
      BY <1>1, <1>2, <2>1, DbAssumption DEF DbRegistered, DbTypes
    <3>2. UNCHANGED <<dbAsked, dbSink>>
      BY <1>2 DEF DbRegistered
    <3>3. \A n \in DOMAIN dbAsked : dbAsked[n].link <= dbLink'[dbAsked[n].client]
      BY <1>1, <2>4, <3>1 DEF AskedInv
    <3>4. QED
      BY <1>1, <3>2, <3>3 DEF AskedInv
  <2>6. PlaceInv'
    BY <1>1, <1>2, <2>1, ElemsEmpty
       DEF DbRegistered, PlaceInv, CallbackInv, ToDbInv, ToClientInv, ReceivedInv, Done, DbTypes
  <2>7. AnsweredInv'
    <3>1. ASSUME NEW n \in DOMAIN dbAsked, dbAsked[n].client = c PROVE dbLink'[c] # dbAsked[n].link
      <4>1. dbAsked[n].link <= dbLink[c] /\ dbAsked[n].link \in Nat
        BY <1>1, <2>4, <3>1 DEF AskedInv
      <4>2. QED
        BY <2>1, <4>1, DbAssumption
    <3>2. /\ UNCHANGED <<toDb, toClient, dbRuns, dbChanCb, dbReceived, dbAsked>>
          /\ \A d \in DbClients : d # c => dbAlive'[d] = dbAlive[d] /\ dbLink'[d] = dbLink[d]
      BY <1>1, <1>2 DEF DbRegistered, DbTypes
    <3>3. \A n : (Way(n)' <=> Way(n)) /\ (Received(n)' <=> Received(n))
      BY <3>2 DEF Way, Received
    <3>4. QED
      BY <1>1, <2>4, <3>1, <3>2, <3>3 DEF AnsweredInv, Due
  <2>8. QED
    BY <2>2, <2>3, <2>5, <2>6, <2>7 DEF DbInv
<1>3. CASE DbBreaks(c)
  <2>1. PICK i \in 0..Len(toDb[c]) : toDb' = [toDb EXCEPT ![c] = SubSeq(@, 1, i)]
    BY <1>3 DEF DbBreaks
  <2>2. PICK j \in 0..Len(toClient[c]) : toClient' = [toClient EXCEPT ![c] = SubSeq(@, 1, j)]
    BY <1>3 DEF DbBreaks
  <2>3. toDb[c] \in Seq(Sent) /\ toClient[c] \in Seq(DbResult) /\ Distinct(toDb[c]) /\ Distinct(toClient[c])
    BY <1>1 DEF DbTypes, PlaceInv, ToDbInv, ToClientInv
  <2>4. /\ SubSeq(toDb[c], 1, i) \in Seq(Sent) /\ Distinct(SubSeq(toDb[c], 1, i))
        /\ Elems(SubSeq(toDb[c], 1, i)) \subseteq Elems(toDb[c])
    BY <2>3, CutQueue, DistinctCut
  <2>5. /\ SubSeq(toClient[c], 1, j) \in Seq(DbResult) /\ Distinct(SubSeq(toClient[c], 1, j))
        /\ Elems(SubSeq(toClient[c], 1, j)) \subseteq Elems(toClient[c])
    BY <2>3, CutQueue, DistinctCut
  <2>6. /\ dbAlive[c] /\ dbAlive' = [dbAlive EXCEPT ![c] = FALSE]
        /\ UNCHANGED <<dbGroup, dbLink, dbSink, dbRuns, dbResult, dbChanCb, dbReceived, dbAsked>>
    BY <1>3 DEF DbBreaks
  <2>7. /\ toDb' \in [DbClients -> Seq(Sent)] /\ toClient' \in [DbClients -> Seq(DbResult)]
        /\ \A d \in DbClients : /\ Distinct(toDb'[d]) /\ Elems(toDb'[d]) \subseteq Elems(toDb[d])
                                /\ Distinct(toClient'[d]) /\ Elems(toClient'[d]) \subseteq Elems(toClient[d])
                                /\ d # c => toDb'[d] = toDb[d] /\ toClient'[d] = toClient[d]
    BY <1>1, <2>1, <2>2, <2>4, <2>5 DEF DbTypes, PlaceInv, ToDbInv, ToClientInv
  <2>8. DbTypes'
    BY <1>1, <2>6, <2>7 DEF DbTypes
  <2>9. GroupInv'
    BY <1>1, <2>6, <2>7 DEF GroupInv, DbTypes
  <2>10. AskedInv'
    BY <1>1, <2>6 DEF AskedInv
  <2>11. PlaceInv'
    BY <1>1, <2>6, <2>7 DEF PlaceInv, CallbackInv, ToDbInv, ToClientInv, ReceivedInv, Done
  <2>12. AnsweredInv'
    <3>1. ASSUME NEW n \in DOMAIN dbAsked, dbAsked[n].client # c, Way(n) PROVE Way(n)'
      <4>1. \A d \in DbClients : \A x \in Elems(toDb[d]) : x.req = n => d = dbAsked[n].client
        BY <1>1 DEF PlaceInv, ToDbInv
      <4>2. \A d \in DbClients : \A x \in Elems(toClient[d]) : x.req = n => d = dbAsked[n].client
        BY <1>1 DEF PlaceInv, ToClientInv
      <4>3. QED
        BY <2>6, <2>7, <3>1, <4>1, <4>2 DEF Way
    <3>2. QED
      BY <1>1, <2>6, <3>1 DEF AnsweredInv, Due, Received, DbTypes
  <2>13. QED
    BY <2>8, <2>9, <2>10, <2>11, <2>12 DEF DbInv
<1>4. CASE DbOffline(c)
  <2>1. /\ dbGroup' = [dbGroup EXCEPT ![c] = "empty"] /\ ~dbAlive[c] /\ toClient[c] = <<>> /\ dbGroup[c] = "session"
        /\ UNCHANGED <<dbLink, dbAlive, toDb, toClient, dbSink, dbRuns, dbResult, dbChanCb, dbReceived, dbAsked>>
    BY <1>4 DEF DbOffline
  <2>2. DbTypes' /\ GroupInv'
    BY <1>1, <2>1 DEF DbTypes, GroupInv
  <2>3. AskedInv' /\ PlaceInv' /\ AnsweredInv'
    BY <1>1, <2>1 DEF AskedInv, PlaceInv, CallbackInv, ToDbInv, ToClientInv, ReceivedInv, Done,
                      AnsweredInv, Due, Way, Received
  <2>4. QED
    BY <2>2, <2>3 DEF DbInv
<1>5. QED
  BY <1>2, <1>3, <1>4

\* Do: a new request.
LEMMA DoStep ==
  ASSUME DbInv, NEW c \in DbClients, Do(c) PROVE DbInv'
<1> DEFINE n == Len(dbAsked) + 1
           a == [client |-> c, link |-> dbLink[c], sent |-> dbAlive[c], returned |-> "nothing"]
           x == [req |-> n, link |-> dbLink[c]]
<1>1. DbTypes /\ GroupInv /\ AskedInv /\ PlaceInv /\ AnsweredInv /\ dbAsked \in Seq(Asked) /\ Len(dbAsked) \in Nat
  BY LenProperties DEF DbInv, DbTypes
<1>2. dbLink[c] \in 1..DbMaxLinks /\ n \in Requests /\ n \in Nat
  BY <1>1, DbAssumption DEF Do, DbTypes, GroupInv, Requests
<1>3. a \in Asked /\ x \in Sent /\ x.req = n /\ x.link = dbLink[c]
  BY <1>1, <1>2 DEF Asked, Sent, DbTypes, Verdicts
<1>4. /\ a.client = c /\ a.link = dbLink[c] /\ a.returned = "nothing"
      /\ dbAsked' = Append(dbAsked, a)
      /\ UNCHANGED <<dbGroup, dbLink, dbAlive, toClient, dbSink, dbRuns, dbResult, dbChanCb, dbReceived>>
  BY DEF Do
<1> HIDE DEF a
<1>5. /\ dbAsked' \in Seq(Asked) /\ Len(dbAsked') = n /\ dbAsked'[n] = a
      /\ \A m \in 1..Len(dbAsked) : dbAsked'[m] = dbAsked[m]
  BY <1>1, <1>3, <1>4, AppendProperties
<1>6. /\ DOMAIN dbAsked = 1..Len(dbAsked) /\ DOMAIN dbAsked' = 1..n
      /\ toDb' = IF dbAlive[c] THEN [toDb EXCEPT ![c] = Append(@, x)] ELSE toDb
  BY <1>1, <1>5, LenProperties DEF Do
<1>7. n \notin DOMAIN dbAsked /\ \A m \in 1..n : m \in DOMAIN dbAsked \/ m = n
  BY <1>1, <1>6
<1>8. \A m \in DOMAIN dbAsked : m \in DOMAIN dbAsked' /\ dbAsked'[m] = dbAsked[m]
  BY <1>1, <1>5, <1>6
<1> HIDE DEF n, x
<1>9. /\ toDb[c] \in Seq(Sent) /\ Distinct(toDb[c])
      /\ x \notin Elems(toDb[c])
  BY <1>1, <1>3, <1>7 DEF DbTypes, PlaceInv, ToDbInv
<1>10. /\ Append(toDb[c], x) \in Seq(Sent) /\ Distinct(Append(toDb[c], x))
       /\ Elems(Append(toDb[c], x)) = Elems(toDb[c]) \cup {x}
  BY <1>3, <1>9, AppendProperties, DistinctAppend, ElemsAppend
<1>11. /\ toDb' \in [DbClients -> Seq(Sent)]
       /\ \A d \in DbClients :
            /\ Distinct(toDb'[d]) /\ Elems(toDb[d]) \subseteq Elems(toDb'[d])
            /\ \A y \in Elems(toDb'[d]) : y \in Elems(toDb[d]) \/ (d = c /\ y = x)
       /\ dbAlive[c] => x \in Elems(toDb'[c])
  BY <1>1, <1>6, <1>9, <1>10 DEF DbTypes, PlaceInv, ToDbInv
<1>12. n \notin DOMAIN dbSink
  BY <1>1, <1>7 DEF AskedInv
<1>13. DbTypes'
  BY <1>1, <1>4, <1>5, <1>11 DEF DbTypes
<1>14. GroupInv'
  BY <1>1, <1>4 DEF GroupInv
<1>15. AskedInv'
  <2>1. \A m \in DOMAIN dbAsked' : dbAsked'[m].link <= dbLink[dbAsked'[m].client]
    BY <1>1, <1>2, <1>4, <1>5, <1>6, <1>7, <1>8 DEF AskedInv
  <2>2. QED
    BY <1>1, <1>4, <1>8, <2>1 DEF AskedInv
<1>16. PlaceInv'
  <2>1. \A m \in DOMAIN dbSink : m \in DOMAIN dbAsked /\ dbAsked'[m] = dbAsked[m]
    BY <1>1, <1>8 DEF AskedInv
  <2>2. \A m \in Elems(dbChanCb) : m \in DOMAIN dbSink
    BY <1>1, ElemsType DEF DbTypes
  <2>3. CallbackInv'
    BY <1>1, <1>4, <2>1, <2>2 DEF PlaceInv, CallbackInv
  <2>4. ASSUME NEW d \in DbClients, NEW y \in Elems(toDb'[d])
        PROVE  /\ y.req \in DOMAIN dbAsked' /\ y.req \notin DOMAIN dbSink
               /\ dbAsked'[y.req].client = d /\ dbAsked'[y.req].link = y.link
    <3>1. CASE y \in Elems(toDb[d])
      <4>1. /\ y.req \in DOMAIN dbAsked /\ y.req \notin DOMAIN dbSink
            /\ dbAsked[y.req].client = d /\ dbAsked[y.req].link = y.link
        BY <1>1, <3>1 DEF PlaceInv, ToDbInv
      <4>2. QED
        BY <1>8, <4>1
    <3>2. CASE d = c /\ y = x
      <4>1. y.req = n /\ y.link = dbLink[c]
        BY <1>3, <3>2
      <4>2. n \in DOMAIN dbAsked' /\ dbAsked'[n].client = c /\ dbAsked'[n].link = dbLink[c]
        BY <1>2, <1>4, <1>5, <1>6, <1>7
      <4>3. QED
        BY <1>12, <3>2, <4>1, <4>2
    <3>3. QED
      BY <1>11, <3>1, <3>2
  <2>7. ToDbInv'
    BY <1>4, <1>11, <2>4 DEF ToDbInv
  <2>5. ToClientInv' /\ ReceivedInv'
    BY <1>1, <1>4, <2>1 DEF PlaceInv, ToClientInv, ReceivedInv, Done
  <2>6. QED
    BY <2>3, <2>5, <2>7 DEF PlaceInv
<1>17. AnsweredInv'
  <2>1. \A m : Way(m) => Way(m)'
    BY <1>4, <1>11 DEF Way
  <2>2. \A m \in DOMAIN dbAsked : Received(m) => Received(m)'
    BY <1>4, <1>8 DEF Received
  <2>3. ASSUME NEW m \in DOMAIN dbAsked', Due(m)' PROVE Way(m)' \/ Received(m)'
    <3>1. m # n /\ m \in DOMAIN dbAsked
      <4>1. dbAsked'[n].returned = "nothing" /\ dbAsked'[m].returned # "nothing"
        BY <1>4, <1>5, <2>3 DEF Due
      <4>2. QED
        BY <1>6, <1>7, <2>3, <4>1
    <3>2. Way(m) \/ Received(m)
      BY <1>1, <1>4, <1>8, <2>3, <3>1 DEF AnsweredInv, Due
    <3>3. QED
      BY <2>1, <2>2, <3>1, <3>2
  <2>4. QED
    BY <2>3 DEF AnsweredInv
<1>18. QED
  BY <1>13, <1>14, <1>15, <1>16, <1>17 DEF DbInv

\* onRecvMsg: a goroutine for the request.
LEMMA RecvMsgStep ==
  ASSUME DbInv, NEW c \in DbClients, OnRecvMsg(c) PROVE DbInv'
<1>1. DbTypes /\ GroupInv /\ AskedInv /\ PlaceInv /\ AnsweredInv
  BY DEF DbInv
<1>2. PICK x : x = Head(toDb[c])
  OBVIOUS
<1>3. PICK n : n = x.req
  OBVIOUS
<1>4. /\ toDb[c] # <<>> /\ toDb' = [toDb EXCEPT ![c] = Tail(@)]
      /\ dbSink' = [m \in DOMAIN dbSink \cup {n} |-> IF m = n THEN [client |-> c, link |-> x.link] ELSE dbSink[m]]
      /\ dbResult' = [m \in DOMAIN dbResult \cup {n} |-> IF m = n THEN NoResult ELSE dbResult[m]]
      /\ dbRuns' = dbRuns \cup {n}
      /\ UNCHANGED <<dbGroup, dbLink, dbAlive, toClient, dbChanCb, dbReceived, dbAsked>>
  BY <1>2, <1>3 DEF OnRecvMsg
<1>5. toDb[c] \in Seq(Sent) /\ Distinct(toDb[c])
  BY <1>1 DEF DbTypes, PlaceInv, ToDbInv
<1>6. /\ Tail(toDb[c]) \in Seq(Sent) /\ x \in Sent /\ Distinct(Tail(toDb[c])) /\ x \notin Elems(Tail(toDb[c]))
      /\ Elems(toDb[c]) = Elems(Tail(toDb[c])) \cup {x}
  BY <1>2, <1>4, <1>5, HeadTailProperties, DistinctTail, ElemsTail
<1>7. /\ toDb' \in [DbClients -> Seq(Sent)]
      /\ \A d \in DbClients :
           /\ Distinct(toDb'[d]) /\ Elems(toDb'[d]) \subseteq Elems(toDb[d])
           /\ \A y \in Elems(toDb[d]) : y \in Elems(toDb'[d]) \/ (d = c /\ y = x)
      /\ x \notin Elems(toDb'[c])
  BY <1>1, <1>4, <1>6 DEF DbTypes, PlaceInv, ToDbInv
<1>8. /\ n \in DOMAIN dbAsked /\ n \notin DOMAIN dbSink /\ dbAsked[n].client = c /\ dbAsked[n].link = x.link
      /\ n \in Requests /\ x.link \in 1..DbMaxLinks
  BY <1>1, <1>3, <1>6 DEF PlaceInv, ToDbInv, Sent
<1>9. /\ DOMAIN dbSink' = DOMAIN dbSink \cup {n} /\ DOMAIN dbResult' = DOMAIN dbSink \cup {n}
      /\ dbSink'[n] = [client |-> c, link |-> x.link]
      /\ \A m \in DOMAIN dbSink : m # n /\ dbSink'[m] = dbSink[m] /\ dbResult'[m] = dbResult[m]
  BY <1>1, <1>4, <1>8 DEF DbTypes
<1>10. \A d \in DbClients : \A y \in Elems(toDb'[d]) : y.req # n
  <2>1. ASSUME NEW d \in DbClients, NEW y \in Elems(toDb'[d]), y.req = n PROVE FALSE
    <3>1. y \in Elems(toDb[d]) /\ y \in Sent
      <4>1. y \in Elems(toDb[d]) /\ toDb[d] \in Seq(Sent)
        BY <1>1, <1>7, <2>1 DEF DbTypes
      <4>2. QED
        BY <4>1, ElemsType
    <3>2. d = c /\ y.link = x.link
      BY <1>1, <1>8, <2>1, <3>1 DEF PlaceInv, ToDbInv
    <3>3. y = x
      BY <1>3, <1>6, <2>1, <3>1, <3>2 DEF Sent
    <3>4. QED
      BY <1>7, <2>1, <3>2, <3>3
  <2>2. QED
    BY <2>1
<1>11. dbChanCb' \in Seq(DOMAIN dbSink') /\ Elems(dbChanCb) \subseteq DOMAIN dbSink
  BY <1>1, <1>4, <1>9, SeqWiden, ElemsType DEF DbTypes
<1>12. DbTypes'
  <2>1. dbSink'[n] \in Link
    BY <1>8, <1>9 DEF Link
  <2>2. QED
    BY <1>1, <1>4, <1>7, <1>8, <1>9, <1>11, <2>1 DEF DbTypes
<1>13. GroupInv'
  BY <1>1, <1>4 DEF GroupInv
<1>14. AskedInv'
  BY <1>1, <1>4, <1>8, <1>9 DEF AskedInv
<1>15. PlaceInv'
  <2>1. CallbackInv'
    BY <1>1, <1>4, <1>8, <1>9, <1>11 DEF PlaceInv, CallbackInv
  <2>2. ToDbInv'
    BY <1>1, <1>4, <1>7, <1>9, <1>10 DEF PlaceInv, ToDbInv
  <2>3. \A m : Done(m) => Done(m)'
    BY <1>4, <1>8, <1>9 DEF Done
  <2>4. ToClientInv' /\ ReceivedInv'
    BY <1>1, <1>4, <2>3 DEF PlaceInv, ToClientInv, ReceivedInv
  <2>5. QED
    BY <2>1, <2>2, <2>4 DEF PlaceInv
<1>16. AnsweredInv'
  <2>1. \A m : Way(m) => Way(m)'
    BY <1>3, <1>4, <1>7 DEF Way
  <2>2. \A m : Received(m)' <=> Received(m)
    BY <1>4 DEF Received
  <2>3. QED
    BY <1>1, <1>4, <2>1, <2>2 DEF AnsweredInv, Due
<1>17. QED
  BY <1>12, <1>13, <1>14, <1>15, <1>16 DEF DbInv

\* The goroutine of a request ends.
LEMMA OperateStep ==
  ASSUME DbInv, NEW n \in dbRuns, NEW v \in Verdicts, Operate(n, v) PROVE DbInv'
<1>1. /\ DbTypes /\ GroupInv /\ AskedInv /\ PlaceInv /\ AnsweredInv
      /\ dbAsked \in Seq(Asked) /\ Len(dbAsked) \in Nat /\ DOMAIN dbAsked = 1..Len(dbAsked)
      /\ n \in DOMAIN dbSink /\ n \in DOMAIN dbAsked
  BY LenProperties DEF DbInv, DbTypes, AskedInv
<1>2. /\ dbRuns' = dbRuns \ {n} /\ dbChanCb' = Append(dbChanCb, n)
      /\ dbResult' = [dbResult EXCEPT ![n] = [req |-> n, verdict |-> v]]
      /\ dbAsked' = [dbAsked EXCEPT ![n].returned = v]
      /\ UNCHANGED <<dbGroup, dbLink, dbAlive, toDb, toClient, dbSink, dbReceived>>
  BY DEF Operate
<1>3. \A m \in DOMAIN dbAsked : dbAsked[m] \in Asked
  BY <1>1, ElementOfSeq
<1>4. /\ DOMAIN dbAsked' = DOMAIN dbAsked
      /\ \A m \in DOMAIN dbAsked : /\ dbAsked'[m] \in Asked
                                   /\ dbAsked'[m].client = dbAsked[m].client
                                   /\ dbAsked'[m].link = dbAsked[m].link
                                   /\ dbAsked'[m].sent = dbAsked[m].sent
                                   /\ m # n => dbAsked'[m] = dbAsked[m]
      /\ dbAsked'[n].returned = v
  BY <1>1, <1>2, <1>3 DEF Asked
<1>5. dbAsked' \in Seq(Asked)
  <2>1. dbAsked' \in [1..Len(dbAsked) -> Asked]
    <3> HIDE DEF Asked
    <3>1. dbAsked' = [m \in 1..Len(dbAsked) |-> dbAsked'[m]]
      BY <1>1, <1>2
    <3>2. QED
      BY <1>1, <1>4, <3>1
  <2>2. QED
    BY <1>1, <2>1, SeqDef
<1>6. dbChanCb \in Seq(DOMAIN dbSink) /\ Distinct(dbChanCb) /\ n \notin Elems(dbChanCb)
  BY <1>1 DEF DbTypes, PlaceInv, CallbackInv
<1>7. /\ dbChanCb' \in Seq(DOMAIN dbSink) /\ Distinct(dbChanCb') /\ Elems(dbChanCb') = Elems(dbChanCb) \cup {n}
      /\ Elems(dbChanCb) \subseteq DOMAIN dbSink
  BY <1>1, <1>2, <1>6, AppendProperties, DistinctAppend, ElemsAppend, ElemsType
<1>8. DbTypes'
  BY <1>1, <1>2, <1>5, <1>7 DEF DbTypes
<1>9. GroupInv'
  BY <1>1, <1>2 DEF GroupInv
<1>10. AskedInv'
  BY <1>1, <1>2, <1>4 DEF AskedInv
<1>11. PlaceInv'
  <2>1. CallbackInv'
    <3>1. n \in DOMAIN dbResult
      BY <1>1 DEF DbTypes
    <3>2. dbResult'[n] = [req |-> n, verdict |-> dbAsked'[n].returned]
      BY <1>2, <1>4, <3>1
    <3>3. \A m \in Elems(dbChanCb) : m # n /\ m \notin dbRuns' /\ dbResult'[m] = dbResult[m] /\ dbAsked'[m] = dbAsked[m]
      BY <1>1, <1>2, <1>4, <1>6, <1>7 DEF PlaceInv, CallbackInv, DbTypes, AskedInv
    <3>4. QED
      BY <1>1, <1>2, <1>7, <3>2, <3>3 DEF PlaceInv, CallbackInv
  <2>2. ToDbInv'
    BY <1>1, <1>2, <1>4 DEF PlaceInv, ToDbInv
  <2>3. \A m : Done(m) => Done(m)' /\ m \in DOMAIN dbAsked /\ dbAsked'[m] = dbAsked[m]
    BY <1>1, <1>2, <1>4, <1>7 DEF Done, AskedInv
  <2>4. ToClientInv'
    <3>1. ASSUME NEW d \in DbClients, NEW x \in Elems(toClient[d])
          PROVE  /\ Done(x.req)' /\ x \notin Elems(dbReceived[d])
                 /\ dbAsked'[x.req].client = d /\ dbAsked'[x.req].link = dbLink[d]
                 /\ x.verdict = dbAsked'[x.req].returned
      BY <1>1, <2>3, <3>1 DEF PlaceInv, ToClientInv
    <3>2. \A d \in DbClients : Distinct(toClient[d])
      BY <1>1 DEF PlaceInv, ToClientInv
    <3>3. QED
      BY <1>2, <3>1, <3>2 DEF ToClientInv
  <2>6. ReceivedInv'
    <3>1. ASSUME NEW d \in DbClients, NEW x \in Elems(dbReceived[d])
          PROVE  /\ Done(x.req)' /\ dbAsked'[x.req].client = d
                 /\ x.verdict = dbAsked'[x.req].returned
      BY <1>1, <2>3, <3>1 DEF PlaceInv, ReceivedInv
    <3>2. \A d \in DbClients : Distinct(dbReceived[d])
      BY <1>1 DEF PlaceInv, ReceivedInv
    <3>3. QED
      BY <1>2, <3>1, <3>2 DEF ReceivedInv
  <2>5. QED
    BY <2>1, <2>2, <2>4, <2>6 DEF PlaceInv
<1>12. AnsweredInv'
  <2>1. \A m : (Way(m) => Way(m)') /\ Way(n)'
    BY <1>2, <1>7 DEF Way
  <2>2. \A m \in DOMAIN dbAsked : Received(m) => Received(m)'
    BY <1>2, <1>4 DEF Received
  <2>3. ASSUME NEW m \in DOMAIN dbAsked', Due(m)' PROVE Way(m)' \/ Received(m)'
    <3>1. CASE m = n
      BY <2>1, <3>1
    <3>2. CASE m # n
      <4>1. Way(m) \/ Received(m)
        BY <1>1, <1>2, <1>4, <2>3, <3>2 DEF AnsweredInv, Due
      <4>2. QED
        BY <1>4, <2>1, <2>2, <2>3, <4>1
    <3>3. QED
      BY <3>1, <3>2
  <2>4. QED
    BY <2>3 DEF AnsweredInv
<1>13. QED
  BY <1>8, <1>9, <1>10, <1>11, <1>12 DEF DbInv

\* The callback answers, or has nothing to say or nobody to say it to.
LEMMA CallbackStep == ASSUME DbInv, DbCallback PROVE DbInv'
<1>1. /\ DbTypes /\ GroupInv /\ AskedInv /\ PlaceInv /\ AnsweredInv
      /\ dbChanCb \in Seq(DOMAIN dbSink) /\ Distinct(dbChanCb)
  BY DEF DbInv, DbTypes, PlaceInv, CallbackInv
<1>2. PICK n : n = Head(dbChanCb)
  OBVIOUS
<1>3. PICK c : c = dbSink[n].client
  OBVIOUS
<1>4. PICK r : r = dbResult[n]
  OBVIOUS
<1>5. /\ dbChanCb # <<>> /\ dbChanCb' = Tail(dbChanCb)
      /\ toClient' = IF r.verdict # "nothing" /\ SinkAlive(n)
                     THEN [toClient EXCEPT ![c] = Append(@, r)] ELSE toClient
      /\ UNCHANGED <<dbGroup, dbLink, dbAlive, toDb, dbSink, dbRuns, dbResult, dbReceived, dbAsked>>
  BY <1>2, <1>3, <1>4 DEF DbCallback
<1>6. /\ dbChanCb' \in Seq(DOMAIN dbSink) /\ n \in DOMAIN dbSink /\ Distinct(dbChanCb')
      /\ n \notin Elems(dbChanCb') /\ Elems(dbChanCb) = Elems(dbChanCb') \cup {n}
  BY <1>1, <1>2, <1>5, HeadTailProperties, DistinctTail, ElemsTail
<1>7. /\ n \in Requests /\ c \in DbClients /\ n \in DOMAIN dbAsked /\ n \notin dbRuns
      /\ dbAsked[n].client = c /\ dbAsked[n].link = dbSink[n].link
      /\ r = [req |-> n, verdict |-> dbAsked[n].returned]
      /\ dbAsked[n] \in Asked
  <2>1. n \in Requests /\ c \in DbClients /\ n \in DOMAIN dbAsked /\ n \notin dbRuns
    BY <1>1, <1>3, <1>6 DEF DbTypes, Link, AskedInv, PlaceInv, CallbackInv
  <2>2. dbAsked[n].client = c /\ dbAsked[n].link = dbSink[n].link
    BY <1>1, <1>3, <1>6 DEF AskedInv
  <2>3. r = [req |-> n, verdict |-> dbAsked[n].returned]
    BY <1>1, <1>4, <1>6 DEF PlaceInv, CallbackInv
  <2>4. dbAsked[n] \in Asked
    BY <1>1, <2>1, ElementOfSeq, LenProperties DEF DbTypes
  <2>5. QED
    BY <2>1, <2>2, <2>3, <2>4
<1>8. r \in DbResult /\ r.req = n /\ r.verdict = dbAsked[n].returned
  BY <1>7 DEF DbResult, Asked
<1>9. \A d \in DbClients : r \notin Elems(toClient[d]) /\ r \notin Elems(dbReceived[d])
  BY <1>1, <1>6, <1>8 DEF PlaceInv, ToClientInv, ReceivedInv, Done
<1>10. \A m : Done(m) => Done(m)'
  BY <1>5, <1>6 DEF Done
<1>11. Done(n)'
  BY <1>5, <1>6, <1>7 DEF Done
<1>12. CallbackInv' /\ ToDbInv' /\ ReceivedInv'
  BY <1>1, <1>5, <1>6, <1>10 DEF PlaceInv, CallbackInv, ToDbInv, ReceivedInv
<1>13. GroupInv' \/ SinkAlive(n)
  BY <1>1, <1>5 DEF GroupInv
<1>14. AskedInv'
  BY <1>1, <1>5 DEF AskedInv
<1>15. \A m : Received(m)' <=> Received(m)
  BY <1>5 DEF Received
<1>16. CASE r.verdict # "nothing" /\ SinkAlive(n)
  <2>1. toClient[c] \in Seq(DbResult) /\ Distinct(toClient[c])
    BY <1>1, <1>7 DEF DbTypes, PlaceInv, ToClientInv
  <2>2. /\ Append(toClient[c], r) \in Seq(DbResult) /\ Distinct(Append(toClient[c], r))
        /\ Elems(Append(toClient[c], r)) = Elems(toClient[c]) \cup {r}
    BY <1>7, <1>8, <1>9, <2>1, AppendProperties, DistinctAppend, ElemsAppend
  <2>3. /\ toClient' \in [DbClients -> Seq(DbResult)]
        /\ \A d \in DbClients : /\ Distinct(toClient'[d]) /\ Elems(toClient[d]) \subseteq Elems(toClient'[d])
                                /\ \A y \in Elems(toClient'[d]) : y \in Elems(toClient[d]) \/ (d = c /\ y = r)
                                /\ d # c => toClient'[d] = toClient[d]
        /\ r \in Elems(toClient'[c])
    BY <1>1, <1>5, <1>7, <1>16, <2>1, <2>2 DEF DbTypes, PlaceInv, ToClientInv
  <2>4. dbAlive[c] /\ dbLink[c] = dbAsked[n].link
    BY <1>3, <1>7, <1>16 DEF SinkAlive
  <2>5. DbTypes'
    BY <1>1, <1>5, <1>6, <2>3 DEF DbTypes
  <2>6. GroupInv'
    BY <1>1, <1>5, <2>3, <2>4 DEF GroupInv
  <2>7. ToClientInv'
    <3>1. ASSUME NEW d \in DbClients, NEW y \in Elems(toClient'[d])
          PROVE  /\ Done(y.req)' /\ y \notin Elems(dbReceived[d])
                 /\ dbAsked[y.req].client = d /\ dbAsked[y.req].link = dbLink[d]
                 /\ y.verdict = dbAsked[y.req].returned
      <4>1. CASE y \in Elems(toClient[d])
        BY <1>1, <1>10, <4>1 DEF PlaceInv, ToClientInv
      <4>2. CASE d = c /\ y = r
        BY <1>7, <1>8, <1>9, <1>11, <2>4, <4>2
      <4>3. QED
        BY <2>3, <3>1, <4>1, <4>2
    <3>2. QED
      BY <1>5, <2>3, <3>1 DEF ToClientInv
  <2>8. \A m : Way(m) => Way(m)'
    BY <1>5, <1>6, <1>7, <1>8, <2>3 DEF Way
  <2>9. AnsweredInv'
    BY <1>1, <1>5, <1>15, <2>8 DEF AnsweredInv, Due
  <2>10. QED
    BY <1>12, <1>14, <2>5, <2>6, <2>7, <2>9 DEF DbInv, PlaceInv
<1>17. CASE ~(r.verdict # "nothing" /\ SinkAlive(n))
  <2>1. toClient' = toClient
    BY <1>5, <1>17
  <2>2. DbTypes' /\ GroupInv'
    BY <1>1, <1>5, <1>6, <2>1 DEF DbTypes, GroupInv
  <2>3. ToClientInv'
    BY <1>1, <1>5, <1>10, <2>1 DEF PlaceInv, ToClientInv
  <2>4. \A m : Way(m) => Way(m)' \/ m = n
    BY <1>5, <1>6, <2>1 DEF Way
  <2>5. ~(dbAsked[n].returned # "nothing" /\ dbAlive[dbAsked[n].client] /\ dbLink[dbAsked[n].client] = dbAsked[n].link)
    BY <1>3, <1>7, <1>8, <1>17 DEF SinkAlive
  <2>6. AnsweredInv'
    BY <1>1, <1>5, <1>15, <2>4, <2>5 DEF AnsweredInv, Due
  <2>7. QED
    BY <1>12, <1>14, <2>2, <2>3, <2>6 DEF DbInv, PlaceInv
<1>18. QED
  BY <1>16, <1>17

\* The client takes an answer.
LEMMA RecvDataStep ==
  ASSUME DbInv, NEW c \in DbClients, RecvAnswer(c) PROVE DbInv'
<1>1. DbTypes /\ GroupInv /\ AskedInv /\ PlaceInv /\ AnsweredInv
  BY DEF DbInv
<1>2. PICK r : r = Head(toClient[c])
  OBVIOUS
<1>3. /\ toClient[c] # <<>> /\ toClient' = [toClient EXCEPT ![c] = Tail(@)]
      /\ dbReceived' = [dbReceived EXCEPT ![c] = Append(@, r)]
      /\ UNCHANGED <<dbGroup, dbLink, dbAlive, toDb, dbSink, dbRuns, dbResult, dbChanCb, dbAsked>>
  BY <1>2 DEF RecvAnswer
<1>4. /\ toClient[c] \in Seq(DbResult) /\ Distinct(toClient[c])
      /\ dbReceived[c] \in Seq(DbResult) /\ Distinct(dbReceived[c])
  BY <1>1 DEF DbTypes, PlaceInv, ToClientInv, ReceivedInv
<1>5. /\ Tail(toClient[c]) \in Seq(DbResult) /\ r \in DbResult /\ Distinct(Tail(toClient[c]))
      /\ r \notin Elems(Tail(toClient[c])) /\ Elems(toClient[c]) = Elems(Tail(toClient[c])) \cup {r}
  BY <1>2, <1>3, <1>4, HeadTailProperties, DistinctTail, ElemsTail
<1>6. /\ toClient' \in [DbClients -> Seq(DbResult)]
      /\ \A d \in DbClients :
           /\ Distinct(toClient'[d]) /\ Elems(toClient'[d]) \subseteq Elems(toClient[d])
           /\ \A y \in Elems(toClient[d]) : y \in Elems(toClient'[d]) \/ (d = c /\ y = r)
           /\ toClient[d] = <<>> => toClient'[d] = <<>>
      /\ r \notin Elems(toClient'[c])
  BY <1>1, <1>3, <1>5 DEF DbTypes, PlaceInv, ToClientInv
<1>7. /\ Done(r.req) /\ r \notin Elems(dbReceived[c]) /\ dbAsked[r.req].client = c
      /\ r.verdict = dbAsked[r.req].returned
  BY <1>1, <1>5 DEF PlaceInv, ToClientInv
<1>8. /\ Append(dbReceived[c], r) \in Seq(DbResult) /\ Distinct(Append(dbReceived[c], r))
      /\ Elems(Append(dbReceived[c], r)) = Elems(dbReceived[c]) \cup {r}
  BY <1>4, <1>5, <1>7, AppendProperties, DistinctAppend, ElemsAppend
<1>9. /\ dbReceived' \in [DbClients -> Seq(DbResult)]
      /\ \A d \in DbClients :
           /\ Distinct(dbReceived'[d]) /\ Elems(dbReceived[d]) \subseteq Elems(dbReceived'[d])
           /\ \A y \in Elems(dbReceived'[d]) : y \in Elems(dbReceived[d]) \/ (d = c /\ y = r)
      /\ r \in Elems(dbReceived'[c])
  BY <1>1, <1>3, <1>8 DEF DbTypes, PlaceInv, ReceivedInv
<1>10. \A m : Done(m) => Done(m)'
  BY <1>3 DEF Done
<1>11. DbTypes'
  BY <1>1, <1>3, <1>6, <1>9 DEF DbTypes
<1>12. GroupInv' /\ AskedInv'
  BY <1>1, <1>3, <1>6 DEF GroupInv, AskedInv
<1>13. CallbackInv' /\ ToDbInv'
  BY <1>1, <1>3 DEF PlaceInv, CallbackInv, ToDbInv
<1>14. ToClientInv'
  <2>1. ASSUME NEW d \in DbClients, NEW y \in Elems(toClient'[d])
        PROVE  /\ Done(y.req)' /\ y \notin Elems(dbReceived'[d])
               /\ dbAsked[y.req].client = d /\ dbAsked[y.req].link = dbLink[d]
               /\ y.verdict = dbAsked[y.req].returned
    <3>1. y \in Elems(toClient[d]) /\ ~(d = c /\ y = r)
      BY <1>6, <2>1
    <3>2. y \notin Elems(dbReceived[d])
      BY <1>1, <3>1 DEF PlaceInv, ToClientInv
    <3>3. y \notin Elems(dbReceived'[d])
      BY <1>9, <3>1, <3>2
    <3>4. QED
      BY <1>1, <1>10, <3>1, <3>3 DEF PlaceInv, ToClientInv
  <2>2. QED
    BY <1>3, <1>6, <2>1 DEF ToClientInv
<1>15. ReceivedInv'
  <2>1. ASSUME NEW d \in DbClients, NEW y \in Elems(dbReceived'[d])
        PROVE  /\ Done(y.req)' /\ dbAsked[y.req].client = d
               /\ y.verdict = dbAsked[y.req].returned
    <3>1. CASE y \in Elems(dbReceived[d])
      BY <1>1, <1>10, <3>1 DEF PlaceInv, ReceivedInv
    <3>2. CASE d = c /\ y = r
      BY <1>7, <1>10, <3>2
    <3>3. QED
      BY <1>9, <2>1, <3>1, <3>2
  <2>2. QED
    BY <1>3, <1>9, <2>1 DEF ReceivedInv
<1>16. AnsweredInv'
  <2>1. ASSUME NEW m \in DOMAIN dbAsked, Due(m), Received(m) PROVE Received(m)'
    <3>1. dbAsked[m] \in Asked
      BY <1>1, ElementOfSeq, LenProperties DEF DbTypes
    <3>2. dbAsked[m].client \in DbClients /\ dbAsked' = dbAsked
      BY <1>3, <3>1 DEF Asked
    <3>3. PICK x \in Elems(dbReceived[dbAsked[m].client]) : x.req = m
      BY <2>1 DEF Received
    <3>4. x \in Elems(dbReceived'[dbAsked[m].client])
      BY <1>9, <3>2, <3>3
    <3>5. QED
      BY <3>2, <3>3, <3>4 DEF Received
  <2>2. ASSUME NEW m \in DOMAIN dbAsked, Due(m), Way(m) PROVE Way(m)' \/ Received(m)'
    <3>1. CASE m = r.req
      <4>1. dbAsked'[m].client = c
        BY <1>3, <1>7, <3>1
      <4>2. QED
        BY <1>9, <3>1, <4>1 DEF Received
    <3>2. CASE m # r.req
      BY <1>3, <1>6, <2>2, <3>2 DEF Way
    <3>3. QED
      BY <3>1, <3>2
  <2>3. \A m : Due(m)' => Due(m)
    BY <1>3 DEF Due
  <2>4. QED
    BY <1>1, <1>3, <2>1, <2>2, <2>3 DEF AnsweredInv
<1>17. QED
  BY <1>11, <1>12, <1>13, <1>14, <1>15, <1>16 DEF DbInv, PlaceInv

\* The invariant is inductive.
LEMMA DbInvariant == DbSpec => []DbInv
<1>1. DbInv /\ [DbNext]_dbVars => DbInv'
  <2> SUFFICES ASSUME DbInv, [DbNext]_dbVars PROVE DbInv'
    OBVIOUS
  <2>1. CASE UNCHANGED dbVars
    BY <2>1 DEF dbVars, DbInv, DbTypes, GroupInv, AskedInv, PlaceInv, CallbackInv, ToDbInv,
                ToClientInv, ReceivedInv, AnsweredInv, Done, Due, Way, Received
  <2>2. QED
    BY <2>1, LinkStep, DoStep, RecvMsgStep, RecvDataStep, OperateStep, CallbackStep DEF DbNext
<1>2. QED
  BY DbStarts, <1>1, PTL DEF DbSpec

\* For any number of clients, requests and connections: an answer is taken at
\* most once for a request, by the server that made it, with what the operation
\* of that request returned and over the connection it went by; and it is lost
\* only with that connection (operation/mgr.go:47-101).  That a handler is then
\* called is not said, and is not so.
THEOREM AnswersReachTheAsker == DbSpec => []DbAnswers
<1>1. DbInv => DbAnswers
  <2> SUFFICES ASSUME DbInv PROVE DbAnswers
    OBVIOUS
  <2>1. DbTypes /\ ToClientInv /\ ReceivedInv /\ AnsweredInv
    BY DEF DbInv, PlaceInv
  <2>2. \A q, i : i \in DOMAIN q => q[i] \in Elems(q)
    BY DEF Elems
  <2>3. ASSUME NEW c \in DbClients, NEW i \in DOMAIN dbReceived[c]
        PROVE  /\ dbReceived[c][i] \in DbResult
               /\ dbAsked[dbReceived[c][i].req].client = c
               /\ dbAsked[dbReceived[c][i].req].returned = dbReceived[c][i].verdict
    <3>1. dbReceived[c] \in Seq(DbResult)
      BY <2>1 DEF DbTypes
    <3>2. dbReceived[c][i] \in DbResult
      BY <3>1, ElementOfSeq, LenProperties
    <3>3. QED
      BY <2>1, <2>2, <3>2 DEF ReceivedInv
  <2>4. ASSUME NEW c \in DbClients, NEW i \in DOMAIN dbReceived[c], NEW j \in DOMAIN dbReceived[c],
               dbReceived[c][i].req = dbReceived[c][j].req
        PROVE  i = j
    <3>1. dbReceived[c][i] = dbReceived[c][j]
      <4>1. \A k \in DOMAIN dbReceived[c] :
              /\ dbReceived[c][k] \in [req : Requests \cup {0}, verdict : Verdicts]
              /\ dbReceived[c][k].verdict = dbAsked[dbReceived[c][k].req].returned
        BY <2>3 DEF DbResult
      <4>2. QED
        BY <2>4, <4>1
    <3>2. QED
      BY <2>1, <3>1 DEF ReceivedInv, Distinct
  <2>5. \A c \in DbClients : \A i \in DOMAIN toClient[c] : dbAsked[toClient[c][i].req].link = dbLink[c]
    BY <2>1, <2>2 DEF ToClientInv
  <2>6. ASSUME NEW n \in DOMAIN dbAsked, Due(n), ~UnderWay(n)
        PROVE  \E i \in DOMAIN dbReceived[dbAsked[n].client] : dbReceived[dbAsked[n].client][i].req = n
    <3>1. ~Way(n)
      BY <2>6 DEF Way, UnderWay, Elems
    <3>2. Received(n)
      BY <2>1, <2>6, <3>1 DEF AnsweredInv
    <3>3. QED
      BY <3>2 DEF Received, Elems
  <2>7. QED
    BY <2>3, <2>4, <2>5, <2>6 DEF DbAnswers, Due
<1>2. QED
  BY <1>1, DbInvariant, PTL

\* The variables keep their types.
THEOREM DbTypeCorrect == DbSpec => []DbTypeOK
<1>1. DbInv => DbTypeOK
  BY DEF DbInv, DbTypes, DbTypeOK, Sent, Asked
<1>2. QED
  BY <1>1, DbInvariant, PTL

(* --------------------------------- Log --------------------------------- *)

(* --------------- The files: an order among names and lines ------------- *)

\* The indices that are taken on a day, and what is in the archives.
Indices(arch, day) == {n[2] : n \in {m \in DOMAIN arch : m[1] = day}}
ArchiveLines(arch) == UNION {InFile(arch[n]) : n \in DOMAIN arch}
FileLines(d) == InFile(d.cur) \cup ArchiveLines(d.arch)

\* The archives of each day are numbered from 1 without a gap; none is of a
\* day to come.
ArchivesOK(arch, today) ==
  /\ IsFiniteSet(DOMAIN arch)
  /\ DOMAIN arch \subseteq (1..today) \X (Nat \ {0})
  /\ \A day \in 1..today : \E k \in 0..Cardinality(DOMAIN arch) : Indices(arch, day) = 1..k

\* The current file out of the way.
Moved(f, d) == IF d.cur = NoFile THEN d ELSE Rename(d, <<f.createDay, f.curIndex>>)

\* The files are read in the order of their names.
FilesInOrder(d) ==
  /\ \A m, n \in DOMAIN d.arch : Before(m, n) => \A i \in InFile(d.arch[m]), j \in InFile(d.arch[n]) : i < j
  /\ \A i \in ArchiveLines(d.arch), j \in InFile(d.cur) : i < j

\* A record of a current file and archives.
IsDisk(d) == \E cur, arch : cur \in Seq(Nat) /\ d = [cur |-> cur, arch |-> arch]

\* Numbered and in order, on a day.
DiskOK(d, today) ==
  /\ IsDisk(d)
  /\ FileLines(d) \subseteq Nat
  /\ ArchivesOK(d.arch, today) /\ FilesInOrder(d)

\* The fields of a Writer.
Writer(handle, size, index, create, last, nextIndex) ==
  [handle |-> handle, curSize |-> size, curIndex |-> index, createDay |-> create,
   lastDay |-> last, curFileIndex |-> nextIndex]
IsWriter(f) == \E handle, size, index, create, last, nextIndex : f = Writer(handle, size, index, create, last, nextIndex)

\* A Writer that has written has a file whose name is free and the last.
WriterOK(f, d, today) ==
  /\ IsWriter(f)
  /\ \/ f = NewWriter
     \/ /\ f.handle = "open" /\ d.cur # NoFile
        /\ f.lastDay \in 1..today /\ f.createDay = f.lastDay
        /\ f.curIndex \in Nat \ {0} /\ f.curFileIndex = f.curIndex + 1
        /\ \A n \in DOMAIN d.arch : n[1] <= f.lastDay
        /\ Indices(d.arch, f.lastDay) = 1..(f.curIndex - 1)

\* An outcome without a fault.
Success(r, f, d) == r = [f |-> f, d |-> d, ok |-> TRUE, cause |-> {}]

(* ------------------------ The inductive invariant ---------------------- *)

\* The lines that were taken from the channel, or cut off in it.
Taken == logLast - Len(logChan)

\* The channel holds the last lines, in order.
ChanInv ==
  /\ logChan \in Seq([line : Nat, fatal : BOOLEAN])
  /\ logLast \in Nat /\ Len(logChan) <= logLast
  /\ \A i \in DOMAIN logChan : logChan[i].line = Taken + i
  /\ logDay \in Nat \ {0}

\* The goroutine ends when the channel is closed and empty, and Close after it.
EndInv ==
  /\ logClose = "closed" => ~logLoop
  /\ ~logLoop => LogClosed /\ logChan = <<>>

\* While nothing has happened that lines may be lost from, what was taken is in
\* the files, or was cut off.
FilesInv ==
  logCause = {} =>
    /\ DiskOK(logDisk, logDay)
    /\ FileLines(logDisk) \cup logCut = 1..Taken
    /\ logLoop => WriterOK(logFile, logDisk, logDay)

LogInv == ChanInv /\ EndInv /\ FilesInv

\* A range has one end.
LEMMA SameRange == \A k \in Nat, x \in Nat \ {0} : 1..k = 1..(x - 1) => k = x - 1
<1>1. SUFFICES ASSUME NEW k \in Nat, NEW x \in Nat \ {0}, 1..k = 1..(x - 1) PROVE k = x - 1
  OBVIOUS
<1>2. \A j \in Nat \ {0} : j <= k <=> j <= x - 1
  BY <1>1
<1>3. CASE k = 0
  <2>1. ~(1 <= x - 1)
    BY <1>2, <1>3
  <2>2. QED
    BY <1>3, <2>1
<1>4. CASE k # 0
  <2>1. k <= x - 1 /\ x - 1 # 0
    BY <1>2, <1>4
  <2>2. x - 1 <= k
    BY <1>2, <2>1
  <2>3. QED
    BY <2>1, <2>2
<1>5. QED
  BY <1>3, <1>4

(* ------------------------------- The files ----------------------------- *)

\* A line is appended to a file.
LEMMA InFileAppend ==
  ASSUME NEW s \in Seq(Nat), NEW x \in Nat \ {0}
  PROVE  InFile(Append(s, x)) = InFile(s) \cup {x}
<1>1. Elems(Append(s, x)) = Elems(s) \cup {x}
  BY ElemsAppend
<1>2. \A q : InFile(q) = Elems(q) \ {0}
  BY DEF InFile, Elems
<1>3. QED
  BY <1>1, <1>2

\* What is in no file, and in an empty one.
LEMMA InFileEmpty == InFile(NoFile) = {} /\ InFile(<<>>) = {} /\ <<>> # NoFile
<1>1. DOMAIN NoFile = {1} /\ NoFile[1] = 0 /\ DOMAIN <<>> = {}
  BY DEF NoFile
<1>2. QED
  BY <1>1 DEF InFile

\* The names of a day are its indices.
LEMMA NameIndex ==
  ASSUME NEW arch, NEW today, ArchivesOK(arch, today), NEW day, NEW j
  PROVE  <<day, j>> \in DOMAIN arch <=> j \in Indices(arch, day)
<1>1. \A n \in DOMAIN arch : n[1] = day => n = <<day, n[2]>>
  BY DEF ArchivesOK
<1>2. ASSUME <<day, j>> \in DOMAIN arch PROVE j \in Indices(arch, day)
  <2>1. <<day, j>> \in {m \in DOMAIN arch : m[1] = day} /\ <<day, j>>[2] = j
    BY <1>2
  <2>2. QED
    BY <2>1 DEF Indices
<1>3. ASSUME j \in Indices(arch, day) PROVE <<day, j>> \in DOMAIN arch
  BY <1>1, <1>3 DEF Indices
<1>4. QED
  BY <1>2, <1>3

\* getCurFileIndex finds the index behind those that are taken.
LEMMA FreeIndex ==
  ASSUME NEW arch, NEW today \in Nat \ {0}, ArchivesOK(arch, today),
         NEW f, f.curFileIndex = 0, f.lastDay \in 1..today
  PROVE  \E i \in Nat \ {0} : GetCurFileIndex(f, arch) = i /\ Indices(arch, f.lastDay) = 1..(i - 1)
<1> DEFINE day == f.lastDay
           card == Cardinality(DOMAIN arch)
           P(i) == <<day, i>> \notin DOMAIN arch /\ \A j \in 1..(i - 1) : <<day, j>> \in DOMAIN arch
<1>1. card \in Nat
  BY FS_CardinalityType DEF ArchivesOK
<1>2. PICK k \in 0..card : Indices(arch, day) = 1..k
  BY DEF ArchivesOK
<1>3. \A j : <<day, j>> \in DOMAIN arch <=> j \in 1..k
  BY <1>2, NameIndex
<1>4. GetCurFileIndex(f, arch) = CHOOSE i \in 1..(card + 1) : P(i)
  BY DEF GetCurFileIndex
<1> HIDE DEF card
<1>5. k + 1 \in 1..(card + 1) /\ P(k + 1)
  <2>1. k \in Nat /\ k + 1 \notin 1..k /\ 1..((k + 1) - 1) = 1..k
    BY <1>1
  <2>2. k + 1 \in 1..(card + 1)
    BY <1>1
  <2>3. QED
    BY <1>3, <2>1, <2>2
<1>6. PICK i : i = CHOOSE x \in 1..(card + 1) : P(x)
  OBVIOUS
<1> HIDE DEF P
<1>7. i \in 1..(card + 1) /\ P(i)
  BY <1>5, <1>6
<1>8. i = k + 1
  <2>1. i \notin 1..k /\ \A j \in 1..(i - 1) : j \in 1..k
    BY <1>3, <1>7 DEF P
  <2>2. i \in Nat \ {0} /\ k \in Nat
    BY <1>1, <1>7
  <2>3. CASE i > k + 1
    <3>1. k + 1 \in 1..(i - 1)
      BY <2>2, <2>3
    <3>2. k + 1 \in 1..k
      BY <2>1, <3>1
    <3>3. QED
      BY <2>2, <3>2
  <2>4. CASE i <= k + 1
    BY <2>1, <2>2, <2>4
  <2>5. QED
    BY <2>2, <2>3, <2>4
<1>9. QED
  BY <1>1, <1>2, <1>4, <1>6, <1>7, <1>8

\* The current file goes to the archives, under the name that is next.
LEMMA Archive ==
  ASSUME NEW d, NEW today \in Nat \ {0}, DiskOK(d, today), d.cur # NoFile,
         NEW day \in 1..today, NEW x \in Nat \ {0},
         \A n \in DOMAIN d.arch : n[1] <= day, Indices(d.arch, day) = 1..(x - 1)
  PROVE  /\ DiskOK(Rename(d, <<day, x>>), today)
         /\ Rename(d, <<day, x>>).cur = NoFile
         /\ FileLines(Rename(d, <<day, x>>)) = FileLines(d)
         /\ Indices(Rename(d, <<day, x>>).arch, day) = 1..x
<1> DEFINE name == <<day, x>>
           e == Rename(d, name)
           D == DOMAIN d.arch
<1>1. /\ IsDisk(e) /\ e.cur = NoFile
      /\ e.arch = [n \in D \cup {name} |-> IF n = name THEN d.cur ELSE d.arch[n]]
  <2>1. NoFile \in Seq(Nat)
    BY DEF NoFile
  <2>2. QED
    BY <2>1 DEF Rename, IsDisk
<1>2. ArchivesOK(d.arch, today) /\ FilesInOrder(d) /\ FileLines(d) \subseteq Nat
  BY DEF DiskOK
<1>3. /\ D \subseteq (1..today) \X (Nat \ {0}) /\ IsFiniteSet(D) /\ Cardinality(D) \in Nat
      /\ \A n \in D : n[1] \in 1..today /\ n[2] \in Nat \ {0} /\ n = <<n[1], n[2]>>
  BY <1>2, FS_CardinalityType DEF ArchivesOK
<1>4. name \notin D
  <2>1. x \notin 1..(x - 1)
    OBVIOUS
  <2>2. QED
    BY <1>2, <2>1, NameIndex
<1>5. DOMAIN e.arch = D \cup {name} /\ e.arch[name] = d.cur /\ \A n \in D : e.arch[n] = d.arch[n]
  BY <1>1, <1>4
<1> HIDE DEF e
<1>6. ArchiveLines(e.arch) = ArchiveLines(d.arch) \cup InFile(d.cur)
  <2>1. {InFile(e.arch[n]) : n \in D \cup {name}} = {InFile(d.arch[n]) : n \in D} \cup {InFile(d.cur)}
    BY <1>5
  <2>2. QED
    BY <1>5, <2>1 DEF ArchiveLines
<1>7. FileLines(e) = FileLines(d)
  BY <1>1, <1>6, InFileEmpty DEF FileLines
<1>8. \A n \in D : Before(n, name)
  <2>1. ASSUME NEW n \in D PROVE Before(n, name)
    <3>1. n[1] <= day /\ n[1] \in Nat /\ n[2] \in Nat
      BY <1>3
    <3>2. CASE n[1] = day
      <4>1. <<day, n[2]>> \in DOMAIN d.arch
        BY <1>3, <3>2
      <4>2. n[2] \in 1..(x - 1)
        BY <1>2, <4>1, NameIndex
      <4>3. QED
        BY <3>2, <4>2 DEF Before
    <3>3. CASE n[1] # day
      BY <3>1, <3>3 DEF Before
    <3>4. QED
      BY <3>2, <3>3
  <2>2. QED
    BY <2>1
<1>9. \A n \in D \cup {name} : ~Before(name, n)
  <2>1. \A n \in D \cup {name} : n[1] \in Nat /\ n[2] \in Nat
    BY <1>3
  <2>2. \A n \in D \cup {name} : n = name \/ Before(n, name)
    BY <1>8
  <2>3. name[1] = day /\ name[2] = x /\ day \in Nat /\ x \in Nat
    OBVIOUS
  <2> HIDE DEF name
  <2>4. ASSUME NEW n \in D \cup {name} PROVE ~Before(name, n)
    BY <2>1, <2>2, <2>3 DEF Before
  <2>5. QED
    BY <2>4
<1>10. FilesInOrder(e)
  <2>1. \A i \in ArchiveLines(d.arch), j \in InFile(d.cur) : i < j
    BY <1>2 DEF FilesInOrder
  <2>2. ASSUME NEW m \in D \cup {name}, NEW n \in D \cup {name}, Before(m, n),
               NEW i \in InFile(e.arch[m]), NEW j \in InFile(e.arch[n])
        PROVE  i < j
    <3>1. m # name /\ m \in D
      BY <1>9, <2>2
    <3>2. CASE n = name
      <4>1. j \in InFile(d.cur) /\ i \in InFile(d.arch[m])
        BY <1>5, <2>2, <3>1, <3>2
      <4>2. i \in ArchiveLines(d.arch)
        BY <3>1, <4>1 DEF ArchiveLines
      <4>3. QED
        BY <2>1, <4>1, <4>2
    <3>3. CASE n # name
      BY <1>2, <1>5, <2>2, <3>1, <3>3 DEF FilesInOrder
    <3>4. QED
      BY <3>2, <3>3
  <2>3. InFile(e.cur) = {}
    BY <1>1, InFileEmpty
  <2>4. QED
    BY <1>5, <2>2, <2>3 DEF FilesInOrder
<1>11. \A v : Indices(e.arch, v) = Indices(d.arch, v) \cup (IF v = day THEN {x} ELSE {})
  <2>1. \A v : {m \in D \cup {name} : m[1] = v} = {m \in D : m[1] = v} \cup (IF v = day THEN {name} ELSE {})
    OBVIOUS
  <2>2. name[2] = x
    OBVIOUS
  <2>3. QED
    BY <1>5, <2>1, <2>2 DEF Indices
<1>12. Indices(e.arch, day) = 1..x
  <2>1. (1..(x - 1)) \cup {x} = 1..x
    OBVIOUS
  <2>2. QED
    BY <1>11, <2>1
<1>13. ArchivesOK(e.arch, today)
  <2>1. IsFiniteSet(D \cup {name}) /\ Cardinality(D \cup {name}) = Cardinality(D) + 1
    BY <1>3, <1>4, FS_AddElement
  <2>2. name \in (1..today) \X (Nat \ {0})
    OBVIOUS
  <2>3. ASSUME NEW v \in 1..today PROVE \E k \in 0..(Cardinality(D) + 1) : Indices(e.arch, v) = 1..k
    <3>1. PICK k \in 0..Cardinality(D) : Indices(d.arch, v) = 1..k
      BY <1>2 DEF ArchivesOK
    <3>2. k \in 0..(Cardinality(D) + 1) /\ k + 1 \in 0..(Cardinality(D) + 1)
      BY <1>3
    <3>3. CASE v # day
      BY <1>11, <3>1, <3>2, <3>3
    <3>4. CASE v = day
      <4>1. k = x - 1
        BY <3>1, <3>4, SameRange
      <4>2. Indices(e.arch, v) = 1..(k + 1)
        BY <1>12, <3>4, <4>1
      <4>3. QED
        BY <3>2, <4>2
    <3>5. QED
      BY <3>3, <3>4
  <2>4. QED
    BY <1>3, <1>5, <2>1, <2>2, <2>3 DEF ArchivesOK
<1>14. DiskOK(e, today)
  BY <1>1, <1>2, <1>7, <1>10, <1>13 DEF DiskOK
<1>15. QED
  BY <1>1, <1>7, <1>12, <1>14 DEF e

\* openNew has made a new current file, behind all archives.
LEMMA NewFile ==
  ASSUME NEW today \in Nat \ {0}, NEW d, DiskOK(d, today), d.cur = NoFile,
         NEW i \in Nat \ {0}, Indices(d.arch, today) = 1..(i - 1), NEW size
  PROVE  /\ DiskOK([d EXCEPT !.cur = <<>>], today)
         /\ WriterOK(Writer("open", size, i, today, today, i + 1), [d EXCEPT !.cur = <<>>], today)
         /\ FileLines([d EXCEPT !.cur = <<>>]) = FileLines(d)
<1>1. PICK e : e = [d EXCEPT !.cur = <<>>]
  OBVIOUS
<1>2. PICK cur, arch : cur \in Seq(Nat) /\ d = [cur |-> cur, arch |-> arch]
  BY DEF DiskOK, IsDisk
<1>3. e = [cur |-> <<>>, arch |-> arch] /\ d.arch = arch
  BY <1>1, <1>2
<1>4. e.cur = <<>> /\ e.arch = d.arch /\ IsDisk(e)
  <2>1. <<>> \in Seq(Nat)
    OBVIOUS
  <2>2. QED
    BY <1>3, <2>1 DEF IsDisk
<1>5. InFile(e.cur) = {} /\ InFile(d.cur) = {} /\ e.cur # NoFile
  BY <1>4, InFileEmpty
<1>6. FileLines(e) = FileLines(d)
  BY <1>4, <1>5 DEF FileLines
<1>7. FilesInOrder(e)
  BY <1>4, <1>5 DEF DiskOK, FilesInOrder
<1>8. DiskOK(e, today)
  BY <1>4, <1>6, <1>7 DEF DiskOK
<1>9. \A n \in DOMAIN e.arch : n[1] <= today
  BY <1>4 DEF DiskOK, ArchivesOK
<1>10. PICK g : g = Writer("open", size, i, today, today, i + 1)
  OBVIOUS
<1>11. /\ g.handle = "open" /\ g.curIndex = i /\ g.createDay = today
       /\ g.lastDay = today /\ g.curFileIndex = i + 1 /\ IsWriter(g)
  BY <1>10 DEF Writer, IsWriter
<1>12. WriterOK(g, e, today)
  <2>1. Indices(e.arch, g.lastDay) = 1..(g.curIndex - 1)
    BY <1>4, <1>11
  <2>2. QED
    BY <1>5, <1>9, <1>11, <2>1 DEF WriterOK
<1>13. QED
  BY <1>1, <1>6, <1>8, <1>10, <1>12

\* What openNew does when nothing fails: from a Writer of today with an index
\* that is given or is to be found, once the current file is out of the way.
LEMMA OpenNewKeeps ==
  ASSUME NEW today \in Nat \ {0}, today = logDay, NEW d, NEW f, IsWriter(f), f.lastDay = today,
         DiskOK(Moved(f, d), today), Moved(f, d).cur = NoFile,
         \/ f.curFileIndex = 0
         \/ f.curFileIndex \in Nat \ {0} /\ Indices(Moved(f, d).arch, today) = 1..(f.curFileIndex - 1),
         NEW cause, NEW r \in OpenNew(f, d, today, cause), r.cause = {}
  PROVE  \E g, e : /\ Success(r, g, e) /\ g.handle = "open"
                   /\ DiskOK(e, today) /\ WriterOK(g, e, today)
                   /\ FileLines(e) = FileLines(Moved(f, d))
<1>1. PICK i : i = GetCurFileIndex(f, Moved(f, d).arch)
  OBVIOUS
<1>2. PICK g : g = [f EXCEPT !.handle = "open", !.curSize = 0, !.curIndex = i,
                             !.createDay = today, !.curFileIndex = i + 1]
  OBVIOUS
<1>3. PICK e : e = [Moved(f, d) EXCEPT !.cur = <<>>]
  OBVIOUS
<1>4. PICK m : m = Moved(f, d)
  OBVIOUS
<1>5. \/ r = Result(f, d, FALSE, {"fault"}) \/ r = Result(f, m, FALSE, {"fault"})
      \/ r = Result(g, e, TRUE, cause \cup IF today = logDay THEN {} ELSE {"midnight"})
  BY <1>1, <1>2, <1>3, <1>4 DEF OpenNew, Moved
<1>6. Success(r, g, e)
  <2>1. {"fault"} # {}
    OBVIOUS
  <2>2. \A a, b : Result(a, b, FALSE, {"fault"}).cause = {"fault"}
    BY DEF Result
  <2>3. r # Result(f, d, FALSE, {"fault"}) /\ r # Result(f, m, FALSE, {"fault"})
    BY <2>1, <2>2
  <2>4. PICK k : k = cause \cup IF today = logDay THEN {} ELSE {"midnight"}
    OBVIOUS
  <2>5. r = Result(g, e, TRUE, k)
    BY <1>5, <2>3, <2>4
  <2>6. k = {}
    BY <2>5 DEF Result
  <2>7. QED
    BY <2>5, <2>6 DEF Result, Success
<1>7. i \in Nat \ {0} /\ Indices(m.arch, today) = 1..(i - 1)
  <2>1. CASE f.curFileIndex = 0
    <3>1. ArchivesOK(m.arch, today) /\ f.lastDay \in 1..today
      BY <1>4 DEF DiskOK
    <3>2. QED
      BY <1>1, <1>4, <2>1, <3>1, FreeIndex
  <2>2. CASE f.curFileIndex \in Nat \ {0} /\ Indices(m.arch, today) = 1..(f.curFileIndex - 1)
    BY <1>1, <2>2 DEF GetCurFileIndex
  <2>3. QED
    BY <1>4, <2>1, <2>2
<1>8. g = Writer("open", 0, i, today, today, i + 1)
  BY <1>2 DEF IsWriter, Writer
<1>9. DiskOK(e, today) /\ WriterOK(g, e, today) /\ FileLines(e) = FileLines(m)
  BY <1>3, <1>4, <1>7, <1>8, NewFile
<1>10. g.handle = "open"
  BY <1>8 DEF Writer
<1>11. QED
  BY <1>4, <1>6, <1>9, <1>10

\* Write has a file open before it writes, and every line is where it was.
LEMMA OpenedKeeps ==
  ASSUME NEW today \in Nat \ {0}, today = logDay, NEW f, NEW d, DiskOK(d, today), WriterOK(f, d, today),
         NEW r \in Opened(f, d, today), r.cause = {}
  PROVE  \E g, e : /\ Success(r, g, e) /\ g.handle = "open"
                   /\ DiskOK(e, today) /\ WriterOK(g, e, today) /\ FileLines(e) = FileLines(d)
<1>1. CASE f = NewWriter
  <2>1. r \in OpenExistingOrNew(d, today)
    BY <1>1 DEF Opened, NewWriter
  <2>2. PICK h : h = [NewWriter EXCEPT !.handle = "nil", !.lastDay = logDay]
    OBVIOUS
  <2>3. h = Writer("nil", 0, 0, 0, today, 0)
    BY <2>2 DEF NewWriter, Writer
  <2>4. PICK i \in Nat \ {0} : GetCurFileIndex(h, d.arch) = i /\ Indices(d.arch, today) = 1..(i - 1)
    <3>1. ArchivesOK(d.arch, today) /\ h.lastDay = today /\ h.curFileIndex = 0 /\ h.lastDay \in 1..today
      BY <2>3 DEF DiskOK, Writer
    <3>2. QED
      BY <3>1, FreeIndex
  <2>5. PICK new : new = [h EXCEPT !.curFileIndex = i]
    OBVIOUS
  <2>6. PICK old : old = [new EXCEPT !.curIndex = i, !.createDay = logDay, !.curSize = Len(d.cur)]
    OBVIOUS
  <2>7. new = Writer("nil", 0, 0, 0, today, i)
    BY <2>3, <2>5 DEF Writer
  <2>8. old = Writer("nil", Len(d.cur), i, today, today, i)
    BY <2>6, <2>7 DEF Writer
  <2>9. CASE d.cur = NoFile
    <3>1. r \in OpenNew(new, d, today, {})
      BY <2>1, <2>2, <2>4, <2>5, <2>9 DEF OpenExistingOrNew
    <3>2. IsWriter(new) /\ new.lastDay = today /\ new.curFileIndex = i
      BY <2>7 DEF Writer, IsWriter
    <3>3. Moved(new, d) = d
      BY <2>9 DEF Moved
    <3>4. QED
      BY <2>4, <2>9, <3>1, <3>2, <3>3, OpenNewKeeps
  <2>10. CASE d.cur # NoFile
    <3>1. \/ r = Result(new, d, FALSE, {"fault"}) \/ r \in OpenNew(old, d, today, {"full"})
          \/ r = Result([old EXCEPT !.handle = "open", !.curFileIndex = i + 1], d, TRUE, {})
          \/ r \in OpenNew(old, d, today, {"fault"})
      <4>1. CASE Len(d.cur) + 1 >= LogMaxSize
        BY <2>1, <2>2, <2>4, <2>5, <2>6, <2>10, <4>1 DEF OpenExistingOrNew
      <4>2. CASE ~(Len(d.cur) + 1 >= LogMaxSize)
        BY <2>1, <2>2, <2>4, <2>5, <2>6, <2>10, <4>2 DEF OpenExistingOrNew
      <4>3. QED
        BY <4>1, <4>2
    <3>2. ASSUME NEW c, c # {} PROVE r \notin OpenNew(old, d, today, c)
      <4>1. {"fault"} # {} /\ \A k : c \cup k # {}
        BY <3>2
      <4>2. \A a, b, ok : r # Result(a, b, ok, {"fault"})
        BY <4>1 DEF Result
      <4>3. \A a, b, ok, k : r # Result(a, b, ok, c \cup k)
        BY <4>1 DEF Result
      <4>4. QED
        BY <4>2, <4>3 DEF OpenNew
    <3>3. r = Result([old EXCEPT !.handle = "open", !.curFileIndex = i + 1], d, TRUE, {})
      <4>1. r # Result(new, d, FALSE, {"fault"})
        BY DEF Result
      <4>2. {"full"} # {} /\ {"fault"} # {}
        OBVIOUS
      <4>3. QED
        BY <3>1, <3>2, <4>1, <4>2
    <3>4. PICK g : g = [old EXCEPT !.handle = "open", !.curFileIndex = i + 1]
      OBVIOUS
    <3>5. g = Writer("open", Len(d.cur), i, today, today, i + 1)
      BY <2>8, <3>4 DEF Writer
    <3>6. /\ IsWriter(g) /\ g.handle = "open" /\ g.lastDay = today /\ g.createDay = today
          /\ g.curIndex = i /\ g.curFileIndex = i + 1
      BY <3>5 DEF Writer, IsWriter
    <3>7. \A n \in DOMAIN d.arch : n[1] <= today
      BY DEF DiskOK, ArchivesOK
    <3>8. WriterOK(g, d, today)
      BY <2>4, <2>10, <3>6, <3>7 DEF WriterOK
    <3>9. Success(r, g, d)
      BY <3>3, <3>4 DEF Result, Success
    <3>10. QED
      BY <3>6, <3>8, <3>9
  <2>11. QED
    BY <2>9, <2>10
<1>2. CASE f # NewWriter
  <2>1. /\ IsWriter(f) /\ f.handle = "open" /\ d.cur # NoFile
        /\ f.lastDay \in 1..today /\ f.createDay = f.lastDay
        /\ f.curIndex \in Nat \ {0} /\ f.curFileIndex = f.curIndex + 1
        /\ \A n \in DOMAIN d.arch : n[1] <= f.lastDay
        /\ Indices(d.arch, f.lastDay) = 1..(f.curIndex - 1)
    BY <1>2 DEF WriterOK
  <2>2. PICK size : f = Writer("open", size, f.curIndex, f.createDay, f.lastDay, f.curFileIndex)
    <3>1. PICK handle, size, index, create, last, nextIndex : f = Writer(handle, size, index, create, last, nextIndex)
      BY <2>1 DEF IsWriter
    <3>2. f.handle = handle /\ f.curIndex = index /\ f.createDay = create /\ f.lastDay = last /\ f.curFileIndex = nextIndex
      BY <3>1 DEF Writer
    <3>3. QED
      BY <2>1, <3>1, <3>2
  <2>3. PICK day, x, nextIndex : day = f.lastDay /\ x = f.curIndex /\ nextIndex = f.curFileIndex
    OBVIOUS
  <2>4. f = Writer("open", size, x, day, day, nextIndex) /\ f.curSize = size
    BY <2>1, <2>2, <2>3 DEF Writer
  <2>5. /\ day \in 1..today /\ x \in Nat \ {0} /\ nextIndex = x + 1 /\ d.cur # NoFile
        /\ \A n \in DOMAIN d.arch : n[1] <= day
        /\ Indices(d.arch, day) = 1..(x - 1)
    BY <2>1, <2>3
  <2>6. PICK m : m = Rename(d, <<day, x>>)
    OBVIOUS
  <2>7. DiskOK(m, today) /\ m.cur = NoFile /\ FileLines(m) = FileLines(d) /\ Indices(m.arch, day) = 1..x
    BY <2>5, <2>6, Archive
  <2>8. CASE day # logDay
    <3>1. PICK h : h = [f EXCEPT !.lastDay = logDay, !.curFileIndex = 0]
      OBVIOUS
    <3>2. h = Writer("open", size, x, day, today, 0)
      BY <2>4, <3>1 DEF Writer
    <3>3. r \in Rotate(h, d, today)
      BY <2>1, <2>3, <2>8, <3>1 DEF Opened
    <3>4. PICK c : c = CloseFile(h)
      OBVIOUS
    <3>5. h.handle = "open"
      BY <3>2 DEF Writer
    <3>6. r \in OpenNew(c, d, today, {})
      BY <3>3, <3>4, <3>5 DEF Rotate
    <3>7. c = Writer("shut", size, x, day, today, 0)
      BY <3>2, <3>4, <3>5 DEF CloseFile, Writer
    <3>8. IsWriter(c) /\ c.lastDay = today /\ c.curFileIndex = 0 /\ c.createDay = day /\ c.curIndex = x
      BY <3>7 DEF Writer, IsWriter
    <3>9. Moved(c, d) = m
      BY <2>5, <2>6, <3>8 DEF Moved
    <3>10. QED
      BY <2>7, <3>6, <3>8, <3>9, OpenNewKeeps
  <2>9. CASE day = logDay /\ f.curSize + 1 > LogMaxSize
    <3>1. r \in Rotate(f, d, today)
      BY <2>1, <2>3, <2>9 DEF Opened
    <3>2. PICK c : c = CloseFile(f)
      OBVIOUS
    <3>3. r \in OpenNew(c, d, today, {})
      BY <2>1, <3>1, <3>2 DEF Rotate
    <3>4. c = Writer("shut", size, x, day, day, nextIndex)
      BY <2>1, <2>4, <3>2 DEF CloseFile, Writer
    <3>5. IsWriter(c) /\ c.lastDay = today /\ c.curFileIndex = x + 1 /\ c.createDay = day /\ c.curIndex = x
      BY <2>5, <2>9, <3>4 DEF Writer, IsWriter
    <3>6. Moved(c, d) = m
      BY <2>5, <2>6, <3>5 DEF Moved
    <3>7. c.curFileIndex \in Nat \ {0} /\ c.curFileIndex - 1 = x
      BY <2>5, <3>5
    <3>8. Indices(m.arch, today) = 1..(c.curFileIndex - 1)
      BY <2>7, <2>9, <3>7
    <3>9. QED
      BY <2>7, <3>3, <3>5, <3>6, <3>7, <3>8, OpenNewKeeps
  <2>10. CASE day = logDay /\ ~(f.curSize + 1 > LogMaxSize)
    <3>1. r = Result(f, d, TRUE, {})
      BY <2>1, <2>3, <2>10 DEF Opened
    <3>2. Success(r, f, d)
      BY <3>1 DEF Result, Success
    <3>3. QED
      BY <2>1, <3>2
  <2>11. QED
    BY <2>8, <2>9, <2>10
<1>3. QED
  BY <1>1, <1>2

\* Write adds its line to the files, as their last.
LEMMA WriteKeeps ==
  ASSUME NEW today \in Nat \ {0}, today = logDay, NEW f, NEW d, DiskOK(d, today), WriterOK(f, d, today),
         NEW line \in Nat \ {0}, \A i \in FileLines(d) : i < line,
         NEW r \in Write(f, d, line, today), r.cause = {}
  PROVE  DiskOK(r.d, today) /\ WriterOK(r.f, r.d, today) /\ FileLines(r.d) = FileLines(d) \cup {line}
<1>1. PICK o \in Opened(f, d, today) :
        r = IF o.ok /\ o.f.handle = "open"
            THEN [o EXCEPT !.f.curSize = @ + 1, !.d.cur = Append(@, line)] ELSE o
  BY DEF Write
<1>2. o.cause = {}
  <2>1. CASE r = o
    BY <2>1
  <2>2. CASE r = [o EXCEPT !.f.curSize = @ + 1, !.d.cur = Append(@, line)]
    BY <2>2
  <2>3. QED
    BY <1>1, <2>1, <2>2
<1>3. PICK g, e : /\ Success(o, g, e) /\ g.handle = "open"
                  /\ DiskOK(e, today) /\ WriterOK(g, e, today) /\ FileLines(e) = FileLines(d)
  BY <1>2, OpenedKeeps
<1>4. o.ok = TRUE /\ o.f = g /\ o.d = e
  BY <1>3 DEF Success
<1>5. r = [o EXCEPT !.f.curSize = @ + 1, !.d.cur = Append(@, line)]
  BY <1>1, <1>3, <1>4
<1>6. r.f = [g EXCEPT !.curSize = @ + 1] /\ r.d = [e EXCEPT !.cur = Append(@, line)]
  BY <1>3, <1>5 DEF Success
<1>7. PICK cur, arch : cur \in Seq(Nat) /\ e = [cur |-> cur, arch |-> arch]
  BY <1>3 DEF DiskOK, IsDisk
<1>8. PICK x, y : x = r.f /\ y = r.d
  OBVIOUS
<1>9. Append(cur, line) \in Seq(Nat) /\ Append(cur, line) # NoFile
  <2>1. Append(cur, line) \in Seq(Nat)
    BY <1>7, AppendProperties
  <2>2. Elems(Append(cur, line)) = Elems(cur) \cup {line}
    BY <1>7, ElemsAppend
  <2>3. Elems(NoFile) = {0}
    BY DEF Elems, NoFile
  <2>4. QED
    BY <2>1, <2>2, <2>3
<1>10. y = [cur |-> Append(cur, line), arch |-> arch] /\ e.cur = cur /\ e.arch = arch
  BY <1>6, <1>7, <1>8
<1>11. y.cur = Append(cur, line) /\ y.arch = arch /\ y.cur # NoFile /\ IsDisk(y)
  BY <1>9, <1>10 DEF IsDisk
<1>12. InFile(y.cur) = InFile(cur) \cup {line}
  BY <1>7, <1>11, InFileAppend
<1>13. FileLines(y) = FileLines(d) \cup {line}
  BY <1>3, <1>10, <1>11, <1>12 DEF FileLines
<1>14. FilesInOrder(y)
  <2>1. \A i \in ArchiveLines(arch) : i < line
    BY <1>3, <1>10 DEF FileLines
  <2>2. FilesInOrder(e)
    BY <1>3 DEF DiskOK
  <2>3. QED
    BY <1>10, <1>11, <1>12, <2>1, <2>2 DEF FilesInOrder
<1>15. DiskOK(y, today)
  BY <1>3, <1>10, <1>11, <1>13, <1>14 DEF DiskOK
<1>16. PICK h, size, index, create, last, nextIndex : g = Writer(h, size, index, create, last, nextIndex)
  BY <1>3 DEF WriterOK, IsWriter, NewWriter, Writer
<1>17. x = Writer(h, size + 1, index, create, last, nextIndex)
  BY <1>6, <1>8, <1>16 DEF Writer
<1>18. /\ IsWriter(x) /\ x.handle = g.handle /\ x.lastDay = g.lastDay /\ x.createDay = g.createDay
       /\ x.curIndex = g.curIndex /\ x.curFileIndex = g.curFileIndex
  BY <1>16, <1>17 DEF Writer, IsWriter
<1>19. WriterOK(x, y, today)
  <2>1. g # NewWriter
    BY <1>3 DEF NewWriter
  <2>2. QED
    BY <1>3, <1>10, <1>11, <1>18, <2>1 DEF WriterOK
<1>20. QED
  BY <1>8, <1>13, <1>15, <1>19

\* The files and the Writer of a day are in order the day after.
LEMMA NextDay ==
  ASSUME NEW today \in Nat \ {0}, NEW d, DiskOK(d, today)
  PROVE  DiskOK(d, today + 1) /\ \A f : WriterOK(f, d, today) => WriterOK(f, d, today + 1)
<1>1. PICK arch : arch = d.arch
  OBVIOUS
<1>2. /\ IsFiniteSet(DOMAIN arch) /\ DOMAIN arch \subseteq (1..today) \X (Nat \ {0})
      /\ \A day \in 1..today : \E k \in 0..Cardinality(DOMAIN arch) : Indices(arch, day) = 1..k
  BY <1>1 DEF DiskOK, ArchivesOK
<1>3. Indices(arch, today + 1) = 1..0 /\ 0 \in 0..Cardinality(DOMAIN arch)
  <2>1. \A n \in DOMAIN arch : n[1] \in 1..today
    BY <1>2
  <2>2. \A n \in DOMAIN arch : n[1] # today + 1
    BY <2>1
  <2>3. Indices(arch, today + 1) = {}
    BY <2>2 DEF Indices
  <2>4. Cardinality(DOMAIN arch) \in Nat
    BY <1>2, FS_CardinalityType
  <2>5. QED
    BY <2>3, <2>4
<1>4. ArchivesOK(arch, today + 1)
  <2>1. DOMAIN arch \subseteq (1..(today + 1)) \X (Nat \ {0})
    BY <1>2
  <2>2. ASSUME NEW day \in 1..(today + 1)
        PROVE  \E k \in 0..Cardinality(DOMAIN arch) : Indices(arch, day) = 1..k
    <3>1. day \in 1..today \/ day = today + 1
      OBVIOUS
    <3>2. QED
      BY <1>2, <1>3, <3>1
  <2>3. QED
    BY <1>2, <2>1, <2>2 DEF ArchivesOK
<1>5. DiskOK(d, today + 1)
  BY <1>1, <1>4 DEF DiskOK
<1>6. \A f : WriterOK(f, d, today) => WriterOK(f, d, today + 1)
  BY DEF WriterOK
<1>7. QED
  BY <1>5, <1>6

(* --------------------------- The channel's lines ----------------------- *)

\* What the goroutine takes from the channel is the next line; the rest is behind.
LEMMA TakeLine ==
  ASSUME ChanInv, logChan # <<>>
  PROVE  /\ Taken \in Nat /\ Head(logChan).line = Taken + 1
         /\ Tail(logChan) \in Seq([line : Nat, fatal : BOOLEAN])
         /\ Len(Tail(logChan)) = Len(logChan) - 1 /\ Len(logChan) \in Nat /\ logLast \in Nat
         /\ Len(logChan) <= logLast
         /\ \A i \in DOMAIN Tail(logChan) : Tail(logChan)[i].line = Taken + 1 + i
         /\ {Tail(logChan)[i].line : i \in DOMAIN Tail(logChan)} = (Taken + 2)..logLast
<1> DEFINE T == [line : Nat, fatal : BOOLEAN]
           n == Len(logChan)
           L == Tail(logChan)
<1>1. /\ logChan \in Seq(T) /\ n \in Nat \ {0} /\ DOMAIN logChan = 1..n /\ logLast \in Nat /\ n <= logLast
      /\ \A i \in 1..n : logChan[i].line = Taken + i
  BY LenProperties, EmptySeq DEF ChanInv
<1>2. Taken = logLast - n
  BY DEF Taken
<1>3. PICK t : t = Taken
  OBVIOUS
<1>4. t \in Nat /\ t + n = logLast
  BY <1>1, <1>2, <1>3
<1> HIDE DEF T
<1>5. L \in Seq(T) /\ Len(L) = n - 1 /\ (\A i \in 1..(n - 1) : L[i] = logChan[i + 1]) /\ Head(logChan) = logChan[1]
  BY <1>1, HeadTailProperties
<1>6. DOMAIN L = 1..(n - 1)
  BY <1>5, LenProperties
<1> HIDE DEF n, L
<1>7. \A i \in 1..(n - 1) : L[i].line = t + 1 + i
  <2>1. ASSUME NEW i \in 1..(n - 1) PROVE L[i].line = t + 1 + i
    <3>1. i + 1 \in 1..n /\ t + (i + 1) = t + 1 + i
      BY <1>1, <1>4
    <3>2. QED
      BY <1>1, <1>3, <1>5, <3>1
  <2>2. QED
    BY <2>1
<1>8. {L[i].line : i \in 1..(n - 1)} = (t + 2)..logLast
  <2>1. ASSUME NEW j \in (t + 2)..logLast PROVE \E i \in 1..(n - 1) : L[i].line = j
    <3>1. j - t - 1 \in 1..(n - 1) /\ t + 1 + (j - t - 1) = j
      BY <1>1, <1>4
    <3>2. QED
      BY <1>7, <3>1
  <2>2. ASSUME NEW i \in 1..(n - 1) PROVE L[i].line \in (t + 2)..logLast
    <3>1. t + 1 + i \in (t + 2)..logLast
      BY <1>1, <1>4
    <3>2. QED
      BY <1>7, <3>1
  <2>3. QED
    BY <2>1, <2>2
<1>9. Head(logChan).line = t + 1
  BY <1>1, <1>3, <1>5
<1>10. QED
  BY <1>1, <1>3, <1>4, <1>5, <1>6, <1>7, <1>8, <1>9 DEF n, L, T

\* The channel holds the lines that were not taken.
LEMMA QueuedLines == ChanInv => Queued = (Taken + 1)..logLast /\ Taken \in Nat /\ Taken <= logLast /\ logLast \in Nat
<1> DEFINE n == Len(logChan)
<1>1. SUFFICES ASSUME ChanInv
               PROVE  Queued = (Taken + 1)..logLast /\ Taken \in Nat /\ Taken <= logLast /\ logLast \in Nat
  OBVIOUS
<1>2. /\ n \in Nat /\ DOMAIN logChan = 1..n /\ logLast \in Nat /\ n <= logLast
      /\ \A i \in 1..n : logChan[i].line = Taken + i
  BY <1>1, LenProperties DEF ChanInv
<1>3. Taken = logLast - n
  BY DEF Taken
<1>4. PICK t : t = Taken
  OBVIOUS
<1>5. t \in Nat /\ t + n = logLast /\ t <= logLast
  BY <1>2, <1>3, <1>4
<1> HIDE DEF n
<1>6. {logChan[i].line : i \in 1..n} = (t + 1)..logLast
  <2>1. ASSUME NEW j \in (t + 1)..logLast PROVE \E i \in 1..n : logChan[i].line = j
    <3>1. j - t \in 1..n /\ t + (j - t) = j
      BY <1>2, <1>5
    <3>2. QED
      BY <1>2, <1>4, <3>1
  <2>2. ASSUME NEW i \in 1..n PROVE logChan[i].line \in (t + 1)..logLast
    <3>1. t + i \in (t + 1)..logLast
      BY <1>2, <1>5
    <3>2. QED
      BY <1>2, <1>4, <3>1
  <2>3. QED
    BY <2>1, <2>2
<1>7. QED
  BY <1>2, <1>4, <1>5, <1>6 DEF Queued

(* ------------------------------- The steps ----------------------------- *)

\* A process begins with a new Writer, without files the first time.
LEMMA LogInitOK == LogInit => LogInv
<1>1. SUFFICES ASSUME LogInit PROVE LogInv
  OBVIOUS
<1>2. logChan = <<>> /\ Len(logChan) = 0 /\ logLast = 0 /\ logDay = 1 /\ logCut = {} /\ Taken = 0
  <2>1. logChan = <<>> /\ logLast = 0 /\ logDay = 1 /\ logCut = {}
    BY <1>1 DEF LogInit
  <2>2. Len(logChan) = 0
    BY <2>1
  <2>3. Taken = 0
    <3>1. logLast = 0
      BY <2>1
    <3>2. QED
      BY <2>2, <3>1 DEF Taken
  <2>4. QED
    BY <2>1, <2>2, <2>3
<1>3. ChanInv
  BY <1>2 DEF ChanInv
<1>4. EndInv
  BY <1>1 DEF LogInit, EndInv
<1>5. PICK d : d = logDisk
  OBVIOUS
<1>6. d = [cur |-> NoFile, arch |-> <<>>]
  BY <1>1, <1>5 DEF LogInit
<1>7. d.cur = NoFile /\ d.arch = <<>> /\ DOMAIN d.arch = {} /\ IsDisk(d)
  <2>1. NoFile \in Seq(Nat)
    BY DEF NoFile
  <2>2. d.cur = NoFile /\ d.arch = <<>>
    BY <1>6
  <2>3. DOMAIN <<>> = {}
    OBVIOUS
  <2>4. IsDisk(d)
    BY <1>6, <2>1 DEF IsDisk
  <2>5. QED
    BY <2>2, <2>3, <2>4
<1>8. ArchiveLines(d.arch) = {} /\ FileLines(d) = {}
  BY <1>7, InFileEmpty DEF ArchiveLines, FileLines
<1>9. ArchivesOK(d.arch, 1)
  <2>1. IsFiniteSet(DOMAIN d.arch) /\ Cardinality(DOMAIN d.arch) = 0
    BY <1>7, FS_EmptySet
  <2>2. \A day : Indices(d.arch, day) = 1..0
    BY <1>7 DEF Indices
  <2>3. PICK arch : arch = d.arch
    OBVIOUS
  <2>4. 0 \in 0..Cardinality(DOMAIN arch) /\ DOMAIN arch \subseteq (1..1) \X (Nat \ {0})
    BY <1>7, <2>1, <2>3
  <2>5. QED
    BY <2>1, <2>2, <2>3, <2>4 DEF ArchivesOK
<1>10. FilesInOrder(d)
  BY <1>7, <1>8 DEF FilesInOrder
<1>11. DiskOK(d, 1)
  BY <1>7, <1>8, <1>9, <1>10 DEF DiskOK
<1>12. logFile = NewWriter /\ IsWriter(NewWriter)
  <2>1. NewWriter = Writer("none", 0, 0, 0, 0, 0)
    BY DEF NewWriter, Writer
  <2>2. QED
    BY <1>1, <2>1 DEF LogInit, IsWriter
<1>13. FilesInv
  BY <1>2, <1>5, <1>8, <1>11, <1>12 DEF FilesInv, WriterOK
<1>14. QED
  BY <1>3, <1>4, <1>13 DEF LogInv

\* A caller puts its line behind the others, or finds the logger closed.
LEMMA LogPrintOK ==
  ASSUME LogInv, NEW c, NEW fatal \in BOOLEAN, LogPrint(c, fatal) PROVE LogInv'
<1> DEFINE T == [line : Nat, fatal : BOOLEAN]
<1>1. /\ ChanInv /\ EndInv /\ FilesInv /\ logChan \in Seq(T) /\ logLast \in Nat
      /\ Len(logChan) <= logLast /\ Len(logChan) \in Nat
  BY LenProperties DEF LogInv, ChanInv
<1>2. CASE LogClosed
  BY <1>1, <1>2 DEF LogPrint, LogInv, ChanInv, EndInv, FilesInv, Taken, LogClosed
<1>3. CASE ~LogClosed
  <2>1. PICK m : m = [line |-> logLast + 1, fatal |-> fatal]
    OBVIOUS
  <2>2. m \in T /\ m.line = logLast + 1
    BY <1>1, <2>1
  <2>3. logLast' = logLast + 1 /\ logChan' = Append(logChan, m)
    BY <1>3, <2>1 DEF LogPrint
  <2> HIDE DEF T
  <2>4. /\ logChan' \in Seq(T) /\ Len(logChan') = Len(logChan) + 1
        /\ \A i \in 1..Len(logChan) : logChan'[i] = logChan[i]
        /\ logChan'[Len(logChan) + 1] = m
    BY <1>1, <2>2, <2>3, AppendProperties
  <2>5. DOMAIN logChan' = 1..Len(logChan') /\ DOMAIN logChan = 1..Len(logChan)
    BY <1>1, <2>4, LenProperties
  <2>6. Taken' = Taken
    BY <1>1, <2>3, <2>4 DEF Taken
  <2>7. \A i \in DOMAIN logChan' : logChan'[i].line = Taken' + i
    <3>1. ASSUME NEW i \in 1..(Len(logChan) + 1) PROVE logChan'[i].line = Taken + i
      <4>1. i \in 1..Len(logChan) \/ i = Len(logChan) + 1
        BY <1>1
      <4>2. CASE i \in 1..Len(logChan)
        BY <1>1, <2>4, <2>5, <4>2 DEF ChanInv
      <4>3. CASE i = Len(logChan) + 1
        <5>1. Taken + i = logLast + 1
          BY <1>1, <4>3 DEF Taken
        <5>2. QED
          BY <2>2, <2>4, <4>3, <5>1
      <4>4. QED
        BY <4>1, <4>2, <4>3
    <3>2. QED
      BY <2>4, <2>5, <2>6, <3>1
  <2>8. logDay' = logDay /\ logLast' \in Nat /\ Len(logChan') <= logLast'
    BY <1>1, <2>3, <2>4 DEF LogPrint
  <2>9. ChanInv'
    BY <1>1, <2>4, <2>7, <2>8 DEF ChanInv, T
  <2>10. EndInv'
    BY <1>1, <1>3 DEF LogPrint, EndInv, LogClosed
  <2>11. FilesInv'
    BY <1>1, <2>6 DEF LogPrint, FilesInv
  <2>12. QED
    BY <2>9, <2>10, <2>11 DEF LogInv
<1>4. QED
  BY <1>2, <1>3

\* The goroutine writes the next line to the files, and exits after a fatal one.
LEMMA LogWriteOK == ASSUME LogInv, LogWrite PROVE LogInv'
<1> DEFINE T == [line : Nat, fatal : BOOLEAN]
<1>1. ChanInv /\ EndInv /\ FilesInv /\ logLoop /\ logChan # <<>> /\ logDay \in Nat \ {0}
  BY DEF LogInv, ChanInv, LogWrite
<1>2. PICK item : item = Head(logChan)
  OBVIOUS
<1>3. PICK day \in {logDay, logDay + 1} \cap Days :
        \E r \in Write(logFile, logDisk, item.line, day) :
          /\ day = logDay \/ "midnight" \in r.cause
          /\ logFile' = r.f /\ logDisk' = r.d /\ logDay' = day /\ logCause' = logCause \cup r.cause
  BY <1>2 DEF LogWrite
<1>4. PICK r \in Write(logFile, logDisk, item.line, day) :
        /\ day = logDay \/ "midnight" \in r.cause
        /\ logFile' = r.f /\ logDisk' = r.d /\ logDay' = day /\ logCause' = logCause \cup r.cause
  BY <1>3
<1>5. /\ logLast' = logLast
      /\ IF item.fatal THEN Exit(Tail(logChan))
         ELSE logChan' = Tail(logChan) /\ UNCHANGED <<logExited, logLoop, logReaders, logClose, logCut>>
  BY <1>2 DEF LogWrite
<1>6. PICK t, rest : t = Taken /\ rest = Tail(logChan)
  OBVIOUS
<1>7. /\ t \in Nat /\ item.line = t + 1 /\ rest \in Seq(T)
      /\ Len(rest) = Len(logChan) - 1 /\ Len(logChan) \in Nat /\ logLast \in Nat /\ Len(logChan) <= logLast
      /\ \A i \in DOMAIN rest : rest[i].line = t + 1 + i
      /\ {rest[i].line : i \in DOMAIN rest} = (t + 2)..logLast
      /\ t = logLast - Len(logChan)
  BY <1>1, <1>2, <1>6, TakeLine DEF Taken
<1>8. Len(rest) \in Nat
  BY <1>7, LenProperties
<1>9. logDay' \in Nat \ {0}
  BY <1>1, <1>4
<1>10. ASSUME logCause' = {}
      PROVE  /\ DiskOK(logDisk', logDay') /\ WriterOK(logFile', logDisk', logDay')
             /\ FileLines(logDisk') = FileLines(logDisk) \cup {t + 1} /\ FileLines(logDisk) \cup logCut = 1..t
  <2>1. r.cause = {} /\ logCause = {} /\ day = logDay
    BY <1>4, <1>10
  <2>2. DiskOK(logDisk, logDay) /\ WriterOK(logFile, logDisk, logDay) /\ FileLines(logDisk) \cup logCut = 1..t
    BY <1>1, <1>6, <2>1 DEF FilesInv
  <2>3. t + 1 \in Nat \ {0} /\ \A i \in FileLines(logDisk) : i < t + 1
    BY <1>7, <2>2
  <2>4. PICK today, f, d, line : today = logDay /\ f = logFile /\ d = logDisk /\ line = t + 1
    OBVIOUS
  <2>5. r \in Write(f, d, line, today) /\ DiskOK(d, today) /\ WriterOK(f, d, today)
        /\ today \in Nat \ {0} /\ line \in Nat \ {0} /\ \A i \in FileLines(d) : i < line
    BY <1>1, <1>4, <1>7, <2>1, <2>2, <2>3, <2>4
  <2>6. DiskOK(r.d, today) /\ WriterOK(r.f, r.d, today) /\ FileLines(r.d) = FileLines(d) \cup {line}
    BY <2>1, <2>4, <2>5, WriteKeeps
  <2>7. QED
    BY <1>4, <2>1, <2>2, <2>4, <2>6
<1>11. CASE ~item.fatal
  <2>1. logChan' = rest /\ logLoop' = logLoop /\ logClose' = logClose /\ logCut' = logCut
    BY <1>5, <1>6, <1>11
  <2>2. Taken' = t + 1
    <3>1. Taken' = logLast' - Len(logChan')
      BY DEF Taken
    <3>2. logLast' = logLast /\ logChan' = rest
      BY <1>5, <2>1
    <3>3. Len(logChan') = Len(logChan) - 1
      BY <1>7, <3>2
    <3>4. t = logLast - Len(logChan) /\ Len(logChan) \in Nat /\ logLast \in Nat
      BY <1>7
    <3>5. Taken' = logLast - (Len(logChan) - 1)
      BY <3>1, <3>2, <3>3
    <3>6. QED
      BY <3>4, <3>5
  <2>3. Len(rest) <= logLast
    BY <1>7
  <2>4. ChanInv'
    BY <1>5, <1>7, <1>9, <2>1, <2>2, <2>3 DEF ChanInv
  <2>5. EndInv'
    BY <1>1, <2>1 DEF EndInv
  <2>6. FilesInv'
    <3>1. SUFFICES ASSUME logCause' = {}
                   PROVE  /\ DiskOK(logDisk', logDay') /\ WriterOK(logFile', logDisk', logDay')
                          /\ FileLines(logDisk') \cup logCut' = 1..Taken'
      BY DEF FilesInv
    <3>2. (1..t) \cup {t + 1} = 1..(t + 1)
      BY <1>7
    <3>3. FileLines(logDisk') = FileLines(logDisk) \cup {t + 1} /\ FileLines(logDisk) \cup logCut = 1..t
      BY <1>10, <3>1
    <3>4. FileLines(logDisk') \cup logCut = (1..t) \cup {t + 1}
      BY <3>3
    <3>5. QED
      BY <1>10, <2>1, <2>2, <3>1, <3>2, <3>4
  <2>7. QED
    BY <2>4, <2>5, <2>6 DEF LogInv
<1>12. CASE item.fatal
  <2>1. /\ logChan' = <<>> /\ logLoop' = FALSE /\ logClose' = "closed"
        /\ logCut' = logCut \cup ((t + 2)..logLast)
    BY <1>5, <1>6, <1>7, <1>12 DEF Exit
  <2>2. Taken' = logLast
    BY <1>5, <1>7, <2>1 DEF Taken
  <2>3. ChanInv'
    BY <1>5, <1>7, <1>9, <2>1 DEF ChanInv
  <2>4. EndInv'
    BY <2>1 DEF EndInv, LogClosed
  <2>5. FilesInv'
    <3>1. SUFFICES ASSUME logCause' = {}
                   PROVE  DiskOK(logDisk', logDay') /\ FileLines(logDisk') \cup logCut' = 1..Taken'
      BY <2>1 DEF FilesInv
    <3>2. Len(logChan) >= 1
      BY <1>7, <1>8
    <3>3. (1..t) \cup {t + 1} \cup ((t + 2)..logLast) = 1..logLast
      BY <1>7, <3>2
    <3>4. FileLines(logDisk') = FileLines(logDisk) \cup {t + 1} /\ FileLines(logDisk) \cup logCut = 1..t
      BY <1>10, <3>1
    <3>5. FileLines(logDisk') \cup logCut' = (1..t) \cup {t + 1} \cup ((t + 2)..logLast)
      BY <2>1, <3>4
    <3>6. QED
      BY <1>10, <2>2, <3>1, <3>3, <3>5
  <2>6. QED
    BY <2>3, <2>4, <2>5 DEF LogInv
<1>13. QED
  BY <1>11, <1>12

\* The steps of Close, and the end of the goroutine.
LEMMA LogCloseOK ==
  ASSUME LogInv, LogCloseWant \/ LogCloseLock \/ LogCloseEnd \/ LogLoopEnd PROVE LogInv'
<1>1. ChanInv /\ EndInv /\ FilesInv
  BY DEF LogInv
<1>2. UNCHANGED <<logChan, logDisk, logDay, logLast, logCut, logCause>> /\ Taken' = Taken
  BY DEF LogCloseWant, LogCloseLock, LogCloseEnd, LogLoopEnd, Taken
<1>3. ChanInv'
  BY <1>1, <1>2 DEF ChanInv
<1>4. EndInv'
  BY <1>1 DEF EndInv, LogClosed, LogCloseWant, LogCloseLock, LogCloseEnd, LogLoopEnd
<1>5. logLoop' => logLoop /\ logFile' = logFile
  BY DEF LogCloseWant, LogCloseLock, LogCloseEnd, LogLoopEnd
<1>6. FilesInv'
  BY <1>1, <1>2, <1>5 DEF FilesInv
<1>7. QED
  BY <1>3, <1>4, <1>6 DEF LogInv

\* At midnight the files are those of the day before.
LEMMA LogDayOK == ASSUME LogInv, LogMidnight PROVE LogInv'
<1>1. ChanInv /\ EndInv /\ FilesInv /\ logDay \in Nat \ {0}
  BY DEF LogInv, ChanInv
<1>2. /\ logDay' = logDay + 1 /\ Taken' = Taken
      /\ UNCHANGED <<logClose, logChan, logLoop, logFile, logDisk, logLast, logCut, logCause>>
  BY DEF LogMidnight, Taken
<1>3. ChanInv' /\ EndInv'
  BY <1>1, <1>2 DEF ChanInv, EndInv, LogClosed
<1>4. FilesInv'
  BY <1>1, <1>2, NextDay DEF FilesInv
<1>5. QED
  BY <1>3, <1>4 DEF LogInv

\* A new process has a new Writer and the old files.
LEMMA LogRestartOK == ASSUME LogInv, LogRestart PROVE LogInv'
<1>1. ChanInv /\ EndInv /\ FilesInv /\ logClose = "closed" /\ logChan = <<>>
  BY DEF LogInv, EndInv, LogRestart
<1>2. /\ logLoop' = TRUE /\ logFile' = NewWriter /\ Taken' = Taken
      /\ UNCHANGED <<logChan, logDisk, logDay, logLast, logCut, logCause>>
  BY DEF LogRestart, Taken
<1>3. ChanInv'
  BY <1>1, <1>2 DEF ChanInv
<1>4. EndInv'
  BY DEF LogRestart, EndInv
<1>5. WriterOK(NewWriter, logDisk, logDay)
  <2>1. NewWriter = Writer("none", 0, 0, 0, 0, 0)
    BY DEF NewWriter, Writer
  <2>2. QED
    BY <2>1 DEF WriterOK, IsWriter
<1>6. FilesInv'
  BY <1>1, <1>2, <1>5 DEF FilesInv
<1>7. QED
  BY <1>3, <1>4, <1>6 DEF LogInv

\* The invariant implies that no line is lost or out of order.
LEMMA LogInvKept == LogInv => LogKept
<1>1. SUFFICES ASSUME LogInv PROVE LogKept
  OBVIOUS
<1>2. ASSUME logCause = {} PROVE Lines = Queued \cup OnDisk \cup logCut /\ InOrder
  <2>1. DiskOK(logDisk, logDay) /\ FileLines(logDisk) \cup logCut = 1..Taken
    BY <1>1, <1>2 DEF LogInv, FilesInv
  <2>2. FileLines(logDisk) = OnDisk /\ ArchiveLines(logDisk.arch) = Archived
    BY DEF FileLines, OnDisk, Archived, ArchiveLines
  <2>3. Queued = (Taken + 1)..logLast /\ Taken \in Nat /\ Taken <= logLast /\ logLast \in Nat
    BY <1>1, QueuedLines DEF LogInv
  <2>4. PICK t : t = Taken
    OBVIOUS
  <2>5. (1..t) \cup ((t + 1)..logLast) = 1..logLast
    BY <2>3, <2>4
  <2>6. Lines = Queued \cup OnDisk \cup logCut
    BY <2>1, <2>2, <2>3, <2>4, <2>5 DEF Lines
  <2>7. InOrder
    BY <2>1, <2>2 DEF DiskOK, FilesInOrder, InOrder
  <2>8. QED
    BY <2>6, <2>7
<1>3. logClose = "closed" => logChan = <<>>
  BY <1>1 DEF LogInv, EndInv
<1>4. QED
  BY <1>2, <1>3 DEF LogKept

\* No line is lost or out of order, over days, rotations and restarts, and
\* once Close has returned all is in the files (log.go:98-104, file.go:57-71),
\* but for the causes that the history names.
THEOREM LinesKept == LogSpec => []LogKept
<1>1. LogInit => LogInv
  BY LogInitOK
<1>2. LogInv /\ [LogNext]_logVars => LogInv'
  <2>1. SUFFICES ASSUME LogInv, [LogNext]_logVars PROVE LogInv'
    OBVIOUS
  <2>2. CASE LogNext
    <3>1. ASSUME NEW c \in LogCallers, LogLock(c) PROVE LogInv'
      BY <2>1, <3>1 DEF LogLock, LogInv, ChanInv, EndInv, FilesInv, Taken, LogClosed
    <3>2. ASSUME NEW c \in LogCallers, NEW fatal \in BOOLEAN, LogPrint(c, fatal) PROVE LogInv'
      BY <2>1, <3>2, LogPrintOK
    <3>3. QED
      BY <2>1, <2>2, <3>1, <3>2, LogCloseOK, LogWriteOK, LogDayOK, LogRestartOK DEF LogNext, LogStep
  <2>3. CASE UNCHANGED logVars
    BY <2>1, <2>3 DEF logVars, LogInv, ChanInv, EndInv, FilesInv, Taken, LogClosed
  <2>4. QED
    BY <2>1, <2>2, <2>3
<1>3. LogInv => LogKept
  BY LogInvKept
<1>4. QED
  BY <1>1, <1>2, <1>3, PTL DEF LogSpec

(* ------------------------------ Log: types ----------------------------- *)

Handles == {"none", "nil", "open", "shut"}
Causes == {"fault", "full", "midnight"}
Writers == [handle : Handles, curSize : Nat, curIndex : Nat, createDay : 0..LogMaxDay,
            lastDay : 0..LogMaxDay, curFileIndex : Nat]

\* Files of lines up to the last that was printed.
FilesTyped(d, last) ==
  \E cur, arch :
    /\ d = [cur |-> cur, arch |-> arch] /\ cur \in Seq(0..last)
    /\ IsFiniteSet(DOMAIN arch) /\ DOMAIN arch \subseteq (0..LogMaxDay) \X Nat
    /\ \A n \in DOMAIN arch : arch[n] \in Seq(0..last)

\* An outcome of a call on the files.
Typed(r, last) ==
  /\ r.f \in Writers /\ FilesTyped(r.d, last) /\ r.cause \subseteq Causes
  /\ \E f, d, ok, cause : r = Result(f, d, ok, cause)

\* The types, with no more callers in doPrintf than may still print.
LogTypes ==
  /\ logRun \in 1..LogMaxRuns /\ logExited \in BOOLEAN
  /\ logClose \in {"open", "wanted", "draining", "closed"}
  /\ logReaders \subseteq LogCallers /\ logLoop \in BOOLEAN
  /\ logChan \in Seq([line : Lines, fatal : BOOLEAN]) /\ Len(logChan) <= LogCap
  /\ logFile \in Writers /\ FilesTyped(logDisk, logLast)
  /\ logCut \subseteq Lines /\ logDay \in Days /\ logCause \subseteq Causes
  /\ logLast \in Nat /\ IsFiniteSet(logReaders) /\ logLast + Cardinality(logReaders) <= LogMaxLines

\* An index is found, whatever archives there are: more names than archives.
LEMMA IndexType ==
  ASSUME NEW f \in Writers, NEW arch, IsFiniteSet(DOMAIN arch)
  PROVE  GetCurFileIndex(f, arch) \in Nat
<1> DEFINE day == f.lastDay
           D == DOMAIN arch
           card == Cardinality(D)
           Free == {i \in Nat \ {0} : <<day, i>> \notin D}
           P(i) == <<day, i>> \notin D /\ \A j \in 1..(i-1) : <<day, j>> \in D
<1>1. CASE f.curFileIndex # 0
  BY <1>1 DEF GetCurFileIndex, Writers
<1>2. CASE f.curFileIndex = 0
  <2>1. GetCurFileIndex(f, arch) = CHOOSE i \in 1..(card + 1) : P(i)
    BY <1>2 DEF GetCurFileIndex
  <2>2. card \in Nat
    BY FS_CardinalityType
  <2>3. PICK e \in 1..(card + 1) : <<day, e>> \notin D
    <3>1. SUFFICES ASSUME \A i \in 1..(card + 1) : <<day, i>> \in D PROVE FALSE
      OBVIOUS
    <3> DEFINE g == [i \in 1..(card + 1) |-> <<day, i>>]
    <3> HIDE DEF card, D
    <3>2. g \in [1..(card + 1) -> D]
      BY <3>1
    <3>3. IsFiniteSet(1..(card + 1)) /\ Cardinality(1..(card + 1)) = card + 1
      BY <2>2, FS_Interval
    <3>4. IsFiniteSet(D) /\ Cardinality(D) < Cardinality(1..(card + 1))
      BY <2>2, <3>3 DEF card, D
    <3> HIDE DEF g
    <3>5. PICK x \in 1..(card + 1), y \in 1..(card + 1) : x # y /\ g[x] = g[y]
      BY <3>2, <3>3, <3>4, FS_PigeonHole
    <3>6. g[x] = <<day, x>> /\ g[y] = <<day, y>>
      BY DEF g
    <3>7. <<day, x>> = <<day, y>>
      BY <3>5, <3>6
    <3>8. QED
      BY <3>5, <3>7
  <2> HIDE DEF card, D
  <2>4. e \in Free
    BY <2>2, <2>3
  <2>5. PICK m \in Free : \A k \in Free : m <= k
    <3>1. Free \in SUBSET Nat /\ Free # {}
      BY <2>4
    <3> HIDE DEF Free
    <3>2. QED
      BY <3>1, LeastElement
  <2>6. m \in 1..(card + 1) /\ P(m)
    <3>1. m \in Nat \ {0} /\ <<day, m>> \notin D
      BY <2>5
    <3>2. m <= e
      BY <2>4, <2>5
    <3>3. ASSUME NEW j \in 1..(m-1) PROVE <<day, j>> \in D
      <4>1. j \in Nat \ {0} /\ ~(m <= j)
        BY <3>1
      <4>2. j \notin Free
        BY <2>5, <4>1
      <4>3. QED
        BY <4>1, <4>2
    <3>4. QED
      BY <2>2, <3>1, <3>2, <3>3
  <2> HIDE DEF P
  <2>7. PICK i : i = CHOOSE x \in 1..(card + 1) : P(x)
    OBVIOUS
  <2>8. i \in 1..(card + 1)
    BY <2>6, <2>7
  <2>9. QED
    BY <2>1, <2>2, <2>7, <2>8 DEF P, D, card
<1>3. QED
  BY <1>1, <1>2

\* A Writer by its fields.
LEMMA WriterFields ==
  /\ \A f \in Writers :
       /\ f = Writer(f.handle, f.curSize, f.curIndex, f.createDay, f.lastDay, f.curFileIndex)
       /\ f.handle \in Handles /\ f.curSize \in Nat /\ f.curIndex \in Nat
       /\ f.createDay \in 0..LogMaxDay /\ f.lastDay \in 0..LogMaxDay /\ f.curFileIndex \in Nat
  /\ \A h \in Handles, size, index, nextIndex \in Nat, create, day \in 0..LogMaxDay :
       Writer(h, size, index, create, day, nextIndex) \in Writers
<1> HIDE DEF Handles
<1>1. QED
  BY DEF Writers, Writer

\* A Writer before its first Write.
LEMMA WriterStarts == NewWriter \in Writers
<1>1. NewWriter = Writer("none", 0, 0, 0, 0, 0)
  BY DEF NewWriter, Writer
<1>2. "none" \in Handles /\ 0 \in Nat /\ 0 \in 0..LogMaxDay
  BY LogAssumption DEF Handles
<1>3. QED
  BY <1>1, <1>2, WriterFields

\* The current file, if there is one, becomes an archive.
LEMMA MovedTyped ==
  ASSUME NEW last \in Nat, NEW f \in Writers, NEW d, FilesTyped(d, last)
  PROVE  /\ FilesTyped(Moved(f, d), last) /\ IsFiniteSet(DOMAIN Moved(f, d).arch)
<1>1. PICK cur, arch :
        /\ d = [cur |-> cur, arch |-> arch] /\ cur \in Seq(0..last)
        /\ IsFiniteSet(DOMAIN arch) /\ DOMAIN arch \subseteq (0..LogMaxDay) \X Nat
        /\ \A n \in DOMAIN arch : arch[n] \in Seq(0..last)
  BY DEF FilesTyped
<1>2. d.cur = cur /\ d.arch = arch
  BY <1>1
<1>3. PICK name : name = <<f.createDay, f.curIndex>>
  OBVIOUS
<1>4. name \in (0..LogMaxDay) \X Nat
  BY <1>3 DEF Writers
<1> DEFINE new == [n \in DOMAIN arch \cup {name} |-> IF n = name THEN cur ELSE arch[n]]
<1>5. CASE d.cur = NoFile
  BY <1>1, <1>2, <1>5 DEF Moved
<1>6. CASE d.cur # NoFile
  <2>1. Moved(f, d) = [cur |-> NoFile, arch |-> new]
    BY <1>2, <1>3, <1>6 DEF Moved, Rename
  <2>2. IsFiniteSet(DOMAIN new) /\ DOMAIN new \subseteq (0..LogMaxDay) \X Nat
    <3>1. DOMAIN new = DOMAIN arch \cup {name}
      OBVIOUS
    <3>2. IsFiniteSet(DOMAIN arch \cup {name})
      BY <1>1, FS_AddElement
    <3>3. QED
      BY <1>1, <1>4, <3>1, <3>2
  <2>3. \A n \in DOMAIN new : new[n] \in Seq(0..last)
    BY <1>1
  <2>4. NoFile \in Seq(0..last)
    <3>1. 0 \in 0..last
      OBVIOUS
    <3>2. QED
      BY <3>1 DEF NoFile
  <2> HIDE DEF new
  <2>5. Moved(f, d).arch = new
    BY <2>1
  <2>6. QED
    BY <2>1, <2>2, <2>3, <2>4, <2>5 DEF FilesTyped
<1>7. QED
  BY <1>5, <1>6

\* Whatever openNew comes to.
LEMMA OpenNewTyped ==
  ASSUME NEW last \in Nat, NEW f \in Writers, NEW d, FilesTyped(d, last), NEW day \in Days,
         NEW cause \in SUBSET Causes, NEW r \in OpenNew(f, d, day, cause)
  PROVE  Typed(r, last)
<1>1. PICK m, i : m = Moved(f, d) /\ i = GetCurFileIndex(f, m.arch)
  OBVIOUS
<1>2. PICK g, e, c :
        /\ g = [f EXCEPT !.handle = "open", !.curSize = 0, !.curIndex = i,
                         !.createDay = day, !.curFileIndex = i + 1]
        /\ e = [m EXCEPT !.cur = <<>>]
        /\ c = cause \cup IF day = logDay THEN {} ELSE {"midnight"}
  OBVIOUS
<1>3. \/ r = Result(f, d, FALSE, {"fault"}) \/ r = Result(f, m, FALSE, {"fault"})
      \/ r = Result(g, e, TRUE, c)
  BY <1>1, <1>2 DEF OpenNew, Moved
<1>4. FilesTyped(m, last) /\ IsFiniteSet(DOMAIN m.arch)
  BY <1>1, MovedTyped
<1>5. g \in Writers
  <2>1. i \in Nat
    BY <1>1, <1>4, IndexType
  <2>2. day \in 0..LogMaxDay
    BY LogAssumption DEF Days
  <2>3. g = Writer("open", 0, i, day, f.lastDay, i + 1)
    <3>1. PICK handle, size, index, create, nextIndex :
            f = Writer(handle, size, index, create, f.lastDay, nextIndex)
      BY WriterFields
    <3>2. PICK x : x = f.lastDay
      OBVIOUS
    <3>3. f = Writer(handle, size, index, create, x, nextIndex)
      BY <3>1, <3>2
    <3>4. g = Writer("open", 0, i, day, x, i + 1)
      BY <1>2, <3>3 DEF Writer
    <3>5. QED
      BY <3>2, <3>4
  <2>4. "open" \in Handles /\ 0 \in Nat /\ i + 1 \in Nat /\ f.lastDay \in 0..LogMaxDay
    BY <2>1, WriterFields DEF Handles
  <2>5. QED
    BY <2>1, <2>2, <2>3, <2>4, WriterFields
<1>6. FilesTyped(e, last)
  <2>1. <<>> \in Seq(0..last)
    OBVIOUS
  <2>2. PICK cur, arch :
          /\ m = [cur |-> cur, arch |-> arch] /\ cur \in Seq(0..last)
          /\ IsFiniteSet(DOMAIN arch) /\ DOMAIN arch \subseteq (0..LogMaxDay) \X Nat
          /\ \A n \in DOMAIN arch : arch[n] \in Seq(0..last)
    BY <1>4 DEF FilesTyped
  <2>3. e = [cur |-> <<>>, arch |-> arch]
    BY <1>2, <2>2
  <2>4. QED
    BY <2>1, <2>2, <2>3 DEF FilesTyped
<1>7. c \subseteq Causes /\ {"fault"} \subseteq Causes
  BY <1>2 DEF Causes
<1>8. \A a, b, ok, k : a \in Writers /\ FilesTyped(b, last) /\ k \subseteq Causes => Typed(Result(a, b, ok, k), last)
  BY DEF Typed, Result
<1>9. QED
  BY <1>3, <1>4, <1>5, <1>6, <1>7, <1>8

\* Whatever it takes to have a file open.
LEMMA OpenedTyped ==
  ASSUME NEW last \in Nat, NEW f \in Writers, NEW d, FilesTyped(d, last), NEW day \in Days, logDay \in Days,
         NEW r \in Opened(f, d, day)
  PROVE  Typed(r, last)
<1>1. /\ logDay \in 0..LogMaxDay
      /\ {} \in SUBSET Causes /\ {"fault"} \in SUBSET Causes /\ {"full"} \in SUBSET Causes
  BY LogAssumption DEF Days, Causes
<1>2. \A a, b, ok, k : a \in Writers /\ FilesTyped(b, last) /\ k \subseteq Causes => Typed(Result(a, b, ok, k), last)
  BY DEF Typed, Result
<1>3. \A g \in Writers : CloseFile(g) \in Writers
  BY DEF CloseFile, Writers, Handles
<1>4. ASSUME NEW g \in Writers, r \in Rotate(g, d, day) PROVE Typed(r, last)
  <2>1. r = Result(g, d, FALSE, {"fault"}) \/ r \in OpenNew(CloseFile(g), d, day, {})
    BY <1>4 DEF Rotate
  <2>2. PICK h \in Writers : h = CloseFile(g)
    BY <1>3
  <2>3. r \in OpenNew(h, d, day, {}) => Typed(r, last)
    BY <1>1, OpenNewTyped
  <2>4. QED
    BY <1>1, <1>2, <2>1, <2>2, <2>3
<1>5. ASSUME r \in OpenExistingOrNew(d, day) PROVE Typed(r, last)
  <2>1. PICK h : h = [NewWriter EXCEPT !.handle = "nil", !.lastDay = logDay]
    OBVIOUS
  <2>2. h \in Writers
    <3>1. h = Writer("nil", 0, 0, 0, logDay, 0)
      BY <2>1 DEF NewWriter, Writer
    <3>2. "nil" \in Handles /\ 0 \in Nat /\ 0 \in 0..LogMaxDay
      BY LogAssumption DEF Handles
    <3>3. QED
      BY <1>1, <3>1, <3>2, WriterFields
  <2>3. PICK i : i = GetCurFileIndex(h, d.arch)
    OBVIOUS
  <2>4. IsFiniteSet(DOMAIN d.arch) /\ Len(d.cur) \in Nat
    BY LenProperties DEF FilesTyped
  <2>5. i \in Nat
    BY <2>2, <2>3, <2>4, IndexType
  <2>6. PICK new : new = [h EXCEPT !.curFileIndex = i]
    OBVIOUS
  <2>7. PICK old : old = [new EXCEPT !.curIndex = i, !.createDay = logDay, !.curSize = Len(d.cur)]
    OBVIOUS
  <2>8. PICK g : g = [old EXCEPT !.handle = "open", !.curFileIndex = i + 1]
    OBVIOUS
  <2>9. new \in Writers
    BY <2>2, <2>5, <2>6 DEF Writers
  <2>10. old \in Writers
    BY <1>1, <2>4, <2>5, <2>7, <2>9 DEF Writers
  <2>11. g \in Writers
    <3>1. "open" \in Handles /\ i + 1 \in Nat
      BY <2>5 DEF Handles
    <3>2. QED
      BY <2>8, <2>10, <3>1 DEF Writers
  <2>12. \/ r \in OpenNew(new, d, day, {}) \/ r = Result(new, d, FALSE, {"fault"})
         \/ r \in OpenNew(old, d, day, {"full"}) \/ r = Result(g, d, TRUE, {})
         \/ r \in OpenNew(old, d, day, {"fault"})
    <3>1. CASE d.cur = NoFile
      BY <1>5, <2>1, <2>3, <2>6, <3>1 DEF OpenExistingOrNew
    <3>2. CASE d.cur # NoFile /\ Len(d.cur) + 1 >= LogMaxSize
      BY <1>5, <2>1, <2>3, <2>6, <2>7, <3>2 DEF OpenExistingOrNew
    <3>3. CASE d.cur # NoFile /\ ~(Len(d.cur) + 1 >= LogMaxSize)
      BY <1>5, <2>1, <2>3, <2>6, <2>7, <2>8, <3>3 DEF OpenExistingOrNew
    <3>4. QED
      BY <3>1, <3>2, <3>3
  <2>13. \A a \in Writers, c \in SUBSET Causes : r \in OpenNew(a, d, day, c) => Typed(r, last)
    BY OpenNewTyped
  <2>14. r = Result(new, d, FALSE, {"fault"}) \/ r = Result(g, d, TRUE, {}) => Typed(r, last)
    BY <1>1, <1>2, <2>9, <2>11
  <2>15. r \in OpenNew(new, d, day, {}) \cup OpenNew(old, d, day, {"full"}) \cup OpenNew(old, d, day, {"fault"})
           => Typed(r, last)
    BY <1>1, <2>9, <2>10, <2>13
  <2>16. QED
    BY <2>12, <2>14, <2>15
<1>6. CASE f.handle = "none"
  BY <1>5, <1>6 DEF Opened
<1>7. CASE f.handle # "none" /\ f.lastDay # logDay
  <2>1. PICK g : g = [f EXCEPT !.lastDay = logDay, !.curFileIndex = 0]
    OBVIOUS
  <2>2. g \in Writers
    BY <1>1, <2>1 DEF Writers
  <2>3. QED
    BY <1>4, <1>7, <2>1, <2>2 DEF Opened
<1>8. CASE f.handle # "none" /\ f.lastDay = logDay /\ f.curSize + 1 > LogMaxSize
  BY <1>4, <1>8 DEF Opened
<1>9. CASE f.handle # "none" /\ f.lastDay = logDay /\ ~(f.curSize + 1 > LogMaxSize)
  <2>1. r = Result(f, d, TRUE, {})
    BY <1>9 DEF Opened
  <2>2. QED
    BY <1>1, <1>2, <2>1
<1>10. QED
  BY <1>6, <1>7, <1>8, <1>9

\* Write, of a line that was printed.
LEMMA WriteTyped ==
  ASSUME NEW last \in Nat, NEW f \in Writers, NEW d, FilesTyped(d, last), NEW day \in Days, logDay \in Days,
         NEW line \in 1..last, NEW r \in Write(f, d, line, day)
  PROVE  r.f \in Writers /\ FilesTyped(r.d, last) /\ r.cause \subseteq Causes
<1>1. PICK o \in Opened(f, d, day) :
        r = IF o.ok /\ o.f.handle = "open"
            THEN [o EXCEPT !.f.curSize = @ + 1, !.d.cur = Append(@, line)] ELSE o
  BY DEF Write
<1>2. Typed(o, last)
  BY OpenedTyped
<1>3. CASE r = o
  BY <1>2, <1>3 DEF Typed
<1>4. CASE r = [o EXCEPT !.f.curSize = @ + 1, !.d.cur = Append(@, line)]
  <2>1. PICK g, e, ok, cause : o = Result(g, e, ok, cause)
    BY <1>2 DEF Typed
  <2>2. g \in Writers /\ FilesTyped(e, last) /\ cause \subseteq Causes
    BY <1>2, <2>1 DEF Typed, Result
  <2>3. r.f = [g EXCEPT !.curSize = @ + 1] /\ r.d = [e EXCEPT !.cur = Append(@, line)] /\ r.cause = cause
    BY <1>4, <2>1 DEF Result
  <2>4. r.f \in Writers
    BY <2>2, <2>3 DEF Writers
  <2>5. PICK cur, arch :
          /\ e = [cur |-> cur, arch |-> arch] /\ cur \in Seq(0..last)
          /\ IsFiniteSet(DOMAIN arch) /\ DOMAIN arch \subseteq (0..LogMaxDay) \X Nat
          /\ \A n \in DOMAIN arch : arch[n] \in Seq(0..last)
    BY <2>2 DEF FilesTyped
  <2>6. r.d = [cur |-> Append(cur, line), arch |-> arch]
    BY <2>3, <2>5
  <2>7. Append(cur, line) \in Seq(0..last)
    BY <2>5, AppendProperties
  <2>8. QED
    BY <2>2, <2>3, <2>4, <2>5, <2>6, <2>7 DEF FilesTyped
<1>5. QED
  BY <1>1, <1>3, <1>4

\* Files stay typed when more lines are printed.
LEMMA FilesGrow ==
  ASSUME NEW last \in Nat, NEW more \in Nat, last <= more, NEW d, FilesTyped(d, last)
  PROVE  FilesTyped(d, more)
<1>1. 0..last \subseteq 0..more
  OBVIOUS
<1>2. \A s \in Seq(0..last) : s \in Seq(0..more)
  BY <1>1, SeqMonotonic
<1>3. QED
  BY <1>2 DEF FilesTyped

\* A caller comes into doPrintf, and leaves it again, with a line or without.
LEMMA LogCallersTyped ==
  ASSUME LogTypes, NEW c \in LogCallers, LogStep(c) PROVE LogTypes'
<1>1. LogMaxLines \in Nat /\ LogCap \in Nat /\ logLast \in Nat /\ Cardinality(logReaders) \in Nat
  BY LogAssumption, FS_CardinalityType DEF LogTypes
<1>2. CASE LogLock(c)
  <2>1. /\ logReaders' = logReaders \cup {c} /\ c \notin logReaders
        /\ logLast + Cardinality(logReaders) < LogMaxLines
        /\ UNCHANGED <<logRun, logExited, logClose, logChan, logLoop, logFile, logDisk,
                       logDay, logLast, logCut, logCause>>
    BY <1>2 DEF LogLock
  <2>2. IsFiniteSet(logReaders') /\ Cardinality(logReaders') = Cardinality(logReaders) + 1
    BY <2>1, FS_AddElement DEF LogTypes
  <2>3. logLast' + Cardinality(logReaders') <= LogMaxLines
    BY <1>1, <2>1, <2>2
  <2>4. QED
    BY <2>1, <2>2, <2>3 DEF LogTypes, Lines
<1>3. ASSUME NEW fatal \in BOOLEAN, LogPrint(c, fatal) PROVE LogTypes'
  <2>1. /\ c \in logReaders /\ logReaders' = logReaders \ {c}
        /\ UNCHANGED <<logRun, logExited, logClose, logLoop, logFile, logDisk, logDay, logCut, logCause>>
    BY <1>3 DEF LogPrint
  <2>2. IsFiniteSet(logReaders') /\ Cardinality(logReaders') = Cardinality(logReaders) - 1
        /\ logReaders' \subseteq LogCallers
    BY <2>1, FS_RemoveElement DEF LogTypes
  <2>3. CASE LogClosed
    <3>1. UNCHANGED <<logChan, logLast>>
      BY <1>3, <2>3 DEF LogPrint
    <3>2. logLast' + Cardinality(logReaders') <= LogMaxLines
      BY <1>1, <2>2, <3>1 DEF LogTypes
    <3>3. QED
      BY <2>1, <2>2, <3>1, <3>2 DEF LogTypes, Lines
  <2>4. CASE ~LogClosed
    <3>1. PICK m : m = [line |-> logLast + 1, fatal |-> fatal]
      OBVIOUS
    <3>2. Len(logChan) < LogCap /\ logLast' = logLast + 1 /\ logChan' = Append(logChan, m)
      BY <1>3, <2>4, <3>1 DEF LogPrint
    <3>3. logLast' \in Nat /\ logLast' + Cardinality(logReaders') <= LogMaxLines /\ logLast <= logLast'
      BY <1>1, <2>2, <3>2 DEF LogTypes
    <3>4. Lines \subseteq Lines'
      BY <1>1, <3>2 DEF Lines
    <3>5. logChan \in Seq([line : Lines', fatal : BOOLEAN])
      <4> DEFINE S == [line : Lines, fatal : BOOLEAN]
                 T == [line : Lines', fatal : BOOLEAN]
      <4>1. S \subseteq T /\ logChan \in Seq(S)
        BY <3>4 DEF LogTypes
      <4> HIDE DEF S, T
      <4>2. logChan \in Seq(T)
        BY <4>1, SeqMonotonic
      <4>3. QED
        BY <4>2 DEF T
    <3>6. m \in [line : Lines', fatal : BOOLEAN]
      <4>1. logLast + 1 \in Lines'
        BY <1>1, <3>2 DEF Lines
      <4>2. QED
        BY <3>1, <4>1
    <3>7. logChan' \in Seq([line : Lines', fatal : BOOLEAN]) /\ Len(logChan') = Len(logChan) + 1 /\ Len(logChan) \in Nat
      <4> DEFINE T == [line : Lines', fatal : BOOLEAN]
      <4>1. logChan \in Seq(T) /\ m \in T
        BY <3>5, <3>6
      <4> HIDE DEF T
      <4>2. Append(logChan, m) \in Seq(T) /\ Len(Append(logChan, m)) = Len(logChan) + 1 /\ Len(logChan) \in Nat
        BY <4>1, AppendProperties, LenProperties
      <4>3. QED
        BY <3>2, <4>2 DEF T
    <3>8. Len(logChan') <= LogCap
      BY <1>1, <3>2, <3>7
    <3>9. FilesTyped(logDisk, logLast')
      BY <1>1, <3>3, FilesGrow DEF LogTypes
    <3>10. logCut' \subseteq Lines'
      BY <2>1, <3>4 DEF LogTypes
    <3>11. QED
      BY <2>1, <2>2, <3>3, <3>7, <3>8, <3>9, <3>10 DEF LogTypes, Days
  <2>5. QED
    BY <2>3, <2>4
<1>4. QED
  BY <1>2, <1>3 DEF LogStep

\* The goroutine writes a line, or exits.
LEMMA LogWriteTyped == ASSUME LogTypes, LogWrite PROVE LogTypes'
<1> DEFINE T == [line : Lines, fatal : BOOLEAN]
<1>1. logChan \in Seq(T) /\ logChan # <<>> /\ logLast \in Nat /\ logDay \in Days /\ LogMaxLines \in Nat
      /\ LogCap \in Nat
  BY LogAssumption DEF LogTypes, LogWrite
<1>2. PICK item, rest : item = Head(logChan) /\ rest = Tail(logChan)
  OBVIOUS
<1>3. PICK day \in {logDay, logDay + 1} \cap Days :
        \E r \in Write(logFile, logDisk, item.line, day) :
          logFile' = r.f /\ logDisk' = r.d /\ logDay' = day /\ logCause' = logCause \cup r.cause
  BY <1>2 DEF LogWrite
<1>4. PICK r \in Write(logFile, logDisk, item.line, day) :
        logFile' = r.f /\ logDisk' = r.d /\ logDay' = day /\ logCause' = logCause \cup r.cause
  BY <1>3
<1>5. /\ logRun' = logRun /\ logLast' = logLast
      /\ IF item.fatal THEN Exit(rest)
         ELSE logChan' = rest /\ UNCHANGED <<logExited, logLoop, logReaders, logClose, logCut>>
  BY <1>2 DEF LogWrite
<1>6. /\ item \in T /\ rest \in Seq(T) /\ Len(rest) = Len(logChan) - 1 /\ Len(logChan) \in Nat
      /\ Len(rest) \in Nat /\ \A i \in DOMAIN rest : rest[i] \in T
  <2> HIDE DEF T
  <2>1. QED
    BY <1>1, <1>2, HeadTailProperties, LenProperties, ElementOfSeq
<1>7. item.line \in 1..logLast /\ \A i \in DOMAIN rest : rest[i].line \in Lines
  BY <1>6 DEF Lines
<1>8. r.f \in Writers /\ FilesTyped(r.d, logLast) /\ r.cause \subseteq Causes
  <2>1. PICK f, d, line, last : f = logFile /\ d = logDisk /\ line = item.line /\ last = logLast
    OBVIOUS
  <2>2. /\ f \in Writers /\ FilesTyped(d, last) /\ last \in Nat /\ line \in 1..last /\ day \in Days
        /\ r \in Write(f, d, line, day)
    BY <1>1, <1>3, <1>4, <1>7, <2>1 DEF LogTypes
  <2>3. r.f \in Writers /\ FilesTyped(r.d, last) /\ r.cause \subseteq Causes
    BY <1>1, <2>2, WriteTyped
  <2>4. QED
    BY <2>1, <2>3
<1>9. /\ logFile' \in Writers /\ FilesTyped(logDisk', logLast') /\ logDay' \in Days /\ logCause' \subseteq Causes
      /\ logRun' \in 1..LogMaxRuns /\ Lines' = Lines
  BY <1>3, <1>4, <1>5, <1>8 DEF LogTypes, Lines
<1>10. CASE item.fatal
  <2>1. /\ logExited' = TRUE /\ logLoop' = FALSE /\ logReaders' = {} /\ logClose' = "closed" /\ logChan' = <<>>
        /\ logCut' = logCut \cup {rest[i].line : i \in DOMAIN rest}
    BY <1>5, <1>10 DEF Exit
  <2>2. logCut' \subseteq Lines'
    BY <1>7, <1>9, <2>1 DEF LogTypes
  <2>3. IsFiniteSet(logReaders') /\ Cardinality(logReaders') = 0
    BY <2>1, FS_EmptySet
  <2>4. logLast <= LogMaxLines
    <3>1. Cardinality(logReaders) \in Nat /\ logLast + Cardinality(logReaders) <= LogMaxLines
      BY FS_CardinalityType DEF LogTypes
    <3>2. QED
      BY <1>1, <3>1
  <2>5. logLast' + Cardinality(logReaders') <= LogMaxLines /\ logLast' \in Nat
    BY <1>1, <1>5, <2>3, <2>4
  <2>6. logChan' \in Seq([line : Lines', fatal : BOOLEAN]) /\ Len(logChan') <= LogCap
    BY <1>1, <2>1
  <2>7. QED
    BY <1>9, <2>1, <2>2, <2>3, <2>5, <2>6 DEF LogTypes, Days
<1>11. CASE ~item.fatal
  <2>1. logChan' = rest /\ UNCHANGED <<logExited, logLoop, logReaders, logClose, logCut>>
    BY <1>5, <1>11
  <2>2. logChan' \in Seq([line : Lines', fatal : BOOLEAN]) /\ Len(logChan') <= LogCap
    <3>1. Len(rest) <= LogCap
      BY <1>1, <1>6 DEF LogTypes
    <3>2. QED
      BY <1>6, <1>9, <2>1, <3>1
  <2>3. QED
    BY <1>5, <1>9, <2>1, <2>2 DEF LogTypes, Days
<1>12. QED
  BY <1>10, <1>11

\* The steps of Close, the end of the goroutine, midnight, and a new process.
LEMMA LogOthersTyped ==
  ASSUME LogTypes, LogCloseWant \/ LogCloseLock \/ LogCloseEnd \/ LogLoopEnd \/ LogMidnight \/ LogRestart
  PROVE  LogTypes'
<1>1. UNCHANGED <<logChan, logDisk, logLast, logCut, logCause, logReaders>> /\ Lines' = Lines
  BY DEF LogCloseWant, LogCloseLock, LogCloseEnd, LogLoopEnd, LogMidnight, LogRestart, Lines
<1>2. logFile' = logFile \/ logFile' = CloseFile(logFile) \/ logFile' = NewWriter
  BY DEF LogCloseWant, LogCloseLock, LogCloseEnd, LogLoopEnd, LogMidnight, LogRestart
<1>3. logFile' \in Writers
  <2>1. CloseFile(logFile) \in Writers
    BY DEF LogTypes, CloseFile, Writers, Handles
  <2>2. NewWriter \in Writers
    BY WriterStarts
  <2>3. QED
    BY <1>2, <2>1, <2>2 DEF LogTypes
<1>4. /\ logRun' \in 1..LogMaxRuns /\ logExited' \in BOOLEAN /\ logLoop' \in BOOLEAN
      /\ logClose' \in {"open", "wanted", "draining", "closed"} /\ logDay' \in Days
  <2>1. LogMaxRuns \in Nat /\ LogMaxDay \in Nat
    BY LogAssumption
  <2>2. logRun \in 1..LogMaxRuns /\ logDay \in 1..LogMaxDay
    BY DEF LogTypes, Days
  <2>3. logRun' \in 1..LogMaxRuns
    <3>1. logRun' = logRun \/ (logRun < LogMaxRuns /\ logRun' = logRun + 1)
      BY DEF LogCloseWant, LogCloseLock, LogCloseEnd, LogLoopEnd, LogMidnight, LogRestart
    <3>2. QED
      BY <2>1, <2>2, <3>1
  <2>4. logDay' \in 1..LogMaxDay
    <3>1. logDay' = logDay \/ (logDay < LogMaxDay /\ logDay' = logDay + 1)
      BY DEF LogCloseWant, LogCloseLock, LogCloseEnd, LogLoopEnd, LogMidnight, LogRestart
    <3>2. QED
      BY <2>1, <2>2, <3>1
  <2>5. /\ logExited' = logExited \/ logExited' = FALSE
        /\ logLoop' = logLoop \/ logLoop' = FALSE \/ logLoop' = TRUE
        /\ logClose' = logClose \/ logClose' \in {"open", "wanted", "draining", "closed"}
    BY DEF LogCloseWant, LogCloseLock, LogCloseEnd, LogLoopEnd, LogMidnight, LogRestart
  <2>6. QED
    BY <2>3, <2>4, <2>5 DEF LogTypes, Days
<1>5. QED
  BY <1>1, <1>3, <1>4 DEF LogTypes

\* The types hold in every state.
LEMMA LogTypesAlways == LogSpec => []LogTypes
<1>1. LogInit => LogTypes
  <2> SUFFICES ASSUME LogInit PROVE LogTypes
    OBVIOUS
  <2>1. FilesTyped(logDisk, logLast)
    <3>1. logDisk = [cur |-> NoFile, arch |-> <<>>] /\ logLast = 0
      BY DEF LogInit
    <3>2. NoFile \in Seq(0..0)
      BY DEF NoFile
    <3>3. PICK arch : arch = <<>>
      OBVIOUS
    <3>4. DOMAIN arch = {} /\ IsFiniteSet(DOMAIN arch)
      BY <3>3, FS_EmptySet
    <3>5. QED
      BY <3>1, <3>2, <3>3, <3>4 DEF FilesTyped
  <2>2. /\ 1 \in 1..LogMaxRuns /\ 1 \in 1..LogMaxDay /\ 0 <= LogMaxLines /\ 0 <= LogCap
    BY LogAssumption
  <2>3. logReaders = {} /\ IsFiniteSet({}) /\ Cardinality({}) = 0
    BY FS_EmptySet DEF LogInit
  <2>4. logLast + Cardinality(logReaders) <= LogMaxLines
    BY <2>2, <2>3 DEF LogInit
  <2>5. logChan \in Seq([line : Lines, fatal : BOOLEAN]) /\ Len(logChan) <= LogCap
    BY <2>2 DEF LogInit
  <2>6. QED
    BY <2>1, <2>2, <2>3, <2>4, <2>5, WriterStarts DEF LogInit, LogTypes, Days
<1>2. LogTypes /\ [LogNext]_logVars => LogTypes'
  <2> SUFFICES ASSUME LogTypes, [LogNext]_logVars PROVE LogTypes'
    OBVIOUS
  <2>1. CASE LogNext
    BY <2>1, LogCallersTyped, LogWriteTyped, LogOthersTyped DEF LogNext
  <2>2. CASE UNCHANGED logVars
    BY <2>2 DEF logVars, LogTypes, Lines
  <2>3. QED
    BY <2>1, <2>2
<1>3. QED
  BY <1>1, <1>2, PTL DEF LogSpec

\* The variables of the logger, the fields of its Writer and the files keep their
\* types, with any faults of the file system: every archive has a day and an
\* index, nothing is in the files that was not printed, and the callers never
\* print more than the bound (log.go:98-104, file.go:87-160).
THEOREM LogTypeCorrect == LogSpec => []LogTypeOK
<1>1. LogTypes => LogTypeOK
  <2> SUFFICES ASSUME LogTypes PROVE LogTypeOK
    OBVIOUS
  <2>1. PICK cur, arch :
          /\ logDisk = [cur |-> cur, arch |-> arch] /\ cur \in Seq(0..logLast)
          /\ IsFiniteSet(DOMAIN arch) /\ DOMAIN arch \subseteq (0..LogMaxDay) \X Nat
          /\ \A n \in DOMAIN arch : arch[n] \in Seq(0..logLast)
    BY DEF LogTypes, FilesTyped
  <2>2. logDisk.cur = cur /\ logDisk.arch = arch
    BY <2>1
  <2>3. ASSUME NEW s \in Seq(0..logLast) PROVE InFile(s) \subseteq Lines
    <3>1. logLast \in Nat
      BY DEF LogTypes
    <3>2. \A i \in DOMAIN s : s[i] \in 0..logLast
      BY LenProperties, ElementOfSeq
    <3>3. \A x \in 0..logLast : x # 0 => x \in Lines
      BY <3>1 DEF Lines
    <3>4. QED
      BY <3>2, <3>3 DEF InFile
  <2>4. OnDisk \subseteq Lines
    <3>1. InFile(cur) \subseteq Lines /\ \A n \in DOMAIN arch : InFile(arch[n]) \subseteq Lines
      BY <2>1, <2>3
    <3>2. QED
      BY <2>2, <3>1 DEF OnDisk, Archived
  <2>5. logLast \in 0..LogMaxLines
    <3>1. /\ Cardinality(logReaders) \in Nat /\ logLast + Cardinality(logReaders) <= LogMaxLines
          /\ logLast \in Nat /\ LogMaxLines \in Nat
      BY FS_CardinalityType, LogAssumption DEF LogTypes
    <3>2. QED
      BY <3>1
  <2>6. DOMAIN logDisk.arch \subseteq (0..LogMaxDay) \X Nat
    BY <2>1, <2>2
  <2>7. QED
    BY <2>4, <2>5, <2>6 DEF LogTypes, LogTypeOK, Writers, Handles, Causes
<1>2. QED
  BY <1>1, LogTypesAlways, PTL

(* ----------------------------- Wheel timer ----------------------------- *)

WheelNodes == [interval : Intervals, keep : BOOLEAN, left : Nat, wheel : Wheels, slot : Nat]

\* Where the pointers of the wheels may stand.
Pointers == {nw \in [Wheels -> Nat] : \A b \in Wheels : nw[b] < Size[b]}

\* The steps since a wheel has moved, by the pointers of those below it.
Lower(nw) ==
  LET low[b \in Wheels] == IF b = 1 THEN 0 ELSE low[b-1] + nw[b-1] * Base[b-1]
  IN  low

\* Timer t fires in d steps, the pointers being at nw: its slot is k further
\* than the pointer of its wheel.  Where its interval reaches a wheel above the
\* one it waits in, it fires before that wheel moves again, so that it is set
\* again with the pointers of the whole step.
Waits(t, d, nw) ==
  /\ t.left < 2 * Base[t.wheel]
  /\ \E k \in 1..(Size[t.wheel] - 1) :
       /\ t.slot = (nw[t.wheel] + k) % Size[t.wheel]
       /\ d = IF t.wheel = 1 THEN k ELSE k * Base[t.wheel] - Lower(nw)[t.wheel] + t.left
  /\ \A c \in Wheels : c > t.wheel /\ Base[c] <= t.interval => Lower(nw)[c] + d < Base[c]

WheelInv ==
  /\ newest \in Pointers
  /\ timer \in [Ids -> WheelNodes \cup {NoTimer}]
  /\ due \in [Ids -> Nat] /\ fired \in [Ids -> Nat]
  /\ \A i \in Ids : timer[i] # NoTimer => Waits(timer[i], due[i], newest)

\* The wheels have at least two slots each.
LEMMA SizeType ==
  /\ Len(Size) \in Nat \ {0}
  /\ \A b \in Wheels : Size[b] \in Nat /\ Size[b] >= 2
<1>1. Size \in Seq(Nat \ {0, 1}) /\ Size # <<>>
  BY WheelTimerAssumption
<1>2. Len(Size) \in Nat \ {0} /\ \A b \in 1..Len(Size) : Size[b] \in Nat \ {0, 1}
  BY <1>1, EmptySeq, LenProperties, ElementOfSeq
<1>3. QED
  BY <1>2 DEF Wheels

\* What the recursive definition of Base says.
LEMMA BaseIs ==
  /\ Base \in [1..(Len(Size) + 1) -> Nat \ {0}]
  /\ Base[1] = 1
  /\ \A b \in Wheels : Base[b+1] = Base[b] * Size[b]
<1> DEFINE hi == Len(Size) + 1
           V == Nat \ {0}
           step == [p \in (1..hi) \X V |-> IF p[1] = 1 THEN p[2] ELSE p[2] * Size[p[1] - 1]]
<1>1. hi \in Nat /\ 1 <= hi /\ 1 \in V
  BY SizeType
<1>2. ASSUME NEW i \in 1..hi, NEW v \in V PROVE step[<<i, v>>] \in V
  <2>1. step[<<i, v>>] = IF i = 1 THEN v ELSE v * Size[i - 1]
    OBVIOUS
  <2>2. CASE i = 1
    BY <2>1, <2>2
  <2>3. CASE i # 1
    <3>1. i - 1 \in Wheels
      BY <2>3, SizeType DEF Wheels
    <3>2. Size[i - 1] \in Nat /\ Size[i - 1] >= 1
      BY <3>1, SizeType
    <3>3. v * Size[i - 1] \in Nat /\ v * Size[i - 1] >= 1
      <4>1. v \in Nat /\ v >= 1
        OBVIOUS
      <4>2. QED
        BY <3>2, <4>1, Product
    <3>4. QED
      BY <2>1, <2>3, <3>3
  <2>4. QED
    BY <2>2, <2>3
<1>3. PICK f : f \in [1..hi -> V] /\ f[1] = 1 /\ \A i \in 1..hi : i # 1 => f[i] = step[<<i, f[i-1]>>]
  <2>1. StepsIn(step, 1, hi, V)
    BY <1>2 DEF StepsIn
  <2>2. 1 \in Nat
    OBVIOUS
  <2> HIDE DEF hi, V, step
  <2>3. \E f : Recursive(f, step, 1, hi, V, 1)
    BY <1>1, <2>1, <2>2, RecursionExists
  <2>4. QED
    BY <2>3 DEF Recursive
<1>4. ASSUME NEW i \in 1..hi, i # 1 PROVE f[i] = f[i-1] * Size[i-1]
  <2>0. i - 1 \in 1..hi
    BY <1>4, SizeType
  <2>1. i - 1 \in 1..hi /\ f[i-1] \in V
    <3> HIDE DEF hi, V
    <3>1. QED
      BY <1>3, <2>0
  <2>2. step[<<i, f[i-1]>>] = f[i-1] * Size[i-1]
    BY <1>4, <2>1
  <2>3. QED
    BY <1>3, <1>4, <2>2
<1>5. f = [b \in 1..hi |-> IF b = 1 THEN 1 ELSE f[b-1] * Size[b-1]]
  <2>1. \A b \in 1..hi : f[b] = IF b = 1 THEN 1 ELSE f[b-1] * Size[b-1]
    BY <1>3, <1>4
  <2> HIDE DEF hi, V
  <2>2. QED
    BY <1>3, <2>1, Zenon
<1>6. Base = [b \in 1..hi |-> IF b = 1 THEN 1 ELSE Base[b-1] * Size[b-1]]
  BY <1>5 DEF Base
<1>7. Base[1] = 1 /\ \A i \in 1..hi : i # 1 => Base[i] = Base[i-1] * Size[i-1]
  <2>1. \A i \in 1..hi : Base[i] = IF i = 1 THEN 1 ELSE Base[i-1] * Size[i-1]
    <3> HIDE DEF hi
    <3>1. QED
      BY <1>6, Zenon
  <2>2. QED
    BY <1>1, <2>1
<1>8. \A b \in Wheels : Base[b+1] = Base[b] * Size[b]
  <2> TAKE b \in Wheels
  <2>1. b \in Nat /\ b + 1 \in 1..hi /\ b + 1 # 1 /\ b + 1 - 1 = b
    BY SizeType DEF Wheels
  <2>2. Base[b+1] = Base[b+1-1] * Size[b+1-1]
    BY <1>7, <2>1
  <2>3. QED
    BY <2>1, <2>2
<1>9. \A i \in 1..hi : i \in {j \in 1..hi : Base[j] \in V}
  <2> DEFINE P == {j \in 1..hi : Base[j] \in V}
  <2>1. 1 \in P
    BY <1>1, <1>7
  <2>2. \A i \in 1..hi : i \in P /\ i < hi => i + 1 \in P
    <3> SUFFICES ASSUME NEW i \in 1..hi, i \in P, i < hi PROVE Base[i+1] \in V /\ i + 1 \in 1..hi
      OBVIOUS
    <3>1. i \in Wheels /\ i + 1 \in 1..hi
      BY SizeType DEF Wheels
    <3>2. Base[i] \in Nat /\ Base[i] >= 1 /\ Size[i] \in Nat /\ Size[i] >= 1
      BY <3>1, SizeType
    <3>3. Base[i] * Size[i] \in V
      BY <3>2, Product
    <3>4. QED
      BY <1>8, <3>1, <3>3
  <2> HIDE DEF P, hi
  <2>3. \A i \in 1..hi : i \in P
    BY <1>1, <2>1, <2>2, IntervalInduction
  <2>4. QED
    BY <2>3 DEF P
<1>10. QED
  BY <1>6, <1>7, <1>8, <1>9

\* The wheels grow: each has at least twice the steps of the one below.
LEMMA BaseType ==
  /\ \A b \in 1..(Len(Size) + 1) : Base[b] \in Nat /\ Base[b] >= 1
  /\ \A b \in Wheels : Base[b+1] >= 2 * Base[b]
<1>1. \A b \in 1..(Len(Size) + 1) : Base[b] \in Nat /\ Base[b] >= 1
  <2> TAKE b \in 1..(Len(Size) + 1)
  <2>1. Base[b] \in Nat \ {0}
    BY BaseIs
  <2>2. QED
    BY <2>1
<1>2. ASSUME NEW b \in Wheels PROVE Base[b+1] >= 2 * Base[b]
  <2>1. Base[b] \in Nat /\ Size[b] \in Nat /\ Size[b] >= 2
    BY <1>1, SizeType DEF Wheels
  <2>2. Base[b] * Size[b] >= 2 * Base[b]
    BY <2>1
  <2>3. QED
    BY <2>2, BaseIs
<1>3. QED
  BY <1>1, <1>2

\* A lower wheel has the smaller steps.
LEMMA BaseGrows ==
  ASSUME NEW a \in 1..(Len(Size) + 1), NEW c \in a..(Len(Size) + 1)
  PROVE  Base[a] <= Base[c]
<1> DEFINE hi == Len(Size) + 1
           P == {j \in a..hi : Base[a] <= Base[j]}
<1>1. hi \in Nat /\ a \in Nat /\ a \in P
  BY SizeType, BaseType
<1>2. ASSUME NEW i \in a..hi, i \in P, i < hi PROVE i + 1 \in P
  <2>1. i \in Wheels /\ i + 1 \in a..hi /\ i \in 1..hi /\ i + 1 \in 1..hi
    BY <1>2, SizeType DEF Wheels
  <2>2. Base[i+1] >= 2 * Base[i] /\ Base[i] \in Nat /\ Base[a] \in Nat /\ Base[i+1] \in Nat
    BY <2>1, BaseType
  <2>3. Base[a] <= Base[i]
    BY <1>2
  <2>4. Base[a] <= Base[i+1]
    BY <2>2, <2>3
  <2>5. QED
    BY <2>1, <2>4
<1>3. \A i \in a..hi : i \in P
  <2> HIDE DEF P, hi
  <2>1. \A i \in a..hi : i \in P /\ i < hi => i + 1 \in P
    BY <1>2
  <2>2. QED
    BY <1>1, <2>1, IntervalInduction
<1>4. QED
  BY <1>3

\* What the recursive definition of Lower says.
LEMMA LowerIs ==
  ASSUME NEW nw \in Pointers
  PROVE  /\ Lower(nw)[1] = 0
         /\ \A b \in Wheels : b + 1 \in Wheels => Lower(nw)[b+1] = Lower(nw)[b] + nw[b] * Base[b]
<1> DEFINE hi == Len(Size)
           step == [p \in (1..hi) \X Int |->
                      IF p[1] = 1 THEN p[2] ELSE p[2] + nw[p[1] - 1] * Base[p[1] - 1]]
           low == Lower(nw)
<1>1. hi \in Nat /\ 1 <= hi /\ Wheels = 1..hi
  BY SizeType DEF Wheels
<1>2. ASSUME NEW i \in 1..hi, i # 1
      PROVE  /\ i - 1 \in 1..hi /\ nw[i-1] \in Nat /\ Base[i-1] \in Nat /\ nw[i-1] * Base[i-1] \in Int
             /\ \A v \in Int : step[<<i, v>>] = v + nw[i-1] * Base[i-1]
  <2>1. i - 1 \in 1..hi
    BY <1>1, <1>2
  <2>2. nw[i-1] \in Nat /\ Base[i-1] \in Nat
    <3>1. nw[i-1] \in Nat
      BY <1>1, <2>1 DEF Pointers
    <3>2. i - 1 \in 1..(Len(Size) + 1)
      BY <1>1, <2>1
    <3>3. QED
      BY <3>1, <3>2, BaseType
  <2>3. nw[i-1] * Base[i-1] \in Int
    BY <2>2
  <2>4. \A v \in Int : step[<<i, v>>] = v + nw[i-1] * Base[i-1]
    BY <1>2
  <2>5. QED
    BY <2>1, <2>2, <2>3, <2>4
<1>3. StepsIn(step, 1, hi, Int)
  <2> SUFFICES ASSUME NEW i \in 1..hi, NEW v \in Int PROVE step[<<i, v>>] \in Int
    BY DEF StepsIn
  <2>1. CASE i = 1
    BY <2>1
  <2>2. CASE i # 1
    <3>1. step[<<i, v>>] = v + nw[i-1] * Base[i-1] /\ nw[i-1] * Base[i-1] \in Int
      BY <1>2, <2>2
    <3>2. QED
      BY <3>1
  <2>3. QED
    BY <2>1, <2>2
<1>4. PICK f : f \in [1..hi -> Int] /\ f[1] = 0 /\ \A i \in 1..hi : i # 1 => f[i] = step[<<i, f[i-1]>>]
  <2>1. 0 \in Int /\ 1 \in Nat
    OBVIOUS
  <2> HIDE DEF hi, step
  <2>2. \E f : Recursive(f, step, 1, hi, Int, 0)
    BY <1>1, <1>3, <2>1, RecursionExists
  <2>3. QED
    BY <2>2 DEF Recursive
<1>5. ASSUME NEW i \in 1..hi, i # 1 PROVE f[i] = f[i-1] + nw[i-1] * Base[i-1]
  <2>1. i - 1 \in 1..hi /\ \A v \in Int : step[<<i, v>>] = v + nw[i-1] * Base[i-1]
    BY <1>2, <1>5
  <2>2. f[i-1] \in Int
    BY <1>4, <2>1
  <2> HIDE DEF step, hi
  <2>3. QED
    BY <1>4, <1>5, <2>1, <2>2
<1>6. f = [b \in Wheels |-> IF b = 1 THEN 0 ELSE f[b-1] + nw[b-1] * Base[b-1]]
  <2>1. \A b \in 1..hi : f[b] = IF b = 1 THEN 0 ELSE f[b-1] + nw[b-1] * Base[b-1]
    BY <1>4, <1>5
  <2> HIDE DEF hi
  <2>2. QED
    BY <1>1, <1>4, <2>1, Zenon
<1>7. low = [b \in Wheels |-> IF b = 1 THEN 0 ELSE low[b-1] + nw[b-1] * Base[b-1]]
  BY <1>6 DEF Lower
<1>8. \A b \in Wheels : low[b] = IF b = 1 THEN 0 ELSE low[b-1] + nw[b-1] * Base[b-1]
  <2> HIDE DEF low
  <2>1. QED
    BY <1>7, Zenon
<1>9. ASSUME NEW b \in Wheels, b + 1 \in Wheels PROVE low[b+1] = low[b] + nw[b] * Base[b]
  <2>1. b \in Nat /\ b + 1 # 1 /\ b + 1 - 1 = b
    BY <1>1
  <2> HIDE DEF low
  <2>2. low[b+1] = low[b+1-1] + nw[b+1-1] * Base[b+1-1]
    BY <1>8, <1>9, <2>1
  <2>3. QED
    BY <2>1, <2>2
<1>10. low[1] = 0
  <2> HIDE DEF low
  <2>1. 1 \in Wheels
    BY <1>1
  <2>2. QED
    BY <1>8, <2>1
<1>11. QED
  BY <1>9, <1>10

\* The steps since a wheel has moved are fewer than those of one of its slots.
LEMMA LowerType ==
  ASSUME NEW nw \in Pointers, NEW b \in Wheels
  PROVE  Lower(nw)[b] \in Nat /\ Lower(nw)[b] < Base[b]
<1> DEFINE P == {j \in Wheels : Lower(nw)[j] \in Nat /\ Lower(nw)[j] < Base[j]}
<1>1. Wheels = 1..Len(Size) /\ Len(Size) \in Nat /\ Len(Size) >= 1
  BY SizeType DEF Wheels
<1>2. 1 \in P
  BY <1>1, LowerIs, BaseIs
<1>3. ASSUME NEW i \in 1..Len(Size), i \in P, i < Len(Size) PROVE i + 1 \in P
  <2>1. i \in Wheels /\ i + 1 \in Wheels
    BY <1>1, <1>3
  <2>2. nw[i] \in Nat /\ nw[i] <= Size[i] - 1 /\ Size[i] \in Nat
    BY <2>1, SizeType DEF Pointers
  <2>3. Base[i] \in Nat /\ Base[i+1] = Base[i] * Size[i]
    BY <1>1, <2>1, BaseIs, BaseType
  <2>4. Lower(nw)[i+1] = Lower(nw)[i] + nw[i] * Base[i]
    BY <2>1, LowerIs
  <2>5. Lower(nw)[i] \in Nat /\ Lower(nw)[i] < Base[i]
    BY <1>3
  <2>6. nw[i] * Base[i] \in Nat /\ nw[i] * Base[i] <= (Size[i] - 1) * Base[i]
    BY <2>2, <2>3
  <2>7. (Size[i] - 1) * Base[i] = Base[i] * Size[i] - Base[i]
    BY <2>2, <2>3
  <2>8. Base[i] * Size[i] \in Nat
    BY <2>2, <2>3
  <2>9. Lower(nw)[i+1] \in Nat /\ Lower(nw)[i+1] < Base[i+1]
    BY <2>3, <2>4, <2>5, <2>6, <2>7, <2>8
  <2>10. QED
    BY <2>1, <2>9
<1>4. \A i \in 1..Len(Size) : i \in P
  <2> HIDE DEF P
  <2>1. \A i \in 1..Len(Size) : i \in P /\ i < Len(Size) => i + 1 \in P
    BY <1>3
  <2>2. 1 \in Nat
    OBVIOUS
  <2>3. QED
    BY <1>1, <1>2, <2>1, <2>2, IntervalInduction
<1>5. QED
  BY <1>1, <1>4

\* Turn adds up the steps that are left until a wheel moves again.
LEMMA TurnIs ==
  ASSUME NEW nw \in Pointers, NEW b \in Wheels
  PROVE  Turn(nw)[b] = IF b = 1 THEN 0 ELSE Base[b] - Lower(nw)[b]
<1> DEFINE f == [w \in Wheels |-> IF w = 1 THEN 0 ELSE Base[w] - Lower(nw)[w]]
           add(w) == Base[w] * (Size[w] - nw[w] - IF w + 1 = 2 THEN 0 ELSE 1)
           t == Turn(nw)
<1>1. Wheels = 1..Len(Size) /\ Len(Size) \in Nat /\ Len(Size) >= 1
  BY SizeType DEF Wheels
<1>2. ASSUME NEW w \in Wheels, w + 1 \in Wheels PROVE f[w+1] = f[w] + add(w)
  <2>1. Lower(nw)[w+1] = Lower(nw)[w] + nw[w] * Base[w] /\ Base[w+1] = Base[w] * Size[w]
    BY <1>2, LowerIs, BaseIs
  <2>2. w \in Nat /\ nw[w] \in Nat /\ Size[w] \in Nat /\ Base[w] \in Nat /\ Lower(nw)[w] \in Nat
    <3>1. w \in Nat /\ w \in 1..(Len(Size) + 1)
      BY <1>1
    <3>2. nw[w] \in Nat /\ Size[w] \in Nat
      BY SizeType DEF Pointers
    <3>3. Base[w] \in Nat /\ Lower(nw)[w] \in Nat
      BY <3>1, LowerType, BaseType
    <3>4. QED
      BY <3>1, <3>2, <3>3
  <2>3. f[w+1] = Base[w] * Size[w] - Lower(nw)[w] - nw[w] * Base[w]
    <3>1. w + 1 # 1
      BY <1>1
    <3>2. f[w+1] = Base[w+1] - Lower(nw)[w+1]
      BY <1>2, <3>1
    <3>3. Base[w] * Size[w] \in Nat /\ nw[w] * Base[w] \in Nat
      BY <2>2
    <3>4. QED
      BY <2>1, <2>2, <3>2, <3>3
  <2>4. CASE w = 1
    <3>1. Base[w] = 1 /\ Lower(nw)[w] = 0
      BY <2>4, BaseIs, LowerIs
    <3>2. f[w] = 0 /\ add(w) = Size[w] - nw[w]
      <4>1. f[w] = 0
        BY <2>4
      <4>2. add(w) = Base[w] * (Size[w] - nw[w] - 0)
        BY <2>4
      <4>3. QED
        BY <2>2, <3>1, <4>1, <4>2
    <3>3. Base[w] * Size[w] = Size[w] /\ nw[w] * Base[w] = nw[w]
      BY <2>2, <3>1
    <3> HIDE DEF f, add
    <3>4. QED
      BY <2>2, <2>3, <3>1, <3>2, <3>3
  <2>5. CASE w # 1
    <3>1. f[w] = Base[w] - Lower(nw)[w]
      BY <2>5
    <3>2. add(w) = Base[w] * (Size[w] - nw[w] - 1)
      BY <2>2, <2>5
    <3>3. Base[w] * (Size[w] - nw[w] - 1) = Base[w] * Size[w] - nw[w] * Base[w] - Base[w]
      BY <2>2
    <3>4. Base[w] * Size[w] \in Nat /\ nw[w] * Base[w] \in Nat
      BY <2>2
    <3> HIDE DEF f, add
    <3>5. QED
      BY <2>2, <2>3, <3>1, <3>2, <3>3, <3>4
  <2>6. QED
    BY <2>4, <2>5
<1>3. ASSUME NEW w \in Wheels, w # 1
      PROVE  w - 1 \in Wheels /\ w - 1 + 1 = w
  BY <1>1, <1>3
<1>4. \A w \in Wheels :
        f[w] = IF w = 1 THEN 0
               ELSE f[w-1] + Base[w-1] * (Size[w-1] - nw[w-1] - IF w = 2 THEN 0 ELSE 1)
  <2> TAKE w \in Wheels
  <2>1. CASE w = 1
    BY <2>1
  <2>2. CASE w # 1
    <3>1. f[w-1+1] = f[w-1] + add(w-1)
      <4> HIDE DEF f, add
      <4>1. QED
        BY <1>2, <1>3, <2>2
    <3>2. f[w] = f[w-1] + Base[w-1] * (Size[w-1] - nw[w-1] - IF w = 2 THEN 0 ELSE 1)
      <4> HIDE DEF f
      <4>1. QED
        BY <1>3, <2>2, <3>1
    <3> HIDE DEF f
    <3>3. QED
      BY <2>2, <3>2
  <2>3. QED
    BY <2>1, <2>2
<1>5. f = [w \in Wheels |->
             IF w = 1 THEN 0
             ELSE f[w-1] + Base[w-1] * (Size[w-1] - nw[w-1] - IF w = 2 THEN 0 ELSE 1)]
  <2>1. f = [w \in Wheels |-> f[w]]
    OBVIOUS
  <2> HIDE DEF f
  <2>2. QED
    BY <1>4, <2>1, Zenon
<1>6. t = [w \in Wheels |->
             IF w = 1 THEN 0
             ELSE t[w-1] + Base[w-1] * (Size[w-1] - nw[w-1] - IF w = 2 THEN 0 ELSE 1)]
  <2> HIDE DEF f
  <2>1. QED
    BY <1>5 DEF Turn
<1>7. \A w \in Wheels :
        t[w] = IF w = 1 THEN 0
               ELSE t[w-1] + Base[w-1] * (Size[w-1] - nw[w-1] - IF w = 2 THEN 0 ELSE 1)
  <2> HIDE DEF t
  <2>1. QED
    BY <1>6, Zenon
<1> DEFINE P == {w \in Wheels : t[w] = f[w]}
<1>8. 1 \in P
  <2> HIDE DEF t, f
  <2>1. t[1] = 0 /\ f[1] = 0
    BY <1>1, <1>4, <1>7
  <2>2. QED
    BY <1>1, <2>1
<1>9. ASSUME NEW i \in 1..Len(Size), i \in P, i < Len(Size) PROVE i + 1 \in P
  <2>1. i \in Nat /\ i + 1 \in Wheels /\ i + 1 # 1 /\ i + 1 - 1 = i
    BY <1>1, <1>9
  <2> HIDE DEF t, f
  <2>2. t[i+1] = t[i+1-1] + Base[i+1-1] * (Size[i+1-1] - nw[i+1-1] - IF i + 1 = 2 THEN 0 ELSE 1)
    BY <1>7, <2>1
  <2>3. f[i+1] = f[i+1-1] + Base[i+1-1] * (Size[i+1-1] - nw[i+1-1] - IF i + 1 = 2 THEN 0 ELSE 1)
    BY <1>4, <2>1
  <2>4. t[i] = f[i]
    BY <1>9
  <2>5. t[i+1] = f[i+1]
    BY <2>1, <2>2, <2>3, <2>4
  <2>6. QED
    BY <2>1, <2>5
<1>10. \A i \in 1..Len(Size) : i \in P
  <2> HIDE DEF P
  <2>1. \A i \in 1..Len(Size) : i \in P /\ i < Len(Size) => i + 1 \in P
    BY <1>9
  <2>2. 1 \in Nat
    OBVIOUS
  <2>3. QED
    BY <1>1, <1>8, <2>1, <2>2, IntervalInduction
<1>11. QED
  BY <1>1, <1>10

\* Every interval in reach is in the range of one wheel.
LEMMA WheelOfIs ==
  ASSUME NEW n \in 1..(Base[Len(Size) + 1] - 1)
  PROVE  WheelOf(n) \in Wheels /\ Base[WheelOf(n)] <= n /\ n < Base[WheelOf(n) + 1]
<1> DEFINE N == {b \in Wheels : n < Base[b+1]}
<1>1. Wheels = 1..Len(Size) /\ Len(Size) \in Nat /\ Len(Size) >= 1 /\ Base[Len(Size) + 1] \in Nat
  BY SizeType, BaseType DEF Wheels
<1>2. N \in SUBSET Nat /\ Len(Size) \in N
  BY <1>1
<1>3. PICK b \in N : \A k \in N : b <= k
  <2> HIDE DEF N
  <2>1. N # {}
    BY <1>2
  <2>2. QED
    BY <1>2, <2>1, LeastElement
<1>4. b \in Wheels /\ n < Base[b+1] /\ b \in Nat /\ b >= 1
  BY <1>1
<1>5. Base[b] <= n
  <2>1. CASE b = 1
    BY <2>1, BaseIs
  <2>2. CASE b # 1
    <3>1. b - 1 \in Wheels /\ b - 1 + 1 = b
      BY <1>1, <1>4, <2>2
    <3>2. b - 1 \notin N
      BY <1>3, <1>4
    <3>3. ~ (n < Base[b-1+1])
      BY <3>1, <3>2
    <3>4. Base[b] \in Nat
      BY <1>1, <1>4, BaseType
    <3>5. QED
      BY <3>1, <3>3, <3>4
  <2>3. QED
    BY <2>1, <2>2
<1>6. QED
  BY <1>4, <1>5 DEF WheelOf

\* Slots are counted round the wheel.
LEMMA SlotOn ==
  ASSUME NEW s \in Nat, s >= 2, NEW p \in 0..(s-1), NEW k \in 1..(s-1)
  PROVE  (p + k) % s = IF p + k < s THEN p + k ELSE p + k - s
<1>1. CASE p + k < s
  BY <1>1
<1>2. CASE p + k >= s
  <2>1. p + k - s \in 0..(s-1) /\ p + k = 1 * s + (p + k - s)
    BY <1>2
  <2>2. (p + k) % s = p + k - s
    BY <2>1
  <2>3. QED
    BY <1>2, <2>2
<1>3. QED
  BY <1>1, <1>2

\* One slot less.
LEMMA OneLess == ASSUME NEW a \in Int, NEW b \in Int PROVE a * (b - 1) = a * b - a /\ a * b = b * a
  OBVIOUS

\* The offset of an interval in the range of a wheel, and what it leaves.
LEMMA OffsetIs ==
  ASSUME NEW n \in Nat, NEW base \in Nat, NEW s \in Nat, base >= 1, base <= n, n < base * s
  PROVE  /\ n \div base \in 1..(s-1)
         /\ n - base * (n \div base) \in 0..(base - 1)
<1> DEFINE q == n \div base
           r == n % base
<1>1. q \in Nat /\ r \in 0..(base - 1) /\ n = base * q + r
  OBVIOUS
<1> HIDE DEF q, r
<1>2. q >= 1
  <2>1. CASE q = 0
    <3>1. base * q = 0
      BY <2>1
    <3>2. QED
      BY <1>1, <3>1
  <2>2. QED
    BY <1>1, <2>1
<1>3. q <= s - 1
  <2>1. SUFFICES ASSUME q >= s PROVE FALSE
    BY <1>1
  <2>2. base * q >= base * s
    BY <1>1, <2>1
  <2>3. base * s \in Nat /\ base * q \in Nat
    BY <1>1
  <2>4. QED
    BY <1>1, <2>2, <2>3
<1>4. base * q \in Nat
  BY <1>1
<1>5. n - base * q = r
  BY <1>1, <1>4
<1>6. QED
  BY <1>1, <1>2, <1>3, <1>5 DEF q

\* What SetTimer makes of n steps: the slot lies k further than the pointer,
\* and n is the steps until it is reached and what is left then.
LEMMA PlaceIs ==
  ASSUME NEW nw \in Pointers, NEW n \in 1..(Base[Len(Size) + 1] - 1),
         NEW interval \in Intervals, NEW keep \in BOOLEAN
  PROVE  LET t == Place(nw, n, interval, keep)
         IN  /\ t \in WheelNodes /\ t.wheel = WheelOf(n) /\ t.interval = interval /\ t.keep = keep
             /\ t.left < 2 * Base[t.wheel]
             /\ \E k \in 1..(Size[t.wheel] - 1) :
                  /\ t.slot = (nw[t.wheel] + k) % Size[t.wheel]
                  /\ n = IF t.wheel = 1 THEN k ELSE k * Base[t.wheel] - Lower(nw)[t.wheel] + t.left
<1> DEFINE b == WheelOf(n)
           k == n \div Base[b]
           left == n - Turn(nw)[b] - Base[b] * (k - 1)
           slot == (nw[b] + k) % Size[b]
           t == Place(nw, n, interval, keep)
<1>1. b \in Wheels /\ Base[b] <= n /\ n < Base[b+1] /\ n \in Nat
  BY WheelOfIs, BaseType, SizeType
<1>2. /\ b \in Nat /\ Base[b] \in Nat /\ Base[b] >= 1 /\ Size[b] \in Nat /\ Size[b] >= 2
      /\ Base[b+1] = Base[b] * Size[b] /\ nw[b] \in 0..(Size[b] - 1)
      /\ Lower(nw)[b] \in Nat /\ Lower(nw)[b] < Base[b]
  <2>1. b \in 1..(Len(Size) + 1) /\ b \in Nat
    BY <1>1, SizeType DEF Wheels
  <2>2. Base[b] \in Nat /\ Base[b] >= 1
    BY <2>1, BaseType
  <2>3. Base[b+1] = Base[b] * Size[b]
    BY <1>1, BaseIs
  <2>4. Size[b] \in Nat /\ Size[b] >= 2
    BY <1>1, SizeType
  <2>5. nw[b] \in Nat /\ nw[b] < Size[b]
    BY <1>1 DEF Pointers
  <2>6. Lower(nw)[b] \in Nat /\ Lower(nw)[b] < Base[b]
    BY <1>1, LowerType
  <2> HIDE DEF b
  <2>7. QED
    BY <2>1, <2>2, <2>3, <2>4, <2>5, <2>6
<1>3. Turn(nw)[b] = IF b = 1 THEN 0 ELSE Base[b] - Lower(nw)[b]
  BY <1>1, TurnIs
<1>4. t = [interval |-> interval, keep |-> keep, left |-> left, wheel |-> b, slot |-> slot]
  BY DEF Place, Node
<1> HIDE DEF b
<1>5. k \in 1..(Size[b] - 1) /\ n - Base[b] * k \in 0..(Base[b] - 1)
  BY <1>1, <1>2, OffsetIs
<1> HIDE DEF k
<1>6. k \in Nat /\ Base[b] * k \in Nat /\ Base[b] * (k - 1) = Base[b] * k - Base[b] /\ k * Base[b] = Base[b] * k
  <2>1. k \in Nat /\ Base[b] \in Nat
    BY <1>2, <1>5
  <2>2. Base[b] * k \in Nat
    BY <2>1
  <2>3. QED
    BY <2>1, <2>2, OneLess
<1>7. left \in Nat /\ left < 2 * Base[b] /\ n = IF b = 1 THEN k ELSE k * Base[b] - Lower(nw)[b] + left
  <2>1. CASE b = 1
    <3>1. Base[b] = 1 /\ Turn(nw)[b] = 0
      BY <1>3, <2>1, BaseIs
    <3>2. Base[b] * k = k
      BY <1>6, <3>1
    <3>3. n = k
      BY <1>1, <1>5, <1>6, <3>1, <3>2
    <3>4. left = 1
      BY <1>1, <1>6, <3>1, <3>2, <3>3
    <3>5. QED
      BY <2>1, <3>1, <3>3, <3>4
  <2>2. CASE b # 1
    <3>1. Turn(nw)[b] = Base[b] - Lower(nw)[b]
      BY <1>3, <2>2
    <3>2. left = n - Base[b] * k + Lower(nw)[b]
      <4>1. \A x, y, z, l \in Int : x - (y - l) - (z - y) = x - z + l
        OBVIOUS
      <4>2. left = n - (Base[b] - Lower(nw)[b]) - (Base[b] * k - Base[b])
        BY <1>6, <3>1
      <4>3. n \in Int /\ Base[b] \in Int /\ Base[b] * k \in Int /\ Lower(nw)[b] \in Int
        BY <1>1, <1>2, <1>6
      <4> HIDE DEF left
      <4>4. QED
        BY <4>1, <4>2, <4>3
    <3> HIDE DEF left
    <3>3. \A x, m, l \in Nat : m < x /\ l < x => m + l \in Nat /\ m + l < 2 * x
      OBVIOUS
    <3>4. left \in Nat /\ left < 2 * Base[b]
      <4>1. n - Base[b] * k \in Nat /\ n - Base[b] * k < Base[b]
        BY <1>2, <1>5
      <4>2. QED
        BY <1>2, <3>2, <3>3, <4>1
    <3>5. \A x, y, l \in Int : x = y - l + (x - y + l)
      OBVIOUS
    <3>6. n = Base[b] * k - Lower(nw)[b] + left
      <4>1. n \in Int /\ Base[b] * k \in Int /\ Lower(nw)[b] \in Int
        BY <1>1, <1>2, <1>6
      <4>2. QED
        BY <3>2, <3>5, <4>1
    <3>7. n = k * Base[b] - Lower(nw)[b] + left
      BY <1>6, <3>6
    <3>8. QED
      BY <2>2, <3>4, <3>7
  <2>3. QED
    BY <2>1, <2>2
<1> HIDE DEF left
<1>8. slot \in Nat
  <2>1. nw[b] \in Nat /\ Size[b] \in Nat /\ Size[b] >= 2
    BY <1>2
  <2>2. nw[b] + k \in Nat
    BY <1>6, <2>1
  <2>3. QED
    BY <2>1, <2>2
<1> HIDE DEF t
<1>9. t \in WheelNodes
  <2> HIDE DEF slot
  <2>1. QED
    BY <1>1, <1>4, <1>7, <1>8 DEF WheelNodes
<1>10. t.wheel = b /\ t.interval = interval /\ t.keep = keep /\ t.left = left /\ t.slot = slot
  <2> HIDE DEF slot
  <2>1. QED
    BY <1>4
<1>11. \E j \in 1..(Size[b] - 1) :
         /\ t.slot = (nw[b] + j) % Size[b]
         /\ n = IF b = 1 THEN j ELSE j * Base[b] - Lower(nw)[b] + t.left
  <2>1. t.slot = (nw[b] + k) % Size[b] /\ n = IF b = 1 THEN k ELSE k * Base[b] - Lower(nw)[b] + t.left
    BY <1>7, <1>10
  <2>2. QED
    BY <1>5, <2>1
<1>12. QED
  BY <1>7, <1>9, <1>10, <1>11 DEF t, b

\* A pointer moves on by a slot, or comes round.
LEMMA NextSlotIs ==
  ASSUME newest \in Pointers, NEW b \in Wheels
  PROVE  /\ newest[b] \in Nat /\ newest[b] < Size[b]
         /\ NextSlot(b) = IF newest[b] + 1 < Size[b] THEN newest[b] + 1 ELSE 0
         /\ NextSlot(b) \in Nat /\ NextSlot(b) < Size[b]
<1>1. newest[b] \in Nat /\ newest[b] < Size[b] /\ Size[b] \in Nat /\ Size[b] >= 2
  BY SizeType DEF Pointers
<1>2. newest[b] \in 0..(Size[b] - 1) /\ 1 \in 1..(Size[b] - 1)
  BY <1>1
<1>3. (newest[b] + 1) % Size[b] = IF newest[b] + 1 < Size[b] THEN newest[b] + 1 ELSE newest[b] + 1 - Size[b]
  BY <1>1, <1>2, SlotOn
<1>4. QED
  BY <1>1, <1>3 DEF NextSlot

\* The walk of Step ends at the first wheel that does not come round.
LEMMA LastIs ==
  /\ LastWheel \in Wheels /\ LastWheel \in 1..Len(Size)
  /\ \A w \in 1..(LastWheel - 1) : NextSlot(w) = 0
  /\ NextSlot(LastWheel) # 0 \/ LastWheel = Len(Size)
<1> DEFINE N == {b \in Wheels : NextSlot(b) # 0 \/ b = Len(Size)}
<1>1. Wheels = 1..Len(Size) /\ Len(Size) \in Nat /\ Len(Size) >= 1
  BY SizeType DEF Wheels
<1>2. N \in SUBSET Nat /\ Len(Size) \in N
  BY <1>1
<1>3. PICK b \in N : \A k \in N : b <= k
  <2> HIDE DEF N
  <2>1. QED
    BY <1>2, LeastElement
<1>4. b \in Wheels /\ (NextSlot(b) # 0 \/ b = Len(Size))
  OBVIOUS
<1>5. ASSUME NEW w \in 1..(b-1) PROVE NextSlot(w) = 0
  <2>1. w \in Wheels /\ ~ (b <= w)
    BY <1>1, <1>4
  <2>2. w \notin N
    BY <1>3, <2>1
  <2>3. QED
    BY <2>1, <2>2
<1> HIDE DEF N
<1>6. \E v \in Wheels : (\A w \in 1..(v-1) : NextSlot(w) = 0) /\ (NextSlot(v) # 0 \/ v = Len(Size))
  BY <1>4, <1>5
<1>7. QED
  BY <1>1, <1>6 DEF LastWheel

\* The pointers during the walk.
LEMMA UpToType ==
  ASSUME newest \in Pointers, NEW v \in Wheels
  PROVE  UpTo(v) \in Pointers /\ \A w \in Wheels : UpTo(v)[w] = IF w <= v THEN NextSlot(w) ELSE newest[w]
<1>1. \A w \in Wheels : UpTo(v)[w] = IF w <= v THEN NextSlot(w) ELSE newest[w]
  BY DEF UpTo
<1>2. \A w \in Wheels : UpTo(v)[w] \in Nat /\ UpTo(v)[w] < Size[w]
  BY <1>1, NextSlotIs
<1>3. UpTo(v) = [w \in Wheels |-> UpTo(v)[w]]
  BY DEF UpTo
<1>4. UpTo(v) \in [Wheels -> Nat]
  BY <1>2, <1>3
<1>5. QED
  BY <1>1, <1>2, <1>4 DEF Pointers

\* Below the last wheel all pointers stand before slot 0, and come round.
LEMMA LowerLast ==
  ASSUME newest \in Pointers, NEW v \in 1..LastWheel, NEW b \in 1..v
  PROVE  b \in Wheels /\ Lower(newest)[b] = Base[b] - 1 /\ Lower(UpTo(v))[b] = 0
<1> DEFINE P == {j \in 1..v : Lower(newest)[j] = Base[j] - 1 /\ Lower(UpTo(v))[j] = 0}
<1>1. /\ Wheels = 1..Len(Size) /\ Len(Size) \in Nat /\ Len(Size) >= 1
      /\ LastWheel \in 1..Len(Size) /\ v \in Nat /\ v \in Wheels
  BY SizeType, LastIs DEF Wheels
<1>2. UpTo(v) \in Pointers /\ \A w \in Wheels : UpTo(v)[w] = IF w <= v THEN NextSlot(w) ELSE newest[w]
  BY <1>1, UpToType
<1>3. 1 \in P
  BY <1>1, <1>2, LowerIs, BaseIs
<1>4. ASSUME NEW i \in 1..v, i \in P, i < v PROVE i + 1 \in P
  <2>1. i \in Wheels /\ i + 1 \in Wheels /\ i \in 1..(LastWheel - 1) /\ i + 1 \in 1..v
    BY <1>1, <1>4
  <2>2. NextSlot(i) = 0
    BY <2>1, LastIs
  <2>3. /\ newest[i] = Size[i] - 1 /\ UpTo(v)[i] = 0
        /\ Size[i] \in Nat /\ Base[i] \in Nat
    <3>1. Size[i] \in Nat /\ newest[i] \in Nat /\ newest[i] < Size[i]
      BY <2>1, SizeType, NextSlotIs
    <3>2. ~ (newest[i] + 1 < Size[i])
      BY <2>1, <2>2, <3>1, NextSlotIs
    <3>3. UpTo(v)[i] = 0
      BY <1>2, <1>4, <2>1, <2>2
    <3>4. i \in 1..(Len(Size) + 1)
      BY <1>1, <2>1
    <3>5. QED
      BY <3>1, <3>2, <3>3, <3>4, BaseType
  <2>4. /\ Lower(newest)[i+1] = Lower(newest)[i] + newest[i] * Base[i]
        /\ Lower(UpTo(v))[i+1] = Lower(UpTo(v))[i] + UpTo(v)[i] * Base[i]
        /\ Base[i+1] = Base[i] * Size[i]
    BY <1>2, <2>1, LowerIs, BaseIs
  <2>5. Lower(newest)[i] = Base[i] - 1 /\ Lower(UpTo(v))[i] = 0
    BY <1>4
  <2>6. newest[i] * Base[i] = Base[i] * Size[i] - Base[i] /\ UpTo(v)[i] * Base[i] = 0
    <3>1. newest[i] * Base[i] = Base[i] * (Size[i] - 1)
      BY <2>3
    <3>2. QED
      BY <2>3, <3>1, OneLess
  <2>7. Base[i] * Size[i] \in Nat
    BY <2>3
  <2>8. Lower(newest)[i+1] = Base[i+1] - 1
    BY <2>3, <2>4, <2>5, <2>6, <2>7
  <2>9. Lower(UpTo(v))[i+1] = 0
    BY <2>4, <2>5, <2>6
  <2>10. QED
    BY <2>1, <2>8, <2>9
<1>5. \A i \in 1..v : i \in P
  <2> HIDE DEF P
  <2>1. \A i \in 1..v : i \in P /\ i < v => i + 1 \in P
    BY <1>4
  <2>2. 1 \in Nat
    OBVIOUS
  <2>3. QED
    BY <1>1, <1>3, <2>1, <2>2, IntervalInduction
<1>6. QED
  BY <1>1, <1>5

\* Above it every wheel counts a step more.
LEMMA LowerAbove ==
  ASSUME newest \in Pointers, NEW b \in (LastWheel + 1)..Len(Size)
  PROVE  b \in Wheels /\ Lower(UpTo(LastWheel))[b] = Lower(newest)[b] + 1 /\ UpTo(LastWheel)[b] = newest[b]
<1> DEFINE lo == LastWheel + 1
           hi == Len(Size)
           nw == UpTo(LastWheel)
           P == {j \in lo..hi : Lower(nw)[j] = Lower(newest)[j] + 1}
<1>1. /\ Wheels = 1..hi /\ hi \in Nat /\ LastWheel \in 1..hi /\ LastWheel \in Wheels
      /\ lo \in Nat /\ lo \in Wheels /\ LastWheel # Len(Size)
  BY SizeType, LastIs DEF Wheels
<1>2. nw \in Pointers /\ \A w \in Wheels : nw[w] = IF w <= LastWheel THEN NextSlot(w) ELSE newest[w]
  BY <1>1, UpToType
<1> HIDE DEF nw
<1>3. lo \in P
  <2>1. Lower(newest)[LastWheel] = Base[LastWheel] - 1 /\ Lower(nw)[LastWheel] = 0
    <3>1. LastWheel \in 1..LastWheel
      BY <1>1
    <3>2. QED
      BY <3>1, LowerLast DEF nw
  <2>2. nw[LastWheel] = newest[LastWheel] + 1 /\ newest[LastWheel] \in Nat
    <3>1. NextSlot(LastWheel) # 0
      BY <1>1, LastIs
    <3>2. QED
      BY <1>1, <1>2, <3>1, NextSlotIs
  <2>3. /\ Lower(newest)[lo] = Lower(newest)[LastWheel] + newest[LastWheel] * Base[LastWheel]
        /\ Lower(nw)[lo] = Lower(nw)[LastWheel] + nw[LastWheel] * Base[LastWheel]
    BY <1>1, <1>2, LowerIs
  <2>4. LastWheel \in 1..(hi + 1) /\ Base[LastWheel] \in Nat
    BY <1>1, BaseType
  <2>5. (newest[LastWheel] + 1) * Base[LastWheel] = newest[LastWheel] * Base[LastWheel] + Base[LastWheel]
    BY <2>2, <2>4
  <2>6. newest[LastWheel] * Base[LastWheel] \in Nat
    BY <2>2, <2>4
  <2>7. Lower(nw)[lo] = Lower(newest)[lo] + 1
    BY <2>1, <2>2, <2>3, <2>4, <2>5, <2>6
  <2>8. QED
    BY <1>1, <2>7
<1>4. ASSUME NEW i \in lo..hi, i \in P, i < hi PROVE i + 1 \in P
  <2>1. i \in Wheels /\ i + 1 \in Wheels /\ i + 1 \in lo..hi /\ ~ (i <= LastWheel)
    BY <1>1, <1>4
  <2>2. nw[i] = newest[i] /\ newest[i] \in Nat
    BY <1>2, <2>1, NextSlotIs
  <2>3. /\ Lower(newest)[i+1] = Lower(newest)[i] + newest[i] * Base[i]
        /\ Lower(nw)[i+1] = Lower(nw)[i] + nw[i] * Base[i]
    BY <1>2, <2>1, LowerIs
  <2>4. Lower(nw)[i] = Lower(newest)[i] + 1 /\ Lower(newest)[i] \in Nat
    BY <1>4, <2>1, LowerType
  <2>5. newest[i] * Base[i] \in Nat
    <3>1. i \in 1..(hi + 1)
      BY <1>1, <2>1
    <3>2. Base[i] \in Nat
      BY <3>1, BaseType
    <3>3. QED
      BY <2>2, <3>2
  <2>6. Lower(nw)[i+1] = Lower(newest)[i+1] + 1
    BY <2>2, <2>3, <2>4, <2>5
  <2>7. QED
    BY <2>1, <2>6
<1>5. \A i \in lo..hi : i \in P
  <2> HIDE DEF P, lo, hi
  <2>1. \A i \in lo..hi : i \in P /\ i < hi => i + 1 \in P
    BY <1>4
  <2>2. QED
    BY <1>1, <1>3, <2>1, IntervalInduction
<1>6. b \in Wheels /\ ~ (b <= LastWheel)
  BY <1>1
<1>7. QED
  BY <1>2, <1>5, <1>6 DEF nw

\* The walk over one timer is given by the values it takes.
LEMMA WalkIs ==
  ASSUME NEW i \in Ids, NEW f,
         f = [b \in 0..LastWheel |->
                IF b = 0 THEN [node |-> timer[i], fires |-> 0] ELSE Meet(f[b-1], b)]
  PROVE  StepTimer(i) = f[LastWheel]
<1> DEFINE Is(g) == g = [b \in 0..LastWheel |->
                           IF b = 0 THEN [node |-> timer[i], fires |-> 0] ELSE Meet(g[b-1], b)]
           at == CHOOSE g : Is(g)
           P == {b \in 0..LastWheel : at[b] = f[b]}
<1>1. LastWheel \in Nat
  BY LastIs, SizeType DEF Wheels
<1>2. Is(f)
  OBVIOUS
<1>3. Is(at)
  <2> HIDE DEF Is
  <2>1. QED
    BY <1>2
<1>4. \A g : Is(g) => /\ g[0] = [node |-> timer[i], fires |-> 0]
                      /\ \A b \in 0..LastWheel : b # 0 => g[b] = Meet(g[b-1], b)
  <2> SUFFICES ASSUME NEW g, Is(g)
               PROVE  /\ g[0] = [node |-> timer[i], fires |-> 0]
                      /\ \A b \in 0..LastWheel : b # 0 => g[b] = Meet(g[b-1], b)
    OBVIOUS
  <2>1. \A b \in 0..LastWheel :
          g[b] = IF b = 0 THEN [node |-> timer[i], fires |-> 0] ELSE Meet(g[b-1], b)
    BY Zenon
  <2>2. 0 \in 0..LastWheel
    BY <1>1
  <2>3. QED
    BY <2>1, <2>2
<1>5. StepTimer(i) = at[LastWheel]
  BY DEF StepTimer
<1> HIDE DEF Is, at
<1>6. 0 \in P
  BY <1>1, <1>2, <1>3, <1>4
<1>7. ASSUME NEW b \in 0..LastWheel, b \in P, b < LastWheel PROVE b + 1 \in P
  <2>1. b + 1 \in 0..LastWheel /\ b + 1 # 0 /\ b + 1 - 1 = b
    BY <1>1, <1>7
  <2>2. at[b+1] = Meet(at[b+1-1], b+1) /\ f[b+1] = Meet(f[b+1-1], b+1)
    BY <1>2, <1>3, <1>4, <2>1
  <2>3. at[b] = f[b]
    BY <1>7
  <2>4. QED
    BY <2>1, <2>2, <2>3
<1>8. \A b \in 0..LastWheel : b \in P
  <2> HIDE DEF P
  <2>1. \A b \in 0..LastWheel : b \in P /\ b < LastWheel => b + 1 \in P
    BY <1>7
  <2>2. 0 \in Nat
    OBVIOUS
  <2>3. QED
    BY <1>1, <1>6, <2>1, <2>2, IntervalInduction
<1>9. QED
  BY <1>1, <1>5, <1>8

\* The walk passes a timer in a slot that no pointer has reached.
LEMMA WalkPast ==
  ASSUME NEW i \in Ids,
         timer[i] # NoTimer =>
           \A b \in 1..LastWheel : ~ (timer[i].wheel = b /\ timer[i].slot = NextSlot(b))
  PROVE  StepTimer(i) = [node |-> timer[i], fires |-> 0]
<1> DEFINE s == [node |-> timer[i], fires |-> 0]
           f == [b \in 0..LastWheel |-> s]
<1>1. LastWheel \in Nat
  BY LastIs, SizeType DEF Wheels
<1>2. \A b \in 1..LastWheel : Meet(s, b) = s
  BY DEF Meet
<1> HIDE DEF s
<1>3. \A b \in 0..LastWheel : f[b] = IF b = 0 THEN s ELSE Meet(f[b-1], b)
  <2> TAKE b \in 0..LastWheel
  <2>1. CASE b = 0
    BY <2>1
  <2>2. CASE b # 0
    <3>1. b \in 1..LastWheel /\ b - 1 \in 0..LastWheel
      BY <1>1, <2>2
    <3>2. f[b] = s /\ f[b-1] = s
      BY <3>1
    <3> HIDE DEF f
    <3>3. QED
      BY <1>2, <2>2, <3>1, <3>2
  <2>3. QED
    BY <2>1, <2>2
<1>4. f = [b \in 0..LastWheel |-> f[b]] /\ f[LastWheel] = s
  BY <1>1
<1> HIDE DEF f
<1>5. f = [b \in 0..LastWheel |-> IF b = 0 THEN s ELSE Meet(f[b-1], b)]
  BY <1>3, <1>4, Zenon
<1>6. StepTimer(i) = f[LastWheel]
  BY <1>5, WalkIs DEF s
<1>7. QED
  BY <1>4, <1>6 DEF s

\* It meets a timer in a slot that a pointer has reached, and does not meet it
\* again.
LEMMA WalkMeets ==
  ASSUME NEW i \in Ids, timer[i] # NoTimer, NEW w \in 1..LastWheel,
         timer[i].wheel = w, timer[i].slot = NextSlot(w),
         NEW node, NEW fires \in Nat,
         Reach(timer[i], UpTo(w)).node = node, Reach(timer[i], UpTo(w)).fires = fires,
         node # NoTimer => node.wheel \notin (w+1)..LastWheel
  PROVE  StepTimer(i).node = node /\ StepTimer(i).fires = fires
<1> DEFINE s == [node |-> timer[i], fires |-> 0]
           r == [node |-> node, fires |-> fires]
           f == [b \in 0..LastWheel |-> IF b < w THEN s ELSE r]
<1>1. LastWheel \in Nat /\ w \in Nat /\ w >= 1
  BY LastIs, SizeType DEF Wheels
<1>2. \A b \in 1..(w-1) : Meet(s, b) = s
  <2>1. \A b \in 1..(w-1) : w # b
    BY <1>1
  <2>2. QED
    BY <2>1 DEF Meet
<1>3. Meet(s, w) = r
  <2>1. s.node = timer[i] /\ s.fires = 0
    OBVIOUS
  <2>2. fires + 0 = fires
    OBVIOUS
  <2> HIDE DEF s
  <2>3. Meet(s, w) = [node |-> node, fires |-> fires + 0]
    BY <2>1 DEF Meet
  <2>4. QED
    BY <2>2, <2>3
<1>4. \A b \in (w+1)..LastWheel : Meet(r, b) = r
  <2>1. r.node = node
    OBVIOUS
  <2> HIDE DEF r
  <2>2. QED
    BY <2>1 DEF Meet
<1> HIDE DEF s, r
<1>5. \A b \in 0..LastWheel : f[b] = IF b = 0 THEN s ELSE Meet(f[b-1], b)
  <2> TAKE b \in 0..LastWheel
  <2>1. CASE b = 0
    BY <1>1, <2>1
  <2>2. CASE b # 0
    <3>1. b \in Nat /\ b \in 1..LastWheel /\ b - 1 \in 0..LastWheel
      BY <1>1, <2>2
    <3>2. f[b] = (IF b < w THEN s ELSE r) /\ f[b-1] = (IF b - 1 < w THEN s ELSE r)
      BY <3>1
    <3> HIDE DEF f
    <3>3. CASE b < w
      <4>1. b \in 1..(w-1) /\ b - 1 < w
        BY <1>1, <3>1, <3>3
      <4>2. f[b] = s /\ f[b-1] = s /\ Meet(s, b) = s
        BY <1>2, <3>2, <3>3, <4>1
      <4>3. QED
        BY <2>2, <4>2
    <3>4. CASE b = w
      <4>1. b - 1 < w /\ ~ (b < w)
        BY <1>1, <3>4
      <4>2. f[b] = r /\ f[b-1] = s
        BY <3>2, <4>1
      <4>3. QED
        BY <1>3, <2>2, <3>4, <4>2
    <3>5. CASE b > w
      <4>1. b \in (w+1)..LastWheel /\ ~ (b - 1 < w) /\ ~ (b < w)
        BY <1>1, <3>1, <3>5
      <4>2. f[b] = r /\ f[b-1] = r /\ Meet(r, b) = r
        BY <1>4, <3>2, <4>1
      <4>3. QED
        BY <2>2, <4>2
    <3>6. QED
      BY <1>1, <3>1, <3>3, <3>4, <3>5
  <2>3. QED
    BY <2>1, <2>2
<1>6. f = [b \in 0..LastWheel |-> f[b]] /\ f[LastWheel] = r
  <2>1. ~ (LastWheel < w) /\ LastWheel \in 0..LastWheel
    BY <1>1
  <2>2. QED
    BY <2>1
<1> HIDE DEF f
<1>7. f = [b \in 0..LastWheel |-> IF b = 0 THEN s ELSE Meet(f[b-1], b)]
  BY <1>5, <1>6, Zenon
<1>8. StepTimer(i) = f[LastWheel]
  BY <1>7, WalkIs DEF s
<1>9. QED
  BY <1>6, <1>8 DEF r

\* A timer placed during the walk waits for its steps, the pointers being where
\* the walk leaves them: those of its wheel and below have moved, or the walk
\* ends here.
LEMMA PlacedWaits ==
  ASSUME newest \in Pointers, NEW v \in 1..LastWheel, NEW n \in 1..(Base[Len(Size) + 1] - 1),
         NEW interval \in Intervals, NEW keep \in BOOLEAN,
         WheelOf(n) <= v \/ v = LastWheel,
         \A c \in Wheels : c > WheelOf(n) /\ Base[c] <= interval =>
           Lower(UpTo(LastWheel))[c] + n < Base[c]
  PROVE  LET p == Place(UpTo(v), n, interval, keep)
         IN  p \in WheelNodes /\ p.wheel = WheelOf(n) /\ Waits(p, n, UpTo(LastWheel))
<1> DEFINE nw == UpTo(v)
           nl == UpTo(LastWheel)
           p == Place(nw, n, interval, keep)
           b == WheelOf(n)
<1>1. Wheels = 1..Len(Size) /\ Len(Size) \in Nat /\ LastWheel \in Wheels /\ LastWheel \in Nat /\ v \in Wheels /\ v <= LastWheel
  BY LastIs, SizeType DEF Wheels
<1>2. nw \in Pointers /\ \A w \in Wheels : nw[w] = IF w <= v THEN NextSlot(w) ELSE newest[w]
  BY <1>1, UpToType
<1>3. nl \in Pointers /\ \A w \in Wheels : nl[w] = IF w <= LastWheel THEN NextSlot(w) ELSE newest[w]
  BY <1>1, UpToType
<1>4. b \in Wheels
  BY WheelOfIs
<1> HIDE DEF nw, p, b
<1>5. /\ p \in WheelNodes /\ p.wheel = b /\ p.interval = interval
      /\ p.left < 2 * Base[p.wheel]
      /\ \E k \in 1..(Size[p.wheel] - 1) :
           /\ p.slot = (nw[p.wheel] + k) % Size[p.wheel]
           /\ n = IF p.wheel = 1 THEN k ELSE k * Base[p.wheel] - Lower(nw)[p.wheel] + p.left
  BY <1>2, PlaceIs DEF p, b
<1>6. nw[b] = nl[b] /\ Lower(nw)[b] = Lower(nl)[b]
  <2>1. CASE v = LastWheel
    BY <2>1 DEF nw
  <2>2. CASE b <= v
    <3>1. b <= LastWheel /\ b \in 1..v /\ b \in 1..LastWheel /\ LastWheel \in 1..LastWheel
      BY <1>1, <1>4, <2>2
    <3>2. Lower(nw)[b] = 0 /\ Lower(nl)[b] = 0
      BY <3>1, LowerLast DEF nw
    <3>3. nw[b] = nl[b]
      BY <1>2, <1>3, <1>4, <2>2, <3>1
    <3>4. QED
      BY <3>2, <3>3
  <2>3. QED
    BY <2>1, <2>2 DEF b
<1> HIDE DEF nl
<1>7. \E k \in 1..(Size[p.wheel] - 1) :
        /\ p.slot = (nl[p.wheel] + k) % Size[p.wheel]
        /\ n = IF p.wheel = 1 THEN k ELSE k * Base[p.wheel] - Lower(nl)[p.wheel] + p.left
  BY <1>5, <1>6
<1>8. \A c \in Wheels : c > p.wheel /\ Base[c] <= p.interval => Lower(nl)[c] + n < Base[c]
  BY <1>5 DEF b, nl
<1>9. Waits(p, n, nl)
  BY <1>5, <1>7, <1>8 DEF Waits
<1>10. QED
  BY <1>5, <1>9 DEF p, nl, nw, b

\* A timer that waits: its wheel, and the steps it has at least.
LEMMA WaitsType ==
  ASSUME NEW t \in WheelNodes, NEW nw \in Pointers, NEW d, Waits(t, d, nw)
  PROVE  /\ t.wheel \in Wheels /\ t.wheel \in Nat /\ t.left \in Nat /\ t.interval \in Intervals /\ t.keep \in BOOLEAN
         /\ Base[t.wheel] \in Nat /\ Base[t.wheel] >= 1 /\ Size[t.wheel] \in Nat /\ Size[t.wheel] >= 2
         /\ Lower(nw)[t.wheel] \in Nat /\ Lower(nw)[t.wheel] < Base[t.wheel]
         /\ nw[t.wheel] \in 0..(Size[t.wheel] - 1)
         /\ d \in Nat /\ d >= 1 /\ d + Lower(nw)[t.wheel] >= Base[t.wheel]
<1> DEFINE w == t.wheel
<1>1. w \in Wheels /\ w \in Nat /\ t.left \in Nat /\ t.interval \in Intervals /\ t.keep \in BOOLEAN
  BY DEF WheelNodes, Wheels
<1>2. w \in 1..(Len(Size) + 1)
  BY <1>1, SizeType DEF Wheels
<1>3. /\ Base[w] \in Nat /\ Base[w] >= 1 /\ Size[w] \in Nat /\ Size[w] >= 2
      /\ Lower(nw)[w] \in Nat /\ Lower(nw)[w] < Base[w]
  BY <1>1, <1>2, BaseType, SizeType, LowerType
<1>4. nw[w] \in 0..(Size[w] - 1)
  <2>1. nw[w] \in Nat /\ nw[w] < Size[w]
    BY <1>1 DEF Pointers
  <2>2. QED
    BY <1>3, <2>1
<1>5. PICK k \in 1..(Size[w] - 1) : d = IF w = 1 THEN k ELSE k * Base[w] - Lower(nw)[w] + t.left
  BY DEF Waits
<1> HIDE DEF w
<1>6. d \in Nat /\ d >= 1 /\ d + Lower(nw)[w] >= Base[w]
  <2>1. CASE w = 1
    <3>1. Base[w] = 1 /\ Lower(nw)[w] = 0
      BY <2>1, BaseIs, LowerIs
    <3>2. QED
      BY <1>5, <2>1, <3>1
  <2>2. CASE w # 1
    <3>1. k \in Nat /\ k >= 1
      BY <1>3
    <3>2. k * Base[w] \in Nat /\ k * Base[w] >= Base[w]
      BY <1>3, <3>1, Product
    <3>3. d = k * Base[w] - Lower(nw)[w] + t.left
      BY <1>5, <2>2
    <3>4. QED
      BY <1>1, <1>3, <3>2, <3>3
  <2>3. QED
    BY <2>1, <2>2
<1>7. QED
  BY <1>1, <1>3, <1>4, <1>6 DEF w

\* The wheels above the one a timer waits in that its interval reaches do not
\* move in this step, and it still fires before they do.
LEMMA StillBefore ==
  ASSUME newest \in Pointers, NEW t \in WheelNodes, NEW d \in Nat, d >= 1, Waits(t, d, newest),
         NEW c \in Wheels, c > t.wheel, Base[c] <= t.interval
  PROVE  /\ c \in (LastWheel + 1)..Len(Size)
         /\ Lower(UpTo(LastWheel))[c] + (d - 1) < Base[c]
<1>1. Lower(newest)[c] + d < Base[c]
  BY DEF Waits
<1>2. Wheels = 1..Len(Size) /\ Len(Size) \in Nat /\ LastWheel \in Nat /\ LastWheel >= 1
  BY SizeType, LastIs DEF Wheels
<1>3. Lower(newest)[c] \in Nat /\ Base[c] \in Nat
  <2>1. c \in 1..(Len(Size) + 1)
    BY <1>2
  <2>2. QED
    BY <2>1, LowerType, BaseType
<1>4. ~ (c <= LastWheel)
  <2>1. SUFFICES ASSUME c <= LastWheel PROVE FALSE
    OBVIOUS
  <2>2. LastWheel \in 1..LastWheel /\ c \in 1..LastWheel
    BY <1>2, <2>1
  <2>3. Lower(newest)[c] = Base[c] - 1
    BY <2>2, LowerLast
  <2>4. QED
    BY <1>1, <1>3, <2>3
<1>5. c \in (LastWheel + 1)..Len(Size)
  BY <1>2, <1>4
<1>6. Lower(UpTo(LastWheel))[c] = Lower(newest)[c] + 1
  BY <1>5, LowerAbove
<1>7. QED
  BY <1>1, <1>3, <1>5, <1>6

\* A timer whose slot is not reached waits a step less.
LEMMA PassedWaits ==
  ASSUME newest \in Pointers, NEW t \in WheelNodes, NEW d \in Nat, Waits(t, d, newest),
         t.wheel <= LastWheel => t.slot # NextSlot(t.wheel)
  PROVE  d > 1 /\ Waits(t, d - 1, UpTo(LastWheel))
<1> DEFINE w == t.wheel
           nl == UpTo(LastWheel)
<1>1. /\ w \in Wheels /\ w \in Nat /\ t.left \in Nat /\ Base[w] \in Nat /\ Base[w] >= 1
      /\ Size[w] \in Nat /\ Size[w] >= 2 /\ Lower(newest)[w] \in Nat /\ Lower(newest)[w] < Base[w]
      /\ newest[w] \in 0..(Size[w] - 1) /\ d >= 1 /\ d + Lower(newest)[w] >= Base[w]
  BY WaitsType
<1>2. PICK k \in 1..(Size[w] - 1) :
        /\ t.slot = (newest[w] + k) % Size[w]
        /\ d = IF w = 1 THEN k ELSE k * Base[w] - Lower(newest)[w] + t.left
  BY DEF Waits
<1>3. Wheels = 1..Len(Size) /\ Len(Size) \in Nat /\ LastWheel \in Wheels /\ LastWheel \in Nat
  BY SizeType, LastIs DEF Wheels
<1>4. nl \in Pointers /\ \A b \in Wheels : nl[b] = IF b <= LastWheel THEN NextSlot(b) ELSE newest[b]
  BY <1>3, UpToType
<1>5. \A c \in Wheels : c > w /\ Base[c] <= t.interval => Lower(nl)[c] + (d - 1) < Base[c]
  BY <1>1, StillBefore
<1>6. t.left < 2 * Base[w]
  BY DEF Waits
<1>7. CASE w <= LastWheel
  <2>1. NextSlot(w) = (newest[w] + 1) % Size[w] /\ t.slot # NextSlot(w)
    BY <1>7 DEF NextSlot
  <2>2. k # 1 /\ k \in Nat /\ k - 1 \in 1..(Size[w] - 1)
    BY <1>1, <1>2, <2>1
  <2>3. nl[w] = NextSlot(w) /\ NextSlot(w) \in 0..(Size[w] - 1)
    BY <1>1, <1>4, <1>7, NextSlotIs
  <2>4. t.slot = (nl[w] + (k - 1)) % Size[w]
    <3>1. (newest[w] + k) % Size[w] = IF newest[w] + k < Size[w] THEN newest[w] + k ELSE newest[w] + k - Size[w]
      BY <1>1, SlotOn
    <3>2. NextSlot(w) = IF newest[w] + 1 < Size[w] THEN newest[w] + 1 ELSE 0
      BY <1>1, NextSlotIs
    <3>3. (NextSlot(w) + (k - 1)) % Size[w]
            = IF NextSlot(w) + (k - 1) < Size[w] THEN NextSlot(w) + (k - 1) ELSE NextSlot(w) + (k - 1) - Size[w]
      BY <1>1, <2>2, <2>3, SlotOn
    <3> HIDE DEF w
    <3>4. (newest[w] + k) % Size[w] = (NextSlot(w) + (k - 1)) % Size[w]
      BY <1>1, <2>2, <3>1, <3>2, <3>3
    <3>5. QED
      BY <1>2, <2>3, <3>4
  <2>5. d > 1 /\ d - 1 = IF w = 1 THEN k - 1 ELSE (k - 1) * Base[w] - Lower(nl)[w] + t.left
    <3>1. w \in 1..LastWheel /\ LastWheel \in 1..LastWheel
      BY <1>1, <1>3, <1>7
    <3>2. Lower(newest)[w] = Base[w] - 1 /\ Lower(nl)[w] = 0
      BY <3>1, LowerLast
    <3> HIDE DEF w, nl
    <3>3. CASE w = 1
      BY <1>2, <2>2, <3>3
    <3>4. CASE w # 1
      <4>1. (k - 1) * Base[w] \in Nat /\ (k - 1) * Base[w] >= Base[w]
        <5>1. k - 1 \in Nat /\ k - 1 >= 1
          BY <2>2
        <5>2. QED
          BY <1>1, <5>1, Product
      <4>2. k * Base[w] = (k - 1) * Base[w] + Base[w]
        BY <1>1, <2>2
      <4>3. d = k * Base[w] - Lower(newest)[w] + t.left
        BY <1>2, <3>4
      <4>4. d = (k - 1) * Base[w] + 1 + t.left
        BY <1>1, <3>2, <4>1, <4>2, <4>3
      <4>5. d > 1 /\ d - 1 = (k - 1) * Base[w] + t.left
        BY <1>1, <4>1, <4>4
      <4>6. (k - 1) * Base[w] - Lower(nl)[w] + t.left = (k - 1) * Base[w] + t.left
        BY <1>1, <3>2, <4>1
      <4>7. QED
        BY <3>4, <4>5, <4>6
    <3>5. QED
      BY <3>3, <3>4
  <2> HIDE DEF nl
  <2>6. Waits(t, d - 1, nl)
    BY <1>5, <1>6, <2>2, <2>4, <2>5 DEF Waits
  <2>7. QED
    BY <2>5, <2>6 DEF nl
<1>8. CASE w > LastWheel
  <2>1. w \in (LastWheel + 1)..Len(Size) /\ w # 1 /\ ~ (w <= LastWheel)
    <3>1. w \in 1..Len(Size) /\ LastWheel \in 1..Len(Size) /\ w \in Nat
      BY <1>1, <1>3
    <3> HIDE DEF w
    <3>2. QED
      BY <1>3, <1>8, <3>1
  <2>2. Lower(nl)[w] = Lower(newest)[w] + 1 /\ nl[w] = newest[w]
    BY <2>1, LowerAbove
  <2>3. Lower(nl)[w] < Base[w]
    BY <1>1, <1>4, LowerType
  <2> HIDE DEF nl
  <2>4. d > 1
    BY <1>1, <2>2, <2>3
  <2>5. d - 1 = k * Base[w] - Lower(nl)[w] + t.left
    <3>1. k * Base[w] \in Int
      BY <1>1
    <3>2. d = k * Base[w] - Lower(newest)[w] + t.left
      BY <1>2, <2>1
    <3> HIDE DEF w
    <3>3. QED
      BY <1>1, <2>2, <3>1, <3>2
  <2>6. Waits(t, d - 1, nl)
    BY <1>2, <1>5, <1>6, <2>1, <2>2, <2>5 DEF Waits
  <2>7. QED
    BY <2>4, <2>6 DEF nl
<1>9. QED
  BY <1>1, <1>3, <1>7, <1>8

\* Intervals are in the range of the wheels.
LEMMA IntervalsType == \A n \in Intervals : n \in Nat /\ n \in 1..(Base[Len(Size) + 1] - 1)
<1>1. Len(Size) + 1 \in 1..(Len(Size) + 1)
  BY SizeType
<1>2. Base[Len(Size) + 1] \in Nat
  BY <1>1, BaseType
<1>3. \A n \in Intervals : n \in 1..(Base[Len(Size) + 1] - 1)
  BY WheelTimerAssumption
<1>4. QED
  BY <1>2, <1>3

\* What the whole walk of Step makes of a timer that waits: it fires if its
\* steps have passed, and otherwise waits for those that are left, in the slot
\* it was in or in one it was moved to.
LEMMA StepTimerIs ==
  ASSUME newest \in Pointers, NEW i \in Ids, timer[i] \in WheelNodes, timer[i] # NoTimer,
         due[i] \in Nat, Waits(timer[i], due[i], newest)
  PROVE  /\ due[i] >= 1
         /\ StepTimer(i).fires = IF due[i] = 1 THEN 1 ELSE 0
         /\ StepTimer(i).node \in WheelNodes \cup {NoTimer}
         /\ due[i] > 1 => Waits(StepTimer(i).node, due[i] - 1, UpTo(LastWheel))
         /\ due[i] = 1 /\ StepTimer(i).node # NoTimer =>
              timer[i].keep /\ Waits(StepTimer(i).node, timer[i].interval, UpTo(LastWheel))
<1> DEFINE t == timer[i]
           d == due[i]
           w == t.wheel
           nl == UpTo(LastWheel)
<1>1. /\ w \in Wheels /\ w \in Nat /\ t.left \in Nat /\ t.interval \in Intervals /\ t.keep \in BOOLEAN
      /\ Base[w] \in Nat /\ Base[w] >= 1 /\ Size[w] \in Nat /\ Size[w] >= 2
      /\ Lower(newest)[w] \in Nat /\ Lower(newest)[w] < Base[w]
      /\ newest[w] \in 0..(Size[w] - 1) /\ d >= 1
  BY WaitsType
<1>2. Wheels = 1..Len(Size) /\ Len(Size) \in Nat /\ LastWheel \in Wheels /\ LastWheel \in Nat
  BY SizeType, LastIs DEF Wheels
<1>3. CASE w <= LastWheel => t.slot # NextSlot(w)
  <2>1. d > 1 /\ Waits(t, d - 1, nl)
    BY <1>1, <1>3, PassedWaits
  <2>2. \A b \in 1..LastWheel : ~ (t.wheel = b /\ t.slot = NextSlot(b))
    BY <1>2, <1>3
  <2>3. StepTimer(i) = [node |-> t, fires |-> 0]
    BY <2>2, WalkPast
  <2>4. StepTimer(i).node = t /\ StepTimer(i).fires = 0
    BY <2>3
  <2>5. ~ (d = 1)
    BY <1>1, <2>1
  <2>6. QED
    BY <1>1, <2>1, <2>4, <2>5
<1>4. CASE w <= LastWheel /\ t.slot = NextSlot(w)
  <2>1. w \in 1..LastWheel /\ LastWheel \in 1..LastWheel
    BY <1>1, <1>2, <1>4
  <2>2. d = IF w = 1 THEN 1 ELSE 1 + t.left
    <3>1. PICK k \in 1..(Size[w] - 1) :
            /\ t.slot = (newest[w] + k) % Size[w]
            /\ d = IF w = 1 THEN k ELSE k * Base[w] - Lower(newest)[w] + t.left
      BY DEF Waits
    <3>2. k = 1
      <4>1. (newest[w] + k) % Size[w] = IF newest[w] + k < Size[w] THEN newest[w] + k ELSE newest[w] + k - Size[w]
        BY <1>1, SlotOn
      <4>2. NextSlot(w) = IF newest[w] + 1 < Size[w] THEN newest[w] + 1 ELSE 0
        BY <1>1, NextSlotIs
      <4>3. t.slot = NextSlot(w) /\ t.slot = (newest[w] + k) % Size[w]
        BY <1>4, <3>1
      <4>4. Size[w] \in Nat /\ newest[w] \in Nat /\ newest[w] < Size[w] /\ k \in Nat /\ k >= 1 /\ k < Size[w]
        BY <1>1
      <4> HIDE DEF w, t
      <4>5. QED
        BY <4>1, <4>2, <4>3, <4>4
    <3>3. Lower(newest)[w] = Base[w] - 1
      BY <2>1, LowerLast
    <3>4. k * Base[w] = Base[w]
      BY <1>1, <3>2
    <3>5. w # 1 => d = k * Base[w] - Lower(newest)[w] + t.left
      BY <3>1
    <3>6. w = 1 => d = 1
      BY <3>1, <3>2
    <3>7. t.left \in Nat /\ Base[w] \in Nat /\ Lower(newest)[w] \in Nat
      BY <1>1
    <3> HIDE DEF w, t, d
    <3>8. w # 1 => d = 1 + t.left
      BY <3>3, <3>4, <3>5, <3>7
    <3>9. QED
      BY <3>6, <3>8
  <2>3. CASE w = 1 \/ t.left = 0
    <3>1. d = 1
      BY <2>2, <2>3
    <3> DEFINE p == Place(UpTo(w), t.interval, t.interval, TRUE)
               node == IF t.keep THEN p ELSE NoTimer
    <3>2. Reach(t, UpTo(w)).node = node /\ Reach(t, UpTo(w)).fires = 1
      BY <2>3 DEF Reach
    <3>3. t.interval \in 1..(Base[Len(Size) + 1] - 1) /\ t.interval \in Nat
      BY <1>1, IntervalsType
    <3> DEFINE b == WheelOf(t.interval)
    <3>4. b \in Wheels /\ Base[b] <= t.interval /\ t.interval < Base[b+1] /\ b \in Nat /\ t.interval \in Nat
      BY <1>2, <3>3, WheelOfIs
    <3>5. ASSUME NEW c \in Wheels, c > w, c <= b PROVE c > LastWheel
      <4>1. c \in 1..(Len(Size) + 1) /\ b \in c..(Len(Size) + 1) /\ c \in Nat
        BY <1>2, <3>4, <3>5
      <4>2. Base[c] <= Base[b] /\ Base[b] \in Nat /\ Base[c] \in Nat
        <5>1. b \in 1..(Len(Size) + 1)
          BY <1>2, <3>4
        <5>2. QED
          BY <4>1, <5>1, BaseGrows, BaseType
      <4>3. Base[c] <= t.interval
        BY <3>4, <4>2
      <4>4. c \in (LastWheel + 1)..Len(Size)
        BY <1>1, <3>5, <4>3, StillBefore
      <4>5. QED
        BY <1>2, <4>4
    <3>6. b <= w \/ w = LastWheel
      <4>1. SUFFICES ASSUME b > w PROVE w = LastWheel
        BY <1>1, <3>4
      <4>0. w \in Nat /\ w >= 1 /\ b \in Nat /\ b <= Len(Size)
        BY <1>1, <1>2, <3>4
      <4>2. w + 1 \in Wheels /\ w + 1 > w /\ w + 1 <= b
        <5> HIDE DEF w, b
        <5>1. QED
          BY <1>2, <4>0, <4>1
      <4>3. w + 1 > LastWheel
        BY <3>5, <4>2
      <4>4. QED
        BY <1>1, <1>2, <1>4, <4>3
    <3>7. b \notin (w+1)..LastWheel
      <4>1. SUFFICES ASSUME b > w, b <= LastWheel PROVE FALSE
        BY <1>1, <1>2, <3>4
      <4>2. b <= b
        BY <3>4
      <4>3. QED
        BY <1>2, <3>4, <3>5, <4>1, <4>2
    <3>8. \A c \in Wheels : c > b /\ Base[c] <= t.interval => Lower(nl)[c] + t.interval < Base[c]
      <4>1. SUFFICES ASSUME NEW c \in Wheels, c > b, Base[c] <= t.interval PROVE FALSE
        OBVIOUS
      <4>2. b + 1 \in 1..(Len(Size) + 1) /\ c \in (b+1)..(Len(Size) + 1) /\ c \in 1..(Len(Size) + 1)
        BY <1>2, <3>4, <4>1
      <4>3. Base[b+1] <= Base[c] /\ Base[b+1] \in Nat /\ Base[c] \in Nat
        BY <4>2, BaseGrows, BaseType
      <4>4. QED
        BY <3>4, <4>1, <4>3
    <3>9. p \in WheelNodes /\ p.wheel = b /\ Waits(p, t.interval, nl)
      <4>1. TRUE \in BOOLEAN
        OBVIOUS
      <4>2. QED
        BY <1>1, <2>1, <3>3, <3>6, <3>8, <4>1, PlacedWaits
    <3> HIDE DEF p, b
    <3>10. node # NoTimer => node.wheel \notin (w+1)..LastWheel
      BY <3>7, <3>9
    <3> HIDE DEF node
    <3>11. StepTimer(i).node = node /\ StepTimer(i).fires = 1
      BY <1>4, <2>1, <3>2, <3>10, WalkMeets
    <3>12. node \in WheelNodes \cup {NoTimer} /\ (node # NoTimer => t.keep /\ Waits(node, t.interval, nl))
      BY <3>9 DEF node
    <3>13. QED
      BY <3>1, <3>11, <3>12
  <2>4. CASE ~ (w = 1 \/ t.left = 0)
    <3>1. d = 1 + t.left /\ d > 1 /\ t.left >= 1 /\ w # 1 /\ d - 1 = t.left
      <4>1. t.left \in Nat /\ t.left # 0 /\ w # 1
        BY <1>1, <2>4
      <4>2. d = 1 + t.left
        BY <2>2, <4>1
      <4> HIDE DEF t, d, w
      <4>3. QED
        BY <4>1, <4>2
    <3> DEFINE p == Place(UpTo(w), t.left, t.interval, t.keep)
    <3>2. Reach(t, UpTo(w)).node = p /\ Reach(t, UpTo(w)).fires = 0
      BY <2>4 DEF Reach
    <3>3. t.left < Base[w+1] /\ Base[w+1] \in Nat /\ w + 1 \in 1..(Len(Size) + 1)
      <4>1. t.left < 2 * Base[w]
        BY DEF Waits
      <4>2. Base[w+1] >= 2 * Base[w] /\ w + 1 \in 1..(Len(Size) + 1)
        <5>1. w \in Wheels /\ w \in Nat /\ w >= 1 /\ w <= Len(Size) /\ Len(Size) \in Nat
          BY <1>1, <1>2
        <5> HIDE DEF w
        <5>2. w + 1 \in 1..(Len(Size) + 1)
          BY <5>1
        <5>3. QED
          BY <5>1, <5>2, BaseType
      <4>3. Base[w+1] \in Nat
        BY <4>2, BaseType
      <4>4. t.left \in Nat /\ Base[w] \in Nat
        BY <1>1
      <4> HIDE DEF w, t
      <4>5. QED
        BY <4>1, <4>2, <4>3, <4>4
    <3>4. t.left \in 1..(Base[Len(Size) + 1] - 1)
      <4>1. Len(Size) + 1 \in (w+1)..(Len(Size) + 1) /\ Len(Size) + 1 \in 1..(Len(Size) + 1)
        BY <1>2, <3>3
      <4>2. Base[w+1] <= Base[Len(Size) + 1] /\ Base[Len(Size) + 1] \in Nat
        BY <3>3, <4>1, BaseGrows, BaseType
      <4>3. t.left \in Nat /\ t.left >= 1 /\ t.left < Base[w+1]
        BY <1>1, <3>1, <3>3
      <4> HIDE DEF w, t
      <4>4. QED
        BY <3>3, <4>2, <4>3
    <3> DEFINE b == WheelOf(t.left)
    <3>5. b \in Wheels /\ Base[b] <= t.left /\ t.left < Base[b+1] /\ b \in Nat
      BY <1>2, <3>4, WheelOfIs
    <3>6. b <= w
      <4>1. SUFFICES ASSUME b > w PROVE FALSE
        BY <1>1, <3>5
      <4>2. b \in (w+1)..(Len(Size) + 1) /\ b \in 1..(Len(Size) + 1)
        BY <1>1, <1>2, <3>5, <4>1
      <4>3. Base[w+1] <= Base[b] /\ Base[b] \in Nat
        BY <3>3, <4>2, BaseGrows, BaseType
      <4>4. QED
        BY <1>1, <3>3, <3>5, <4>3
    <3>7. \A c \in Wheels : c > b /\ Base[c] <= t.interval => Lower(nl)[c] + t.left < Base[c]
      <4> SUFFICES ASSUME NEW c \in Wheels, c > b, Base[c] <= t.interval PROVE Lower(nl)[c] + t.left < Base[c]
        OBVIOUS
      <4>1. CASE c <= LastWheel
        <5>1. c \in 1..LastWheel
          BY <1>2, <4>1
        <5>2. Lower(nl)[c] = 0
          BY <2>1, <5>1, LowerLast
        <5>3. b + 1 \in 1..(Len(Size) + 1) /\ c \in (b+1)..(Len(Size) + 1) /\ c \in 1..(Len(Size) + 1)
          BY <1>2, <3>5
        <5>4. Base[b+1] <= Base[c] /\ Base[b+1] \in Nat /\ Base[c] \in Nat
          BY <5>3, BaseGrows, BaseType
        <5>5. QED
          BY <1>1, <3>5, <5>2, <5>4
      <4>2. CASE c > LastWheel
        <5>1. c > w
          BY <1>1, <1>2, <1>4, <4>2
        <5>2. Lower(nl)[c] + (d - 1) < Base[c]
          BY <1>1, <5>1, StillBefore
        <5>3. QED
          BY <3>1, <5>2
      <4>3. QED
        BY <1>2, <4>1, <4>2
    <3>8. p \in WheelNodes /\ p.wheel = b /\ Waits(p, t.left, nl)
      BY <1>1, <2>1, <3>4, <3>6, <3>7, PlacedWaits
    <3> HIDE DEF p
    <3>9. p # NoTimer => p.wheel \notin (w+1)..LastWheel
      BY <1>1, <1>2, <3>5, <3>6, <3>8
    <3>10. StepTimer(i).node = p /\ StepTimer(i).fires = 0
      <4>1. 0 \in Nat
        OBVIOUS
      <4>2. QED
        BY <1>4, <2>1, <3>2, <3>9, <4>1, WalkMeets
    <3> HIDE DEF d, w, t
    <3>11. Waits(p, d - 1, nl) /\ ~ (d = 1)
      BY <3>1, <3>8
    <3>12. QED
      BY <1>1, <3>8, <3>10, <3>11 DEF d
  <2>5. QED
    BY <2>3, <2>4
<1>5. QED
  BY <1>3, <1>4

\* The node of a timer is not none.
LEMMA NodesAreTimers == NoTimer \notin WheelNodes
<1>1. ASSUME NEW t \in WheelNodes
      PROVE  t \in [interval : Nat, keep : BOOLEAN, left : Nat, wheel : Nat, slot : Nat]
  <2>1. t.interval \in Nat
    <3>1. t.interval \in Intervals
      BY DEF WheelNodes
    <3>2. QED
      BY <3>1, IntervalsType
  <2>2. t.wheel \in Nat
    BY DEF WheelNodes, Wheels
  <2>3. QED
    BY <2>1, <2>2 DEF WheelNodes
<1>2. QED
  BY <1>1, WheelTimerAssumption

\* Step keeps the invariant: every timer that does not fire waits a step less.
LEMMA WheelStepInv ==
  ASSUME WheelInv, Step
  PROVE  /\ WheelInv'
         /\ \A i \in Ids : fired'[i] = IF timer[i] # NoTimer /\ due[i] = 1 THEN 1 ELSE 0
<1>1. newest \in Pointers /\ newest' = UpTo(LastWheel) /\ newest' \in Pointers
  <2>1. newest \in Pointers /\ newest' = UpTo(LastWheel)
    BY DEF WheelInv, Step
  <2>2. UpTo(LastWheel) \in Pointers
    BY <2>1, LastIs, UpToType
  <2>3. QED
    BY <2>1, <2>2
<1>2. ASSUME NEW i \in Ids
      PROVE  /\ timer'[i] \in WheelNodes \cup {NoTimer} /\ due'[i] \in Nat
             /\ fired'[i] = IF timer[i] # NoTimer /\ due[i] = 1 THEN 1 ELSE 0
             /\ timer'[i] # NoTimer => Waits(timer'[i], due'[i], newest')
  <2>1. /\ timer'[i] = StepTimer(i).node /\ fired'[i] = StepTimer(i).fires
        /\ due'[i] = IF timer[i] = NoTimer THEN 0
                     ELSE IF due[i] > 1 THEN due[i] - 1
                     ELSE IF timer[i].keep THEN timer[i].interval ELSE 0
    BY DEF Step
  <2>2. CASE timer[i] = NoTimer
    <3>1. StepTimer(i) = [node |-> timer[i], fires |-> 0]
      BY <2>2, WalkPast
    <3>2. StepTimer(i).node = timer[i] /\ StepTimer(i).fires = 0
      BY <3>1
    <3>3. QED
      BY <2>1, <2>2, <3>2
  <2>3. CASE timer[i] # NoTimer
    <3>1. timer[i] \in WheelNodes /\ due[i] \in Nat /\ Waits(timer[i], due[i], newest)
      BY <2>3 DEF WheelInv
    <3>2. /\ due[i] >= 1
          /\ StepTimer(i).fires = IF due[i] = 1 THEN 1 ELSE 0
          /\ StepTimer(i).node \in WheelNodes \cup {NoTimer}
          /\ due[i] > 1 => Waits(StepTimer(i).node, due[i] - 1, UpTo(LastWheel))
          /\ due[i] = 1 /\ StepTimer(i).node # NoTimer =>
               timer[i].keep /\ Waits(StepTimer(i).node, timer[i].interval, UpTo(LastWheel))
      BY <1>1, <2>3, <3>1, StepTimerIs
    <3>3. timer[i].interval \in Nat
      <4>1. timer[i].interval \in Intervals
        BY <3>1 DEF WheelNodes
      <4>2. QED
        BY <4>1, IntervalsType
    <3>4. CASE due[i] > 1
      <4>1. due'[i] = due[i] - 1 /\ ~ (due[i] = 1) /\ due[i] - 1 \in Nat
        BY <2>1, <2>3, <3>1, <3>4
      <4>2. timer'[i] # NoTimer => Waits(timer'[i], due'[i], newest')
        BY <1>1, <2>1, <3>2, <3>4, <4>1
      <4>3. QED
        BY <2>1, <2>3, <3>2, <4>1, <4>2
    <3>5. CASE due[i] = 1
      <4>1. due'[i] = (IF timer[i].keep THEN timer[i].interval ELSE 0) /\ due'[i] \in Nat
        BY <2>1, <2>3, <3>3, <3>5
      <4>2. timer'[i] # NoTimer => Waits(timer'[i], due'[i], newest')
        <5>1. SUFFICES ASSUME timer'[i] # NoTimer PROVE Waits(timer'[i], due'[i], newest')
          OBVIOUS
        <5>2. timer[i].keep /\ Waits(StepTimer(i).node, timer[i].interval, UpTo(LastWheel))
          BY <2>1, <3>2, <3>5, <5>1
        <5>3. due'[i] = timer[i].interval
          BY <4>1, <5>2
        <5>4. QED
          BY <1>1, <2>1, <5>2, <5>3
      <4>3. QED
        BY <2>1, <2>3, <3>2, <3>5, <4>1, <4>2
    <3>6. QED
      BY <3>1, <3>2, <3>4, <3>5
  <2>4. QED
    BY <2>2, <2>3
<1>3. timer' \in [Ids -> WheelNodes \cup {NoTimer}] /\ due' \in [Ids -> Nat] /\ fired' \in [Ids -> Nat]
  <2>1. timer' = [i \in Ids |-> timer'[i]] /\ due' = [i \in Ids |-> due'[i]] /\ fired' = [i \in Ids |-> fired'[i]]
    BY DEF Step
  <2>2. \A i \in Ids : fired'[i] \in Nat
    BY <1>2
  <2>3. QED
    BY <1>2, <2>1, <2>2
<1>4. WheelInv'
  BY <1>1, <1>2, <1>3 DEF WheelInv
<1>5. QED
  BY <1>2, <1>4

\* Every step keeps the invariant.
LEMMA WheelNextInv ==
  WheelInv /\ [WheelNext]_wheelVars => WheelInv'
<1> SUFFICES ASSUME WheelInv, [WheelNext]_wheelVars PROVE WheelInv'
  OBVIOUS
<1>1. CASE Step
  BY <1>1, WheelStepInv
<1>2. ASSUME NEW i \in Ids, SetTimer(i) PROVE WheelInv'
  <2>1. PICK n \in Intervals, keep \in BOOLEAN :
          /\ timer' = [timer EXCEPT ![i] = Place(newest, n, n, keep)]
          /\ due' = [due EXCEPT ![i] = n]
    BY <1>2 DEF SetTimer
  <2> DEFINE p == Place(newest, n, n, keep)
             b == WheelOf(n)
  <2>2. newest' = newest /\ fired' = [j \in Ids |-> 0] /\ newest \in Pointers
    BY <1>2 DEF SetTimer, WheelInv
  <2>3. n \in 1..(Base[Len(Size) + 1] - 1) /\ n \in Nat /\ Len(Size) \in Nat
    <3>1. Len(Size) \in Nat
      BY SizeType
    <3>2. QED
      BY <3>1, IntervalsType
  <2>4. b \in Wheels /\ b \in Nat /\ n < Base[b+1]
    BY <2>3, WheelOfIs DEF Wheels
  <2>5. p \in WheelNodes /\ Waits(p, n, newest)
    <3>1. /\ p \in WheelNodes /\ p.wheel = b /\ p.interval = n
          /\ p.left < 2 * Base[p.wheel]
          /\ \E k \in 1..(Size[p.wheel] - 1) :
               /\ p.slot = (newest[p.wheel] + k) % Size[p.wheel]
               /\ n = IF p.wheel = 1 THEN k ELSE k * Base[p.wheel] - Lower(newest)[p.wheel] + p.left
      BY <2>2, <2>3, PlaceIs
    <3> HIDE DEF p, b
    <3>2. ASSUME NEW c \in Wheels, c > p.wheel, Base[c] <= p.interval PROVE FALSE
      <4>1. b + 1 \in 1..(Len(Size) + 1) /\ c \in (b+1)..(Len(Size) + 1) /\ c \in 1..(Len(Size) + 1)
        BY <2>3, <2>4, <3>1, <3>2 DEF Wheels
      <4>2. Base[b+1] <= Base[c] /\ Base[b+1] \in Nat /\ Base[c] \in Nat
        BY <4>1, BaseGrows, BaseType
      <4>3. QED
        BY <2>3, <2>4, <3>1, <3>2, <4>2
    <3>3. QED
      BY <3>1, <3>2 DEF Waits
  <2> HIDE DEF p
  <2>6. timer' \in [Ids -> WheelNodes \cup {NoTimer}] /\ due' \in [Ids -> Nat] /\ fired' \in [Ids -> Nat]
    <3>1. timer \in [Ids -> WheelNodes \cup {NoTimer}] /\ due \in [Ids -> Nat]
      BY DEF WheelInv
    <3>2. timer' = [timer EXCEPT ![i] = p]
      BY <2>1 DEF p
    <3>3. QED
      BY <2>1, <2>2, <2>3, <2>5, <3>1, <3>2
  <2>7. ASSUME NEW j \in Ids, timer'[j] # NoTimer PROVE Waits(timer'[j], due'[j], newest')
    <3>1. timer \in [Ids -> WheelNodes \cup {NoTimer}] /\ due \in [Ids -> Nat]
      BY DEF WheelInv
    <3>2. CASE j = i
      <4>1. timer'[j] = p /\ due'[j] = n
        BY <2>1, <3>1, <3>2 DEF p
      <4>2. QED
        BY <2>2, <2>5, <4>1
    <3>3. CASE j # i
      <4>1. timer'[j] = timer[j] /\ due'[j] = due[j]
        BY <2>1, <3>1, <3>3
      <4>2. Waits(timer[j], due[j], newest)
        BY <2>7, <4>1 DEF WheelInv
      <4>3. QED
        BY <2>2, <4>1, <4>2
    <3>4. QED
      BY <3>2, <3>3
  <2>8. QED
    BY <2>2, <2>6, <2>7 DEF WheelInv
<1>3. ASSUME NEW i \in Ids, DelTimer(i) PROVE WheelInv'
  <2>1. /\ timer' = [timer EXCEPT ![i] = NoTimer] /\ due' = [due EXCEPT ![i] = 0]
        /\ fired' = [j \in Ids |-> 0] /\ newest' = newest
    BY <1>3 DEF DelTimer
  <2>2. /\ timer \in [Ids -> WheelNodes \cup {NoTimer}] /\ due \in [Ids -> Nat] /\ newest \in Pointers
    BY DEF WheelInv
  <2>3. timer' \in [Ids -> WheelNodes \cup {NoTimer}] /\ due' \in [Ids -> Nat] /\ fired' \in [Ids -> Nat]
    BY <2>1, <2>2
  <2>4. ASSUME NEW j \in Ids, timer'[j] # NoTimer PROVE Waits(timer'[j], due'[j], newest')
    <3>1. j # i
      BY <2>1, <2>2, <2>4
    <3>2. timer'[j] = timer[j] /\ due'[j] = due[j]
      BY <2>1, <2>2, <3>1
    <3>3. Waits(timer[j], due[j], newest)
      BY <2>4, <3>2 DEF WheelInv
    <3>4. QED
      BY <2>1, <3>2, <3>3
  <2>5. QED
    BY <2>1, <2>2, <2>3, <2>4 DEF WheelInv
<1>4. CASE UNCHANGED wheelVars
  <2>1. newest' = newest /\ timer' = timer /\ due' = due /\ fired' = fired
    BY <1>4 DEF wheelVars
  <2>2. QED
    BY <2>1 DEF WheelInv
<1>5. QED
  BY <1>1, <1>2, <1>3, <1>4 DEF WheelNext

\* It holds at first, no timer being set.
LEMMA WheelInitInv == WheelInit => WheelInv
<1> SUFFICES ASSUME WheelInit PROVE WheelInv
  OBVIOUS
<1>1. newest \in Pointers
  <2>1. \A b \in Wheels : newest[b] = 0 /\ 0 < Size[b]
    BY SizeType DEF WheelInit
  <2>2. newest \in [Wheels -> Nat]
    BY DEF WheelInit
  <2>3. QED
    BY <2>1, <2>2 DEF Pointers
<1>2. QED
  BY <1>1 DEF WheelInit, WheelInv

\* The types: what is left never wraps, and no timer waits in the slot that
\* the pointer of its wheel has just left (wheel.go:106-125).
THEOREM WheelTypeCorrect == WheelSpec => []WheelTypeOK
<1>1. WheelInv => WheelTypeOK
  <2> SUFFICES ASSUME WheelInv PROVE WheelTypeOK
    OBVIOUS
  <2>1. newest \in [Wheels -> Nat] /\ (\A b \in Wheels : newest[b] < Size[b]) /\ newest \in Pointers
    BY DEF WheelInv, Pointers
  <2>2. ASSUME NEW i \in Ids, timer[i] # NoTimer
        PROVE  /\ timer[i].interval \in Intervals /\ timer[i].keep \in BOOLEAN
               /\ timer[i].wheel \in Wheels
               /\ timer[i].slot \in 0..(Size[timer[i].wheel] - 1)
               /\ timer[i].left \in 0..(2 * Base[timer[i].wheel] - 1)
               /\ timer[i].slot # newest[timer[i].wheel]
    <3> DEFINE t == timer[i]
    <3>1. t \in WheelNodes /\ Waits(t, due[i], newest)
      BY <2>2 DEF WheelInv
    <3> HIDE DEF t
    <3>2. /\ t.wheel \in Wheels /\ t.left \in Nat /\ t.interval \in Intervals /\ t.keep \in BOOLEAN
          /\ Base[t.wheel] \in Nat /\ Size[t.wheel] \in Nat /\ Size[t.wheel] >= 2
          /\ newest[t.wheel] \in 0..(Size[t.wheel] - 1)
      BY <2>1, <3>1, WaitsType
    <3>3. PICK k \in 1..(Size[t.wheel] - 1) : t.slot = (newest[t.wheel] + k) % Size[t.wheel]
      BY <3>1 DEF Waits
    <3>4. t.slot = IF newest[t.wheel] + k < Size[t.wheel] THEN newest[t.wheel] + k ELSE newest[t.wheel] + k - Size[t.wheel]
      BY <3>2, <3>3, SlotOn
    <3>5. t.slot \in 0..(Size[t.wheel] - 1) /\ t.slot # newest[t.wheel]
      BY <3>2, <3>4
    <3>6. t.left < 2 * Base[t.wheel]
      BY <3>1 DEF Waits
    <3>7. t.left \in 0..(2 * Base[t.wheel] - 1)
      BY <3>2, <3>6
    <3>8. QED
      BY <3>2, <3>5, <3>7 DEF t
  <2>3. due \in [Ids -> Nat] /\ fired \in [Ids -> Nat]
    BY DEF WheelInv
  <2>4. QED
    BY <2>1, <2>2, <2>3 DEF WheelTypeOK
<1>2. QED
  BY <1>1, WheelInitInv, WheelNextInv, PTL DEF WheelSpec

\* A timer fires exactly when its interval has passed, however the pointers
\* stand and however the timer moves between the wheels (wheel.go:106-189).
THEOREM TimersOnTime == WheelSpec => OnTime
<1> DEFINE A == newest' # newest =>
                  \A i \in Ids : fired'[i] = IF timer[i] # NoTimer /\ due[i] = 1 THEN 1 ELSE 0
<1>1. WheelInv /\ [WheelNext]_wheelVars => [A]_wheelVars
  <2> SUFFICES ASSUME WheelInv, [WheelNext]_wheelVars, newest' # newest
               PROVE  \A i \in Ids : fired'[i] = IF timer[i] # NoTimer /\ due[i] = 1 THEN 1 ELSE 0
    OBVIOUS
  <2>1. Step
    BY DEF WheelNext, SetTimer, DelTimer, wheelVars
  <2>2. QED
    BY <2>1, WheelStepInv
<1>2. QED
  BY <1>1, WheelInitInv, WheelNextInv, PTL DEF WheelSpec, OnTime
===============================================================================
