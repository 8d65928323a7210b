----------------------------- MODULE ChanRpcProof -----------------------------
(***************************************************************************)
(* What holds of ChanRpc.tla for every set of clients, every capacity of   *)
(* the channels and every number of calls.                                 *)
(***************************************************************************)
EXTENDS ChanRpc, SeqLemmas

(* ------------------------ The inductive invariant ---------------------- *)

\* The server holds a call exactly while it has one to answer, and only
\* refuses calls once the channel is closed; a goroutine on its way into a
\* send has a call left.
ControlInv ==
  /\ serverPc = "ret" <=> cur # <<>>
  /\ \A c \in Clients : pc[c] \in {"sync", "go"} => issued[c] < MaxCalls
  /\ \A c \in Clients : pc[c] = "count" => pending[c] < AsynCap

\* A call begun is in one place, a call not begun in none.
PlacesInv ==
  \A c \in Clients : \A n \in 1..MaxCalls :
    Places(c, n) = (IF n <= issued[c] THEN 1 ELSE 0)

\* A client waits exactly while its one synchronous call is on its way.
WaitInv ==
  \A c \in Clients :
    Count(chanCall, OfKind(c, "sync")) + Count(cur, Executing(OfKind(c, "sync")))
      + Len(syncRet[c]) = (IF pc[c] = "wait" THEN 1 ELSE 0)

Ran(c, n) == n \in Elems(executed[c])
Tells(c, a) == a.res = "ran" <=> Ran(c, a.n)

\* What ran has been begun; what is queued has not run; an answer, wherever
\* it is, tells what happened.
TruthInv ==
  /\ \A c \in Clients : \A n \in 1..MaxCalls : Ran(c, n) => n <= issued[c]
  /\ AnswersAreTrue
  /\ \A x \in Elems(chanCall) : ~Ran(x.c, x.n)
  /\ \A y \in Elems(cur) : y.res = "closed" <=> ~Ran(y.call.c, y.call.n)
  /\ \A c \in Clients : \A a \in Elems(syncRet[c]) \cup Elems(asynRet[c]) : Tells(c, a)

IInv == TypeOK /\ ControlInv /\ PlacesInv /\ WaitInv /\ PendingExact /\ TruthInv

(* ---------------------- What the channels hold ------------------------- *)

\* A call in the server is the only one there.
LEMMA CurType ==
  TypeOK => /\ cur \in Seq(Executing(CallSet))
            /\ cur # <<>> => /\ cur = <<cur[1]>> /\ Len(cur) = 1
                             /\ cur[1].call \in CallSet
                             /\ cur[1].res \in {"ok", "panic", "closed"}
<1> SUFFICES ASSUME TypeOK
             PROVE  /\ cur \in Seq(Executing(CallSet))
                    /\ cur # <<>> => /\ cur = <<cur[1]>> /\ Len(cur) = 1
                                     /\ cur[1].call \in CallSet
                                     /\ cur[1].res \in {"ok", "panic", "closed"}
  OBVIOUS
<1>1. CASE cur = <<>>
  BY <1>1, EmptySeq
<1>2. CASE cur # <<>>
  <2>1. PICK x \in Executing(CallSet) : cur = <<x>>
    BY <1>2 DEF TypeOK
  <2>2. x = cur[1] /\ Len(cur) = 1
    BY <2>1
  <2>3. x.call \in CallSet /\ x.res \in {"ok", "panic", "closed"}
    BY <2>1 DEF Executing
  <2>4. QED
    BY <2>1, <2>2, <2>3
<1>3. QED
  BY <1>1, <1>2

\* Counts of typed channels are numbers.
LEMMA CountsAreNat ==
  ASSUME TypeOK, NEW S
  PROVE  /\ Count(chanCall, S) \in Nat
         /\ Count(cur, S) \in Nat
         /\ \A c \in Clients : Count(syncRet[c], S) \in Nat
         /\ \A c \in Clients : Count(asynRet[c], S) \in Nat
         /\ \A c \in Clients : Len(syncRet[c]) \in Nat
         /\ \A c \in Clients : Len(asynRet[c]) \in Nat
<1>1. Count(chanCall, S) \in Nat
  BY CountType DEF TypeOK
<1>2. Count(cur, S) \in Nat
  BY CurType, CountType
<1>3. \A c \in Clients : Count(syncRet[c], S) \in Nat /\ Count(asynRet[c], S) \in Nat
  <2>1. \A c \in Clients : syncRet[c] \in Seq(AnswerSet) /\ asynRet[c] \in Seq(AnswerSet)
    BY DEF TypeOK
  <2>2. QED
    BY <2>1, CountType
<1>4. \A c \in Clients : Len(syncRet[c]) \in Nat /\ Len(asynRet[c]) \in Nat
  BY LenProperties DEF TypeOK
<1>5. QED
  BY <1>1, <1>2, <1>3, <1>4

\* A client's next call is a call.
LEMMA CallType ==
  ASSUME TypeOK, NEW c \in Clients, NEW k \in Kinds, issued[c] < MaxCalls
  PROVE  /\ Call(c, k) \in CallSet
         /\ issued[c] + 1 \in 1..MaxCalls
         /\ issued[c] \in 0..MaxCalls
         /\ \A r \in {"ran", "refused"} : Answer(Call(c, k), r) \in AnswerSet
<1> USE ChanRpcAssumption
<1>1. issued[c] \in 0..MaxCalls
  BY DEF TypeOK
<1>2. issued[c] + 1 \in 1..MaxCalls
  BY <1>1
<1>3. QED
  BY <1>1, <1>2 DEF Call, CallSet, Answer, AnswerSet

\* Whether a call is of a kind, or the one with a number.
LEMMA InCalls ==
  ASSUME NEW x \in CallSet, NEW d \in Clients, NEW n \in 1..MaxCalls, NEW k \in Kinds
  PROVE  /\ In(x, CallsOf(d, n)) = (IF d = x.c /\ n = x.n THEN 1 ELSE 0)
         /\ In(x, OfKind(d, k)) = (IF d = x.c /\ k = x.kind THEN 1 ELSE 0)
BY DEF In, CallsOf, OfKind, CallSet, Kinds

LEMMA InExecuting ==
  ASSUME NEW x \in CallSet, NEW r \in {"ok", "panic", "closed"}, NEW C
  PROVE  In([call |-> x, res |-> r], Executing(C)) = In(x, C)
BY DEF In, Executing

LEMMA InAnswers ==
  ASSUME NEW a \in AnswerSet, NEW n \in 1..MaxCalls
  PROVE  In(a, AnswersTo(n)) = (IF n = a.n THEN 1 ELSE 0)
BY DEF In, AnswersTo, AnswerSet

\* A call is queued.
LEMMA QueuePut ==
  ASSUME TypeOK, NEW c \in Clients, NEW k \in Kinds, issued[c] < MaxCalls,
         chanCall' = Append(chanCall, Call(c, k))
  PROVE  \A d \in Clients :
           /\ \A n \in 1..MaxCalls :
                Count(chanCall', CallsOf(d, n)) = Count(chanCall, CallsOf(d, n))
                  + (IF d = c /\ n = issued[c] + 1 THEN 1 ELSE 0)
           /\ \A l \in Kinds :
                Count(chanCall', OfKind(d, l)) = Count(chanCall, OfKind(d, l))
                  + (IF d = c /\ l = k THEN 1 ELSE 0)
<1> DEFINE x == Call(c, k)
<1>1. x \in CallSet /\ x.c = c /\ x.n = issued[c] + 1 /\ x.kind = k
  BY CallType DEF Call
<1>2. \A S : Count(chanCall', S) = Count(chanCall, S) + In(x, S)
  BY <1>1, CountAppend DEF TypeOK
<1> HIDE DEF x
<1>3. ASSUME NEW d \in Clients, NEW n \in 1..MaxCalls
      PROVE  In(x, CallsOf(d, n)) = (IF d = c /\ n = issued[c] + 1 THEN 1 ELSE 0)
  BY <1>1, InCalls DEF Kinds
<1>4. ASSUME NEW d \in Clients, NEW l \in Kinds
      PROVE  In(x, OfKind(d, l)) = (IF d = c /\ l = k THEN 1 ELSE 0)
  <2>1. 1 \in 1..MaxCalls
    BY CallType, ChanRpcAssumption
  <2>2. QED
    BY <1>1, <2>1, InCalls
<1>5. QED
  BY <1>2, <1>3, <1>4

\* The server takes a call from the queue.
LEMMA QueueGet ==
  ASSUME TypeOK, chanCall # <<>>, cur = <<>>, NEW r \in {"ok", "panic", "closed"},
         chanCall' = Tail(chanCall), cur' = <<[call |-> Head(chanCall), res |-> r]>>
  PROVE  /\ Head(chanCall) \in CallSet
         /\ \A S : /\ Count(cur, Executing(S)) = 0
                   /\ Count(cur', Executing(S)) = In(Head(chanCall), S)
                   /\ Count(chanCall', S) = Count(chanCall, S) - In(Head(chanCall), S)
                   /\ Count(chanCall', S) \in Nat
<1>1. Head(chanCall) \in CallSet
  BY HeadTailProperties DEF TypeOK
<1>2. ASSUME NEW S PROVE Count(cur', Executing(S)) = In(Head(chanCall), S)
  <2>1. Count(cur', Executing(S))
          = In([call |-> Head(chanCall), res |-> r], Executing(S))
    BY CountOne
  <2>2. QED
    BY <1>1, <2>1, InExecuting
<1>3. \A S : /\ Count(chanCall', S) = Count(chanCall, S) - In(Head(chanCall), S)
            /\ Count(chanCall', S) \in Nat
  BY CountTail DEF TypeOK
<1>4. QED
  BY <1>1, <1>2, <1>3, CountEmpty

\* The call in the server.
LEMMA CurCount ==
  ASSUME TypeOK, cur # <<>>
  PROVE  \A S : Count(cur, Executing(S)) = In(cur[1].call, S)
<1>1. PICK x \in Executing(CallSet) : cur = <<x>>
  BY DEF TypeOK
<1>2. PICK y \in CallSet, r \in {"ok", "panic", "closed"} : x = [call |-> y, res |-> r]
  BY DEF Executing
<1>3. \A S : Count(cur, Executing(S)) = In(x, Executing(S))
  BY <1>1, CountOne
<1>4. \A S : In(x, Executing(S)) = In(y, S)
  BY <1>2, InExecuting
<1>5. cur[1].call = y
  BY <1>1, <1>2
<1>6. QED
  BY <1>3, <1>4, <1>5

\* An answer is put in a return channel, or taken from it.
LEMMA AnswerPut ==
  ASSUME NEW q \in Seq(AnswerSet), NEW a \in AnswerSet
  PROVE  \A n \in 1..MaxCalls : Count(Append(q, a), AnswersTo(n))
           = Count(q, AnswersTo(n)) + (IF n = a.n THEN 1 ELSE 0)
BY CountAppend, InAnswers

LEMMA AnswerGet ==
  ASSUME NEW q \in Seq(AnswerSet), q # <<>>
  PROVE  /\ Head(q) \in AnswerSet
         /\ \A n \in 1..MaxCalls :
              /\ Count(Tail(q), AnswersTo(n))
                   = Count(q, AnswersTo(n)) - (IF n = Head(q).n THEN 1 ELSE 0)
              /\ Count(Tail(q), AnswersTo(n)) \in Nat
<1>1. Head(q) \in AnswerSet
  BY HeadTailProperties
<1>2. QED
  BY <1>1, CountTail, InAnswers

(* --------------------------- The variables ----------------------------- *)

\* pendingAsynCall bounds what is in ChanAsynRet.
LEMMA PendingBounds ==
  ASSUME TypeOK, PendingExact, NEW c \in Clients
  PROVE  /\ Len(asynRet[c]) \in Nat
         /\ Len(asynRet[c]) <= pending[c] + (IF pc[c] = "count" THEN 1 ELSE 0)
         /\ Count(cur, Executing(OfKind(c, "asyn"))) = 1 =>
              Len(asynRet[c]) + 1 <= pending[c] + (IF pc[c] = "count" THEN 1 ELSE 0)
<1> DEFINE Q == Count(chanCall, OfKind(c, "asyn"))
           E == Count(cur, Executing(OfKind(c, "asyn")))
           L == Len(asynRet[c])
           N == IF pc[c] = "count" THEN 1 ELSE 0
<1>1. Q \in Nat /\ E \in Nat /\ L \in Nat
  BY CountsAreNat
<1>2. pending[c] + N = Q + E + L
  BY DEF PendingExact
<1>3. pending[c] \in Nat /\ N \in Nat
  BY ChanRpcAssumption DEF TypeOK
<1> HIDE DEF Q, E, L, N
<1>4. L \in Nat /\ L <= pending[c] + N /\ (E = 1 => L + 1 <= pending[c] + N)
  BY <1>1, <1>2, <1>3
<1>5. QED
  BY <1>4 DEF E, L, N

\* Putting an answer in a return channel, or taking one, keeps its type.
LEMMA AnswerTypes ==
  ASSUME NEW f \in [Clients -> Seq(AnswerSet)], NEW c \in Clients
  PROVE  /\ \A a \in AnswerSet :
              /\ [f EXCEPT ![c] = Append(@, a)] \in [Clients -> Seq(AnswerSet)]
              /\ Len([f EXCEPT ![c] = Append(@, a)][c]) = Len(f[c]) + 1
         /\ f[c] # <<>> =>
              /\ [f EXCEPT ![c] = Tail(@)] \in [Clients -> Seq(AnswerSet)]
              /\ Len([f EXCEPT ![c] = Tail(@)][c]) = Len(f[c]) - 1
              /\ Head(f[c]) \in AnswerSet
              /\ Len(f[c]) \in Nat \ {0}
<1>1. f[c] \in Seq(AnswerSet)
  OBVIOUS
<1>2. ASSUME NEW a \in AnswerSet
      PROVE  /\ Append(f[c], a) \in Seq(AnswerSet)
             /\ Len(Append(f[c], a)) = Len(f[c]) + 1
  BY <1>1, AppendProperties
<1>3. f[c] # <<>> => /\ Tail(f[c]) \in Seq(AnswerSet) /\ Head(f[c]) \in AnswerSet
                     /\ Len(Tail(f[c])) = Len(f[c]) - 1
                     /\ Len(f[c]) \in Nat \ {0}
  BY <1>1, HeadTailProperties, EmptySeq
<1>4. QED
  BY <1>2, <1>3

\* Every step keeps the variables in their types, and within the bounds of
\* the channels.
LEMMA TypeStep ==
  TypeOK /\ ControlInv /\ PendingExact /\ [Next]_vars => TypeOK'
<1> SUFFICES ASSUME TypeOK, ControlInv, PendingExact, [Next]_vars PROVE TypeOK'
  OBVIOUS
<1> USE ChanRpcAssumption
<1> DEFINE PcSet == {"idle", "sync", "go", "wait", "count", "closing", "closed"}
<1>1. /\ chanCall \in Seq(CallSet) /\ Len(chanCall) \in Nat
      /\ \A c \in Clients : issued[c] \in 0..MaxCalls /\ pending[c] \in 0..AsynCap
      /\ \A c \in Clients : Len(syncRet[c]) \in Nat /\ Len(asynRet[c]) \in Nat
  BY LenProperties DEF TypeOK
<1>2. ASSUME NEW c \in Clients, CallUnknown(c) \/ AsynTooMany(c) PROVE TypeOK'
  <2>1. /\ issued[c] < MaxCalls /\ issued' = [issued EXCEPT ![c] = @ + 1]
        /\ outcome' = [outcome EXCEPT ![c][issued[c] + 1] = "refused"]
        /\ UNCHANGED <<callOpen, chanCall, serverPc, cur, executed, pc, pending,
                       syncRet, asynRet>>
    BY <1>2 DEF CallUnknown, AsynTooMany, Settle, serverVars, retVars
  <2>2. QED
    BY <1>1, <2>1 DEF TypeOK
<1>3. ASSUME NEW c \in Clients, NEW k \in {"sync", "go"}, CallBegin(c, k) PROVE TypeOK'
  BY <1>3 DEF TypeOK, CallBegin, Goto, serverVars, retVars
<1>4. ASSUME NEW c \in Clients, NEW k \in {"sync", "go"}, CallSend(c, k) PROVE TypeOK'
  <2>1. issued[c] < MaxCalls /\ k \in Kinds
    BY <1>4 DEF CallSend, ControlInv, Kinds
  <2>2. Call(c, k) \in CallSet
    BY <2>1, CallType
  <2>3. chanCall' \in Seq(CallSet) /\ Len(chanCall') <= CallCap
    BY <1>1, <1>4, <2>2, AppendProperties DEF CallSend
  <2>4. issued' \in [Clients -> 0..MaxCalls] /\ pc' \in [Clients -> PcSet]
    BY <1>4, <2>1 DEF TypeOK, CallSend, Goto
  <2>5. QED
    BY <1>4, <2>3, <2>4 DEF TypeOK, CallSend, serverVars, retVars
<1>5. ASSUME NEW c \in Clients, NEW k \in {"sync", "go"}, CallSendClosed(c, k) PROVE TypeOK'
  BY <1>1, <1>5 DEF TypeOK, ControlInv, CallSendClosed, Goto, Settle, serverVars, retVars
<1>6. ASSUME NEW c \in Clients, CallReturn(c) PROVE TypeOK'
  <2>1. /\ syncRet' \in [Clients -> Seq(AnswerSet)]
        /\ \A d \in Clients : Len(syncRet'[d]) <= 1
        /\ Head(syncRet[c]) \in AnswerSet
    BY <1>1, <1>6, AnswerTypes DEF TypeOK, CallReturn
  <2>2. outcome' \in [Clients -> [1..MaxCalls -> {"none", "ran", "refused"}]]
    BY <1>6, <2>1 DEF TypeOK, CallReturn, Settle, AnswerSet
  <2>3. QED
    BY <1>6, <2>1, <2>2 DEF TypeOK, CallReturn, Goto, serverVars
<1>7. ASSUME NEW c \in Clients, AsynSend(c) PROVE TypeOK'
  <2>1. Call(c, "asyn") \in CallSet
    BY <1>7, CallType DEF AsynSend, Kinds
  <2>2. chanCall' \in Seq(CallSet) /\ Len(chanCall') <= CallCap
    BY <1>1, <1>7, <2>1, AppendProperties DEF AsynSend
  <2>3. QED
    BY <1>1, <1>7, <2>2 DEF TypeOK, AsynSend, Goto, serverVars, retVars
<1>8. ASSUME NEW c \in Clients, AsynRefused(c) PROVE TypeOK'
  <2>1. Answer(Call(c, "asyn"), "refused") \in AnswerSet
    BY <1>8, CallType DEF AsynRefused, Kinds
  <2>2. Len(asynRet[c]) < AsynCap
    BY <1>1, <1>8, PendingBounds DEF AsynRefused
  <2>3. /\ asynRet' \in [Clients -> Seq(AnswerSet)]
        /\ \A d \in Clients : Len(asynRet'[d]) <= AsynCap
    BY <1>1, <1>8, <2>1, <2>2, AnswerTypes DEF TypeOK, AsynRefused
  <2>4. QED
    BY <1>1, <1>8, <2>3 DEF TypeOK, AsynRefused, Goto, serverVars
<1>9. ASSUME NEW c \in Clients, AsynCount(c) PROVE TypeOK'
  BY <1>1, <1>9 DEF TypeOK, ControlInv, AsynCount, Goto, serverVars, retVars
<1>10. ASSUME NEW c \in Clients, Cb(c) PROVE TypeOK'
  <2>1. /\ asynRet' \in [Clients -> Seq(AnswerSet)]
        /\ \A d \in Clients : Len(asynRet'[d]) <= AsynCap
        /\ Head(asynRet[c]) \in AnswerSet
        /\ Len(asynRet[c]) >= 1
    BY <1>1, <1>10, AnswerTypes DEF TypeOK, Cb
  <2>2. pending[c] - 1 \in 0..AsynCap
    BY <1>1, <1>10, <2>1, PendingBounds DEF Cb
  <2>3. outcome' \in [Clients -> [1..MaxCalls -> {"none", "ran", "refused"}]]
    BY <1>10, <2>1 DEF TypeOK, Cb, Settle, AnswerSet
  <2>4. QED
    BY <1>10, <2>1, <2>2, <2>3 DEF TypeOK, Cb, serverVars
<1>11. ASSUME NEW c \in Clients, ClientClose(c) \/ ClientClosed(c) PROVE TypeOK'
  BY <1>11 DEF TypeOK, ClientClose, ClientClosed, Goto, serverVars, retVars
<1>12. CASE Exec
  <2>1. /\ Head(chanCall) \in CallSet /\ chanCall' \in Seq(CallSet)
        /\ Len(chanCall') <= CallCap
    BY <1>1, <1>12, HeadTailProperties DEF TypeOK, Exec
  <2>2. cur' \in {<<>>} \cup {<<x>> : x \in Executing(CallSet)}
    BY <1>12, <2>1 DEF Exec, Executing
  <2>3. executed' \in [Clients -> Seq(1..MaxCalls)]
    <3>1. Head(chanCall).c \in Clients /\ Head(chanCall).n \in 1..MaxCalls
      BY <2>1 DEF CallSet
    <3>2. Append(executed[Head(chanCall).c], Head(chanCall).n) \in Seq(1..MaxCalls)
      BY <3>1, AppendProperties DEF TypeOK
    <3>3. QED
      BY <1>12, <3>1, <3>2 DEF TypeOK, Exec
  <2>4. QED
    BY <1>12, <2>1, <2>2, <2>3 DEF TypeOK, Exec, retVars
<1>13. CASE Ret
  <2>1. cur[1].call \in CallSet /\ cur[1].res \in {"ok", "panic", "closed"}
    BY <1>13, CurType DEF Ret, ControlInv
  <2> DEFINE a == Answer(cur[1].call, Verdict(cur[1].res))
             d == cur[1].call.c
  <2>2. a \in AnswerSet /\ d \in Clients
    BY <2>1 DEF CallSet, AnswerSet, Answer, Verdict
  <2>3. /\ syncRet' \in [Clients -> Seq(AnswerSet)]
        /\ asynRet' \in [Clients -> Seq(AnswerSet)]
        /\ \A c \in Clients : Len(syncRet'[c]) <= 1 /\ Len(asynRet'[c]) <= AsynCap
    <3>1. CASE cur[1].call.kind = "go"
      BY <1>13, <3>1 DEF Ret, Reply, retVars, TypeOK
    <3>2. CASE cur[1].call.kind = "sync"
      <4>1. /\ Len(syncRet[d]) < 1 /\ asynRet' = asynRet
            /\ syncRet' = [syncRet EXCEPT ![d] = Append(@, a)]
        BY <1>13, <3>2 DEF Ret, Reply
      <4> HIDE DEF a, d
      <4>2. QED
        BY <1>1, <4>1, <2>2, AnswerTypes DEF TypeOK
    <3>3. CASE cur[1].call.kind = "asyn"
      <4>1. /\ Len(asynRet[d]) < AsynCap /\ syncRet' = syncRet
            /\ asynRet' = [asynRet EXCEPT ![d] = Append(@, a)]
        BY <1>13, <3>3 DEF Ret, Reply
      <4> HIDE DEF a, d
      <4>2. QED
        BY <1>1, <4>1, <2>2, AnswerTypes DEF TypeOK
    <3>4. QED
      BY <2>1, <3>1, <3>2, <3>3 DEF CallSet, Kinds
  <2>4. outcome' \in [Clients -> [1..MaxCalls -> {"none", "ran", "refused"}]]
    BY <1>13, <2>1, <2>2 DEF Ret, Reply, TypeOK, AnswerSet
  <2>5. cur' = <<>> /\ serverPc' \in {"select", "drain"}
    BY <1>13 DEF Ret, Reply
  <2>6. QED
    BY <1>13, <2>3, <2>4, <2>5 DEF Ret, TypeOK
<1>14. CASE Drain
  <2>1. /\ Head(chanCall) \in CallSet /\ chanCall' \in Seq(CallSet)
        /\ Len(chanCall') <= CallCap
    BY <1>1, <1>14, HeadTailProperties DEF TypeOK, Drain
  <2>2. cur' \in {<<>>} \cup {<<x>> : x \in Executing(CallSet)}
    BY <1>14, <2>1 DEF Drain, Executing
  <2>3. QED
    BY <1>14, <2>1, <2>2 DEF TypeOK, Drain, retVars
<1>15. CASE Drained \/ ServerClose
  BY <1>15 DEF TypeOK, Drained, ServerClose, retVars
<1>16. CASE UNCHANGED vars
  BY <1>16 DEF TypeOK, vars
<1>17. QED
  BY <1>2, <1>3, <1>4, <1>5, <1>6, <1>7, <1>8, <1>9, <1>10, <1>11, <1>12, <1>13,
     <1>14, <1>15, <1>16 DEF Next, Server, ClientStep

\* Where the server and the client goroutines are agrees with what they hold.
LEMMA ControlStep ==
  TypeOK /\ ControlInv /\ [Next]_vars => ControlInv'
<1> SUFFICES ASSUME TypeOK, ControlInv, [Next]_vars PROVE ControlInv'
  OBVIOUS
<1> USE ChanRpcAssumption DEF ControlInv, Goto, Settle, serverVars, retVars
<1>1. ASSUME NEW c \in Clients, CallUnknown(c) \/ AsynTooMany(c) PROVE ControlInv'
  BY <1>1 DEF TypeOK, CallUnknown, AsynTooMany
<1>2. ASSUME NEW c \in Clients, NEW k \in {"sync", "go"},
             CallBegin(c, k) \/ CallSend(c, k) \/ CallSendClosed(c, k)
      PROVE  ControlInv'
  BY <1>2 DEF TypeOK, CallBegin, CallSend, CallSendClosed
<1>3. ASSUME NEW c \in Clients, AsynSend(c) \/ AsynRefused(c) PROVE ControlInv'
  BY <1>3 DEF TypeOK, AsynSend, AsynRefused
<1>4. ASSUME NEW c \in Clients, AsynCount(c) \/ Cb(c) \/ CallReturn(c) PROVE ControlInv'
  BY <1>4 DEF TypeOK, AsynCount, Cb, CallReturn
<1>5. ASSUME NEW c \in Clients, ClientClose(c) \/ ClientClosed(c) PROVE ControlInv'
  BY <1>5 DEF TypeOK, ClientClose, ClientClosed
<1>6. CASE Exec \/ Drain
  BY <1>6 DEF Exec, Drain
<1>7. CASE Ret
  BY <1>7 DEF Ret, Reply
<1>8. CASE Drained \/ ServerClose
  BY <1>8 DEF Drained, ServerClose
<1>9. CASE UNCHANGED vars
  BY <1>9 DEF vars
<1>10. QED
  BY <1>1, <1>2, <1>3, <1>4, <1>5, <1>6, <1>7, <1>8, <1>9 DEF Next, Server, ClientStep

(* ---------------- Every call in one place, every count ----------------- *)

\* The places of a call, as numbers.
LEMMA PlacesNat ==
  ASSUME TypeOK, NEW d \in Clients, NEW n \in 1..MaxCalls
  PROVE  /\ Count(chanCall, CallsOf(d, n)) \in Nat
         /\ Count(cur, Executing(CallsOf(d, n))) \in Nat
         /\ Count(syncRet[d], AnswersTo(n)) \in Nat
         /\ Count(asynRet[d], AnswersTo(n)) \in Nat
BY CountsAreNat

\* A call moves from one place to the next and is never in two, nor in none.
LEMMA PlacesStep ==
  TypeOK /\ ControlInv /\ PlacesInv /\ [Next]_vars => PlacesInv'
<1> SUFFICES ASSUME TypeOK, ControlInv, PlacesInv, [Next]_vars,
                    NEW d \in Clients, NEW n \in 1..MaxCalls
             PROVE  Places(d, n)' = (IF n <= issued'[d] THEN 1 ELSE 0)
  BY DEF PlacesInv
<1> USE ChanRpcAssumption
<1> DEFINE Q == Count(chanCall, CallsOf(d, n))
           E == Count(cur, Executing(CallsOf(d, n)))
           S == Count(syncRet[d], AnswersTo(n))
           A == Count(asynRet[d], AnswersTo(n))
           O == IF outcome[d][n] = "none" THEN 0 ELSE 1
           I == IF n <= issued[d] THEN 1 ELSE 0
           Goal == Places(d, n)' = (IF n <= issued'[d] THEN 1 ELSE 0)
<1>1. /\ Q \in Nat /\ E \in Nat /\ S \in Nat /\ A \in Nat
      /\ Q + E + S + A + O = I
  BY PlacesNat DEF PlacesInv, Places
<1>2. /\ issued \in [Clients -> 0..MaxCalls]
      /\ outcome \in [Clients -> [1..MaxCalls -> {"none", "ran", "refused"}]]
      /\ syncRet \in [Clients -> Seq(AnswerSet)] /\ asynRet \in [Clients -> Seq(AnswerSet)]
  BY DEF TypeOK
<1>3. /\ UNCHANGED <<chanCall, cur, syncRet, asynRet, outcome, issued>> => Goal
      /\ Q' + E' + S' + A' + O' = I' => Goal
  BY <1>1 DEF Places
<1> HIDE DEF Goal
\* A refusal without a send: the outcome is settled as the call is begun.
<1>4. ASSUME NEW c \in Clients, issued[c] < MaxCalls,
             issued' = [issued EXCEPT ![c] = @ + 1], Settle(c, issued[c] + 1, "refused"),
             UNCHANGED <<chanCall, cur, syncRet, asynRet>>
      PROVE  Goal
  <2>1. Q' = Q /\ E' = E /\ S' = S /\ A' = A
    BY <1>4
  <2>2. CASE d = c /\ n = issued[c] + 1
    <3>1. I = 0 /\ I' = 1 /\ O' = 1
      BY <1>2, <1>4, <2>2 DEF Settle
    <3>2. O \in {0, 1}
      OBVIOUS
    <3> HIDE DEF Q, E, S, A, O, I
    <3>3. QED
      BY <1>1, <1>3, <2>1, <3>1, <3>2
  <2>3. CASE ~(d = c /\ n = issued[c] + 1)
    <3>1. I' = I /\ O' = O
      BY <1>2, <1>4, <2>3 DEF Settle
    <3> HIDE DEF Q, E, S, A, O, I
    <3>2. QED
      BY <1>1, <1>3, <2>1, <3>1
  <2>4. QED
    BY <2>2, <2>3
\* A send: the call is queued as it is begun.
<1>5. ASSUME NEW c \in Clients, NEW k \in Kinds, issued[c] < MaxCalls,
             issued' = [issued EXCEPT ![c] = @ + 1],
             chanCall' = Append(chanCall, Call(c, k)),
             UNCHANGED <<cur, syncRet, asynRet, outcome>>
      PROVE  Goal
  <2>1. Q' = Q + (IF d = c /\ n = issued[c] + 1 THEN 1 ELSE 0)
    BY <1>5, QueuePut
  <2>2. E' = E /\ S' = S /\ A' = A /\ O' = O
    BY <1>5
  <2>3. I' = I + (IF d = c /\ n = issued[c] + 1 THEN 1 ELSE 0)
    BY <1>2, <1>5
  <2>4. O \in {0, 1} /\ I \in {0, 1}
    OBVIOUS
  <2> HIDE DEF Q, E, S, A, O, I
  <2>5. QED
    BY <1>1, <1>3, <2>1, <2>2, <2>3, <2>4
<1>6. ASSUME NEW c \in Clients, CallReturn(c) PROVE Goal
  <2>1. PICK a \in AnswerSet :
          /\ a = Head(syncRet[c]) /\ syncRet' = [syncRet EXCEPT ![c] = Tail(@)]
          /\ outcome' = [outcome EXCEPT ![c][a.n] = a.res]
          /\ UNCHANGED <<chanCall, cur, asynRet, issued>>
          /\ syncRet[c] # <<>>
    BY <1>2, <1>6, AnswerGet DEF CallReturn, Settle, serverVars
  <2>2. /\ Count(Tail(syncRet[c]), AnswersTo(n))
             = Count(syncRet[c], AnswersTo(n)) - (IF n = a.n THEN 1 ELSE 0)
        /\ Count(Tail(syncRet[c]), AnswersTo(n)) \in Nat
    BY <1>2, <2>1, AnswerGet
  <2> DEFINE D == IF d = c /\ n = a.n THEN 1 ELSE 0
  <2>3. S' = S - D /\ S' \in Nat
    <3>1. CASE d = c
      <4>1. syncRet'[d] = Tail(syncRet[d])
        BY <1>2, <2>1, <3>1
      <4>2. QED
        BY <2>2, <3>1, <4>1
    <3>2. CASE d # c
      BY <1>1, <1>2, <2>1, <3>2
    <3>3. QED
      BY <3>1, <3>2
  <2>5. a.res \in {"ran", "refused"}
    BY DEF AnswerSet
  <2>6. O' = IF D = 1 THEN 1 ELSE O
    BY <1>2, <2>1, <2>5
  <2>7. Q' = Q /\ E' = E /\ A' = A /\ I' = I
    BY <2>1
  <2>8. O \in {0, 1} /\ I \in {0, 1} /\ D \in {0, 1}
    OBVIOUS
  <2> HIDE DEF Q, E, S, A, O, I, D
  <2>9. Q + E + S' + A + O' = I
    <3>1. CASE D = 0
      BY <1>1, <2>3, <2>6, <2>8, <3>1
    <3>2. CASE D = 1
      BY <1>1, <2>3, <2>6, <2>8, <3>2
    <3>3. QED
      BY <2>8, <3>1, <3>2
  <2>10. QED
    BY <1>3, <2>7, <2>9
<1>7. ASSUME NEW c \in Clients, Cb(c) PROVE Goal
  <2>1. PICK a \in AnswerSet :
          /\ a = Head(asynRet[c]) /\ asynRet' = [asynRet EXCEPT ![c] = Tail(@)]
          /\ outcome' = [outcome EXCEPT ![c][a.n] = a.res]
          /\ UNCHANGED <<chanCall, cur, syncRet, issued>>
          /\ asynRet[c] # <<>>
    BY <1>2, <1>7, AnswerGet DEF Cb, Settle, serverVars
  <2>2. /\ Count(Tail(asynRet[c]), AnswersTo(n))
             = Count(asynRet[c], AnswersTo(n)) - (IF n = a.n THEN 1 ELSE 0)
        /\ Count(Tail(asynRet[c]), AnswersTo(n)) \in Nat
    BY <1>2, <2>1, AnswerGet
  <2> DEFINE D == IF d = c /\ n = a.n THEN 1 ELSE 0
  <2>3. A' = A - D /\ A' \in Nat
    <3>1. CASE d = c
      <4>1. asynRet'[d] = Tail(asynRet[d])
        BY <1>2, <2>1, <3>1
      <4>2. QED
        BY <2>2, <3>1, <4>1
    <3>2. CASE d # c
      BY <1>1, <1>2, <2>1, <3>2
    <3>3. QED
      BY <3>1, <3>2
  <2>5. a.res \in {"ran", "refused"}
    BY DEF AnswerSet
  <2>6. O' = IF D = 1 THEN 1 ELSE O
    BY <1>2, <2>1, <2>5
  <2>7. Q' = Q /\ E' = E /\ S' = S /\ I' = I
    BY <2>1
  <2>8. O \in {0, 1} /\ I \in {0, 1} /\ D \in {0, 1}
    OBVIOUS
  <2> HIDE DEF Q, E, S, A, O, I, D
  <2>9. Q + E + S + A' + O' = I
    <3>1. CASE D = 0
      BY <1>1, <2>3, <2>6, <2>8, <3>1
    <3>2. CASE D = 1
      BY <1>1, <2>3, <2>6, <2>8, <3>2
    <3>3. QED
      BY <2>8, <3>1, <3>2
  <2>10. QED
    BY <1>3, <2>7, <2>9
<1>8. ASSUME NEW c \in Clients, AsynRefused(c) PROVE Goal
  <2> DEFINE a == Answer(Call(c, "asyn"), "refused")
  <2>1. a \in AnswerSet /\ a.n = issued[c] + 1
    BY <1>8, CallType DEF AsynRefused, Kinds, Answer, Call
  <2>2. asynRet' = [asynRet EXCEPT ![c] = Append(@, a)]
    BY <1>8 DEF AsynRefused
  <2>3. d = c => Count(Append(asynRet[c], a), AnswersTo(n))
                   = Count(asynRet[c], AnswersTo(n)) + (IF n = a.n THEN 1 ELSE 0)
    BY <1>2, <2>1, AnswerPut
  <2>4. A' = A + (IF d = c /\ n = issued[c] + 1 THEN 1 ELSE 0)
    BY <1>1, <1>2, <2>1, <2>2, <2>3
  <2>5. Q' = Q /\ E' = E /\ S' = S /\ O' = O
    BY <1>8 DEF AsynRefused, serverVars
  <2>6. I' = I + (IF d = c /\ n = issued[c] + 1 THEN 1 ELSE 0)
    BY <1>2, <1>8 DEF AsynRefused
  <2>7. O \in {0, 1} /\ I \in {0, 1}
    OBVIOUS
  <2> HIDE DEF Q, E, S, A, O, I
  <2>8. QED
    BY <1>1, <1>3, <2>4, <2>5, <2>6, <2>7
<1>9. ASSUME Exec \/ Drain PROVE Goal
  <2>1. PICK r \in {"ok", "panic", "closed"} :
          cur' = <<[call |-> Head(chanCall), res |-> r]>>
    BY <1>9 DEF Exec, Drain
  <2>2. /\ chanCall # <<>> /\ chanCall' = Tail(chanCall) /\ cur = <<>>
        /\ UNCHANGED <<syncRet, asynRet, outcome, issued>>
    BY <1>9 DEF Exec, Drain, retVars, ControlInv
  <2>3. S' = S /\ A' = A /\ O' = O /\ I' = I
    BY <2>2
  <2> DEFINE h == In(Head(chanCall), CallsOf(d, n))
  <2>4. Q' = Q - h /\ E' = h /\ E = 0
    BY <2>1, <2>2, QueueGet
  <2>5. h \in {0, 1} /\ O \in {0, 1} /\ I \in {0, 1}
    BY DEF In
  <2> HIDE DEF Q, E, S, A, O, I, h
  <2>6. Q' + E' + S + A + O = I
    BY <1>1, <2>4, <2>5
  <2>7. QED
    BY <1>3, <2>3, <2>6
<1>10. ASSUME Ret PROVE Goal
  <2> DEFINE x == cur[1].call
             a == Answer(x, Verdict(cur[1].res))
  <2>1. x \in CallSet /\ a \in AnswerSet /\ a.n = x.n /\ cur # <<>>
    BY <1>10, CurType DEF Ret, ControlInv, CallSet, AnswerSet, Answer, Verdict
  <2>2. E = IF d = x.c /\ n = x.n THEN 1 ELSE 0
    BY <2>1, CurCount, InCalls DEF Kinds
  <2>3. E' = 0
    BY <1>10, CountEmpty DEF Ret, Reply
  <2>4. Q' = Q /\ I' = I
    BY <1>10 DEF Ret
  <2>5. O \in {0, 1} /\ I \in {0, 1}
    OBVIOUS
  <2>6. ASSUME x.kind = "go" PROVE Goal
    <3>1. /\ UNCHANGED <<syncRet, asynRet>>
          /\ outcome' = [outcome EXCEPT ![x.c][x.n] = a.res]
      BY <1>10, <2>6 DEF Ret, Reply, retVars
    <3>2. S' = S /\ A' = A /\ O' = IF d = x.c /\ n = x.n THEN 1 ELSE O
      BY <1>2, <2>1, <3>1 DEF CallSet, AnswerSet
    <3> HIDE DEF Q, E, S, A, O, I
    <3>3. QED
      BY <1>1, <1>3, <2>2, <2>3, <2>4, <2>5, <3>2
  <2>7. ASSUME x.kind = "sync" PROVE Goal
    <3>1. /\ UNCHANGED <<asynRet, outcome>>
          /\ syncRet' = [syncRet EXCEPT ![x.c] = Append(@, a)]
      BY <1>10, <2>7 DEF Ret, Reply, retVars
    <3>2. d = x.c => Count(Append(syncRet[d], a), AnswersTo(n))
                       = Count(syncRet[d], AnswersTo(n)) + (IF n = x.n THEN 1 ELSE 0)
      BY <1>2, <2>1, AnswerPut
    <3>3. S' = S + (IF d = x.c /\ n = x.n THEN 1 ELSE 0)
      <4>1. syncRet'[d] = IF d = x.c THEN Append(syncRet[d], a) ELSE syncRet[d]
        BY <1>2, <2>1, <3>1 DEF CallSet
      <4> HIDE DEF a, x
      <4>2. QED
        BY <1>1, <3>2, <4>1
    <3>4. A' = A /\ O' = O
      BY <3>1
    <3> HIDE DEF Q, E, S, A, O, I
    <3>5. QED
      BY <1>1, <1>3, <2>2, <2>3, <2>4, <2>5, <3>3, <3>4
  <2>8. ASSUME x.kind = "asyn" PROVE Goal
    <3>1. /\ UNCHANGED <<syncRet, outcome>>
          /\ asynRet' = [asynRet EXCEPT ![x.c] = Append(@, a)]
      BY <1>10, <2>8 DEF Ret, Reply, retVars
    <3>2. d = x.c => Count(Append(asynRet[d], a), AnswersTo(n))
                       = Count(asynRet[d], AnswersTo(n)) + (IF n = x.n THEN 1 ELSE 0)
      BY <1>2, <2>1, AnswerPut
    <3>3. A' = A + (IF d = x.c /\ n = x.n THEN 1 ELSE 0)
      <4>1. asynRet'[d] = IF d = x.c THEN Append(asynRet[d], a) ELSE asynRet[d]
        BY <1>2, <2>1, <3>1 DEF CallSet
      <4> HIDE DEF a, x
      <4>2. QED
        BY <1>1, <3>2, <4>1
    <3>4. S' = S /\ O' = O
      BY <3>1
    <3> HIDE DEF Q, E, S, A, O, I
    <3>5. QED
      BY <1>1, <1>3, <2>2, <2>3, <2>4, <2>5, <3>3, <3>4
  <2>9. QED
    BY <2>1, <2>6, <2>7, <2>8 DEF CallSet, Kinds
<1>11. ASSUME NEW c \in Clients, CallUnknown(c) \/ AsynTooMany(c) PROVE Goal
  BY <1>4, <1>11 DEF CallUnknown, AsynTooMany, serverVars, retVars
<1>12. ASSUME NEW c \in Clients, NEW k \in {"sync", "go"}, CallSendClosed(c, k) PROVE Goal
  <2>1. issued[c] < MaxCalls
    BY <1>12 DEF CallSendClosed, ControlInv
  <2>2. QED
    BY <1>4, <1>12, <2>1 DEF CallSendClosed, serverVars, retVars
<1>13. ASSUME NEW c \in Clients, NEW k \in {"sync", "go"}, CallSend(c, k) PROVE Goal
  <2>1. issued[c] < MaxCalls /\ k \in Kinds
    BY <1>13 DEF CallSend, ControlInv, Kinds
  <2>2. QED
    BY <1>5, <1>13, <2>1 DEF CallSend, serverVars, retVars
<1>14. ASSUME NEW c \in Clients, AsynSend(c) PROVE Goal
  BY <1>5, <1>14 DEF AsynSend, serverVars, retVars, Kinds
<1>15. ASSUME NEW c \in Clients, NEW k \in {"sync", "go"},
              CallBegin(c, k) \/ AsynCount(c) \/ ClientClose(c) \/ ClientClosed(c)
       PROVE  Goal
  BY <1>3, <1>15 DEF CallBegin, AsynCount, ClientClose, ClientClosed, serverVars, retVars
<1>16. ASSUME Drained \/ ServerClose PROVE Goal
  BY <1>3, <1>16 DEF Drained, ServerClose, retVars
<1>17. ASSUME UNCHANGED vars PROVE Goal
  BY <1>3, <1>17 DEF vars
<1>18. Goal
  BY <1>6, <1>7, <1>8, <1>9, <1>10, <1>11, <1>12, <1>13, <1>14, <1>15, <1>16, <1>17
     DEF Next, Server, ClientStep
<1>19. QED
  BY <1>18 DEF Goal

\* A client waits exactly while a synchronous call of its own is queued, in
\* the server, or answered on its chanSyncRet.
LEMMA WaitStep ==
  TypeOK /\ ControlInv /\ WaitInv /\ [Next]_vars => WaitInv'
<1> DEFINE Sum(d) == Count(chanCall, OfKind(d, "sync"))
                     + Count(cur, Executing(OfKind(d, "sync"))) + Len(syncRet[d])
<1> SUFFICES ASSUME TypeOK, ControlInv, WaitInv, [Next]_vars, NEW d \in Clients
             PROVE  Sum(d)' = (IF pc'[d] = "wait" THEN 1 ELSE 0)
  BY DEF WaitInv
<1> USE ChanRpcAssumption
<1> DEFINE Q == Count(chanCall, OfKind(d, "sync"))
           E == Count(cur, Executing(OfKind(d, "sync")))
           L == Len(syncRet[d])
           W == IF pc[d] = "wait" THEN 1 ELSE 0
           Goal == Sum(d)' = (IF pc'[d] = "wait" THEN 1 ELSE 0)
<1>1. /\ Q \in Nat /\ E \in Nat /\ L \in Nat /\ W \in {0, 1}
      /\ Q + E + L = W
  BY CountsAreNat DEF WaitInv
<1>2. /\ pc \in [Clients -> {"idle", "sync", "go", "wait", "count", "closing", "closed"}]
      /\ syncRet \in [Clients -> Seq(AnswerSet)]
      /\ "sync" \in Kinds /\ 1 \in Nat
  BY DEF TypeOK, Kinds
<1>3. Q' + E' + L' = W' => Goal
  OBVIOUS
<1>4. ASSUME UNCHANGED <<chanCall, cur, syncRet>>, W' = W PROVE Goal
  <2>1. Q' = Q /\ E' = E /\ L' = L
    BY <1>4
  <2> HIDE DEF Q, E, L, W
  <2>2. QED
    BY <1>1, <1>3, <1>4, <2>1
<1> HIDE DEF Goal, Sum
<1>5. ASSUME NEW c \in Clients, NEW k \in {"sync", "go"}, CallSend(c, k) PROVE Goal
  <2>1. Q' = Q + (IF d = c /\ k = "sync" THEN 1 ELSE 0)
    BY <1>2, <1>5, QueuePut DEF CallSend, ControlInv, Kinds
  <2>2. E' = E /\ L' = L
    BY <1>5 DEF CallSend, serverVars, retVars
  <2>3. W' = IF d = c /\ k = "sync" THEN 1 ELSE W
    BY <1>2, <1>5 DEF CallSend, Goto
  <2>4. d = c => W = 0
    BY <1>5 DEF CallSend
  <2> HIDE DEF Q, E, L, W
  <2>5. QED
    BY <1>1, <1>3, <2>1, <2>2, <2>3, <2>4
<1>6. ASSUME NEW c \in Clients, AsynSend(c) PROVE Goal
  <2>1. Q' = Q
    <3>1. "asyn" \in Kinds /\ issued[c] < MaxCalls
          /\ chanCall' = Append(chanCall, Call(c, "asyn"))
      BY <1>6 DEF AsynSend, Kinds
    <3>2. Q' = Q + (IF d = c /\ "sync" = "asyn" THEN 1 ELSE 0)
      BY <1>2, <3>1, QueuePut
    <3> HIDE DEF Q
    <3>3. QED
      BY <1>1, <3>2
  <2>2. E' = E /\ L' = L
    BY <1>6 DEF AsynSend, serverVars, retVars
  <2>3. W' = W
    BY <1>2, <1>6 DEF AsynSend, Goto
  <2> HIDE DEF Q, E, L, W
  <2>4. QED
    BY <1>1, <1>3, <2>1, <2>2, <2>3
<1>7. ASSUME NEW c \in Clients, CallReturn(c) PROVE Goal
  <2>1. Q' = Q /\ E' = E
    BY <1>7 DEF CallReturn, serverVars
  <2>2. L' = IF d = c THEN L - 1 ELSE L
    BY <1>2, <1>7, AnswerTypes DEF CallReturn
  <2>3. W' = IF d = c THEN 0 ELSE W
    BY <1>2, <1>7 DEF CallReturn, Goto
  <2>4. d = c => W = 1 /\ L >= 1
    BY <1>2, <1>7, AnswerTypes DEF CallReturn
  <2> HIDE DEF Q, E, L, W
  <2>5. QED
    BY <1>1, <1>3, <2>1, <2>2, <2>3, <2>4
<1>8. ASSUME Exec \/ Drain PROVE Goal
  <2>1. PICK r \in {"ok", "panic", "closed"} :
          cur' = <<[call |-> Head(chanCall), res |-> r]>>
    BY <1>8 DEF Exec, Drain
  <2>2. /\ chanCall # <<>> /\ chanCall' = Tail(chanCall) /\ cur = <<>>
        /\ UNCHANGED <<syncRet, pc>>
    BY <1>8 DEF Exec, Drain, retVars, ControlInv
  <2> DEFINE h == In(Head(chanCall), OfKind(d, "sync"))
  <2>3. Q' = Q - h /\ E' = h /\ E = 0
    BY <2>1, <2>2, QueueGet
  <2>4. h \in {0, 1}
    BY DEF In
  <2>5. L' = L /\ W' = W
    BY <2>2
  <2> HIDE DEF Q, E, L, W, h
  <2>6. Q' + E' + L = W
    BY <1>1, <2>3, <2>4
  <2>7. QED
    BY <1>3, <2>5, <2>6
<1>9. ASSUME Ret PROVE Goal
  <2> DEFINE x == cur[1].call
             a == Answer(x, Verdict(cur[1].res))
  <2>1. x \in CallSet /\ a \in AnswerSet /\ cur # <<>> /\ cur' = <<>>
    BY <1>9, CurType DEF Ret, Reply, ControlInv, CallSet, AnswerSet, Answer, Verdict
  <2> DEFINE h == IF d = x.c /\ x.kind = "sync" THEN 1 ELSE 0
  <2>2. E = h
    <3>1. 1 \in 1..MaxCalls
      BY <2>1 DEF CallSet
    <3>2. QED
      BY <1>2, <2>1, <3>1, CurCount, InCalls
  <2>3. E' = 0 /\ Q' = Q /\ W' = W
    BY <1>9, <2>1, CountEmpty DEF Ret
  <2>4. L' = L + h
    <3>1. CASE x.kind = "sync"
      <4>1. syncRet' = [syncRet EXCEPT ![x.c] = Append(@, a)]
        BY <1>9, <3>1 DEF Ret, Reply
      <4>2. x.c \in Clients
        BY <2>1 DEF CallSet
      <4>3. L' = IF d = x.c THEN L + 1 ELSE L
        BY <1>2, <2>1, <4>1, <4>2, AnswerTypes
      <4>4. h = IF d = x.c THEN 1 ELSE 0
        BY <3>1
      <4> HIDE DEF x, h, L
      <4>5. QED
        BY <1>1, <4>3, <4>4
    <3>2. CASE x.kind # "sync"
      <4>1. L' = L
        BY <1>9, <2>1, <3>2 DEF Ret, Reply, CallSet, Kinds, retVars
      <4>2. h = 0
        BY <3>2
      <4> HIDE DEF h, L
      <4>3. QED
        BY <1>1, <4>1, <4>2
    <3>3. QED
      BY <3>1, <3>2
  <2>5. h \in {0, 1}
    OBVIOUS
  <2> HIDE DEF Q, E, L, W, x, h
  <2>6. QED
    BY <1>1, <1>3, <2>2, <2>3, <2>4, <2>5
<1>10. ASSUME NEW c \in Clients, NEW k \in {"sync", "go"},
              \/ CallUnknown(c) \/ AsynTooMany(c) \/ CallBegin(c, k)
              \/ CallSendClosed(c, k) \/ AsynRefused(c) \/ AsynCount(c)
              \/ Cb(c) \/ ClientClose(c) \/ ClientClosed(c)
       PROVE  Goal
  <2>1. UNCHANGED <<chanCall, cur, syncRet>>
    BY <1>10 DEF CallUnknown, AsynTooMany, CallBegin, CallSendClosed, AsynRefused,
                 AsynCount, Cb, ClientClose, ClientClosed, serverVars, retVars
  <2>2. W' = W
    BY <1>2, <1>10 DEF CallUnknown, AsynTooMany, CallBegin, CallSendClosed, AsynRefused,
                       AsynCount, Cb, ClientClose, ClientClosed, Goto
  <2>3. QED
    BY <1>4, <2>1, <2>2
<1>11. ASSUME Drained \/ ServerClose PROVE Goal
  BY <1>4, <1>11 DEF Drained, ServerClose, retVars
<1>12. ASSUME UNCHANGED vars PROVE Goal
  BY <1>4, <1>12 DEF vars
<1>13. Goal
  BY <1>5, <1>6, <1>7, <1>8, <1>9, <1>10, <1>11, <1>12 DEF Next, Server, ClientStep
<1>14. QED
  BY <1>13 DEF Goal

\* pendingAsynCall is the number of asynchronous calls on their way, a call
\* being sent included.
LEMMA PendingStep ==
  TypeOK /\ ControlInv /\ PendingExact /\ [Next]_vars => PendingExact'
<1> DEFINE Sum(d) == Count(chanCall, OfKind(d, "asyn"))
                     + Count(cur, Executing(OfKind(d, "asyn"))) + Len(asynRet[d])
<1> SUFFICES ASSUME TypeOK, ControlInv, PendingExact, [Next]_vars, NEW d \in Clients
             PROVE  pending'[d] + (IF pc'[d] = "count" THEN 1 ELSE 0) = Sum(d)'
  BY DEF PendingExact
<1> USE ChanRpcAssumption
<1> DEFINE Q == Count(chanCall, OfKind(d, "asyn"))
           E == Count(cur, Executing(OfKind(d, "asyn")))
           L == Len(asynRet[d])
           N == IF pc[d] = "count" THEN 1 ELSE 0
           P == pending[d]
           Goal == pending'[d] + (IF pc'[d] = "count" THEN 1 ELSE 0) = Sum(d)'
<1>1. /\ Q \in Nat /\ E \in Nat /\ L \in Nat /\ N \in {0, 1} /\ P \in Nat
      /\ P + N = Q + E + L
  BY CountsAreNat DEF PendingExact, TypeOK
<1>2. /\ pc \in [Clients -> {"idle", "sync", "go", "wait", "count", "closing", "closed"}]
      /\ pending \in [Clients -> 0..AsynCap]
      /\ asynRet \in [Clients -> Seq(AnswerSet)]
      /\ "asyn" \in Kinds
  BY DEF TypeOK, Kinds
<1>3. P' + N' = Q' + E' + L' => Goal
  OBVIOUS
<1>4. ASSUME UNCHANGED <<chanCall, cur, asynRet, pending>>, N' = N PROVE Goal
  <2>1. Q' = Q /\ E' = E /\ L' = L /\ P' = P
    BY <1>4
  <2> HIDE DEF Q, E, L, N, P
  <2>2. QED
    BY <1>1, <1>3, <1>4, <2>1
<1> HIDE DEF Goal, Sum
<1>5. ASSUME NEW c \in Clients, NEW k \in {"sync", "go"}, CallSend(c, k) PROVE Goal
  <2>1. issued[c] < MaxCalls /\ k \in Kinds /\ k # "asyn"
    BY <1>5 DEF CallSend, ControlInv, Kinds
  <2>2. Q' = Q + (IF d = c /\ "asyn" = k THEN 1 ELSE 0)
    <3>1. chanCall' = Append(chanCall, Call(c, k))
      BY <1>5 DEF CallSend
    <3>2. \A l \in Kinds :
            Count(chanCall', OfKind(d, l)) = Count(chanCall, OfKind(d, l))
              + (IF d = c /\ l = k THEN 1 ELSE 0)
      BY <2>1, <3>1, QueuePut
    <3>3. QED
      BY <1>2, <3>2
  <2>3. E' = E /\ L' = L /\ P' = P
    BY <1>5 DEF CallSend, serverVars, retVars
  <2>4. N' = N
    BY <1>2, <1>5 DEF CallSend, Goto
  <2> HIDE DEF Q, E, L, N, P
  <2>5. QED
    BY <1>1, <1>3, <2>1, <2>2, <2>3, <2>4
<1>6. ASSUME NEW c \in Clients, AsynSend(c) PROVE Goal
  <2>1. Q' = Q + (IF d = c THEN 1 ELSE 0)
    BY <1>2, <1>6, QueuePut DEF AsynSend
  <2>2. E' = E /\ L' = L /\ P' = P
    BY <1>6 DEF AsynSend, serverVars, retVars
  <2>3. N' = (IF d = c THEN 1 ELSE N) /\ (d = c => N = 0)
    BY <1>2, <1>6 DEF AsynSend, Goto
  <2> HIDE DEF Q, E, L, N, P
  <2>4. QED
    BY <1>1, <1>3, <2>1, <2>2, <2>3
<1>7. ASSUME NEW c \in Clients, AsynRefused(c) PROVE Goal
  <2> DEFINE a == Answer(Call(c, "asyn"), "refused")
  <2>1. a \in AnswerSet
    BY <1>2, <1>7, CallType DEF AsynRefused
  <2>2. Q' = Q /\ E' = E /\ P' = P
    BY <1>7 DEF AsynRefused, serverVars
  <2>3. L' = IF d = c THEN L + 1 ELSE L
    BY <1>2, <1>7, <2>1, AnswerTypes DEF AsynRefused
  <2>4. N' = (IF d = c THEN 1 ELSE N) /\ (d = c => N = 0)
    BY <1>2, <1>7 DEF AsynRefused, Goto
  <2> HIDE DEF Q, E, L, N, P
  <2>5. QED
    BY <1>1, <1>3, <2>2, <2>3, <2>4
<1>8. ASSUME NEW c \in Clients, AsynCount(c) PROVE Goal
  <2>1. Q' = Q /\ E' = E /\ L' = L
    BY <1>8 DEF AsynCount, serverVars, retVars
  <2>2. /\ P' = (IF d = c THEN P + 1 ELSE P)
        /\ N' = (IF d = c THEN 0 ELSE N) /\ (d = c => N = 1)
    BY <1>2, <1>8 DEF AsynCount, Goto
  <2> HIDE DEF Q, E, L, N, P
  <2>3. QED
    BY <1>1, <1>3, <2>1, <2>2
<1>9. ASSUME NEW c \in Clients, Cb(c) PROVE Goal
  <2>1. Q' = Q /\ E' = E /\ N' = N /\ (d = c => N = 0)
    BY <1>9 DEF Cb, serverVars
  <2>2. /\ P' = (IF d = c THEN P - 1 ELSE P)
        /\ L' = (IF d = c THEN L - 1 ELSE L) /\ (d = c => L >= 1)
    BY <1>2, <1>9, AnswerTypes DEF Cb
  <2> HIDE DEF Q, E, L, N, P
  <2>3. QED
    BY <1>1, <1>3, <2>1, <2>2
<1>10. ASSUME Exec \/ Drain PROVE Goal
  <2>1. PICK r \in {"ok", "panic", "closed"} :
          cur' = <<[call |-> Head(chanCall), res |-> r]>>
    BY <1>10 DEF Exec, Drain
  <2>2. /\ chanCall # <<>> /\ chanCall' = Tail(chanCall) /\ cur = <<>>
        /\ UNCHANGED <<asynRet, pc, pending>>
    BY <1>10 DEF Exec, Drain, retVars, ControlInv
  <2> DEFINE h == In(Head(chanCall), OfKind(d, "asyn"))
  <2>3. Q' = Q - h /\ E' = h /\ E = 0
    BY <2>1, <2>2, QueueGet
  <2>4. h \in {0, 1}
    BY DEF In
  <2>5. L' = L /\ N' = N /\ P' = P
    BY <2>2
  <2> HIDE DEF Q, E, L, N, P, h
  <2>6. P + N = Q' + E' + L
    BY <1>1, <2>3, <2>4
  <2>7. QED
    BY <1>3, <2>5, <2>6
<1>11. ASSUME Ret PROVE Goal
  <2> DEFINE x == cur[1].call
             a == Answer(x, Verdict(cur[1].res))
  <2>1. x \in CallSet /\ a \in AnswerSet /\ cur # <<>> /\ cur' = <<>>
    BY <1>11, CurType DEF Ret, Reply, ControlInv, CallSet, AnswerSet, Answer, Verdict
  <2> DEFINE h == IF d = x.c /\ x.kind = "asyn" THEN 1 ELSE 0
  <2>2. E = h
    <3>1. 1 \in 1..MaxCalls
      BY <2>1 DEF CallSet
    <3>2. QED
      BY <1>2, <2>1, <3>1, CurCount, InCalls
  <2>3. E' = 0 /\ Q' = Q /\ N' = N /\ P' = P
    BY <1>11, <2>1, CountEmpty DEF Ret
  <2>4. L' = L + h
    <3>1. CASE x.kind = "asyn"
      <4>1. asynRet' = [asynRet EXCEPT ![x.c] = Append(@, a)]
        BY <1>11, <3>1 DEF Ret, Reply
      <4>2. x.c \in Clients
        BY <2>1 DEF CallSet
      <4>3. L' = IF d = x.c THEN L + 1 ELSE L
        BY <1>2, <2>1, <4>1, <4>2, AnswerTypes
      <4>4. h = IF d = x.c THEN 1 ELSE 0
        BY <3>1
      <4> HIDE DEF x, h, L
      <4>5. QED
        BY <1>1, <4>3, <4>4
    <3>2. CASE x.kind # "asyn"
      <4>1. L' = L
        BY <1>11, <2>1, <3>2 DEF Ret, Reply, CallSet, Kinds, retVars
      <4>2. h = 0
        BY <3>2
      <4> HIDE DEF h, L
      <4>3. QED
        BY <1>1, <4>1, <4>2
    <3>3. QED
      BY <3>1, <3>2
  <2>5. h \in {0, 1}
    OBVIOUS
  <2> HIDE DEF Q, E, L, N, P, x, h
  <2>6. QED
    BY <1>1, <1>3, <2>2, <2>3, <2>4, <2>5
<1>12. ASSUME NEW c \in Clients, NEW k \in {"sync", "go"},
              \/ CallUnknown(c) \/ AsynTooMany(c) \/ CallBegin(c, k)
              \/ CallSendClosed(c, k) \/ CallReturn(c)
              \/ ClientClose(c) \/ ClientClosed(c)
       PROVE  Goal
  <2>1. UNCHANGED <<chanCall, cur, asynRet, pending>>
    BY <1>12 DEF CallUnknown, AsynTooMany, CallBegin, CallSendClosed, CallReturn,
                 ClientClose, ClientClosed, serverVars, retVars
  <2>2. N' = N
    BY <1>2, <1>12 DEF CallUnknown, AsynTooMany, CallBegin, CallSendClosed, CallReturn,
                       ClientClose, ClientClosed, Goto
  <2>3. QED
    BY <1>4, <2>1, <2>2
<1>13. ASSUME Drained \/ ServerClose PROVE Goal
  BY <1>4, <1>13 DEF Drained, ServerClose, retVars
<1>14. ASSUME UNCHANGED vars PROVE Goal
  BY <1>4, <1>14 DEF vars
<1>15. Goal
  BY <1>5, <1>6, <1>7, <1>8, <1>9, <1>10, <1>11, <1>12, <1>13, <1>14
     DEF Next, Server, ClientStep
<1>16. QED
  BY <1>15 DEF Goal

\* When the server runs a call it has not been run or answered before: it is
\* in the queue once and nowhere else.
LEMMA HeadIsNew ==
  ASSUME TypeOK, PlacesInv, chanCall # <<>>
  PROVE  LET h == Head(chanCall) IN
         /\ h \in CallSet /\ h.c \in Clients /\ h.n \in 1..MaxCalls
         /\ h.n <= issued[h.c] /\ outcome[h.c][h.n] = "none"
         /\ \A x \in Elems(Tail(chanCall)) : x.c # h.c \/ x.n # h.n
         /\ \A a \in Elems(syncRet[h.c]) \cup Elems(asynRet[h.c]) : a.n # h.n
<1> DEFINE h == Head(chanCall)
           C == CallsOf(h.c, h.n)
           R == AnswersTo(h.n)
<1>1. h \in CallSet /\ h.c \in Clients /\ h.n \in 1..MaxCalls
  <2>1. h \in CallSet
    BY HeadTailProperties DEF TypeOK
  <2>2. QED
    BY <2>1 DEF CallSet
<1>2. Places(h.c, h.n) = (IF h.n <= issued[h.c] THEN 1 ELSE 0)
  BY <1>1 DEF PlacesInv
<1>3. /\ Count(Tail(chanCall), C) = Count(chanCall, C) - In(h, C)
      /\ Count(Tail(chanCall), C) \in Nat
  BY CountTail DEF TypeOK
<1>4. In(h, C) = 1
  BY <1>1, InCalls DEF Kinds
<1>5. /\ Count(chanCall, C) \in Nat /\ Count(cur, Executing(C)) \in Nat
      /\ Count(syncRet[h.c], R) \in Nat /\ Count(asynRet[h.c], R) \in Nat
  BY <1>1, CountsAreNat
<1>6. Count(chanCall, C) + Count(cur, Executing(C)) + Count(syncRet[h.c], R)
        + Count(asynRet[h.c], R) + (IF outcome[h.c][h.n] = "none" THEN 0 ELSE 1)
        = (IF h.n <= issued[h.c] THEN 1 ELSE 0)
  BY <1>2 DEF Places
<1> HIDE DEF h, C, R
<1>7. /\ h.n <= issued[h.c] /\ outcome[h.c][h.n] = "none"
      /\ Count(Tail(chanCall), C) = 0
      /\ Count(syncRet[h.c], R) = 0 /\ Count(asynRet[h.c], R) = 0
  BY <1>3, <1>4, <1>5, <1>6
<1>8. ASSUME NEW x \in Elems(Tail(chanCall)) PROVE x.c # h.c \/ x.n # h.n
  <2>1. Tail(chanCall) \in Seq(CallSet)
    BY HeadTailProperties DEF TypeOK
  <2>2. x \in CallSet /\ x \notin C
    BY <1>7, <2>1, ElemsType, CountType
  <2>3. QED
    BY <2>2 DEF C, CallsOf, CallSet
<1>9. ASSUME NEW a \in Elems(syncRet[h.c]) \cup Elems(asynRet[h.c]) PROVE a.n # h.n
  <2>1. syncRet[h.c] \in Seq(AnswerSet) /\ asynRet[h.c] \in Seq(AnswerSet)
    BY <1>1 DEF TypeOK
  <2>2. a \in AnswerSet /\ a \notin R
    BY <1>7, <2>1, ElemsType, CountType
  <2>3. QED
    BY <2>2 DEF R, AnswersTo, AnswerSet
<1>10. QED
  BY <1>1, <1>7, <1>8, <1>9 DEF h

\* Telling a client the truth about one more call.
LEMMA SettleTruly ==
  ASSUME TypeOK, AnswersAreTrue, NEW c \in Clients, NEW a \in AnswerSet, Tells(c, a),
         outcome' = [outcome EXCEPT ![c][a.n] = a.res], executed' = executed
  PROVE  AnswersAreTrue'
<1> SUFFICES ASSUME NEW d \in Clients, NEW n \in 1..MaxCalls
             PROVE  /\ outcome'[d][n] = "ran" => n \in Elems(executed[d])
                    /\ outcome'[d][n] = "refused" => n \notin Elems(executed[d])
  BY DEF AnswersAreTrue
<1>1. /\ outcome \in [Clients -> [1..MaxCalls -> {"none", "ran", "refused"}]]
      /\ a.n \in 1..MaxCalls /\ a.res \in {"ran", "refused"}
  BY DEF TypeOK, AnswerSet
<1>2. CASE d = c /\ n = a.n
  BY <1>1, <1>2 DEF Tells, Ran
<1>3. CASE d # c \/ n # a.n
  <2>1. outcome'[d][n] = outcome[d][n]
    BY <1>1, <1>3
  <2>2. QED
    BY <2>1 DEF AnswersAreTrue
<1>4. QED
  BY <1>2, <1>3

\* What an answer says stays true, and what is said when it is made is true.
LEMMA TruthStep ==
  TypeOK /\ ControlInv /\ PlacesInv /\ TruthInv /\ [Next]_vars => TruthInv'
<1> SUFFICES ASSUME TypeOK, ControlInv, PlacesInv, TruthInv, [Next]_vars PROVE TruthInv'
  OBVIOUS
<1> USE ChanRpcAssumption
<1>1. /\ issued \in [Clients -> 0..MaxCalls]
      /\ outcome \in [Clients -> [1..MaxCalls -> {"none", "ran", "refused"}]]
      /\ executed \in [Clients -> Seq(1..MaxCalls)]
      /\ syncRet \in [Clients -> Seq(AnswerSet)] /\ asynRet \in [Clients -> Seq(AnswerSet)]
      /\ chanCall \in Seq(CallSet)
  BY DEF TypeOK
\* A call that has not been begun has not run.
<1>2. ASSUME NEW c \in Clients, issued[c] < MaxCalls PROVE ~Ran(c, issued[c] + 1)
  BY <1>1, <1>2 DEF TruthInv
<1>3. ASSUME NEW c \in Clients, issued[c] < MaxCalls,
             issued' = [issued EXCEPT ![c] = @ + 1], Settle(c, issued[c] + 1, "refused"),
             UNCHANGED <<chanCall, cur, syncRet, asynRet, executed>>
      PROVE  TruthInv'
  <2>1. \A d \in Clients : \A n \in 1..MaxCalls : Ran(d, n)' => n <= issued'[d]
    BY <1>1, <1>3 DEF TruthInv, Ran
  <2>2. AnswersAreTrue'
    BY <1>1, <1>2, <1>3 DEF TruthInv, AnswersAreTrue, Settle, Ran
  <2>3. QED
    BY <1>3, <2>1, <2>2 DEF TruthInv, Ran, Tells
<1>4. ASSUME NEW c \in Clients, NEW k \in Kinds, issued[c] < MaxCalls,
             issued' = [issued EXCEPT ![c] = @ + 1],
             chanCall' = Append(chanCall, Call(c, k)),
             UNCHANGED <<cur, syncRet, asynRet, outcome, executed>>
      PROVE  TruthInv'
  <2>1. Call(c, k) \in CallSet
    BY <1>4, CallType
  <2>2. Elems(chanCall') = Elems(chanCall) \cup {Call(c, k)}
    BY <1>1, <1>4, <2>1, ElemsAppend
  <2>3. Call(c, k).c = c /\ Call(c, k).n = issued[c] + 1
    BY DEF Call
  <2>4. \A x \in Elems(chanCall') : ~Ran(x.c, x.n)'
    BY <1>2, <1>4, <2>2, <2>3 DEF TruthInv, Ran
  <2>5. \A d \in Clients : \A n \in 1..MaxCalls : Ran(d, n)' => n <= issued'[d]
    BY <1>1, <1>4 DEF TruthInv, Ran
  <2>6. QED
    BY <1>4, <2>4, <2>5 DEF TruthInv, AnswersAreTrue, Ran, Tells
<1>5. ASSUME NEW c \in Clients, CallReturn(c) PROVE TruthInv'
  <2> DEFINE a == Head(syncRet[c])
  <2>1. /\ a \in AnswerSet /\ Elems(syncRet[c]) = Elems(Tail(syncRet[c])) \cup {a}
    BY <1>1, <1>5, AnswerGet, ElemsTail DEF CallReturn
  <2>2. Tells(c, a)
    BY <2>1 DEF TruthInv
  <2>3. AnswersAreTrue'
    BY <1>5, <2>1, <2>2, SettleTruly DEF CallReturn, Settle, serverVars, TruthInv
  <2>4. \A d \in Clients : Elems(syncRet'[d]) \subseteq Elems(syncRet[d])
    BY <1>1, <1>5, <2>1 DEF CallReturn
  <2>5. UNCHANGED <<chanCall, cur, asynRet, executed, issued>>
    BY <1>5 DEF CallReturn, serverVars
  <2>6. QED
    BY <2>3, <2>4, <2>5 DEF TruthInv, Ran, Tells
<1>6. ASSUME NEW c \in Clients, Cb(c) PROVE TruthInv'
  <2> DEFINE a == Head(asynRet[c])
  <2>1. /\ a \in AnswerSet /\ Elems(asynRet[c]) = Elems(Tail(asynRet[c])) \cup {a}
    BY <1>1, <1>6, AnswerGet, ElemsTail DEF Cb
  <2>2. Tells(c, a)
    BY <2>1 DEF TruthInv
  <2>3. AnswersAreTrue'
    BY <1>6, <2>1, <2>2, SettleTruly DEF Cb, Settle, serverVars, TruthInv
  <2>4. \A d \in Clients : Elems(asynRet'[d]) \subseteq Elems(asynRet[d])
    BY <1>1, <1>6, <2>1 DEF Cb
  <2>5. UNCHANGED <<chanCall, cur, syncRet, executed, issued>>
    BY <1>6 DEF Cb, serverVars
  <2>6. QED
    BY <2>3, <2>4, <2>5 DEF TruthInv, Ran, Tells
<1>7. ASSUME NEW c \in Clients, AsynRefused(c) PROVE TruthInv'
  <2> DEFINE a == Answer(Call(c, "asyn"), "refused")
  <2>1. a \in AnswerSet /\ a.n = issued[c] + 1 /\ a.res = "refused" /\ issued[c] < MaxCalls
    BY <1>7, CallType DEF AsynRefused, Kinds, Answer, Call
  <2>2. asynRet' = [asynRet EXCEPT ![c] = Append(@, a)]
    BY <1>7 DEF AsynRefused
  <2> HIDE DEF a
  <2>3. \A d \in Clients :
          Elems(asynRet'[d]) = IF d = c THEN Elems(asynRet[d]) \cup {a} ELSE Elems(asynRet[d])
    <3>1. Elems(Append(asynRet[c], a)) = Elems(asynRet[c]) \cup {a}
      BY <1>1, <2>1, ElemsAppend
    <3>2. QED
      BY <1>1, <2>2, <3>1
  <2>4. UNCHANGED <<chanCall, cur, syncRet, outcome, executed>>
        /\ issued' = [issued EXCEPT ![c] = @ + 1]
    BY <1>7 DEF AsynRefused, serverVars
  <2>5. Tells(c, a)
    BY <1>2, <2>1 DEF Tells
  <2>6. \A d \in Clients : \A x \in Elems(syncRet'[d]) \cup Elems(asynRet'[d]) : Tells(d, x)'
    <3>1. \A d \in Clients : \A x : Tells(d, x)' <=> Tells(d, x)
      BY <2>4 DEF Tells, Ran
    <3>2. \A d \in Clients : \A x \in Elems(syncRet[d]) \cup Elems(asynRet[d]) : Tells(d, x)
      BY DEF TruthInv
    <3>3. QED
      BY <2>3, <2>4, <2>5, <3>1, <3>2
  <2>7. \A d \in Clients : \A n \in 1..MaxCalls : Ran(d, n)' => n <= issued'[d]
    BY <1>1, <2>4 DEF TruthInv, Ran
  <2>8. QED
    BY <2>4, <2>6, <2>7 DEF TruthInv, AnswersAreTrue, Ran
<1>8. CASE Exec
  <2> DEFINE h == Head(chanCall)
  <2>1. /\ chanCall # <<>> /\ chanCall' = Tail(chanCall)
        /\ executed' = [executed EXCEPT ![h.c] = Append(@, h.n)]
        /\ UNCHANGED <<issued, outcome, syncRet, asynRet>>
    BY <1>8 DEF Exec, retVars
  <2>2. PICK r \in {"ok", "panic"} : cur' = <<[call |-> h, res |-> r]>>
    BY <1>8 DEF Exec
  <2>3. /\ h \in CallSet /\ h.c \in Clients /\ h.n \in 1..MaxCalls
        /\ h.n <= issued[h.c] /\ outcome[h.c][h.n] = "none"
        /\ \A x \in Elems(Tail(chanCall)) : x.c # h.c \/ x.n # h.n
        /\ \A a \in Elems(syncRet[h.c]) \cup Elems(asynRet[h.c]) : a.n # h.n
    BY <2>1, HeadIsNew
  <2>4. Elems(chanCall') \subseteq Elems(chanCall) /\ Elems(chanCall') \subseteq CallSet
    BY <1>1, <2>1, ElemsTail, ElemsType
  <2>5. Elems(cur') = {[call |-> h, res |-> r]}
    BY <2>2, ElemsOne
  <2> HIDE DEF h
  <2>6. \A d \in Clients : \A n \in 1..MaxCalls :
          Ran(d, n)' <=> Ran(d, n) \/ (d = h.c /\ n = h.n)
    <3>1. Elems(Append(executed[h.c], h.n)) = Elems(executed[h.c]) \cup {h.n}
      BY <1>1, <2>3, ElemsAppend
    <3>2. QED
      BY <1>1, <2>1, <2>3, <3>1 DEF Ran
  <2>7. \A d \in Clients : \A n \in 1..MaxCalls : Ran(d, n)' => n <= issued'[d]
    BY <2>1, <2>3, <2>6 DEF TruthInv
  <2>8. AnswersAreTrue'
    BY <2>1, <2>3, <2>6 DEF TruthInv, AnswersAreTrue, Ran
  <2>9. \A x \in Elems(chanCall') : ~Ran(x.c, x.n)'
    BY <2>1, <2>3, <2>4, <2>6 DEF TruthInv, CallSet
  <2>10. \A y \in Elems(cur') : y.res = "closed" <=> ~Ran(y.call.c, y.call.n)'
    BY <2>3, <2>5, <2>6
  <2>11. ASSUME NEW d \in Clients, NEW a \in Elems(syncRet'[d]) \cup Elems(asynRet'[d])
         PROVE  Tells(d, a)'
    <3>1. a \in AnswerSet /\ Tells(d, a)
      BY <1>1, <2>1, ElemsType DEF TruthInv
    <3>2. a.n \in 1..MaxCalls /\ (d # h.c \/ a.n # h.n)
      BY <2>1, <2>3, <3>1 DEF AnswerSet
    <3>3. QED
      BY <2>6, <3>1, <3>2 DEF Tells
  <2>12. QED
    BY <2>7, <2>8, <2>9, <2>10, <2>11 DEF TruthInv
<1>9. CASE Drain
  <2> DEFINE h == Head(chanCall)
  <2>1. /\ chanCall # <<>> /\ chanCall' = Tail(chanCall)
        /\ cur' = <<[call |-> h, res |-> "closed"]>>
        /\ UNCHANGED <<issued, outcome, syncRet, asynRet, executed>>
    BY <1>9 DEF Drain, retVars
  <2>2. Elems(chanCall) = Elems(chanCall') \cup {h}
    BY <1>1, <2>1, ElemsTail
  <2>3. Elems(cur') = {[call |-> h, res |-> "closed"]}
    BY <2>1, ElemsOne
  <2>4. ~Ran(h.c, h.n)
    BY <2>2 DEF TruthInv
  <2>5. QED
    BY <2>1, <2>2, <2>3, <2>4 DEF TruthInv, AnswersAreTrue, Tells, Ran
<1>10. CASE Ret
  <2> DEFINE x == cur[1].call
             r == cur[1].res
             a == Answer(x, Verdict(r))
  <2>1. /\ x \in CallSet /\ r \in {"ok", "panic", "closed"} /\ cur[1] \in Elems(cur)
        /\ UNCHANGED <<issued, chanCall, executed>> /\ cur' = <<>>
    BY <1>10, CurType, ElemsOne DEF Ret, Reply, ControlInv
  <2>2. a \in AnswerSet /\ a.n = x.n /\ x.c \in Clients /\ x.n \in 1..MaxCalls
    BY <2>1 DEF CallSet, AnswerSet, Answer, Verdict
  <2>3. Tells(x.c, a)
    <3>1. r = "closed" <=> ~Ran(x.c, x.n)
      BY <2>1 DEF TruthInv
    <3>2. a.res = "ran" <=> r # "closed"
      BY DEF Answer, Verdict
    <3>3. QED
      BY <2>2, <3>1, <3>2 DEF Tells
  <2> HIDE DEF x, a
  <2>4. \A d \in Clients :
          /\ Elems(syncRet'[d]) \subseteq
               Elems(syncRet[d]) \cup (IF d = x.c THEN {a} ELSE {})
          /\ Elems(asynRet'[d]) \subseteq
               Elems(asynRet[d]) \cup (IF d = x.c THEN {a} ELSE {})
    <3>1. CASE x.kind = "go"
      <4>1. UNCHANGED <<syncRet, asynRet>>
        BY <1>10, <3>1 DEF Ret, Reply, retVars, x
      <4>2. QED
        BY <4>1
    <3>2. CASE x.kind = "sync"
      <4>1. syncRet' = [syncRet EXCEPT ![x.c] = Append(@, a)] /\ asynRet' = asynRet
        BY <1>10, <3>2 DEF Ret, Reply, x, a
      <4>2. QED
        BY <1>1, <2>2, <4>1, ElemsAppend
    <3>3. CASE x.kind = "asyn"
      <4>1. asynRet' = [asynRet EXCEPT ![x.c] = Append(@, a)] /\ syncRet' = syncRet
        BY <1>10, <3>3 DEF Ret, Reply, x, a
      <4>2. QED
        BY <1>1, <2>2, <4>1, ElemsAppend
    <3>4. QED
      BY <2>1, <3>1, <3>2, <3>3 DEF CallSet, Kinds
  <2>5. \A d \in Clients : \A b \in Elems(syncRet'[d]) \cup Elems(asynRet'[d]) : Tells(d, b)'
    BY <2>1, <2>3, <2>4 DEF TruthInv, Tells, Ran
  <2>6. AnswersAreTrue'
    <3>1. outcome' = IF x.kind = "go"
                     THEN [outcome EXCEPT ![x.c][x.n] = a.res] ELSE outcome
      BY <1>10 DEF Ret, Reply, x, a
    <3>2. CASE x.kind = "go"
      BY <2>1, <2>2, <2>3, <3>1, <3>2, SettleTruly DEF TruthInv
    <3>3. CASE x.kind # "go"
      BY <2>1, <3>1, <3>3 DEF TruthInv, AnswersAreTrue
    <3>4. QED
      BY <3>2, <3>3
  <2>7. QED
    BY <2>1, <2>5, <2>6, ElemsEmpty DEF TruthInv, Ran
<1>11. ASSUME NEW c \in Clients, CallUnknown(c) \/ AsynTooMany(c) PROVE TruthInv'
  BY <1>3, <1>11 DEF CallUnknown, AsynTooMany, serverVars, retVars
<1>12. ASSUME NEW c \in Clients, NEW k \in {"sync", "go"}, CallSendClosed(c, k)
       PROVE  TruthInv'
  <2>1. issued[c] < MaxCalls
    BY <1>12 DEF CallSendClosed, ControlInv
  <2>2. QED
    BY <1>3, <1>12, <2>1 DEF CallSendClosed, serverVars, retVars
<1>13. ASSUME NEW c \in Clients, NEW k \in {"sync", "go"}, CallSend(c, k) PROVE TruthInv'
  <2>1. issued[c] < MaxCalls /\ k \in Kinds
    BY <1>13 DEF CallSend, ControlInv, Kinds
  <2>2. QED
    BY <1>4, <1>13, <2>1 DEF CallSend, serverVars, retVars
<1>14. ASSUME NEW c \in Clients, AsynSend(c) PROVE TruthInv'
  BY <1>4, <1>14 DEF AsynSend, serverVars, retVars, Kinds
<1>15. ASSUME UNCHANGED <<chanCall, cur, syncRet, asynRet, outcome, issued, executed>>
       PROVE  TruthInv'
  BY <1>15 DEF TruthInv, AnswersAreTrue, Tells, Ran
<1>16. ASSUME NEW c \in Clients, NEW k \in {"sync", "go"},
              CallBegin(c, k) \/ AsynCount(c) \/ ClientClose(c) \/ ClientClosed(c)
       PROVE  TruthInv'
  BY <1>15, <1>16 DEF CallBegin, AsynCount, ClientClose, ClientClosed, serverVars, retVars
<1>17. CASE Drained \/ ServerClose
  BY <1>15, <1>17 DEF Drained, ServerClose, retVars
<1>18. CASE UNCHANGED vars
  BY <1>15, <1>18 DEF vars
<1>19. QED
  BY <1>5, <1>6, <1>7, <1>8, <1>9, <1>10, <1>11, <1>12, <1>13, <1>14, <1>16, <1>17, <1>18
     DEF Next, Server, ClientStep

(* ------------------------------- Results ------------------------------- *)

\* The invariant holds at the start and every step keeps it.
LEMMA InductiveInvariant == Spec => []IInv
<1>1. Init => IInv
  <2> SUFFICES ASSUME Init PROVE IInv
    OBVIOUS
  <2> USE ChanRpcAssumption DEF Init
  <2>1. TypeOK
    BY EmptySeq DEF TypeOK
  <2>2. ControlInv
    BY DEF ControlInv
  <2>3. PlacesInv
    BY CountEmpty DEF PlacesInv, Places
  <2>4. WaitInv /\ PendingExact
    BY CountEmpty DEF WaitInv, PendingExact
  <2>5. TruthInv
    BY ElemsEmpty DEF TruthInv, AnswersAreTrue, Ran
  <2>6. QED
    BY <2>1, <2>2, <2>3, <2>4, <2>5 DEF IInv
<1>2. IInv /\ [Next]_vars => IInv'
  BY TypeStep, ControlStep, PlacesStep, WaitStep, PendingStep, TruthStep DEF IInv
<1>3. QED
  BY <1>1, <1>2, PTL DEF Spec

\* The variables keep their types, and no channel holds more than its capacity:
\* ChanAsynRet never fills up, though only pendingAsynCall is tested before a
\* refusal is put in it (chanrpc.go:338-344, 370-373).
THEOREM TypeCorrect == Spec => []TypeOK
<1>1. IInv => TypeOK
  BY DEF IInv
<1>2. QED
  BY <1>1, InductiveInvariant, PTL

\* There is room for the answer the server is about to return, so a slow
\* client never stops the server in Server.ret (chanrpc.go:98-123).
LEMMA RoomToReply == IInv => ServerNeverBlocks
<1> SUFFICES ASSUME IInv, serverPc = "ret"
             PROVE  /\ cur[1].call.kind = "sync" => syncRet[cur[1].call.c] = <<>>
                    /\ cur[1].call.kind = "asyn" => Len(asynRet[cur[1].call.c]) < AsynCap
  BY DEF ServerNeverBlocks
<1> DEFINE x == cur[1].call
<1>1. TypeOK /\ cur # <<>> /\ WaitInv /\ PendingExact /\ ControlInv
  BY DEF IInv, ControlInv
<1>2. x \in CallSet /\ x.c \in Clients /\ x.kind \in Kinds /\ x.n \in 1..MaxCalls
  BY <1>1, CurType DEF CallSet
<1>3. \A k \in Kinds : Count(cur, Executing(OfKind(x.c, k))) = (IF k = x.kind THEN 1 ELSE 0)
  BY <1>1, <1>2, CurCount, InCalls
<1> HIDE DEF x
<1>4. ASSUME x.kind = "sync" PROVE syncRet[x.c] = <<>>
  <2> DEFINE Q == Count(chanCall, OfKind(x.c, "sync"))
             L == Len(syncRet[x.c])
  <2>1. Q + 1 + L = (IF pc[x.c] = "wait" THEN 1 ELSE 0)
    BY <1>1, <1>2, <1>3, <1>4 DEF WaitInv
  <2>2. Q \in Nat /\ L \in Nat
    BY <1>1, <1>2, CountsAreNat
  <2> HIDE DEF Q, L
  <2>3. L = 0
    BY <2>1, <2>2
  <2>4. QED
    BY <1>1, <1>2, <2>3, EmptySeq DEF TypeOK, L
<1>5. ASSUME x.kind = "asyn" PROVE Len(asynRet[x.c]) < AsynCap
  <2>1. Count(cur, Executing(OfKind(x.c, "asyn"))) = 1
    BY <1>2, <1>3, <1>5
  <2>2. /\ Len(asynRet[x.c]) \in Nat
        /\ Len(asynRet[x.c]) + 1 <= pending[x.c] + (IF pc[x.c] = "count" THEN 1 ELSE 0)
    BY <1>1, <1>2, <2>1, PendingBounds
  <2>3. pending[x.c] \in 0..AsynCap /\ (pc[x.c] = "count" => pending[x.c] < AsynCap)
    BY <1>1, <1>2 DEF TypeOK, ControlInv
  <2>4. QED
    BY <2>2, <2>3, ChanRpcAssumption
<1>6. QED
  BY <1>4, <1>5 DEF x

\* However calls, panics, full queues and closes interleave: every call is in
\* one place and answered at most once, no answer is lost, every answer tells
\* whether the function ran, pendingAsynCall is exact and the server never
\* waits for room to answer (chanrpc.go:82-123, 298-345, 370-373).
THEOREM EveryCallAnsweredOnce == Spec => []AnsweredOnce
<1>1. IInv => AnsweredOnce
  <2> SUFFICES ASSUME IInv PROVE AnsweredOnce
    OBVIOUS
  <2>1. ExactlyOnePlace
    <3> SUFFICES ASSUME NEW c \in Clients, NEW n \in 1..issued[c] PROVE Places(c, n) = 1
      BY DEF ExactlyOnePlace
    <3>1. n \in 1..MaxCalls /\ n <= issued[c]
      BY ChanRpcAssumption DEF IInv, TypeOK
    <3>2. QED
      BY <3>1 DEF IInv, PlacesInv
  <2>2. QED
    BY <2>1, RoomToReply DEF IInv, AnsweredOnce, TruthInv, PendingIsExact
<1>2. QED
  BY <1>1, InductiveInvariant, PTL

\* A call that is on its way, or not begun, has no answer yet.
LEMMA Unanswered ==
  ASSUME TypeOK, PlacesInv, NEW c \in Clients, NEW n \in 1..MaxCalls,
         \/ n > issued[c]
         \/ Count(cur, Executing(CallsOf(c, n))) > 0
         \/ Count(syncRet[c], AnswersTo(n)) > 0
         \/ Count(asynRet[c], AnswersTo(n)) > 0
  PROVE  outcome[c][n] = "none"
<1>1. n \in Nat /\ issued[c] \in Nat
  BY ChanRpcAssumption DEF TypeOK
<1>2. Places(c, n) = IF n <= issued[c] THEN 1 ELSE 0
  BY DEF PlacesInv
<1>3. QED
  BY <1>1, <1>2, PlacesNat DEF Places

\* A call answered once is never answered again: CallReturn, Cb and Server.ret
\* settle only calls without an answer, and so does a refusal
\* (chanrpc.go:98-123, 164-172, 199-209, 338-345).
THEOREM AnswersAreFinal ==
  Spec => [][\A c \in Clients : \A n \in 1..MaxCalls :
               outcome[c][n] # "none" => outcome'[c][n] = outcome[c][n]]_vars
<1> DEFINE Final == \A c \in Clients : \A n \in 1..MaxCalls :
                      outcome[c][n] # "none" => outcome'[c][n] = outcome[c][n]
<1>1. IInv /\ [Next]_vars => [Final]_vars
  <2> SUFFICES ASSUME TypeOK, ControlInv, PlacesInv, Next PROVE Final
    BY DEF IInv
  <2>1. /\ outcome \in [Clients -> [1..MaxCalls -> {"none", "ran", "refused"}]]
        /\ syncRet \in [Clients -> Seq(AnswerSet)] /\ asynRet \in [Clients -> Seq(AnswerSet)]
    BY DEF TypeOK
  <2>2. ASSUME NEW c \in Clients, NEW n \in 1..MaxCalls, NEW r, Settle(c, n, r),
               outcome[c][n] = "none"
        PROVE  Final
    BY <2>1, <2>2 DEF Settle
  <2>3. ASSUME NEW c \in Clients, issued[c] < MaxCalls,
               Settle(c, issued[c] + 1, "refused")
        PROVE  Final
    <3>1. issued[c] + 1 \in 1..MaxCalls /\ issued[c] + 1 > issued[c]
      BY <2>3, ChanRpcAssumption DEF TypeOK
    <3>2. QED
      BY <2>2, <2>3, <3>1, Unanswered
  <2>4. ASSUME UNCHANGED outcome PROVE Final
    BY <2>4
  <2> HIDE DEF Final
  <2>5. ASSUME NEW c \in Clients, CallReturn(c) PROVE Final
    <3> DEFINE a == Head(syncRet[c])
    <3>1. a \in AnswerSet /\ Settle(c, a.n, a.res) /\ a.n \in 1..MaxCalls
      BY <2>1, <2>5, AnswerGet DEF CallReturn, AnswerSet
    <3>2. /\ Count(Tail(syncRet[c]), AnswersTo(a.n)) = Count(syncRet[c], AnswersTo(a.n)) - 1
          /\ Count(Tail(syncRet[c]), AnswersTo(a.n)) \in Nat
      BY <2>1, <2>5, <3>1, AnswerGet DEF CallReturn
    <3>3. Count(syncRet[c], AnswersTo(a.n)) > 0
      <4>1. Count(syncRet[c], AnswersTo(a.n)) \in Nat
        BY CountsAreNat
      <4> HIDE DEF a
      <4>2. QED
        BY <3>2, <4>1
    <3>4. QED
      BY <2>2, <3>1, <3>3, Unanswered
  <2>6. ASSUME NEW c \in Clients, Cb(c) PROVE Final
    <3> DEFINE a == Head(asynRet[c])
    <3>1. a \in AnswerSet /\ Settle(c, a.n, a.res) /\ a.n \in 1..MaxCalls
      BY <2>1, <2>6, AnswerGet DEF Cb, AnswerSet
    <3>2. /\ Count(Tail(asynRet[c]), AnswersTo(a.n)) = Count(asynRet[c], AnswersTo(a.n)) - 1
          /\ Count(Tail(asynRet[c]), AnswersTo(a.n)) \in Nat
      BY <2>1, <2>6, <3>1, AnswerGet DEF Cb
    <3>3. Count(asynRet[c], AnswersTo(a.n)) > 0
      <4>1. Count(asynRet[c], AnswersTo(a.n)) \in Nat
        BY CountsAreNat
      <4> HIDE DEF a
      <4>2. QED
        BY <3>2, <4>1
    <3>4. QED
      BY <2>2, <3>1, <3>3, Unanswered
  <2>7. CASE Ret
    <3> DEFINE x == cur[1].call
    <3>1. x \in CallSet /\ x.c \in Clients /\ x.n \in 1..MaxCalls /\ cur # <<>>
      BY <2>7, CurType DEF Ret, ControlInv, CallSet
    <3>2. Count(cur, Executing(CallsOf(x.c, x.n))) > 0
      BY <3>1, CurCount, InCalls DEF Kinds
    <3>3. \/ UNCHANGED outcome
          \/ \E r : Settle(x.c, x.n, r)
      BY <2>7 DEF Ret, Reply, Settle
    <3>4. QED
      BY <2>2, <2>4, <3>1, <3>2, <3>3, Unanswered
  <2>8. ASSUME NEW c \in Clients, NEW k \in {"sync", "go"}, CallSendClosed(c, k) PROVE Final
    BY <2>3, <2>8 DEF CallSendClosed, ControlInv
  <2>9. ASSUME NEW c \in Clients, CallUnknown(c) \/ AsynTooMany(c) PROVE Final
    BY <2>3, <2>9 DEF CallUnknown, AsynTooMany
  <2>10. ASSUME NEW c \in Clients, NEW k \in {"sync", "go"},
                \/ CallBegin(c, k) \/ CallSend(c, k) \/ AsynSend(c) \/ AsynRefused(c)
                \/ AsynCount(c) \/ ClientClose(c) \/ ClientClosed(c)
         PROVE  Final
    BY <2>4, <2>10 DEF CallBegin, CallSend, AsynSend, AsynRefused, AsynCount,
                       ClientClose, ClientClosed
  <2>11. CASE Exec \/ Drain \/ Drained \/ ServerClose
    BY <2>4, <2>11 DEF Exec, Drain, Drained, ServerClose
  <2>12. QED
    BY <2>5, <2>6, <2>7, <2>8, <2>9, <2>10, <2>11 DEF Next, Server, ClientStep
<1>2. QED
  BY <1>1, InductiveInvariant, PTL DEF Spec
==============================================================================
