------------------------------- MODULE ChanRpc -------------------------------
(***************************************************************************)
(* chanrpc (libs/chanrpc/chanrpc.go): goroutines call functions of one     *)
(* server goroutine through the bounded channel ChanCall.  Each Client     *)
(* belongs to one goroutine, which makes synchronous calls (Call0/1/N),    *)
(* asynchronous calls answered on ChanAsynRet (AsynCall, Cb), and posts    *)
(* without answer (Server.Go).  Server.Close and Client.Close end a side.  *)
(***************************************************************************)
EXTENDS Naturals, Sequences, Fifo

CONSTANTS
  Clients,   \* client goroutines, one chanrpc.Client each
  CallCap,   \* capacity of Server.ChanCall
  AsynCap,   \* capacity of Client.ChanAsynRet
  MaxCalls   \* bound: calls per client

ASSUME ChanRpcAssumption ==
  /\ CallCap \in Nat \ {0}
  /\ AsynCap \in Nat
  /\ MaxCalls \in Nat

VARIABLES
  callOpen,  \* ChanCall is not closed
  chanCall,  \* queued CallInfo
  serverPc,  \* "select", "exec", "ret", "drain", "closed"
  cur,       \* the call being executed or refused, with its result; <<>> or <<call>>
  pc,        \* what each client goroutine is doing
  issued,    \* calls each client has begun
  pending,   \* pendingAsynCall
  syncRet,   \* chanSyncRet, capacity 1
  asynRet,   \* ChanAsynRet
  outcome,   \* history: what each call was answered
  executed   \* history: for each client, its calls whose function ran, in order

serverVars == <<serverPc, cur, executed>>
retVars == <<syncRet, asynRet>>
vars == <<callOpen, chanCall, serverPc, cur, pc, issued, pending, syncRet,
          asynRet, outcome, executed>>

\* A caller tells a returned value or panic ("ran") from an error of chanrpc
\* itself ("refused"): closed, full, too many calls, unknown id.
Call(c, k) == [c |-> c, n |-> issued[c] + 1, kind |-> k]
Answer(call, r) == [n |-> call.n, res |-> r]
Verdict(r) == IF r = "closed" THEN "refused" ELSE "ran"

Init ==
  /\ callOpen = TRUE /\ chanCall = <<>>
  /\ serverPc = "select" /\ cur = <<>>
  /\ pc = [c \in Clients |-> "idle"]
  /\ issued = [c \in Clients |-> 0]
  /\ pending = [c \in Clients |-> 0]
  /\ syncRet = [c \in Clients |-> <<>>]
  /\ asynRet = [c \in Clients |-> <<>>]
  /\ outcome = [c \in Clients |-> [n \in 1..MaxCalls |-> "none"]]
  /\ executed = [c \in Clients |-> <<>>]

Goto(c, l) == pc' = [pc EXCEPT ![c] = l]
Settle(c, n, r) == outcome' = [outcome EXCEPT ![c][n] = r]

(* ------------------- Synchronous calls and posts ----------------------- *)

\* Client.f: an id that is not registered, or has another return type, is
\* refused before anything is sent.  Server.Go just returns.
CallUnknown(c) ==
  /\ pc[c] = "idle" /\ issued[c] < MaxCalls
  /\ issued' = [issued EXCEPT ![c] = @ + 1]
  /\ Settle(c, issued[c] + 1, "refused")
  /\ UNCHANGED <<callOpen, chanCall, serverVars, pc, pending, retVars>>

\* Call0/1/N and Server.Go reach the blocking send on ChanCall.
CallBegin(c, kind) ==
  /\ pc[c] = "idle" /\ issued[c] < MaxCalls
  /\ Goto(c, kind)
  /\ UNCHANGED <<callOpen, chanCall, serverVars, issued, pending, retVars, outcome>>

\* The send succeeds; a synchronous caller then waits on chanSyncRet.
CallSend(c, kind) ==
  /\ pc[c] = kind
  /\ callOpen /\ Len(chanCall) < CallCap
  /\ chanCall' = Append(chanCall, Call(c, kind))
  /\ issued' = [issued EXCEPT ![c] = @ + 1]
  /\ Goto(c, IF kind = "sync" THEN "wait" ELSE "idle")
  /\ UNCHANGED <<callOpen, serverVars, pending, retVars, outcome>>

\* The send panics on the closed channel; the panic is recovered.
CallSendClosed(c, kind) ==
  /\ pc[c] = kind /\ ~callOpen
  /\ issued' = [issued EXCEPT ![c] = @ + 1]
  /\ Settle(c, issued[c] + 1, "refused")
  /\ Goto(c, "idle")
  /\ UNCHANGED <<callOpen, chanCall, serverVars, pending, retVars>>

CallReturn(c) ==
  /\ pc[c] = "wait" /\ syncRet[c] # <<>>
  /\ Settle(c, Head(syncRet[c]).n, Head(syncRet[c]).res)
  /\ syncRet' = [syncRet EXCEPT ![c] = Tail(@)]
  /\ Goto(c, "idle")
  /\ UNCHANGED <<callOpen, chanCall, serverVars, issued, pending, asynRet>>

(* ------------------------- Asynchronous calls -------------------------- *)

\* At the limit the callback runs at once with "too many calls".
AsynTooMany(c) ==
  /\ pc[c] = "idle" /\ issued[c] < MaxCalls
  /\ pending[c] >= AsynCap
  /\ issued' = [issued EXCEPT ![c] = @ + 1]
  /\ Settle(c, issued[c] + 1, "refused")
  /\ UNCHANGED <<callOpen, chanCall, serverVars, pc, pending, retVars>>

\* Mutant: the limit is tested with > instead of >=.
AsynSendOver(c) ==
  /\ pc[c] = "idle" /\ issued[c] < MaxCalls
  /\ pending[c] <= AsynCap
  /\ callOpen /\ Len(chanCall) < CallCap
  /\ chanCall' = Append(chanCall, Call(c, "asyn"))
  /\ issued' = [issued EXCEPT ![c] = @ + 1]
  /\ Goto(c, "count")
  /\ UNCHANGED <<callOpen, serverVars, pending, retVars, outcome>>

\* The call is queued ...
AsynSend(c) ==
  /\ pc[c] = "idle" /\ issued[c] < MaxCalls
  /\ pending[c] < AsynCap
  /\ callOpen /\ Len(chanCall) < CallCap
  /\ chanCall' = Append(chanCall, Call(c, "asyn"))
  /\ issued' = [issued EXCEPT ![c] = @ + 1]
  /\ Goto(c, "count")
  /\ UNCHANGED <<callOpen, serverVars, pending, retVars, outcome>>

\* Mutant: a refused call returns before pendingAsynCall++.
AsynRefusedUncounted(c) ==
  /\ pc[c] = "idle" /\ issued[c] < MaxCalls
  /\ pending[c] < AsynCap /\ Len(asynRet[c]) < AsynCap
  /\ asynRet' = [asynRet EXCEPT ![c] = Append(@, Answer(Call(c, "asyn"), "refused"))]
  /\ issued' = [issued EXCEPT ![c] = @ + 1]
  /\ UNCHANGED <<callOpen, chanCall, serverVars, pc, pending, syncRet, outcome>>

\* ... or refused, because the id is unknown, or ChanCall full or closed: the
\* error goes to the client's own return channel.
AsynRefused(c) ==
  /\ pc[c] = "idle" /\ issued[c] < MaxCalls
  /\ pending[c] < AsynCap
  /\ asynRet' = [asynRet EXCEPT ![c] = Append(@, Answer(Call(c, "asyn"), "refused"))]
  /\ issued' = [issued EXCEPT ![c] = @ + 1]
  /\ Goto(c, "count")
  /\ UNCHANGED <<callOpen, chanCall, serverVars, pending, syncRet, outcome>>

\* pendingAsynCall++, after the answer may already have arrived.
AsynCount(c) ==
  /\ pc[c] = "count"
  /\ pending' = [pending EXCEPT ![c] = @ + 1]
  /\ Goto(c, "idle")
  /\ UNCHANGED <<callOpen, chanCall, serverVars, issued, retVars, outcome>>

\* The goroutine takes an answer and runs its callback, in its own select or
\* inside Client.Close.
Cb(c) ==
  /\ pc[c] = "idle" \/ (pc[c] = "closing" /\ pending[c] > 0)
  /\ asynRet[c] # <<>>
  /\ pending' = [pending EXCEPT ![c] = @ - 1]
  /\ Settle(c, Head(asynRet[c]).n, Head(asynRet[c]).res)
  /\ asynRet' = [asynRet EXCEPT ![c] = Tail(@)]
  /\ UNCHANGED <<callOpen, chanCall, serverVars, pc, issued, syncRet>>

ClientClose(c) ==
  /\ pc[c] = "idle"
  /\ Goto(c, "closing")
  /\ UNCHANGED <<callOpen, chanCall, serverVars, issued, pending, retVars, outcome>>

ClientClosed(c) ==
  /\ pc[c] = "closing" /\ pending[c] = 0
  /\ Goto(c, "closed")
  /\ UNCHANGED <<callOpen, chanCall, serverVars, issued, pending, retVars, outcome>>

(* -------------------------------- Server ------------------------------- *)

\* Mutant: a panic is recovered without an answer.
ExecPanicSilent ==
  /\ serverPc = "select" /\ chanCall # <<>>
  /\ chanCall' = Tail(chanCall)
  /\ executed' = [executed EXCEPT ![Head(chanCall).c] = Append(@, Head(chanCall).n)]
  /\ \/ cur' = <<[call |-> Head(chanCall), res |-> "ok"]>> /\ serverPc' = "ret"
     \/ UNCHANGED <<cur, serverPc>>
  /\ UNCHANGED <<callOpen, pc, issued, pending, retVars, outcome>>

\* The server goroutine receives a call and runs its function.
Exec ==
  /\ serverPc = "select" /\ chanCall # <<>>
  /\ chanCall' = Tail(chanCall)
  /\ executed' = [executed EXCEPT ![Head(chanCall).c] = Append(@, Head(chanCall).n)]
  /\ \E r \in {"ok", "panic"} : cur' = <<[call |-> Head(chanCall), res |-> r]>>
  /\ serverPc' = "ret"
  /\ UNCHANGED <<callOpen, pc, issued, pending, retVars, outcome>>

\* Server.ret: nothing for a post; otherwise a send that waits for room.
Reply(next) ==
  LET call == cur[1].call
      answer == Answer(call, Verdict(cur[1].res))
  IN  /\ CASE call.kind = "go"   -> UNCHANGED retVars
           [] call.kind = "sync" -> /\ Len(syncRet[call.c]) < 1
                                    /\ syncRet' = [syncRet EXCEPT ![call.c] = Append(@, answer)]
                                    /\ UNCHANGED asynRet
           [] call.kind = "asyn" -> /\ Len(asynRet[call.c]) < AsynCap
                                    /\ asynRet' = [asynRet EXCEPT ![call.c] = Append(@, answer)]
                                    /\ UNCHANGED syncRet
      /\ outcome' = IF call.kind = "go"
                    THEN [outcome EXCEPT ![call.c][call.n] = answer.res]
                    ELSE outcome
      /\ cur' = <<>>
      /\ serverPc' = next

Ret ==
  /\ serverPc = "ret"
  /\ Reply(IF callOpen THEN "select" ELSE "drain")
  /\ UNCHANGED <<callOpen, chanCall, pc, issued, pending, executed>>

\* Server.Close, called by the server goroutine: no more calls, and the
\* queued ones are refused one by one.
ServerClose ==
  /\ serverPc = "select"
  /\ callOpen' = FALSE
  /\ serverPc' = "drain"
  /\ UNCHANGED <<chanCall, cur, pc, issued, pending, retVars, outcome, executed>>

\* Mutants: queued calls are thrown away, or answered with an empty RetInfo.
DrainSilent ==
  /\ serverPc = "drain" /\ chanCall # <<>>
  /\ chanCall' = Tail(chanCall)
  /\ UNCHANGED <<callOpen, serverVars, pc, issued, pending, retVars, outcome>>
DrainAsOk ==
  /\ serverPc = "drain" /\ chanCall # <<>>
  /\ chanCall' = Tail(chanCall)
  /\ cur' = <<[call |-> Head(chanCall), res |-> "ok"]>>
  /\ serverPc' = "ret"
  /\ UNCHANGED <<callOpen, pc, issued, pending, retVars, outcome, executed>>

Drain ==
  /\ serverPc = "drain" /\ chanCall # <<>>
  /\ chanCall' = Tail(chanCall)
  /\ cur' = <<[call |-> Head(chanCall), res |-> "closed"]>>
  /\ serverPc' = "ret"
  /\ UNCHANGED <<callOpen, pc, issued, pending, retVars, outcome, executed>>

Drained ==
  /\ serverPc = "drain" /\ chanCall = <<>>
  /\ serverPc' = "closed"
  /\ UNCHANGED <<callOpen, chanCall, cur, pc, issued, pending, retVars, outcome, executed>>

ClientStep(c) ==
  \/ \E k \in {"sync", "go"} : CallSend(c, k) \/ CallSendClosed(c, k)
  \/ CallReturn(c) \/ AsynCount(c) \/ ClientClosed(c)
  \/ pc[c] = "closing" /\ Cb(c)

Server == Exec \/ Ret \/ Drain \/ Drained

Next ==
  \/ Server \/ ServerClose
  \/ \E c \in Clients :
       \/ CallUnknown(c) \/ \E k \in {"sync", "go"} : CallBegin(c, k)
       \/ AsynTooMany(c) \/ AsynSend(c) \/ AsynRefused(c)
       \/ Cb(c) \/ ClientClose(c)
       \/ ClientStep(c)

\* The server's select loop and a goroutine inside a call keep running; when
\* they call, post, take an answer or close is up to the application.
Fairness == WF_vars(Server) /\ \A c \in Clients : WF_vars(ClientStep(c))

Spec == Init /\ [][Next]_vars /\ Fairness

-------------------------------------------------------------------------------
Kinds == {"sync", "asyn", "go"}
CallsOf(c, n) == [c : {c}, n : {n}, kind : Kinds]
OfKind(c, k) == [c : {c}, n : 1..MaxCalls, kind : {k}]
AnswersTo(n) == [n : {n}, res : {"ran", "refused"}]
Executing(C) == [call : C, res : {"ok", "panic", "closed"}]
CallSet == [c : Clients, n : 1..MaxCalls, kind : Kinds]
AnswerSet == [n : 1..MaxCalls, res : {"ran", "refused"}]

\* Types; no return channel holds more than its capacity.
TypeOK ==
  /\ callOpen \in BOOLEAN
  /\ chanCall \in Seq(CallSet) /\ Len(chanCall) <= CallCap
  /\ serverPc \in {"select", "ret", "drain", "closed"}
  /\ cur \in {<<>>} \cup {<<x>> : x \in Executing(CallSet)}
  /\ pc \in [Clients -> {"idle", "sync", "go", "wait", "count", "closing", "closed"}]
  /\ issued \in [Clients -> 0..MaxCalls]
  /\ pending \in [Clients -> 0..AsynCap]
  /\ syncRet \in [Clients -> Seq(AnswerSet)]
  /\ asynRet \in [Clients -> Seq(AnswerSet)]
  /\ \A c \in Clients : Len(syncRet[c]) <= 1 /\ Len(asynRet[c]) <= AsynCap
  /\ outcome \in [Clients -> [1..MaxCalls -> {"none", "ran", "refused"}]]
  /\ executed \in [Clients -> Seq(1..MaxCalls)]

\* In how many places call n of client c is: queued, in the server, in a
\* return channel, answered.
Places(c, n) ==
  Count(chanCall, CallsOf(c, n)) + Count(cur, Executing(CallsOf(c, n)))
    + Count(syncRet[c], AnswersTo(n)) + Count(asynRet[c], AnswersTo(n))
    + (IF outcome[c][n] = "none" THEN 0 ELSE 1)

\* Every call is in exactly one place, so it is answered at most once and no
\* answer is lost, whatever mix of panics, full queues and closes it meets
\* (chanrpc.go:82-123, 164-172, 298-315).
ExactlyOnePlace ==
  \A c \in Clients : \A n \in 1..issued[c] : Places(c, n) = 1

\* An answer tells the truth: a result or a panic when the function ran, an
\* error of chanrpc only when it never did (chanrpc.go:98-123, 192-209).
AnswersAreTrue ==
  \A c \in Clients : \A n \in 1..MaxCalls :
    /\ outcome[c][n] = "ran" => n \in Elems(executed[c])
    /\ outcome[c][n] = "refused" => n \notin Elems(executed[c])

\* There is room for the answer the server is about to return.
ServerNeverBlocks ==
  serverPc = "ret" =>
    LET call == cur[1].call
    IN  /\ call.kind = "sync" => syncRet[call.c] = <<>>
        /\ call.kind = "asyn" => Len(asynRet[call.c]) < AsynCap

\* The counter of asynchronous calls on their way: queued, running, answered.
PendingExact ==
  \A c \in Clients :
    pending[c] + (IF pc[c] = "count" THEN 1 ELSE 0)
      = Count(chanCall, OfKind(c, "asyn"))
        + Count(cur, Executing(OfKind(c, "asyn"))) + Len(asynRet[c])

\* pendingAsynCall is exact, with refused calls counted like answered ones;
\* that keeps ChanAsynRet from filling up, so the server is never stuck in
\* Server.ret and one slow client cannot stop the main loop (chanrpc.go:94,
\* 338-344, 370-373).
PendingIsExact == PendingExact /\ ServerNeverBlocks

\* The accounts of calls balance: each is answered once, with the truth, and
\* counted by its client until then (chanrpc.go:82-123, 298-345, 370-373).
AnsweredOnce == ExactlyOnePlace /\ AnswersAreTrue /\ PendingIsExact

\* A blocked caller returns and Client.Close ends, also when Server.Close
\* races with the call (chanrpc.go:164-172, 199-200, 256, 375-379).
CallsReturn ==
  \A c \in Clients : (pc[c] \notin {"idle", "closed"}) ~> (pc[c] \in {"idle", "closed"})
===============================================================================
