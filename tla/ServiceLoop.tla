----------------------------- MODULE ServiceLoop -----------------------------
(***************************************************************************)
(* The main loop every server runs, utils.Pooller.Pool (libs/utils/        *)
(* service.go), with what it selects from: calls (ChanCall of chanrpc,     *)
(* see ChanRpc), timers (libs/timer/timer.go) and the callbacks of the     *)
(* functions run in goroutines of their own by Go and LinearContext        *)
(* (libs/go/go.go).  What a call, a timer or a callback does is up to the  *)
(* application: here it starts a function, sets or stops a timer, or       *)
(* nothing.  A function may itself post a call to the main loop.  Each     *)
(* started function is a task, numbered as started.                        *)
(***************************************************************************)
EXTENDS Naturals, Sequences, FiniteSets

CONSTANTS
  ChanCap,   \* capacity of ChanCall
  CbCap,     \* capacity of ChanCb
  TimerCap,  \* capacity of ChanTimer
  Timers,    \* timers the application sets
  MaxTasks,  \* bound: functions started
  MaxPosts   \* bound: calls posted by other goroutines

ASSUME ServiceLoopAssumption ==
  /\ ChanCap \in Nat /\ CbCap \in Nat /\ TimerCap \in Nat
  /\ MaxTasks \in Nat /\ MaxPosts \in Nat

Tasks == 1..MaxTasks

VARIABLES
  callOpen,   \* ChanCall is not closed
  queued,     \* number of calls in ChanCall
  posts,      \* calls posted so far by other goroutines
  mainPc,     \* "select", "close" in GoServer.Close, "done"
  pendingGo,  \* Go.pendingGo
  started,    \* tasks so far
  kind,       \* "go" or "linear", for each task
  pc,         \* the goroutine started with each task
  job,        \* the task whose function that goroutine runs, or 0
  linearGo,   \* LinearContext.linearGo
  execution,  \* the goroutine holding mutexExecution, or 0
  chanCb,     \* ChanCb
  cbs,        \* history: tasks in the order their callbacks ran
  timer,      \* the runtime timer: "none", "armed", "sending", "sent", "off"
  hasCb,      \* Timer.cb is not nil
  chanTimer,  \* ChanTimer
  stopped,    \* history: Stop was called
  fired       \* history: the callback ran

callVars == <<callOpen, queued, posts>>
goVars == <<pendingGo, started, kind, pc, job, linearGo, execution, chanCb, cbs>>
timerVars == <<timer, hasCb, chanTimer, stopped, fired>>
vars == <<callVars, mainPc, goVars, timerVars>>

Init ==
  /\ callOpen = TRUE /\ queued = 0 /\ posts = 0
  /\ mainPc = "select"
  /\ pendingGo = 0 /\ started = 0
  /\ kind = [t \in Tasks |-> "go"]
  /\ pc = [t \in Tasks |-> "none"]
  /\ job = [t \in Tasks |-> 0]
  /\ linearGo = <<>> /\ execution = 0
  /\ chanCb = <<>> /\ cbs = <<>>
  /\ timer = [x \in Timers |-> "none"]
  /\ hasCb = [x \in Timers |-> FALSE]
  /\ chanTimer = <<>> /\ stopped = {} /\ fired = {}

Goto(t, l) == pc' = [pc EXCEPT ![t] = l]

(* --------------------- Other goroutines, and the runtime --------------- *)

\* A session goroutine posts a call (ChanServer.Go).
Post ==
  /\ posts < MaxPosts /\ posts' = posts + 1
  /\ callOpen /\ queued < ChanCap
  /\ queued' = queued + 1
  /\ UNCHANGED <<callOpen, mainPc, goVars, timerVars>>

\* The function of time.AfterFunc starts, and sends the timer.
Expire(x) ==
  /\ timer[x] = "armed"
  /\ timer' = [timer EXCEPT ![x] = "sending"]
  /\ UNCHANGED <<callVars, mainPc, goVars, hasCb, chanTimer, stopped, fired>>

SendTimer(x) ==
  /\ timer[x] = "sending" /\ Len(chanTimer) < TimerCap
  /\ timer' = [timer EXCEPT ![x] = "sent"]
  /\ chanTimer' = Append(chanTimer, x)
  /\ UNCHANGED <<callVars, mainPc, goVars, hasCb, stopped, fired>>

(* ---------------------------- Goroutines of Go ------------------------- *)

\* A goroutine of a LinearContext takes mutexExecution, and the oldest entry
\* of the list, which need not be the one it was started with.
TakeLinear(t) ==
  /\ pc[t] = "lock" /\ execution = 0
  /\ execution' = t
  /\ job' = [job EXCEPT ![t] = Head(linearGo)]
  /\ linearGo' = Tail(linearGo)
  /\ Goto(t, "run")
  /\ UNCHANGED <<callVars, mainPc, pendingGo, started, kind, chanCb, cbs, timerVars>>

\* Mutant: mutexExecution is released before the callback is sent.
RunEndUnlocks(t) ==
  /\ pc[t] = "run"
  /\ Goto(t, "send")
  /\ execution' = IF execution = t THEN 0 ELSE execution
  /\ UNCHANGED <<callVars, mainPc, pendingGo, started, kind, job, linearGo,
                 chanCb, cbs, timerVars>>

\* The function ends, by return or panic ...
RunEnd(t) ==
  /\ pc[t] = "run"
  /\ Goto(t, "send")
  /\ UNCHANGED <<callVars, mainPc, pendingGo, started, kind, job, linearGo, execution,
                 chanCb, cbs, timerVars>>

\* ... or posts a call first, which blocks while ChanCall is full ...
RunPost(t) ==
  /\ pc[t] = "run"
  /\ Goto(t, "post")
  /\ UNCHANGED <<callVars, mainPc, pendingGo, started, kind, job, linearGo, execution,
                 chanCb, cbs, timerVars>>

\* ... and is dropped once ChanCall is closed.
RunPosted(t) ==
  /\ pc[t] = "post"
  /\ IF callOpen THEN queued < ChanCap /\ queued' = queued + 1
                 ELSE UNCHANGED queued
  /\ Goto(t, "send")
  /\ UNCHANGED <<callOpen, posts, mainPc, pendingGo, started, kind, job, linearGo,
                 execution, chanCb, cbs, timerVars>>

\* Mutant: one callback more than ChanCb holds.
SendCbOver(t) ==
  /\ pc[t] = "send" /\ Len(chanCb) <= CbCap
  /\ chanCb' = Append(chanCb, job[t])
  /\ Goto(t, "done")
  /\ execution' = IF execution = t THEN 0 ELSE execution
  /\ UNCHANGED <<callVars, mainPc, pendingGo, started, kind, job, linearGo, cbs, timerVars>>

\* The deferred send of the callback; mutexExecution is released after it.
SendCb(t) ==
  /\ pc[t] = "send" /\ Len(chanCb) < CbCap
  /\ chanCb' = Append(chanCb, job[t])
  /\ Goto(t, "done")
  /\ execution' = IF execution = t THEN 0 ELSE execution
  /\ UNCHANGED <<callVars, mainPc, pendingGo, started, kind, job, linearGo, cbs, timerVars>>

(* ------------------------------- The main loop ------------------------- *)

\* Go.Go and LinearContext.Go.
Start(k) ==
  /\ started < MaxTasks
  /\ started' = started + 1
  /\ kind' = [kind EXCEPT ![started + 1] = k]
  /\ Goto(started + 1, IF k = "go" THEN "run" ELSE "lock")
  /\ job' = [job EXCEPT ![started + 1] = IF k = "go" THEN started + 1 ELSE 0]
  /\ linearGo' = IF k = "go" THEN linearGo ELSE Append(linearGo, started + 1)

\* Dispatcher.AfterFunc.
AfterFunc(x) ==
  /\ timer[x] = "none"
  /\ timer' = [timer EXCEPT ![x] = "armed"]
  /\ hasCb' = [hasCb EXCEPT ![x] = TRUE]
  /\ UNCHANGED <<chanTimer, stopped>>

\* Mutant: Stop only stops the runtime timer.
StopTimerOnly(x) ==
  /\ timer[x] # "none"
  /\ timer' = [timer EXCEPT ![x] = IF @ = "armed" THEN "off" ELSE @]
  /\ stopped' = stopped \cup {x}
  /\ UNCHANGED <<hasCb, chanTimer>>

\* Timer.Stop: the runtime timer may have expired already.
StopTimer(x) ==
  /\ timer[x] # "none"
  /\ timer' = [timer EXCEPT ![x] = IF @ = "armed" THEN "off" ELSE @]
  /\ hasCb' = [hasCb EXCEPT ![x] = FALSE]
  /\ stopped' = stopped \cup {x}
  /\ UNCHANGED chanTimer

\* What a piece of application code run on the main loop may do: start a
\* function (n = 1, what it adds to pendingGo), set or stop a timer, nothing.
Starts(n) == IF n = 0 THEN UNCHANGED <<started, kind, pc, job, linearGo>>
                      ELSE Start("go") \/ Start("linear")
SetsTimer == \E x \in Timers : AfterFunc(x) \/ StopTimer(x)
Application(n) == \/ Starts(n) /\ UNCHANGED <<timer, hasCb, chanTimer, stopped>>
                  \/ n = 0 /\ Starts(n) /\ SetsTimer

\* case ci := <-ChanCall: Exec.
ExecCall ==
  /\ mainPc = "select" /\ queued > 0
  /\ queued' = queued - 1
  /\ \E n \in 0..1 : Application(n) /\ pendingGo' = pendingGo + n
  /\ UNCHANGED <<callOpen, posts, mainPc, execution, chanCb, cbs, fired>>

\* case ct := <-ChanTimer: the callback runs unless the timer was stopped, and
\* the timer keeps no callback.
TimerCb ==
  /\ mainPc = "select" /\ chanTimer # <<>>
  /\ chanTimer' = Tail(chanTimer)
  /\ LET x == Head(chanTimer)
     IN  /\ fired' = IF hasCb[x] THEN fired \cup {x} ELSE fired
         /\ hasCb' = [hasCb EXCEPT ![x] = FALSE]
         /\ \E n \in 0..(IF hasCb[x] THEN 1 ELSE 0) : Starts(n) /\ pendingGo' = pendingGo + n
  /\ UNCHANGED <<callVars, mainPc, execution, chanCb, cbs, timer, stopped>>

\* Go.Cb: the callback runs, and pendingGo is decremented after it.
RunCb ==
  /\ chanCb # <<>>
  /\ chanCb' = Tail(chanCb)
  /\ cbs' = Append(cbs, Head(chanCb))
  /\ \E n \in 0..1 : Application(n) /\ pendingGo' = pendingGo + n - 1
  /\ UNCHANGED <<callVars, execution, fired>>

\* case cc := <-ChanCb.
SelectCb == mainPc = "select" /\ RunCb /\ UNCHANGED mainPc

\* Mutant: GoServer.Close comes before ChanServer.Close.
BeginCloseGoFirst ==
  /\ mainPc = "select"
  /\ mainPc' = "close"
  /\ UNCHANGED <<callVars, goVars, timerVars>>

\* case <-cs: ChanServer.Close closes ChanCall and refuses what is queued
\* (ChanRpc.tla), then GoServer.Close begins.
BeginClose ==
  /\ mainPc = "select"
  /\ callOpen' = FALSE /\ queued' = 0
  /\ mainPc' = "close"
  /\ UNCHANGED <<posts, goVars, timerVars>>

\* GoServer.Close runs callbacks while functions are pending ...
CloseCb == mainPc = "close" /\ pendingGo > 0 /\ RunCb /\ UNCHANGED mainPc

\* Mutant: Close ends when no callback is waiting.
CloseEndEarly ==
  /\ mainPc = "close" /\ chanCb = <<>>
  /\ mainPc' = "done"
  /\ UNCHANGED <<callVars, goVars, timerVars>>

\* ... and Pool returns.
CloseEnd ==
  /\ mainPc = "close" /\ pendingGo = 0
  /\ mainPc' = "done"
  /\ UNCHANGED <<callVars, goVars, timerVars>>

Goroutine(t) == TakeLinear(t) \/ RunEnd(t) \/ RunPost(t) \/ RunPosted(t) \/ SendCb(t)
MainLoop == ExecCall \/ TimerCb \/ SelectCb \/ CloseCb \/ CloseEnd

Next ==
  \/ Post \/ MainLoop \/ BeginClose
  \/ \E t \in Tasks : Goroutine(t)
  \/ \E x \in Timers : Expire(x) \/ SendTimer(x)

\* The main loop and the goroutines run, and the application's functions
\* return; nobody needs to post, stop the server or let time pass.
Spec == Init /\ [][Next]_vars /\ WF_vars(MainLoop)
             /\ \A t \in Tasks : WF_vars(Goroutine(t))

-------------------------------------------------------------------------------
\* Types of the variables.  pendingGo is the number of functions whose
\* callback has not run (go.go:35, 53, 84), and execution is held exactly by
\* the goroutine that works on a linear function.
TypeOK ==
  /\ callOpen \in BOOLEAN /\ queued \in 0..ChanCap /\ posts \in 0..MaxPosts
  /\ mainPc \in {"select", "close", "done"}
  /\ started \in 0..MaxTasks
  /\ pendingGo = started - Len(cbs)
  /\ kind \in [Tasks -> {"go", "linear"}]
  /\ pc \in [Tasks -> {"none", "lock", "run", "post", "send", "done"}]
  /\ job \in [Tasks -> {0} \cup Tasks]
  /\ linearGo \in Seq(Tasks) /\ chanCb \in Seq(Tasks) /\ cbs \in Seq(Tasks)
  /\ Len(chanCb) <= CbCap /\ Len(chanTimer) <= TimerCap
  /\ execution \in {0} \cup Tasks
  /\ timer \in [Timers -> {"none", "armed", "sending", "sent", "off"}]
  /\ hasCb \in [Timers -> BOOLEAN]
  /\ chanTimer \in Seq(Timers)
  /\ stopped \subseteq Timers /\ fired \subseteq Timers

\* The callbacks of a LinearContext run in the order of its Go calls, one for
\* each, although each function runs in a goroutine of its own and the
\* goroutines reach mutexExecution in any order (go.go:83-109).
LinearInOrder ==
  \A i, j \in DOMAIN cbs :
    i < j /\ kind[cbs[i]] = "linear" /\ kind[cbs[j]] = "linear" => cbs[i] < cbs[j]

\* When Pool has returned, the callback of every started function has run,
\* those started by callbacks during Close included (go.go:66-70).
CallbacksRun ==
  mainPc = "done" => \A t \in 1..started : \E i \in DOMAIN cbs : cbs[i] = t

\* No callback is lost or overtaken, up to the end of Pool (go.go:34-109).
CallbacksInOrder == LinearInOrder /\ CallbacksRun

\* A timer that was stopped before its callback ran stays silent, even if it
\* had expired and was waiting in ChanTimer (timer.go:26-44).
StoppedIsSilent == [][\A x \in stopped : x \in fired' => x \in fired]_vars

\* Pool returns once it was told to stop: no function waits for room in
\* ChanCall, which the main loop has ceased to read, because it is closed
\* before GoServer.Close waits for the functions (service.go:137-140).
CloseEnds == (mainPc = "close") ~> (mainPc = "done")
===============================================================================
