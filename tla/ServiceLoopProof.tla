--------------------------- MODULE ServiceLoopProof ---------------------------
(***************************************************************************)
(* What holds of ServiceLoop.tla for any number of functions and calls,    *)
(* and channels of any capacity; of the frames of Framing.tla for any      *)
(* messages and any limits of the two ends; and of the crons of Cron.tla   *)
(* for any calendar and any expressions.  The three share no variable.     *)
(***************************************************************************)
EXTENDS ServiceLoop, Framing, Cron, SeqLemmas

(* ------------------------ The inductive invariant ---------------------- *)

Linear == {t \in Tasks : kind[t] = "linear"}
Working(t) == pc[t] \in {"run", "post", "send"}
Waiting == {t \in Tasks : pc[t] = "lock"}

\* The callbacks that were sent, in their order, whether they have run or not.
Sent == cbs \o chanCb

\* No element twice, and those in K from the oldest to the newest.
Sorted(h, K) ==
  \A i, j \in 1..Len(h) :
    i < j => h[i] # h[j] /\ (h[i] \in K /\ h[j] \in K => h[i] < h[j])

\* A started function has a goroutine; one of a LinearContext waits for the
\* mutex, and works only while it holds it.
WorkInv ==
  \A t \in Tasks :
    /\ pc[t] = "none" <=> t > started
    /\ pc[t] = "lock" => t \in Linear
    /\ Working(t) /\ t \notin Linear => job[t] = t
    /\ execution = t <=> Working(t) /\ t \in Linear

\* As many goroutines wait as there are entries in the list, which are in the
\* order of the Go calls.
ListInv ==
  /\ Cardinality(Waiting) = Len(linearGo)
  /\ Sorted(linearGo, Linear)
  /\ \A t \in Elems(linearGo) : t \in Linear /\ t <= started

\* The function under the mutex is older than what is left in the list.
JobInv ==
  execution # 0 =>
    /\ job[execution] \in Linear /\ job[execution] <= started
    /\ \A u \in Elems(linearGo) : job[execution] < u

\* Callbacks were sent once each, those of a LinearContext in the order of the
\* Go calls, and before the one that runs and those in the list.
SentInv ==
  /\ Sorted(Sent, Linear)
  /\ \A t \in Elems(Sent) :
       /\ t <= started
       /\ t \notin Linear => pc[t] = "done"
       /\ t \in Linear => /\ \A u \in Elems(linearGo) : t < u
                          /\ execution # 0 => t < job[execution]

TaskInv == WorkInv /\ ListInv /\ JobInv /\ SentInv

\* A timer that was stopped has no callback, and is not set again.
TimerInv == \A x \in stopped : ~hasCb[x] /\ timer[x] # "none"

IInv == TypeOK /\ TaskInv /\ TimerInv /\ (mainPc = "done" => pendingGo = 0)

(* ------------------------------- Sequences ----------------------------- *)

\* A newer element at the end keeps the order.
LEMMA SortedAppend ==
  ASSUME NEW K, NEW h \in Seq(Tasks), NEW m \in Tasks, Sorted(h, K),
         \A x \in Elems(h) : x # m /\ (x \in K /\ m \in K => x < m)
  PROVE  Sorted(Append(h, m), K)
<1> DEFINE A == Append(h, m)
<1>1. Len(h) \in Nat /\ DOMAIN h = 1..Len(h)
  BY LenProperties
<1>2. Len(A) = Len(h) + 1 /\ A[Len(h) + 1] = m /\ \A i \in 1..Len(h) : A[i] = h[i]
  BY AppendProperties
<1> HIDE DEF A
<1>3. ASSUME NEW i \in 1..Len(A), NEW j \in 1..Len(A), i < j
      PROVE  A[i] # A[j] /\ (A[i] \in K /\ A[j] \in K => A[i] < A[j])
  <2>1. i \in 1..Len(h) /\ A[i] = h[i] /\ h[i] \in Elems(h)
    BY <1>1, <1>2, <1>3 DEF Elems
  <2>2. CASE j = Len(h) + 1
    BY <1>2, <2>1, <2>2
  <2>3. CASE j # Len(h) + 1
    <3>1. j \in 1..Len(h) /\ A[j] = h[j]
      BY <1>1, <1>2, <2>3
    <3>2. QED
      BY <1>3, <2>1, <3>1 DEF Sorted
  <2>4. QED
    BY <2>2, <2>3
<1>4. QED
  BY <1>3 DEF Sorted, A

\* The head is the oldest.
LEMMA SortedTail ==
  ASSUME NEW K, NEW h \in Seq(Tasks), h # <<>>, Sorted(h, K)
  PROVE  /\ Sorted(Tail(h), K)
         /\ \A x \in Elems(Tail(h)) : Head(h) # x /\ (Head(h) \in K /\ x \in K => Head(h) < x)
<1> DEFINE L == Tail(h)
<1>1. Len(h) \in Nat /\ Len(h) > 0 /\ Head(h) = h[1]
  BY LenProperties, EmptySeq
<1>2. L \in Seq(Tasks) /\ Len(L) = Len(h) - 1 /\ \A i \in 1..(Len(h) - 1) : L[i] = h[i + 1]
  BY HeadTailProperties
<1>3. DOMAIN L = 1..(Len(h) - 1)
  BY <1>2, LenProperties
<1> HIDE DEF L
<1>4. ASSUME NEW i \in 1..Len(L), NEW j \in 1..Len(L), i < j
      PROVE  L[i] # L[j] /\ (L[i] \in K /\ L[j] \in K => L[i] < L[j])
  <2>1. /\ i + 1 \in 1..Len(h) /\ j + 1 \in 1..Len(h) /\ i + 1 < j + 1
        /\ L[i] = h[i + 1] /\ L[j] = h[j + 1]
    BY <1>1, <1>2, <1>4
  <2>2. QED
    BY <2>1 DEF Sorted
<1>5. ASSUME NEW x \in Elems(L) PROVE Head(h) # x /\ (Head(h) \in K /\ x \in K => Head(h) < x)
  <2>1. PICK i \in 1..(Len(h) - 1) : L[i] = x
    BY <1>3 DEF Elems
  <2>2. 1 \in 1..Len(h) /\ i + 1 \in 1..Len(h) /\ 1 < i + 1 /\ h[i + 1] = x
    BY <1>1, <1>2, <2>1
  <2>3. QED
    BY <1>1, <2>2 DEF Sorted
<1>6. QED
  BY <1>4, <1>5 DEF Sorted, L

\* Only the elements of the sequence matter.
LEMMA SortedSame ==
  ASSUME NEW K, NEW L, NEW h \in Seq(Tasks), Sorted(h, K),
         \A x \in Elems(h) : x \in L => x \in K
  PROVE  Sorted(h, L)
<1>1. \A i \in 1..Len(h) : h[i] \in Elems(h)
  BY LenProperties DEF Elems
<1>2. QED
  BY <1>1 DEF Sorted

\* What was taken from a sorted queue is sorted.
LEMMA SortedFirst ==
  ASSUME NEW K, NEW h \in Seq(Tasks), NEW g \in Seq(Tasks), PrefixOf(h, g), Sorted(g, K)
  PROVE  Sorted(h, K) /\ Elems(h) \subseteq Elems(g)
<1>1. /\ Len(h) \in Nat /\ Len(g) \in Nat /\ Len(h) <= Len(g)
      /\ DOMAIN h = 1..Len(h) /\ DOMAIN g = 1..Len(g)
      /\ \A i \in 1..Len(h) : i \in 1..Len(g) /\ h[i] = g[i]
  BY LenProperties DEF PrefixOf
<1>2. QED
  BY <1>1 DEF Sorted, Elems

(* ---------------------- What the steps do to tasks --------------------- *)

LEMMA TasksAreNat == IsFiniteSet(Tasks) /\ \A t \in Tasks : t \in Nat /\ t # 0
BY ServiceLoopAssumption, FS_Interval DEF Tasks

LEMMA WaitingFinite == IsFiniteSet(Waiting)
BY TasksAreNat, FS_Subset DEF Waiting

LEMMA SentType ==
  ASSUME TypeOK
  PROVE  /\ Sent \in Seq(Tasks) /\ PrefixOf(cbs, Sent)
         /\ Elems(Sent) \subseteq Tasks /\ Elems(linearGo) \subseteq Tasks
BY TakenFirst, ElemsType DEF TypeOK, Sent

\* A step that leaves the functions alone, or only runs a callback.
LEMMA TasksKept ==
  ASSUME TaskInv, UNCHANGED <<started, kind, pc, job, linearGo, execution>>, Sent' = Sent
  PROVE  TaskInv'
BY DEF TaskInv, WorkInv, ListInv, JobInv, SentInv, Linear, Working, Waiting

\* A function runs on.
LEMMA TaskWorks ==
  ASSUME TypeOK, TaskInv, NEW t \in Tasks, NEW l \in {"run", "post", "send"},
         Working(t), pc' = [pc EXCEPT ![t] = l],
         UNCHANGED <<started, kind, job, linearGo, execution, cbs, chanCb>>
  PROVE  TaskInv'
<1>1. \A u \in Tasks : pc'[u] = IF u = t THEN l ELSE pc[u]
  BY DEF TypeOK
<1>2. /\ \A u \in Tasks : (pc'[u] = "none" <=> pc[u] = "none") /\ (pc'[u] = "lock" <=> pc[u] = "lock")
      /\ \A u \in Tasks : (Working(u)' <=> Working(u)) /\ (pc'[u] = "done" <=> pc[u] = "done")
  BY <1>1 DEF Working
<1>3. Linear' = Linear /\ Waiting' = Waiting /\ Sent' = Sent
  BY <1>2 DEF Linear, Waiting, Sent
<1>4. WorkInv'
  BY <1>2, <1>3 DEF TaskInv, WorkInv
<1>5. ListInv' /\ JobInv'
  BY <1>3 DEF TaskInv, ListInv, JobInv
<1>6. SentInv'
  BY <1>2, <1>3, SentType DEF TaskInv, SentInv
<1>7. QED
  BY <1>4, <1>5, <1>6 DEF TaskInv

\* A goroutine that waits takes the mutex and the oldest function.
LEMMA TaskTaken ==
  ASSUME TypeOK, TaskInv, NEW t \in Tasks, TakeLinear(t)
  PROVE  /\ linearGo # <<>> /\ Head(linearGo) \in Tasks /\ linearGo' \in Seq(Tasks)
         /\ TaskInv'
<1>1. /\ pc[t] = "lock" /\ execution = 0 /\ execution' = t /\ linearGo' = Tail(linearGo)
      /\ job' = [job EXCEPT ![t] = Head(linearGo)] /\ pc' = [pc EXCEPT ![t] = "run"]
      /\ UNCHANGED <<started, kind, cbs, chanCb>>
  BY DEF TakeLinear, Goto
<1>2. linearGo \in Seq(Tasks) /\ Len(linearGo) \in Nat
  BY LenProperties DEF TypeOK
<1>3. Cardinality(Waiting) \in Nat /\ Cardinality(Waiting) # 0
  BY <1>1, WaitingFinite, FS_CardinalityType, FS_EmptySet DEF Waiting
<1>4. linearGo # <<>>
  BY <1>2, <1>3 DEF TaskInv, ListInv
<1>5. /\ Head(linearGo) \in Tasks /\ Tail(linearGo) \in Seq(Tasks)
      /\ Len(Tail(linearGo)) = Len(linearGo) - 1
      /\ Elems(linearGo) = Elems(Tail(linearGo)) \cup {Head(linearGo)}
      /\ Elems(linearGo) \subseteq Tasks
  BY <1>2, <1>4, HeadTailProperties, ElemsTail, ElemsType
<1>6. /\ \A u \in Elems(linearGo) : u \in Linear /\ u <= started
      /\ Sorted(linearGo, Linear)
  BY DEF TaskInv, ListInv
<1>7. Sorted(Tail(linearGo), Linear) /\ \A u \in Elems(Tail(linearGo)) : Head(linearGo) < u
  BY <1>2, <1>4, <1>5, <1>6, SortedTail
<1> DEFINE hd == Head(linearGo)
           tl == Tail(linearGo)
<1> HIDE DEF hd, tl
<1>8. job' = [job EXCEPT ![t] = hd] /\ linearGo' = tl
  BY <1>1 DEF hd, tl
<1>9. /\ \A u \in Tasks : pc'[u] = IF u = t THEN "run" ELSE pc[u]
      /\ \A u \in Tasks : job'[u] = IF u = t THEN hd ELSE job[u]
  BY <1>1, <1>8 DEF TypeOK
<1>10. Linear' = Linear /\ Sent' = Sent /\ t \in Linear
  BY <1>1 DEF Linear, Sent, TaskInv, WorkInv
<1>11. WorkInv'
  <2>1. ASSUME NEW u \in Tasks, u # t
        PROVE  ~(Working(u) /\ u \in Linear) /\ (Working(u)' <=> Working(u)) /\ u # 0
    BY <1>1, <1>9, <2>1, TasksAreNat DEF TaskInv, WorkInv, Working
  <2>2. ASSUME NEW u \in Tasks
        PROVE  /\ pc'[u] = "none" <=> u > started'
               /\ pc'[u] = "lock" => u \in Linear'
               /\ Working(u)' /\ u \notin Linear' => job'[u] = u
               /\ execution' = u <=> Working(u)' /\ u \in Linear'
    <3>1. CASE u = t
      BY <1>1, <1>9, <1>10, <3>1 DEF TaskInv, WorkInv, Working
    <3>2. CASE u # t
      BY <1>1, <1>9, <1>10, <2>1, <3>2 DEF TaskInv, WorkInv
    <3>3. QED
      BY <3>1, <3>2
  <2>3. QED
    BY <2>2 DEF WorkInv
<1>12. ListInv'
  <2>1. Waiting' = Waiting \ {t} /\ t \in Waiting
    BY <1>1, <1>9 DEF Waiting
  <2>2. Cardinality(Waiting \ {t}) = Cardinality(Waiting) - 1
    BY <2>1, WaitingFinite, FS_RemoveElement
  <2>3. Cardinality(Waiting') = Len(tl)
    BY <1>5, <2>1, <2>2 DEF TaskInv, ListInv, tl
  <2>4. Sorted(tl, Linear) /\ \A u \in Elems(tl) : u \in Linear /\ u <= started
    BY <1>5, <1>6, <1>7 DEF tl
  <2>5. QED
    BY <1>1, <1>8, <1>10, <2>3, <2>4 DEF ListInv
<1>13. JobInv'
  <2>1. hd \in Linear /\ hd <= started /\ \A u \in Elems(tl) : hd < u
    BY <1>5, <1>6, <1>7 DEF hd, tl
  <2>2. job'[execution'] = hd
    BY <1>1, <1>9
  <2>3. QED
    BY <1>1, <1>8, <1>10, <2>1, <2>2 DEF JobInv
<1>14. SentInv'
  <2>1. ASSUME NEW u \in Elems(Sent), u \in Linear
        PROVE  u < hd /\ \A v \in Elems(tl) : u < v
    BY <1>5, <2>1 DEF TaskInv, SentInv, hd, tl
  <2>2. job'[execution'] = hd
    BY <1>1, <1>9
  <2>3. ASSUME NEW u \in Elems(Sent), u \notin Linear PROVE pc'[u] = "done"
    BY <1>9, <1>10, <2>3, SentType DEF TaskInv, SentInv
  <2>4. QED
    BY <1>1, <1>8, <1>10, <2>1, <2>2, <2>3 DEF TaskInv, SentInv
<1>15. QED
  BY <1>4, <1>5, <1>8, <1>11, <1>12, <1>13, <1>14 DEF TaskInv, tl

\* The callback of a function is sent; a function of a LinearContext then
\* gives the mutex back.
LEMMA TaskSent ==
  ASSUME TypeOK, TaskInv, NEW t \in Tasks, SendCb(t)
  PROVE  job[t] \in Tasks /\ TaskInv'
<1>1. /\ pc[t] = "send" /\ chanCb' = Append(chanCb, job[t]) /\ pc' = [pc EXCEPT ![t] = "done"]
      /\ execution' = (IF execution = t THEN 0 ELSE execution)
      /\ UNCHANGED <<started, kind, job, linearGo, cbs>>
  BY DEF SendCb, Goto
<1>2. Working(t) /\ t <= started /\ t # 0
  BY <1>1, TasksAreNat, ServiceLoopAssumption DEF Working, TaskInv, WorkInv, TypeOK
<1> DEFINE k == job[t]
<1>3. /\ k \in Tasks /\ k <= started
      /\ t \in Linear => k \in Linear /\ execution = t
      /\ t \notin Linear => k = t /\ execution # t
  BY <1>2 DEF TaskInv, WorkInv, JobInv, Linear
<1>4. /\ Sent \in Seq(Tasks) /\ Elems(Sent) \subseteq Tasks
      /\ cbs \in Seq(Tasks) /\ chanCb \in Seq(Tasks)
  BY SentType DEF TypeOK
<1> DEFINE S == Append(Sent, k)
<1>5. cbs \o Append(chanCb, k) = S
  BY <1>3, <1>4, TakenAppend DEF Sent
<1>6. Sent' = S
  BY <1>1, <1>5 DEF Sent
<1>7. \A x \in Elems(Sent) : x # k /\ (x \in Linear /\ k \in Linear => x < k)
  <2>1. CASE t \in Linear
    <3>1. k \in Linear /\ execution = t /\ execution # 0 /\ job[execution] = k
      BY <1>2, <1>3, <2>1
    <3>2. ASSUME NEW x \in Elems(Sent), x \in Linear PROVE x < k
      BY <3>1, <3>2 DEF TaskInv, SentInv
    <3>3. QED
      BY <1>3, <1>4, <3>1, <3>2, TasksAreNat
  <2>2. CASE t \notin Linear
    <3>1. k \notin Linear /\ pc[k] # "done"
      BY <1>1, <1>3, <2>2
    <3>2. QED
      BY <3>1 DEF TaskInv, SentInv
  <2>3. QED
    BY <2>1, <2>2
<1> HIDE DEF k
<1>8. Sorted(S, Linear) /\ Elems(S) = Elems(Sent) \cup {k}
  BY <1>3, <1>4, <1>7, SortedAppend, ElemsAppend DEF TaskInv, SentInv
<1> HIDE DEF S
<1>9. /\ \A u \in Tasks : pc'[u] = IF u = t THEN "done" ELSE pc[u]
      /\ Linear' = Linear /\ Waiting' = Waiting
  BY <1>1 DEF TypeOK, Linear, Waiting
<1>10. WorkInv'
  <2>1. ASSUME NEW u \in Tasks
        PROVE  /\ pc'[u] = "none" <=> u > started'
               /\ pc'[u] = "lock" => u \in Linear'
               /\ Working(u)' /\ u \notin Linear' => job'[u] = u
               /\ execution' = u <=> Working(u)' /\ u \in Linear'
    <3>1. u # 0 /\ u \in Nat
      BY TasksAreNat
    <3>2. CASE u = t
      <4>1. pc'[u] = "done" /\ ~(u > started) /\ execution' # u
        BY <1>1, <1>2, <1>9, <3>1, <3>2, ServiceLoopAssumption DEF TypeOK
      <4>2. QED
        BY <1>1, <4>1 DEF Working
    <3>3. CASE u # t
      <4>1. pc'[u] = pc[u] /\ (execution' = u <=> execution = u)
        BY <1>1, <1>9, <3>1, <3>3
      <4>2. QED
        BY <1>1, <1>9, <4>1 DEF TaskInv, WorkInv, Working
    <3>4. QED
      BY <3>2, <3>3
  <2>2. QED
    BY <2>1 DEF WorkInv
<1>11. ListInv'
  BY <1>1, <1>9 DEF TaskInv, ListInv
<1>12. execution' # 0 => execution' = execution /\ t \notin Linear
  BY <1>1, <1>2, <1>3
<1>13. JobInv'
  BY <1>1, <1>9, <1>12 DEF TaskInv, JobInv
<1>14. SentInv'
  <2>1. ASSUME NEW x \in Elems(S)
        PROVE  /\ x <= started
               /\ x \notin Linear => pc'[x] = "done"
               /\ x \in Linear => /\ \A u \in Elems(linearGo) : x < u
                                  /\ execution' # 0 => x < job[execution']
    <3>1. CASE x \in Elems(Sent)
      <4>1. x \in Tasks /\ (x \notin Linear => pc'[x] = "done")
        BY <1>4, <1>9, <3>1 DEF TaskInv, SentInv
      <4>2. QED
        BY <1>12, <3>1, <4>1 DEF TaskInv, SentInv
    <3>2. CASE x = k
      <4>1. x \notin Linear => pc'[x] = "done"
        BY <1>3, <1>9, <3>2
      <4>2. x \in Linear => execution' = 0
        BY <1>1, <1>3, <3>2
      <4>3. x \in Linear => \A u \in Elems(linearGo) : x < u
        BY <1>2, <1>3, <3>2 DEF TaskInv, JobInv, k
      <4>4. QED
        BY <1>3, <3>2, <4>1, <4>2, <4>3
    <3>3. QED
      BY <1>8, <3>1, <3>2
  <2>2. QED
    BY <1>1, <1>6, <1>8, <1>9, <2>1 DEF SentInv
<1>15. QED
  BY <1>3, <1>10, <1>11, <1>13, <1>14 DEF TaskInv, k

\* Go or LinearContext.Go starts a function.
LEMMA TaskStarted ==
  ASSUME TypeOK, TaskInv, NEW k \in {"go", "linear"}, Start(k), execution' = execution, Sent' = Sent
  PROVE  /\ started' \in 0..MaxTasks /\ started' = started + 1 /\ linearGo' \in Seq(Tasks)
         /\ kind' \in [Tasks -> {"go", "linear"}] /\ job' \in [Tasks -> {0} \cup Tasks]
         /\ pc' \in [Tasks -> {"none", "lock", "run", "post", "send", "done"}]
         /\ TaskInv'
<1> DEFINE s == started + 1
<1>1. s \in Tasks /\ s > started /\ started \in Nat /\ started' = s /\ s <= MaxTasks
  BY ServiceLoopAssumption DEF Start, Tasks, TypeOK
<1> HIDE DEF s
<1>2. /\ kind' = [kind EXCEPT ![s] = k]
      /\ pc' = [pc EXCEPT ![s] = IF k = "go" THEN "run" ELSE "lock"]
      /\ job' = [job EXCEPT ![s] = IF k = "go" THEN s ELSE 0]
      /\ linearGo' = IF k = "go" THEN linearGo ELSE Append(linearGo, s)
  BY DEF Start, Goto, s
<1>3. /\ linearGo \in Seq(Tasks) /\ Elems(linearGo) \subseteq Tasks /\ Elems(Sent) \subseteq Tasks
      /\ Sent \in Seq(Tasks)
  BY SentType DEF TypeOK
<1>4. /\ linearGo' \in Seq(Tasks)
      /\ Elems(Append(linearGo, s)) = Elems(linearGo) \cup {s}
      /\ Len(Append(linearGo, s)) = Len(linearGo) + 1
  BY <1>1, <1>2, <1>3, AppendProperties, ElemsAppend
<1>5. /\ kind' \in [Tasks -> {"go", "linear"}]
      /\ job' \in [Tasks -> {0} \cup Tasks]
      /\ pc' \in [Tasks -> {"none", "lock", "run", "post", "send", "done"}]
  BY <1>1, <1>2 DEF TypeOK
<1>6. ASSUME NEW u \in Tasks, u # s
      PROVE  /\ kind'[u] = kind[u] /\ pc'[u] = pc[u] /\ job'[u] = job[u]
             /\ u > started <=> u > s
  BY <1>1, <1>2, <1>6, TasksAreNat DEF TypeOK, s
<1>7. /\ kind'[s] = k /\ pc'[s] = (IF k = "go" THEN "run" ELSE "lock")
      /\ job'[s] = (IF k = "go" THEN s ELSE 0)
  BY <1>1, <1>2 DEF TypeOK
<1>8. /\ \A u \in Tasks : u # s => (u \in Linear' <=> u \in Linear)
      /\ s \in Linear' <=> k = "linear"
  BY <1>1, <1>6, <1>7 DEF Linear
<1>9. pc[s] = "none"
  BY <1>1 DEF TaskInv, WorkInv
<1>10. execution # s /\ (execution # 0 => execution \in Tasks /\ execution # s)
  BY <1>1, <1>9 DEF TaskInv, WorkInv, Working, TypeOK
<1>11. WorkInv'
  <2>1. ASSUME NEW u \in Tasks
        PROVE  /\ pc'[u] = "none" <=> u > started'
               /\ pc'[u] = "lock" => u \in Linear'
               /\ Working(u)' /\ u \notin Linear' => job'[u] = u
               /\ execution' = u <=> Working(u)' /\ u \in Linear'
    <3>1. CASE u = s
      <4>1. CASE k = "go"
        BY <1>1, TasksAreNat, <1>7, <1>8, <1>10, <3>1, <4>1 DEF Working
      <4>2. CASE k # "go"
        BY <1>1, TasksAreNat, <1>7, <1>8, <1>10, <3>1, <4>2 DEF Working
      <4>3. QED
        BY <4>1, <4>2
    <3>2. CASE u # s
      BY <1>1, <1>6, <1>8, <3>2 DEF TaskInv, WorkInv, Working
    <3>3. QED
      BY <3>1, <3>2
  <2>2. QED
    BY <2>1 DEF WorkInv
<1>12. \A x \in Elems(Sent) \cup Elems(linearGo) : x \in Tasks /\ x < s /\ x # s
  <2>1. \A x \in Elems(Sent) \cup Elems(linearGo) : x \in Tasks /\ x <= started
    BY <1>3 DEF TaskInv, ListInv, SentInv
  <2>2. QED
    BY <1>1, <2>1, TasksAreNat DEF s
<1>13. ListInv'
  <2>1. Sorted(linearGo, Linear')
    BY <1>3, <1>8, <1>12, SortedSame DEF TaskInv, ListInv
  <2>2. CASE k = "go"
    <3>1. Waiting' = Waiting
      BY <1>1, <1>6, <1>7, <1>9, <2>2 DEF Waiting
    <3>2. \A x \in Elems(linearGo) : x \in Linear' /\ x <= started'
      BY <1>1, <1>8, <1>12, TasksAreNat DEF TaskInv, ListInv
    <3>3. QED
      BY <1>2, <2>1, <2>2, <3>1, <3>2 DEF TaskInv, ListInv
  <2>3. CASE k # "go"
    <3>1. Waiting' = Waiting \cup {s} /\ s \notin Waiting
      BY <1>1, <1>6, <1>7, <1>9, <2>3 DEF Waiting
    <3>2. Cardinality(Waiting \cup {s}) = Cardinality(Waiting) + 1
      BY <3>1, WaitingFinite, FS_AddElement
    <3>3. Sorted(Append(linearGo, s), Linear')
      BY <1>1, <1>3, <1>12, <2>1, SortedAppend
    <3>4. \A x \in Elems(Append(linearGo, s)) : x \in Linear' /\ x <= started'
      BY <1>1, <1>4, <1>8, <1>12, <2>3, TasksAreNat DEF TaskInv, ListInv
    <3>5. linearGo' = Append(linearGo, s)
      BY <1>2, <2>3
    <3>6. Cardinality(Waiting) = Len(linearGo)
      BY DEF TaskInv, ListInv
    <3> DEFINE q == Append(linearGo, s)
    <3> HIDE DEF q
    <3>7. linearGo' = q /\ Cardinality(Waiting \cup {s}) = Len(q) /\ Sorted(q, Linear')
          /\ \A x \in Elems(q) : x \in Linear' /\ x <= started'
      BY <1>4, <3>2, <3>3, <3>4, <3>5, <3>6 DEF q
    <3>8. QED
      BY <3>1, <3>7 DEF ListInv
  <2>4. QED
    BY <2>2, <2>3
<1>14. Elems(linearGo') \subseteq Elems(linearGo) \cup {s}
  BY <1>2, <1>4
<1>15. JobInv'
  <2>1. ASSUME execution # 0
        PROVE  /\ job'[execution] = job[execution] /\ job[execution] \in Linear'
               /\ job[execution] < s
               /\ \A u \in Elems(linearGo') : job[execution] < u
    <3>1. /\ job[execution] \in Linear /\ job[execution] <= started /\ job[execution] \in Tasks
          /\ \A u \in Elems(linearGo) : job[execution] < u
      BY <2>1 DEF TaskInv, JobInv, Linear
    <3>2. job[execution] < s /\ job[execution] # s
      BY <1>1, <3>1, TasksAreNat DEF s
    <3>3. job'[execution] = job[execution]
      BY <1>6, <1>10, <2>1
    <3>4. QED
      BY <1>8, <1>14, <3>1, <3>2, <3>3
  <2>2. ASSUME execution # 0 PROVE job[execution] <= started'
    <3>1. job[execution] \in Tasks /\ job[execution] < s
      BY <2>1, <2>2 DEF TaskInv, JobInv, Linear
    <3>2. QED
      BY <1>1, <3>1, TasksAreNat
  <2>3. QED
    BY <2>1, <2>2 DEF JobInv
<1>16. SentInv'
  <2>1. Sorted(Sent, Linear')
    BY <1>3, <1>8, <1>12, SortedSame DEF TaskInv, SentInv
  <2>2. ASSUME NEW x \in Elems(Sent)
        PROVE  /\ x <= started'
               /\ x \notin Linear' => pc'[x] = "done"
               /\ x \in Linear' => /\ \A u \in Elems(linearGo') : x < u
                                   /\ execution' # 0 => x < job'[execution']
    <3>1. x \in Tasks /\ x < s /\ x # s /\ (x \in Linear' <=> x \in Linear)
      BY <1>8, <1>12
    <3>2. x <= started' /\ (x \notin Linear' => pc'[x] = "done")
      BY <1>1, <1>6, <3>1, TasksAreNat DEF TaskInv, SentInv
    <3>3. x \in Linear => \A u \in Elems(linearGo') : x < u
      BY <1>14, <3>1 DEF TaskInv, SentInv
    <3>4. x \in Linear /\ execution # 0 => x < job'[execution]
      BY <1>6, <1>10 DEF TaskInv, SentInv
    <3>5. QED
      BY <3>1, <3>2, <3>3, <3>4
  <2>3. QED
    BY <2>1, <2>2 DEF SentInv
<1>17. QED
  BY <1>1, <1>4, <1>5, <1>11, <1>13, <1>15, <1>16, ServiceLoopAssumption DEF TaskInv, s

\* A piece of application code starts a function, or none.
LEMMA TasksStarted ==
  ASSUME TypeOK, TaskInv, NEW n \in 0..1, Starts(n), execution' = execution, Sent' = Sent
  PROVE  /\ started' \in 0..MaxTasks /\ started' = started + n /\ linearGo' \in Seq(Tasks)
         /\ kind' \in [Tasks -> {"go", "linear"}] /\ job' \in [Tasks -> {0} \cup Tasks]
         /\ pc' \in [Tasks -> {"none", "lock", "run", "post", "send", "done"}]
         /\ TaskInv'
<1>1. CASE n = 0
  <2>1. UNCHANGED <<started, kind, pc, job, linearGo, execution>>
    BY <1>1 DEF Starts
  <2>2. TaskInv'
    BY <2>1, TasksKept
  <2>3. started' = started + n
    BY <1>1, <2>1, ServiceLoopAssumption DEF TypeOK
  <2>4. QED
    BY <2>1, <2>2, <2>3 DEF TypeOK
<1>2. CASE n # 0
  <2>1. n = 1 /\ (Start("go") \/ Start("linear"))
    BY <1>2 DEF Starts
  <2>2. QED
    BY <2>1, TaskStarted
<1>3. QED
  BY <1>1, <1>2

\* It may also set or stop a timer.
LEMMA TimersSet ==
  ASSUME TypeOK, TimerInv, NEW n \in 0..1, Application(n)
  PROVE  /\ Starts(n) /\ TimerInv'
         /\ timer' \in [Timers -> {"none", "armed", "sending", "sent", "off"}]
         /\ hasCb' \in [Timers -> BOOLEAN] /\ chanTimer' = chanTimer /\ stopped' \subseteq Timers
<1>1. CASE Starts(n) /\ UNCHANGED <<timer, hasCb, chanTimer, stopped>>
  BY <1>1 DEF TypeOK, TimerInv
<1>2. ASSUME NEW x \in Timers, AfterFunc(x), Starts(n)
      PROVE  /\ timer' \in [Timers -> {"none", "armed", "sending", "sent", "off"}]
             /\ hasCb' \in [Timers -> BOOLEAN] /\ chanTimer' = chanTimer /\ stopped' \subseteq Timers
             /\ TimerInv'
  <2>1. /\ timer[x] = "none" /\ stopped' = stopped /\ chanTimer' = chanTimer
        /\ timer' = [timer EXCEPT ![x] = "armed"] /\ hasCb' = [hasCb EXCEPT ![x] = TRUE]
    BY <1>2 DEF AfterFunc
  <2>2. x \notin stopped
    BY <2>1 DEF TimerInv
  <2>3. TimerInv'
    BY <2>1, <2>2 DEF TimerInv, TypeOK
  <2>4. QED
    BY <2>1, <2>3 DEF TypeOK
<1>3. ASSUME NEW x \in Timers, StopTimer(x), Starts(n)
      PROVE  /\ timer' \in [Timers -> {"none", "armed", "sending", "sent", "off"}]
             /\ hasCb' \in [Timers -> BOOLEAN] /\ chanTimer' = chanTimer /\ stopped' \subseteq Timers
             /\ TimerInv'
  <2>1. /\ timer[x] # "none" /\ stopped' = stopped \cup {x} /\ chanTimer' = chanTimer
        /\ timer' = [timer EXCEPT ![x] = IF timer[x] = "armed" THEN "off" ELSE timer[x]]
        /\ hasCb' = [hasCb EXCEPT ![x] = FALSE]
    BY <1>3 DEF StopTimer
  <2>2. \A y \in Timers : /\ (timer[y] # "none" => timer'[y] # "none")
                          /\ ~hasCb[y] => ~hasCb'[y]
    BY <2>1 DEF TypeOK
  <2>3. ~hasCb'[x]
    BY <2>1 DEF TypeOK
  <2>4. TimerInv'
    BY <2>1, <2>2, <2>3 DEF TimerInv, TypeOK
  <2>5. QED
    BY <2>1, <2>4 DEF TypeOK
<1>4. QED
  BY <1>1, <1>2, <1>3 DEF Application, SetsTimer

\* Running a callback does not change what was sent.
LEMMA SentKept ==
  ASSUME TypeOK, RunCb
  PROVE  /\ Sent' = Sent /\ cbs' \in Seq(Tasks) /\ Len(cbs') = Len(cbs) + 1 /\ Len(cbs) \in Nat
         /\ chanCb' \in Seq(Tasks) /\ Len(chanCb') <= CbCap
<1>1. /\ chanCb # <<>> /\ chanCb' = Tail(chanCb) /\ cbs' = Append(cbs, Head(chanCb))
  BY DEF RunCb
<1>2. chanCb \in Seq(Tasks) /\ cbs \in Seq(Tasks)
  BY DEF TypeOK
<1>3. Append(cbs, Head(chanCb)) \o Tail(chanCb) = cbs \o chanCb
  BY <1>1, <1>2, TakenTail
<1>4. Sent' = Sent
  BY <1>1, <1>3 DEF Sent
<1>5. /\ Head(chanCb) \in Tasks /\ Tail(chanCb) \in Seq(Tasks)
      /\ Len(Tail(chanCb)) = Len(chanCb) - 1 /\ Len(chanCb) \in Nat
  BY <1>1, <1>2, HeadTailProperties, LenProperties
<1>6. /\ Append(cbs, Head(chanCb)) \in Seq(Tasks) /\ Len(cbs) \in Nat
      /\ Len(Append(cbs, Head(chanCb))) = Len(cbs) + 1
  BY <1>2, <1>5, AppendProperties, LenProperties
<1>7. Len(chanCb') <= CbCap
  BY <1>1, <1>5, ServiceLoopAssumption DEF TypeOK
<1>8. QED
  BY <1>1, <1>4, <1>5, <1>6, <1>7

(* ------------------------------- Each step ----------------------------- *)

LEMMA InvariantInit == Init => IInv
<1> SUFFICES ASSUME Init PROVE IInv
  OBVIOUS
<1>1. <<>> \in Seq(Tasks) /\ <<>> \in Seq(Timers) /\ Len(<<>>) = 0
  BY EmptySeq
<1>2. TypeOK
  <2>1. pendingGo = 0 /\ started = 0
    BY DEF Init
  <2>2. cbs = <<>> /\ chanCb = <<>> /\ chanTimer = <<>> /\ linearGo = <<>>
    BY DEF Init
  <2>3. Len(cbs) = 0 /\ Len(chanCb) = 0 /\ Len(chanTimer) = 0
    BY <1>1, <2>2
  <2>4. pendingGo = started - Len(cbs)
    BY <2>1, <2>3
  <2>5. Len(chanCb) <= CbCap /\ Len(chanTimer) <= TimerCap
    BY <2>3, ServiceLoopAssumption
  <2>6. /\ linearGo \in Seq(Tasks) /\ chanCb \in Seq(Tasks) /\ cbs \in Seq(Tasks)
        /\ chanTimer \in Seq(Timers)
    BY <1>1, <2>2
  <2>7. /\ callOpen \in BOOLEAN /\ queued \in 0..ChanCap /\ posts \in 0..MaxPosts
        /\ mainPc \in {"select", "close", "done"} /\ started \in 0..MaxTasks
        /\ execution \in {0} \cup Tasks
    BY ServiceLoopAssumption DEF Init
  <2>8. /\ kind \in [Tasks -> {"go", "linear"}]
        /\ pc \in [Tasks -> {"none", "lock", "run", "post", "send", "done"}]
        /\ job \in [Tasks -> {0} \cup Tasks]
        /\ timer \in [Timers -> {"none", "armed", "sending", "sent", "off"}]
        /\ hasCb \in [Timers -> BOOLEAN] /\ stopped \subseteq Timers /\ fired \subseteq Timers
    BY DEF Init
  <2>9. QED
    BY <2>4, <2>5, <2>6, <2>7, <2>8 DEF TypeOK
<1>3. Sent = <<>>
  BY <1>1, ConcatEmptySeq DEF Init, Sent
<1>4. WorkInv
  BY TasksAreNat DEF Init, WorkInv, Working
<1>5. Waiting = {}
  BY DEF Init, Waiting
<1>6. ListInv
  BY <1>1, <1>5, FS_EmptySet, ElemsEmpty DEF Init, ListInv, Sorted
<1>7. JobInv /\ SentInv
  BY <1>1, <1>3, ElemsEmpty DEF Init, JobInv, SentInv, Sorted
<1>8. TimerInv /\ mainPc # "done"
  BY DEF Init, TimerInv
<1>9. QED
  BY <1>2, <1>4, <1>6, <1>7, <1>8 DEF IInv, TaskInv

\* Other goroutines, the runtime, and the steps of Pool that run no code of
\* the application.
LEMMA PoolStep ==
  ASSUME IInv, Post \/ BeginClose \/ CloseEnd \/ \E x \in Timers : Expire(x) \/ SendTimer(x)
  PROVE  IInv'
<1>1. TypeOK /\ TaskInv /\ TimerInv
  BY DEF IInv
<1>2. UNCHANGED goVars
  BY DEF Post, BeginClose, CloseEnd, Expire, SendTimer
<1>3. Sent' = Sent /\ UNCHANGED <<started, kind, pc, job, linearGo, execution, pendingGo, chanCb, cbs>>
  BY <1>2 DEF goVars, Sent
<1>4. TaskInv'
  BY <1>1, <1>3, TasksKept
<1>5. CASE Post
  BY <1>1, <1>3, <1>4, <1>5, ServiceLoopAssumption DEF Post, IInv, TypeOK, TimerInv, callVars, timerVars
<1>6. CASE BeginClose
  <2>1. TypeOK'
    <3>1. callOpen' \in BOOLEAN /\ queued' = 0 /\ mainPc' = "close" /\ UNCHANGED <<posts, timerVars>>
      BY <1>6 DEF BeginClose
    <3>2. QED
      BY <1>1, <1>3, <3>1, ServiceLoopAssumption DEF TypeOK, timerVars
  <2>2. TimerInv' /\ mainPc' # "done"
    BY <1>1, <1>6 DEF BeginClose, TimerInv, timerVars
  <2>3. QED
    BY <1>4, <2>1, <2>2 DEF IInv
<1>7. CASE CloseEnd
  BY <1>1, <1>3, <1>4, <1>7 DEF CloseEnd, IInv, TypeOK, TimerInv, callVars, timerVars
<1>8. ASSUME NEW x \in Timers, Expire(x) PROVE IInv'
  <2>1. /\ timer' = [timer EXCEPT ![x] = "sending"]
        /\ UNCHANGED <<callVars, mainPc, hasCb, chanTimer, stopped, fired>>
    BY <1>8 DEF Expire
  <2>2. TypeOK'
    BY <1>1, <1>3, <2>1 DEF TypeOK, callVars
  <2>3. TimerInv'
    BY <1>1, <2>1 DEF TimerInv, TypeOK
  <2>4. QED
    BY <1>3, <1>4, <2>1, <2>2, <2>3 DEF IInv
<1>9. ASSUME NEW x \in Timers, SendTimer(x) PROVE IInv'
  <2>1. /\ timer' = [timer EXCEPT ![x] = "sent"] /\ Len(chanTimer) < TimerCap
        /\ chanTimer' = Append(chanTimer, x)
        /\ UNCHANGED <<callVars, mainPc, hasCb, stopped, fired>>
    BY <1>9 DEF SendTimer
  <2>2. /\ Append(chanTimer, x) \in Seq(Timers) /\ Len(Append(chanTimer, x)) = Len(chanTimer) + 1
        /\ Len(chanTimer) \in Nat
    BY <1>1, AppendProperties, LenProperties DEF TypeOK
  <2>3. chanTimer' \in Seq(Timers) /\ Len(chanTimer') <= TimerCap
    BY <2>1, <2>2, ServiceLoopAssumption
  <2>4. TypeOK'
    BY <1>1, <1>3, <2>1, <2>3 DEF TypeOK, callVars
  <2>5. TimerInv'
    BY <1>1, <2>1 DEF TimerInv, TypeOK
  <2>6. QED
    BY <1>3, <1>4, <2>1, <2>4, <2>5 DEF IInv
<1>10. QED
  BY <1>5, <1>6, <1>7, <1>8, <1>9

\* The goroutines of Go and LinearContext.
LEMMA GoroutineStep ==
  ASSUME IInv, NEW t \in Tasks, Goroutine(t)
  PROVE  IInv'
<1>1. TypeOK /\ TaskInv /\ TimerInv
  BY DEF IInv
<1>2. UNCHANGED <<mainPc, pendingGo, started, kind, cbs, callOpen, posts, timerVars>>
  BY DEF Goroutine, TakeLinear, RunEnd, RunPost, RunPosted, SendCb, callVars
<1>3. TimerInv'
  BY <1>1, <1>2 DEF TimerInv, timerVars
<1>4. CASE TakeLinear(t)
  <2>1. Head(linearGo) \in Tasks /\ linearGo' \in Seq(Tasks) /\ TaskInv'
    BY <1>1, <1>4, TaskTaken
  <2>2. /\ job' = [job EXCEPT ![t] = Head(linearGo)] /\ pc' = [pc EXCEPT ![t] = "run"]
        /\ execution' = t /\ UNCHANGED <<queued, chanCb>>
    BY <1>4 DEF TakeLinear, Goto, callVars
  <2>3. TypeOK'
    BY <1>1, <1>2, <2>1, <2>2 DEF TypeOK, timerVars
  <2>4. QED
    BY <1>2, <1>3, <2>1, <2>3 DEF IInv
<1>5. ASSUME NEW l \in {"run", "post", "send"}, pc[t] \in {"run", "post"},
             pc' = [pc EXCEPT ![t] = l], UNCHANGED <<job, linearGo, execution, chanCb>>,
             queued' \in 0..ChanCap
      PROVE  IInv'
  <2>1. TaskInv'
    BY <1>1, <1>2, <1>5, TaskWorks DEF Working
  <2>2. TypeOK'
    BY <1>1, <1>2, <1>5 DEF TypeOK, timerVars
  <2>3. QED
    BY <1>2, <1>3, <2>1, <2>2 DEF IInv
<1>6. CASE RunEnd(t)
  BY <1>1, <1>5, <1>6 DEF RunEnd, Goto, callVars, TypeOK
<1>7. CASE RunPost(t)
  BY <1>1, <1>5, <1>7 DEF RunPost, Goto, callVars, TypeOK
<1>8. CASE RunPosted(t)
  <2>1. queued' \in 0..ChanCap
    BY <1>1, <1>8, ServiceLoopAssumption DEF RunPosted, TypeOK
  <2>2. QED
    BY <1>1, <1>5, <1>8, <2>1 DEF RunPosted, Goto
<1>9. CASE SendCb(t)
  <2>1. job[t] \in Tasks /\ TaskInv'
    BY <1>1, <1>9, TaskSent
  <2>2. /\ Len(chanCb) < CbCap /\ chanCb' = Append(chanCb, job[t]) /\ pc' = [pc EXCEPT ![t] = "done"]
        /\ execution' = (IF execution = t THEN 0 ELSE execution)
        /\ UNCHANGED <<queued, job, linearGo>>
    BY <1>9 DEF SendCb, Goto, callVars
  <2>3. /\ Append(chanCb, job[t]) \in Seq(Tasks) /\ Len(Append(chanCb, job[t])) = Len(chanCb) + 1
        /\ Len(chanCb) \in Nat
    BY <1>1, <2>1, AppendProperties, LenProperties DEF TypeOK
  <2>4. chanCb' \in Seq(Tasks) /\ Len(chanCb') <= CbCap /\ execution' \in {0} \cup Tasks
    BY <1>1, <2>2, <2>3, ServiceLoopAssumption DEF TypeOK
  <2>5. TypeOK'
    BY <1>1, <1>2, <2>2, <2>4 DEF TypeOK, timerVars
  <2>6. QED
    BY <1>2, <1>3, <2>1, <2>5 DEF IInv
<1>10. QED
  BY <1>4, <1>6, <1>7, <1>8, <1>9 DEF Goroutine

\* A call runs on the main loop.
LEMMA CallStep ==
  ASSUME IInv, ExecCall
  PROVE  IInv'
<1>1. TypeOK /\ TaskInv /\ TimerInv
  BY DEF IInv
<1>2. PICK n \in 0..1 : Application(n) /\ pendingGo' = pendingGo + n
  BY DEF ExecCall
<1>3. /\ queued' = queued - 1 /\ queued > 0 /\ mainPc = "select"
      /\ UNCHANGED <<callOpen, posts, mainPc, execution, chanCb, cbs, fired>>
  BY DEF ExecCall
<1>4. Sent' = Sent
  BY <1>3 DEF Sent
<1>5. /\ Starts(n) /\ TimerInv'
      /\ timer' \in [Timers -> {"none", "armed", "sending", "sent", "off"}]
      /\ hasCb' \in [Timers -> BOOLEAN] /\ chanTimer' = chanTimer /\ stopped' \subseteq Timers
  BY <1>1, <1>2, TimersSet
<1>6. /\ started' \in 0..MaxTasks /\ started' = started + n /\ linearGo' \in Seq(Tasks)
      /\ kind' \in [Tasks -> {"go", "linear"}] /\ job' \in [Tasks -> {0} \cup Tasks]
      /\ pc' \in [Tasks -> {"none", "lock", "run", "post", "send", "done"}]
      /\ TaskInv'
  BY <1>1, <1>3, <1>4, <1>5, TasksStarted
<1>7. pendingGo' = started' - Len(cbs')
  <2>1. Len(cbs) \in Nat /\ started \in Nat /\ pendingGo = started - Len(cbs)
    BY <1>1, LenProperties, ServiceLoopAssumption DEF TypeOK
  <2>2. QED
    BY <1>2, <1>3, <1>6, <2>1
<1>8. queued' \in 0..ChanCap
  BY <1>1, <1>3, ServiceLoopAssumption DEF TypeOK
<1>9. TypeOK'
  BY <1>1, <1>3, <1>5, <1>6, <1>7, <1>8 DEF TypeOK
<1>10. QED
  BY <1>3, <1>5, <1>6, <1>9 DEF IInv

\* The callback of a timer runs on the main loop, unless it was stopped.
LEMMA TimerStep ==
  ASSUME IInv, TimerCb
  PROVE  IInv'
<1>1. TypeOK /\ TaskInv /\ TimerInv
  BY DEF IInv
<1> DEFINE x == Head(chanTimer)
<1>2. /\ chanTimer # <<>> /\ chanTimer' = Tail(chanTimer) /\ mainPc = "select"
      /\ fired' = (IF hasCb[x] THEN fired \cup {x} ELSE fired)
      /\ hasCb' = [hasCb EXCEPT ![x] = FALSE]
      /\ UNCHANGED <<callVars, mainPc, execution, chanCb, cbs, timer, stopped>>
  BY DEF TimerCb
<1>3. PICK n \in 0..1 : Starts(n) /\ pendingGo' = pendingGo + n
  BY DEF TimerCb
<1>4. /\ x \in Timers /\ Tail(chanTimer) \in Seq(Timers)
      /\ Len(Tail(chanTimer)) = Len(chanTimer) - 1 /\ Len(chanTimer) \in Nat
  BY <1>1, <1>2, HeadTailProperties, LenProperties DEF TypeOK
<1>5. Sent' = Sent
  BY <1>2 DEF Sent
<1>6. /\ started' \in 0..MaxTasks /\ started' = started + n /\ linearGo' \in Seq(Tasks)
      /\ kind' \in [Tasks -> {"go", "linear"}] /\ job' \in [Tasks -> {0} \cup Tasks]
      /\ pc' \in [Tasks -> {"none", "lock", "run", "post", "send", "done"}]
      /\ TaskInv'
  BY <1>1, <1>2, <1>3, <1>5, TasksStarted
<1>7. pendingGo' = started' - Len(cbs')
  <2>1. Len(cbs) \in Nat /\ started \in Nat /\ pendingGo = started - Len(cbs)
    BY <1>1, LenProperties, ServiceLoopAssumption DEF TypeOK
  <2>2. QED
    BY <1>2, <1>3, <1>6, <2>1
<1>8. chanTimer' \in Seq(Timers) /\ Len(chanTimer') <= TimerCap
  BY <1>1, <1>2, <1>4, ServiceLoopAssumption DEF TypeOK
<1> HIDE DEF x
<1>9. hasCb' \in [Timers -> BOOLEAN] /\ fired' \subseteq Timers
  BY <1>1, <1>2, <1>4 DEF TypeOK
<1>10. TimerInv'
  <2>1. \A y \in Timers : ~hasCb[y] => ~hasCb'[y]
    BY <1>1, <1>2, <1>4 DEF TypeOK
  <2>2. QED
    BY <1>1, <1>2, <2>1 DEF TimerInv, TypeOK
<1>11. TypeOK'
  BY <1>1, <1>2, <1>6, <1>7, <1>8, <1>9 DEF TypeOK, callVars
<1>12. QED
  BY <1>2, <1>6, <1>10, <1>11 DEF IInv

\* The callback of a function runs on the main loop.
LEMMA CallbackStep ==
  ASSUME IInv, SelectCb \/ CloseCb
  PROVE  IInv'
<1>1. TypeOK /\ TaskInv /\ TimerInv
  BY DEF IInv
<1>2. RunCb /\ mainPc' = mainPc /\ mainPc # "done"
  BY DEF SelectCb, CloseCb
<1>3. UNCHANGED <<callVars, execution, fired>>
  BY <1>2 DEF RunCb
<1>4. PICK n \in 0..1 : Application(n) /\ pendingGo' = pendingGo + n - 1
  BY <1>2 DEF RunCb
<1>5. /\ Sent' = Sent /\ cbs' \in Seq(Tasks) /\ Len(cbs') = Len(cbs) + 1 /\ Len(cbs) \in Nat
      /\ chanCb' \in Seq(Tasks) /\ Len(chanCb') <= CbCap
  BY <1>1, <1>2, SentKept
<1>6. /\ Starts(n) /\ TimerInv'
      /\ timer' \in [Timers -> {"none", "armed", "sending", "sent", "off"}]
      /\ hasCb' \in [Timers -> BOOLEAN] /\ chanTimer' = chanTimer /\ stopped' \subseteq Timers
  BY <1>1, <1>4, TimersSet
<1>7. /\ started' \in 0..MaxTasks /\ started' = started + n /\ linearGo' \in Seq(Tasks)
      /\ kind' \in [Tasks -> {"go", "linear"}] /\ job' \in [Tasks -> {0} \cup Tasks]
      /\ pc' \in [Tasks -> {"none", "lock", "run", "post", "send", "done"}]
      /\ TaskInv'
  BY <1>1, <1>3, <1>5, <1>6, TasksStarted
<1>8. pendingGo' = started' - Len(cbs')
  <2>1. started \in Nat /\ pendingGo = started - Len(cbs)
    BY <1>1, ServiceLoopAssumption DEF TypeOK
  <2>2. QED
    BY <1>4, <1>5, <1>7, <2>1
<1>9. TypeOK'
  BY <1>1, <1>2, <1>3, <1>5, <1>6, <1>7, <1>8 DEF TypeOK, callVars
<1>10. QED
  BY <1>2, <1>6, <1>7, <1>9 DEF IInv

\* The inductive invariant.
LEMMA InductiveInvariant == Spec => []IInv
<1>1. IInv /\ [Next]_vars => IInv'
  <2> SUFFICES ASSUME IInv, [Next]_vars PROVE IInv'
    OBVIOUS
  <2>1. CASE UNCHANGED vars
    <3>1. UNCHANGED <<started, kind, pc, job, linearGo, execution, cbs, chanCb>>
      BY <2>1 DEF vars, goVars
    <3>2. TaskInv'
      BY <3>1, TasksKept DEF IInv, Sent
    <3>3. QED
      BY <2>1, <3>2 DEF IInv, TypeOK, TimerInv, vars, goVars, callVars, timerVars
  <2>2. CASE Next
    BY <2>2, PoolStep, GoroutineStep, CallStep, TimerStep, CallbackStep DEF Next, MainLoop
  <2>3. QED
    BY <2>1, <2>2
<1>2. QED
  BY <1>1, InvariantInit, PTL DEF Spec

(* ------------------------------- Theorems ------------------------------ *)

\* The variables keep their types, and pendingGo, which is raised and lowered
\* on the main loop only, is the number of functions without a callback yet.
THEOREM TypeCorrect == Spec => []TypeOK
<1>1. IInv => TypeOK
  BY DEF IInv
<1>2. QED
  BY <1>1, InductiveInvariant, PTL

\* As many different callbacks as there are functions: one for each.
LEMMA AllRun ==
  ASSUME NEW n \in Nat, NEW h \in Seq(Nat), Len(h) = n, NEW K, Sorted(h, K),
         \A t \in Elems(h) : t # 0 /\ t <= n
  PROVE  Elems(h) = 1..n
<1>1. h \in [1..n -> Nat] /\ DOMAIN h = 1..n
  BY LenProperties
<1>2. \A i, j \in 1..n : h[i] = h[j] => i = j
  BY <1>1 DEF Sorted
<1>3. Elems(h) \subseteq 1..n
  BY <1>1 DEF Elems
<1>4. h \in Bijection(1..n, Elems(h))
  BY <1>1, <1>2, <1>3 DEF Bijection, Injection, Surjection, IsInjective, Elems
<1>5. IsFiniteSet(1..n) /\ Cardinality(1..n) = n
  BY FS_Interval
<1>6. Cardinality(Elems(h)) = n
  BY <1>4, <1>5, FS_Bijection DEF ExistsBijection
<1>7. QED
  BY <1>3, <1>5, <1>6, FS_Subset

\* Callbacks of a LinearContext run in the order of its Go calls, although the
\* goroutines take the mutex in any order, and when Pool has returned every
\* function has had its callback (go.go:34-109).
THEOREM CallbacksAreKept == Spec => []CallbacksInOrder
<1>1. IInv => CallbacksInOrder
  <2> SUFFICES ASSUME IInv PROVE CallbacksInOrder
    OBVIOUS
  <2>1. TypeOK /\ SentInv /\ cbs \in Seq(Tasks) /\ DOMAIN cbs = 1..Len(cbs)
    BY LenProperties DEF IInv, TaskInv, TypeOK
  <2>2. Sorted(cbs, Linear) /\ Elems(cbs) \subseteq Elems(Sent)
    BY <2>1, SentType, SortedFirst DEF SentInv
  <2>3. LinearInOrder
    <3>1. \A i \in 1..Len(cbs) : cbs[i] \in Tasks
      BY <2>1, ElementOfSeq
    <3>2. QED
      BY <2>1, <2>2, <3>1 DEF LinearInOrder, Sorted, Linear
  <2>4. ASSUME mainPc = "done", NEW t \in 1..started PROVE \E i \in DOMAIN cbs : cbs[i] = t
    <3>1. started \in Nat /\ Len(cbs) \in Nat /\ pendingGo = 0 /\ pendingGo = started - Len(cbs)
      BY <2>1, <2>4, LenProperties, ServiceLoopAssumption DEF IInv, TypeOK
    <3>2. Len(cbs) = started
      BY <3>1
    <3>3. cbs \in Seq(Nat)
      BY <2>1, TasksAreNat, SeqMonotonic
    <3>4. \A u \in Elems(cbs) : u # 0 /\ u <= started
      BY <2>1, <2>2, SentType, TasksAreNat DEF SentInv
    <3>5. Elems(cbs) = 1..started
      BY <2>2, <3>1, <3>2, <3>3, <3>4, AllRun
    <3>6. QED
      BY <2>4, <3>5 DEF Elems
  <2>5. QED
    BY <2>3, <2>4 DEF CallbacksInOrder, CallbacksRun
<1>2. QED
  BY <1>1, InductiveInvariant, PTL

\* A timer that was stopped stays silent, even if it had expired and waited
\* in ChanTimer (timer.go:26-44).
THEOREM StoppedTimersAreSilent == Spec => StoppedIsSilent
<1>1. IInv /\ [Next]_vars => [\A x \in stopped : x \in fired' => x \in fired]_vars
  <2> SUFFICES ASSUME IInv, Next, NEW x \in stopped, x \in fired' PROVE x \in fired
    BY DEF StoppedIsSilent
  <2>1. fired' = fired \/ TimerCb
    BY DEF Next, MainLoop, Goroutine, Post, BeginClose, ExecCall, SelectCb, CloseCb, CloseEnd, RunCb,
       TakeLinear, RunEnd, RunPost, RunPosted, SendCb, Expire, SendTimer, timerVars
  <2>2. CASE TimerCb
    BY <2>2 DEF TimerCb, IInv, TimerInv
  <2>3. QED
    BY <2>1, <2>2
<1>2. QED
  BY <1>1, InductiveInvariant, PTL DEF Spec, StoppedIsSilent

(* ------------------- Framing: the inductive invariant ------------------ *)

\* The messages of the parser's kind of connection, and what becomes of one
\* that is written.
Carried == IF parser.inner THEN InnerMessages ELSE UserMessages
FrameFor(m) == Frame(Marshal(m))
Fits(m) == Len(Marshal(m)) <= parser.send /\ ~Overflows(Marshal(m))

\* What makes the reader refuse a message.
Unreadable(n) == n > parser.recv \/ Truncated(n)
Lost(m) == Unreadable(Len(Marshal(m)))

\* The frames that were written and not read lie one behind the other in the
\* stream, each behind the end of the one before; only the last of them are
\* missing, and none while the connection is not broken.
FramesAt(ends, frames) ==
  /\ \A i \in 1..Len(written), m \in Carried :
       written[i] = m => frames[i] = FrameFor(m) /\ Fits(m)
  /\ ends \in [got..Len(written) -> Nat] /\ ends[got] = 0
  /\ \A i \in (got + 1)..Len(written) : ends[i] = ends[i-1] + Len(frames[i])
  /\ \A i, j \in got..Len(written) : i <= j => ends[i] <= ends[j]
  /\ \A i \in (got + 1)..Len(written) : \A j \in 1..Len(frames[i]) :
       ends[i-1] + j <= Len(stream) => stream[ends[i-1] + j] = frames[i][j]
  /\ Len(stream) <= ends[Len(written)]
  /\ writer # "cut" => Len(stream) = ends[Len(written)]

FrameInv ==
  /\ parser \in Parsers
  /\ written \in Seq(Carried) /\ stream \in Seq(Bytes) /\ got \in 0..Len(written)
  /\ writer \in {"open", "ended", "cut"} /\ reader \in {"open", "refused", "eof"}
  /\ Len(written) <= MaxMessages
  /\ handled = Meant(written, got)
  /\ \E ends, frames : FramesAt(ends, frames)
  /\ reader = "refused" => /\ got < Len(written)
                           /\ \A m \in Carried : written[got + 1] = m => Lost(m)

(* ------------------------ Framing: its operators ------------------------ *)

\* What the recursive definition of Power says.
LEMMA PowerIs ==
  /\ Power[0] = 1
  /\ \A k \in 0..3 : Power[k+1] = Power[k] * FrameBase
  /\ \A k \in 0..4 : Power[k] \in Nat /\ Power[k] >= 1
<1>0. FrameBase \in Nat /\ FrameBase >= 2
  BY FramingAssumption
<1> DEFINE p1 == FrameBase
           p2 == p1 * FrameBase
           p3 == p2 * FrameBase
           p4 == p3 * FrameBase
           f == [k \in 0..4 |-> IF k = 0 THEN 1 ELSE IF k = 1 THEN p1 ELSE IF k = 2 THEN p2
                                ELSE IF k = 3 THEN p3 ELSE p4]
<1>1. \A x \in Nat : x >= 1 => x * FrameBase \in Nat /\ x * FrameBase >= 1
  BY <1>0
<1>2. p1 \in Nat /\ p1 >= 1 /\ p2 \in Nat /\ p2 >= 1 /\ p3 \in Nat /\ p3 >= 1 /\ p4 \in Nat /\ p4 >= 1
  <2>1. p1 \in Nat /\ p1 >= 1
    BY <1>0
  <2>2. p2 \in Nat /\ p2 >= 1
    BY <1>1, <2>1
  <2> HIDE DEF p2
  <2>3. p3 \in Nat /\ p3 >= 1
    BY <1>1, <2>2
  <2> HIDE DEF p3
  <2>4. p4 \in Nat /\ p4 >= 1
    BY <1>1, <2>3
  <2>5. QED
    BY <2>1, <2>2, <2>3, <2>4
<1>3. 1 * FrameBase = p1
  BY <1>0
<1>4. p2 = p1 * FrameBase /\ p3 = p2 * FrameBase /\ p4 = p3 * FrameBase
  OBVIOUS
<1> HIDE DEF p1, p2, p3, p4
<1>5. f[0] = 1 /\ f[1] = p1 /\ f[2] = p2 /\ f[3] = p3 /\ f[4] = p4 /\ f = [k \in 0..4 |-> f[k]]
  OBVIOUS
<1> HIDE DEF f
<1>6. \A k \in 0..4 : f[k] = IF k = 0 THEN 1 ELSE f[k-1] * FrameBase
  <2>1. f[1] = f[0] * FrameBase /\ f[2] = f[1] * FrameBase /\ f[3] = f[2] * FrameBase /\ f[4] = f[3] * FrameBase
    BY <1>3, <1>4, <1>5
  <2> TAKE k \in 0..4
  <2>2. k = 0 \/ (k = 1 /\ k - 1 = 0) \/ (k = 2 /\ k - 1 = 1) \/ (k = 3 /\ k - 1 = 2) \/ (k = 4 /\ k - 1 = 3)
    OBVIOUS
  <2>3. QED
    BY <1>5, <2>1, <2>2
<1>7. f = [k \in 0..4 |-> IF k = 0 THEN 1 ELSE f[k-1] * FrameBase]
  BY <1>5, <1>6, Zenon
<1>8. Power = [k \in 0..4 |-> IF k = 0 THEN 1 ELSE Power[k-1] * FrameBase]
  BY <1>7 DEF Power
<1>9. \A k \in 0..4 : Power[k] = IF k = 0 THEN 1 ELSE Power[k-1] * FrameBase
  BY <1>8, Zenon
<1>10. Power[0] = 1
  BY <1>9
<1>11. \A k \in 0..3 : Power[k+1] = Power[k] * FrameBase
  <2> TAKE k \in 0..3
  <2>1. k + 1 \in 0..4 /\ k + 1 # 0 /\ k + 1 - 1 = k
    OBVIOUS
  <2>2. QED
    BY <1>9, <2>1
<1>12. Power[1] = p1 /\ Power[2] = p2 /\ Power[3] = p3 /\ Power[4] = p4
  <2>1. Power[0+1] = Power[0] * FrameBase /\ Power[1+1] = Power[1] * FrameBase
        /\ Power[2+1] = Power[2] * FrameBase /\ Power[3+1] = Power[3] * FrameBase
    BY <1>11
  <2>2. 0 + 1 = 1 /\ 1 + 1 = 2 /\ 2 + 1 = 3 /\ 3 + 1 = 4
    OBVIOUS
  <2>3. QED
    BY <1>3, <1>4, <1>10, <2>1, <2>2
<1>13. \A k \in 0..4 : Power[k] \in Nat /\ Power[k] >= 1
  <2> TAKE k \in 0..4
  <2>1. k = 0 \/ k = 1 \/ k = 2 \/ k = 3 \/ k = 4
    OBVIOUS
  <2>2. QED
    BY <1>2, <1>10, <1>12, <2>1
<1>14. QED
  BY <1>10, <1>11, <1>13

\* A parser has a width of 1, 2 or 4 bytes, and lengths within it.
LEMMA ParserIs ==
  ASSUME parser \in Parsers
  PROVE  /\ parser.width \in {1, 2, 4} /\ parser.little \in BOOLEAN
         /\ parser.includeHead \in BOOLEAN /\ parser.inner \in BOOLEAN
         /\ parser.recv \in 1..(Power[parser.width] - 1) /\ parser.send \in 1..(Power[parser.width] - 1)
<1>1. PICK w \in {1, 2, 4}, l \in BOOLEAN, h \in BOOLEAN, i \in BOOLEAN, r \in MaxArgs, s \in MaxArgs :
        parser = [width |-> w, little |-> l, includeHead |-> h, inner |-> i,
                  recv |-> SetMsgLen(w, r), send |-> SetMsgLen(w, s)]
  BY DEF Parsers
<1>2. Power[w] \in Nat /\ Power[w] >= 2
  <2>1. FrameBase \in Nat /\ FrameBase >= 2
    BY FramingAssumption
  <2>2. w - 1 \in 0..3 /\ w - 1 + 1 = w /\ w \in 0..4
    OBVIOUS
  <2>3. Power[w-1] \in Nat /\ Power[w-1] >= 1 /\ Power[w] = Power[w-1] * FrameBase /\ Power[w] \in Nat
    <3>1. w - 1 \in 0..4
      BY <2>2
    <3>2. Power[w-1+1] = Power[w-1] * FrameBase
      BY <2>2, PowerIs
    <3>3. QED
      BY <2>2, <3>1, <3>2, PowerIs
  <2>4. Power[w-1] * FrameBase >= FrameBase
    BY <2>1, <2>3, Product
  <2>5. QED
    BY <2>1, <2>3, <2>4
<1>3. \A n \in MaxArgs : SetMsgLen(w, n) \in 1..(Power[w] - 1)
  <2> SUFFICES ASSUME NEW n \in MaxArgs PROVE SetMsgLen(w, n) \in 1..(Power[w] - 1)
    OBVIOUS
  <2>1. n \in Nat /\ DefaultMax \in Nat /\ DefaultMax >= 1
    BY FramingAssumption
  <2>2. QED
    BY <1>2, <2>1 DEF SetMsgLen
<1>4. /\ parser.width = w /\ parser.little = l /\ parser.includeHead = h /\ parser.inner = i
      /\ parser.recv = SetMsgLen(w, r) /\ parser.send = SetMsgLen(w, s)
  BY <1>1
<1>5. QED
  BY <1>3, <1>4

\* The powers that widths need.
LEMMA WidthIs ==
  ASSUME NEW w \in {1, 2, 4}
  PROVE  /\ Power[w] \in Nat /\ w < Power[w] + 1 /\ Power[w] <= Word /\ Word \in Nat
         /\ \A n \in Nat : (n % Word) % Power[w] = n % Power[w]
         /\ w # 4 => Word - w >= Power[w]
<1>1. FrameBase \in Nat /\ FrameBase >= 2
  BY FramingAssumption
<1> DEFINE b == FrameBase
           b2 == b * b
           b3 == b2 * b
           b4 == b3 * b
<1>2. Power[1] = b /\ Power[2] = b2 /\ Power[4] = b4
  <2>1. Power[0+1] = Power[0] * b /\ Power[1+1] = Power[1] * b /\ Power[2+1] = Power[2] * b /\ Power[3+1] = Power[3] * b
    BY PowerIs
  <2>2. Power[0] = 1 /\ 1 * b = b
    BY <1>1, PowerIs
  <2>3. 0 + 1 = 1 /\ 1 + 1 = 2 /\ 2 + 1 = 3 /\ 3 + 1 = 4
    OBVIOUS
  <2>4. QED
    BY <2>1, <2>2, <2>3
<1>3. b2 \in Nat /\ b2 >= 2 * b /\ b4 = b2 * b2 /\ b4 \in Nat /\ b4 >= 4 * b2
  <2>1. b2 \in Nat /\ b2 >= 2 * b
    BY <1>1
  <2>2. b4 = b2 * b2
    BY <1>1
  <2> HIDE DEF b4, b2
  <2>3. b2 >= 4
    BY <1>1, <2>1
  <2>4. b2 * b2 \in Nat /\ b2 * b2 >= 4 * b2
    BY <2>1, <2>3
  <2>5. QED
    BY <2>1, <2>2, <2>4
<1> HIDE DEF b, b2, b3, b4
<1>4. b \in Nat /\ b >= 2
  BY <1>1 DEF b
<1>5. ASSUME NEW x \in Nat, x >= 1, NEW y \in Nat, y >= 1, Word = x * y, NEW n \in Nat PROVE (n % Word) % x = n % x
  <2> DEFINE r == n % Word
             q == n \div Word
             s == r % x
             t == r \div x
  <2>1. Word \in Nat /\ Word >= 1
    BY <1>5, ProductNat
  <2>2. r \in Nat /\ q \in Nat /\ n = Word * q + r
    BY <1>5, <2>1, Division
  <2> HIDE DEF r, q
  <2>3. s \in Nat /\ s < x /\ t \in Nat /\ r = x * t + s
    BY <1>5, <2>2, Division
  <2> HIDE DEF s, t
  <2>4. y * q \in Nat /\ x * (y * q) = Word * q /\ x * (y * q + t) = x * (y * q) + x * t
        /\ x * (y * q) \in Nat /\ x * t \in Nat
    <3>1. y * q \in Nat
      BY <1>5, <2>2, ProductNat
    <3>2. x * (y * q) = (x * y) * q /\ x * (y * q + t) = x * (y * q) + x * t
      BY <1>5, <2>2, <2>3, <3>1, TimesOver
    <3>3. x * (y * q) \in Nat /\ x * t \in Nat
      BY <1>5, <2>3, <3>1, ProductNat
    <3>4. QED
      BY <1>5, <3>1, <3>2, <3>3
  <2>5. n = x * (y * q + t) + s
    BY <2>2, <2>3, <2>4
  <2>6. y * q + t \in Nat
    BY <2>3, <2>4
  <2>7. n % x = s
    BY <1>5, <2>3, <2>5, <2>6, DivModIs
  <2>8. QED
    BY <2>7 DEF s, r
<1>6. Word = b4
  BY <1>2 DEF Word
<1>7. \E y \in Nat : y >= 1 /\ Word = Power[w] * y
  <2>1. CASE w = 1
    <3>1. b3 \in Nat /\ b3 >= 1
      <4>1. b2 * b \in Nat /\ b2 * b >= 1
        <5>1. b2 >= 1
          BY <1>3, <1>4
        <5>2. QED
          BY <1>3, <1>4, <5>1, ProductNat
      <4>2. QED
        BY <4>1 DEF b3
    <3>2. b4 = b * b3
      BY <1>4, <3>1, TimesOver DEF b4
    <3>3. QED
      BY <1>2, <1>6, <2>1, <3>1, <3>2
  <2>2. CASE w = 2
    <3>1. b2 >= 1
      BY <1>3, <1>4
    <3>2. QED
      BY <1>2, <1>3, <1>6, <2>2, <3>1
  <2>3. CASE w = 4
    <3>1. b4 = b4 * 1
      BY <1>3
    <3>2. QED
      BY <1>2, <1>6, <2>3, <3>1
  <2>4. QED
    BY <2>1, <2>2, <2>3
<1>8. Power[w] \in Nat /\ Power[w] >= 1
  BY PowerIs
<1>9. \A n \in Nat : (n % Word) % Power[w] = n % Power[w]
  BY <1>5, <1>7, <1>8
<1>10. QED
  <2>1. b2 >= 4 /\ b4 >= 4 * b2
    BY <1>3, <1>4
  <2>2. w = 1 \/ w = 2 \/ w = 4
    OBVIOUS
  <2>3. w < Power[w] + 1 /\ Power[w] <= b4 /\ (w # 4 => b4 - w >= Power[w])
    BY <1>2, <1>3, <1>4, <2>1, <2>2
  <2>4. QED
    BY <1>3, <1>6, <1>8, <1>9, <2>3

\* Reversing twice gives the bytes back.
LEMMA ByteOrderTwice ==
  ASSUME NEW s \in Seq(Bytes)
  PROVE  ByteOrder(s) \in Seq(Bytes) /\ Len(ByteOrder(s)) = Len(s) /\ ByteOrder(ByteOrder(s)) = s
<1> DEFINE n == Len(s)
           r == [i \in 1..n |-> s[n + 1 - i]]
<1>1. n \in Nat /\ (\A i \in 1..n : s[i] \in Bytes) /\ s = [i \in 1..n |-> s[i]]
  BY LenProperties, ElementOfSeq
<1> HIDE DEF n
<1>2. \A i \in 1..n : n + 1 - i \in 1..n /\ n + 1 - (n + 1 - i) = i
  BY <1>1
<1>3. r \in Seq(Bytes) /\ Len(r) = n
  <2>1. \A i \in 1..n : r[i] \in Bytes
    BY <1>1, <1>2
  <2>2. r \in [1..n -> Bytes]
    BY <2>1
  <2> HIDE DEF r
  <2>3. r \in Seq(Bytes)
    BY <1>1, <2>2, SeqDef
  <2>4. QED
    BY <1>1, <2>2, <2>3, LenProperties
<1>4. [i \in 1..n |-> r[n + 1 - i]] = s
  <2>1. \A i \in 1..n : r[n + 1 - i] = s[i]
    BY <1>2
  <2> HIDE DEF r
  <2>2. [i \in 1..n |-> r[n + 1 - i]] = [i \in 1..n |-> s[i]]
    BY <2>1, Zenon
  <2>3. QED
    BY <1>1, <2>2
<1>5. ByteOrder(s) = IF parser.little THEN r ELSE s
  BY DEF ByteOrder, n
<1>6. CASE parser.little
  <2>1. ByteOrder(s) = r
    BY <1>5, <1>6
  <2> HIDE DEF r
  <2>2. ByteOrder(r) = [i \in 1..Len(r) |-> r[Len(r) + 1 - i]]
    BY <1>6 DEF ByteOrder
  <2>3. QED
    BY <1>3, <1>4, <2>1, <2>2 DEF n
<1>7. CASE ~ parser.little
  BY <1>5, <1>7 DEF ByteOrder
<1>8. QED
  BY <1>6, <1>7

\* The length is read as it was written, but for what its width cuts off.
LEMMA LengthCrosses ==
  ASSUME parser \in Parsers, NEW v \in Nat
  PROVE  /\ PutLen(v) \in Seq(Bytes) /\ Len(PutLen(v)) = parser.width
         /\ GetLen(PutLen(v)) = v % Power[parser.width]
<1> DEFINE w == parser.width
           digits == [i \in 1..w |-> (v \div Power[w - i]) % FrameBase]
           s == PutLen(v)
<1>1. w \in {1, 2, 4} /\ w \in Nat
  BY ParserIs
<1>2. FrameBase \in Nat /\ FrameBase >= 1
  BY FramingAssumption
<1>3. \A i \in 0..w : w - i \in 0..4 /\ i \in 0..4 /\ Power[w-i] \in Nat /\ Power[w-i] >= 1 /\ Power[i] \in Nat /\ Power[i] >= 1
  <2> SUFFICES ASSUME NEW i \in 0..w PROVE w - i \in 0..4 /\ i \in 0..4 /\ Power[w-i] \in Nat /\ Power[w-i] >= 1 /\ Power[i] \in Nat /\ Power[i] >= 1
    OBVIOUS
  <2>1. w - i \in 0..4 /\ i \in 0..4
    <3>1. w <= 4
      BY <1>1
    <3> HIDE DEF w
    <3>2. QED
      BY <1>1, <3>1
  <2>2. QED
    BY <2>1, PowerIs
<1> HIDE DEF w
<1>4. digits \in Seq(Bytes) /\ Len(digits) = w
  <2>1. \A i \in 1..w : digits[i] \in Bytes
    <3> SUFFICES ASSUME NEW i \in 1..w PROVE (v \div Power[w-i]) % FrameBase \in Bytes
      OBVIOUS
    <3>1. Power[w-i] \in Nat /\ Power[w-i] >= 1
      BY <1>1, <1>3
    <3>2. v \div Power[w-i] \in Nat
      BY <3>1, Division
    <3>3. QED
      BY <1>2, <3>2, Division DEF Bytes
  <2>2. digits \in [1..w -> Bytes]
    BY <2>1
  <2> HIDE DEF digits
  <2>3. digits \in Seq(Bytes)
    BY <1>1, <2>2, SeqDef
  <2>4. QED
    BY <1>1, <2>2, <2>3, LenProperties
<1>5. s = ByteOrder(digits)
  BY DEF PutLen, w
<1>6. \A i \in 1..w : digits[i] = (v \div Power[w - i]) % FrameBase
  OBVIOUS
<1> HIDE DEF digits, s
<1>7. s \in Seq(Bytes) /\ Len(s) = w /\ ByteOrder(s) = digits
  BY <1>4, <1>5, ByteOrderTwice
<1> DEFINE value == CHOOSE f : f = [i \in 0..w |-> IF i = 0 THEN 0 ELSE f[i-1] * FrameBase + digits[i]]
           val == [i \in 0..w |-> (v \div Power[w - i]) % Power[i]]
<1>8. GetLen(s) = value[w]
  BY <1>7 DEF GetLen
<1>9. \A i \in 0..w : val[i] = IF i = 0 THEN 0 ELSE val[i-1] * FrameBase + digits[i]
  <2> TAKE i \in 0..w
  <2>1. CASE i = 0
    <3>1. Power[0] = 1 /\ v \div Power[w] \in Nat
      <4>1. w - 0 = w /\ 0 \in 0..w
        BY <1>1
      <4>2. Power[w] \in Nat /\ Power[w] >= 1
        BY <1>3, <4>1
      <4>3. QED
        BY <4>2, PowerIs, Division
    <3>2. w - 0 = w /\ 0 \in 0..w
      BY <1>1
    <3>3. \A n \in Nat : n % 1 = 0
      OBVIOUS
    <3>4. val[0] = (v \div Power[w]) % 1
      BY <3>1, <3>2
    <3>5. QED
      BY <2>1, <3>1, <3>3, <3>4
  <2>2. CASE i # 0
    <3>1. i - 1 \in 0..w /\ i \in 1..w /\ i \in Nat /\ w - (i - 1) = w - i + 1 /\ w - i \in Nat
      BY <1>1, <2>2
    <3>2. val[i] = (v \div Power[w-i]) % Power[i] /\ val[i-1] = (v \div Power[w-i+1]) % Power[i-1]
      BY <3>1
    <3>3. w - i \in 0..3 /\ i - 1 \in 0..3 /\ i - 1 + 1 = i
      BY <1>3, <3>1
    <3>4. Power[w-i+1] = Power[w-i] * FrameBase /\ Power[i-1+1] = Power[i-1] * FrameBase
      BY <3>3, PowerIs
    <3>5. Power[i] = Power[i-1] * FrameBase
      BY <3>3, <3>4
    <3>6. Power[w-i] \in Nat /\ Power[w-i] >= 1 /\ Power[i-1] \in Nat /\ Power[i-1] >= 1
      BY <1>3, <3>1
    <3>7. /\ v \div (Power[w-i] * FrameBase) = (v \div Power[w-i]) \div FrameBase
          /\ (((v \div Power[w-i]) \div FrameBase) % Power[i-1]) * FrameBase + ((v \div Power[w-i]) % FrameBase)
               = (v \div Power[w-i]) % (Power[i-1] * FrameBase)
      <4> DEFINE p == Power[w-i]
                 q == Power[i-1]
                 base == FrameBase
      <4>1. p \in Nat /\ p >= 1 /\ q \in Nat /\ q >= 1 /\ base \in Nat /\ base >= 1
        BY <1>2, <3>6
      <4> HIDE DEF p, q, base
      <4>2. /\ v \div (p * base) = (v \div p) \div base
            /\ (((v \div p) \div base) % q) * base + ((v \div p) % base) = (v \div p) % (q * base)
        <5>1. v \div p \in Nat
          BY <4>1, Division
        <5>2. v \div (p * base) = (v \div p) \div base
          BY <4>1, DigitsDivide
        <5> DEFINE x == v \div p
        <5> HIDE DEF x
        <5>3. ((x \div base) % q) * base + (x % base) = x % (q * base)
          BY <4>1, <5>1, DigitsAdd, Zenon DEF x
        <5>4. QED
          BY <5>2, <5>3, Zenon DEF x
      <4>3. QED
        BY <4>2, Zenon DEF p, q, base
    <3>8. digits[i] = (v \div Power[w-i]) % FrameBase
      BY <1>6, <3>1
    <3> HIDE DEF val
    <3>9. val[i-1] = ((v \div Power[w-i]) \div FrameBase) % Power[i-1]
      BY <3>2, <3>4, <3>7
    <3>10. val[i] = (v \div Power[w-i]) % (Power[i-1] * FrameBase)
      BY <3>2, <3>5
    <3>11. QED
      BY <2>2, <3>7, <3>8, <3>9, <3>10
  <2>3. QED
    BY <2>1, <2>2
<1>10. val = [i \in 0..w |-> val[i]]
  OBVIOUS
<1>11. val[w] = v % Power[w]
  <2>1. w - w = 0 /\ w \in 0..w /\ Power[0] = 1
    BY <1>1, PowerIs
  <2>2. v \div 1 = v
    OBVIOUS
  <2>3. QED
    BY <2>1, <2>2
<1> HIDE DEF val
<1>12. val = [i \in 0..w |-> IF i = 0 THEN 0 ELSE val[i-1] * FrameBase + digits[i]]
  BY <1>9, <1>10, Zenon
<1>13. value = [i \in 0..w |-> IF i = 0 THEN 0 ELSE value[i-1] * FrameBase + digits[i]]
  BY <1>12
<1> HIDE DEF value
<1>14. \A i \in 0..w : value[i] = IF i = 0 THEN 0 ELSE value[i-1] * FrameBase + digits[i]
  BY <1>13, Zenon
<1> DEFINE P == {i \in 0..w : value[i] = val[i]}
<1>15. 0 \in P
  BY <1>1, <1>9, <1>14
<1>16. ASSUME NEW i \in 0..w, i \in P, i < w PROVE i + 1 \in P
  <2>1. i + 1 \in 0..w /\ i + 1 # 0 /\ i + 1 - 1 = i
    BY <1>1, <1>16
  <2>2. value[i+1] = value[i+1-1] * FrameBase + digits[i+1] /\ val[i+1] = val[i+1-1] * FrameBase + digits[i+1]
    BY <1>9, <1>14, <2>1
  <2>3. value[i] = val[i]
    BY <1>16
  <2>4. value[i+1] = val[i+1]
    BY <2>1, <2>2, <2>3
  <2>5. QED
    BY <2>1, <2>4
<1>17. \A i \in 0..w : i \in P
  <2> HIDE DEF P
  <2>1. \A i \in 0..w : i \in P /\ i < w => i + 1 \in P
    BY <1>16
  <2>2. 0 \in Nat
    OBVIOUS
  <2>3. QED
    BY <1>1, <1>15, <2>1, <2>2, IntervalInduction
<1>18. value[w] = v % Power[w]
  BY <1>1, <1>11, <1>17
<1>19. QED
  BY <1>7, <1>8, <1>18 DEF w, s

\* What a message is made of.
LEMMA SentIs ==
  ASSUME parser \in Parsers, NEW m \in Carried
  PROVE  /\ m.id \in Bytes /\ m.seq \in Bytes /\ m.uids \in Seq(Bytes) /\ m.body \in Seq(Bytes)
         /\ m = [id |-> m.id, seq |-> m.seq, uids |-> m.uids, body |-> m.body]
         /\ (parser.inner => Len(m.uids) \in Bytes) /\ (~ parser.inner => Len(m.uids) = 1)
<1>1. m \in InnerMessages \cup UserMessages
  BY DEF Carried
<1>2. m \in [id : Bytes, seq : Bytes, uids : Seq(Bytes), body : Seq(Bytes)]
  BY <1>1, FramingAssumption
<1>3. QED
  BY <1>2, FramingAssumption, ParserIs DEF Carried

\* The codecs of the two ends agree: what Marshal makes is bytes, and Unmarshal
\* finds the whole message in them.
LEMMA MarshalIs ==
  ASSUME parser \in Parsers, NEW m \in Carried
  PROVE  /\ Marshal(m) \in Seq(Bytes) /\ HeadHere(Marshal(m)) /\ Unmarshal(Marshal(m)) = m
         /\ Len(Marshal(m)) \in Nat
<1> DEFINE u == m.uids
           b == m.body
           count == IF parser.inner THEN <<Len(u)>> ELSE <<>>
           h == <<m.id, m.seq>> \o count
           k == IF parser.inner THEN 3 ELSE 2
           n == Len(u)
           a == h \o u
           d == a \o b
<1>1. m.id \in Bytes /\ m.seq \in Bytes /\ u \in Seq(Bytes) /\ b \in Seq(Bytes)
      /\ (parser.inner => n \in Bytes) /\ (~ parser.inner => n = 1)
  BY SentIs
<1>2. n \in Nat /\ Len(b) \in Nat
  BY <1>1, LenProperties
<1>3. h \in Seq(Bytes) /\ Len(h) = k /\ h[1] = m.id /\ h[2] = m.seq /\ (parser.inner => h[3] = n)
  <2>1. CASE parser.inner
    <3>1. count = <<n>>
      BY <2>1
    <3> HIDE DEF count
    <3>2. <<m.id, m.seq>> \in Seq(Bytes) /\ Len(<<m.id, m.seq>>) = 2
          /\ <<m.id, m.seq>>[1] = m.id /\ <<m.id, m.seq>>[2] = m.seq
      BY <1>1
    <3>3. <<n>> \in Seq(Bytes) /\ Len(<<n>>) = 1 /\ <<n>>[1] = n
      BY <1>1, <2>1
    <3> DEFINE s == <<m.id, m.seq>>
               t == <<n>>
    <3> HIDE DEF s, t
    <3>4. s \o t \in Seq(Bytes) /\ Len(s \o t) = Len(s) + Len(t)
          /\ \A i \in 1..(Len(s) + Len(t)) : (s \o t)[i] = IF i <= Len(s) THEN s[i] ELSE t[i - Len(s)]
      BY <3>2, <3>3, ConcatProperties DEF s, t
    <3>5. h = s \o t
      BY <3>1 DEF h, s, t
    <3> HIDE DEF h
    <3>6. Len(s) = 2 /\ Len(t) = 1 /\ s[1] = m.id /\ s[2] = m.seq /\ t[1] = n
      BY <3>2, <3>3 DEF s, t
    <3>7. QED
      BY <2>1, <3>4, <3>5, <3>6
  <2>2. CASE ~ parser.inner
    <3>1. count = <<>>
      BY <2>2
    <3> HIDE DEF count
    <3>2. <<m.id, m.seq>> \o <<>> = <<m.id, m.seq>>
      OBVIOUS
    <3>3. <<m.id, m.seq>> \in Seq(Bytes)
      BY <1>1
    <3>4. QED
      BY <2>2, <3>1, <3>2, <3>3
  <2>3. QED
    BY <2>1, <2>2
<1>4. Marshal(m) = d
  BY DEF Marshal
<1> HIDE DEF h, count
<1>5. k \in Nat /\ k >= 2 /\ (parser.inner => k = 3) /\ (~ parser.inner => k = 2)
  OBVIOUS
<1> HIDE DEF k, u, b, n
<1>6. a \in Seq(Bytes) /\ Len(a) = k + n /\ (\A i \in 1..k : a[i] = h[i]) /\ (\A i \in 1..n : a[k + i] = u[i])
  <2>1. a \in Seq(Bytes) /\ Len(a) = Len(h) + Len(u)
        /\ \A i \in 1..(Len(h) + Len(u)) : a[i] = IF i <= Len(h) THEN h[i] ELSE u[i - Len(h)]
    BY <1>1, <1>3, ConcatProperties
  <2>2. Len(u) = n
    BY DEF n
  <2> HIDE DEF a
  <2>3. \A i \in 1..k : a[i] = h[i]
    BY <1>2, <1>3, <1>5, <2>1, <2>2
  <2>4. \A i \in 1..n : a[k + i] = u[i]
    <3> TAKE i \in 1..n
    <3>1. k + i \in 1..(k + n) /\ ~ (k + i <= k) /\ k + i - k = i
      BY <1>2, <1>5
    <3>2. k + i \in 1..(Len(h) + Len(u)) /\ Len(h) = k
      BY <1>3, <2>2, <3>1
    <3>3. a[k + i] = u[k + i - Len(h)]
      BY <2>1, <3>1, <3>2
    <3>4. QED
      BY <3>1, <3>2, <3>3
  <2>5. QED
    BY <1>3, <2>1, <2>2, <2>3, <2>4
<1>7. d \in Seq(Bytes) /\ Len(d) = k + n + Len(b)
      /\ (\A i \in 1..(k + n) : d[i] = a[i]) /\ (\A i \in 1..Len(b) : d[k + n + i] = b[i])
  <2> HIDE DEF a
  <2>1. d \in Seq(Bytes) /\ Len(d) = Len(a) + Len(b)
        /\ \A i \in 1..(Len(a) + Len(b)) : d[i] = IF i <= Len(a) THEN a[i] ELSE b[i - Len(a)]
    BY <1>1, <1>6, ConcatProperties
  <2> HIDE DEF d
  <2>2. \A i \in 1..(k + n) : d[i] = a[i]
    BY <1>2, <1>5, <1>6, <2>1
  <2>3. \A i \in 1..Len(b) : d[k + n + i] = b[i]
    <3> TAKE i \in 1..Len(b)
    <3>1. k + n + i \in 1..(k + n + Len(b)) /\ ~ (k + n + i <= k + n) /\ k + n + i - (k + n) = i
      BY <1>2, <1>5
    <3>2. QED
      BY <1>6, <2>1, <3>1
  <2>4. QED
    BY <1>6, <2>1, <2>2, <2>3
<1> HIDE DEF a, d
<1>8. d[1] = m.id /\ d[2] = m.seq /\ (parser.inner => d[3] = n)
  <2>1. 1 \in 1..k /\ 2 \in 1..k /\ 1 \in 1..(k + n) /\ 2 \in 1..(k + n)
    BY <1>2, <1>5
  <2>2. parser.inner => 3 \in 1..k /\ 3 \in 1..(k + n)
    BY <1>2, <1>5
  <2>3. QED
    BY <1>3, <1>6, <1>7, <2>1, <2>2
<1>9. HeadLen(d) = k + n /\ k + n <= Len(d)
  <2>1. k + n <= Len(d)
    BY <1>2, <1>5, <1>7
  <2>2. CASE parser.inner
    <3>1. Len(d) \in Nat /\ ~ (Len(d) < 3)
      BY <1>2, <1>5, <1>7, <2>2
    <3>2. HeadLen(d) = 3 + n
      BY <1>8, <2>2, <3>1 DEF HeadLen
    <3>3. QED
      BY <1>5, <2>1, <2>2, <3>2
  <2>3. CASE ~ parser.inner
    BY <1>1, <1>5, <2>1, <2>3 DEF HeadLen
  <2>4. QED
    BY <2>2, <2>3
<1>10. SubSeq(d, k + 1, k + n) = u
  <2>1. Len(u) = n /\ k + n <= Len(d)
    BY <1>9 DEF n
  <2>2. \A i \in 1..n : d[k + i] = u[i]
    <3> TAKE i \in 1..n
    <3>1. k + i \in 1..(k + n)
      BY <1>2, <1>5
    <3>2. QED
      BY <1>6, <1>7, <3>1
  <2>3. QED
    BY <1>1, <1>5, <1>7, <2>1, <2>2, PartIs
<1>11. SubSeq(d, k + n + 1, Len(d)) = b
  <2>1. k + n \in Nat /\ k + n + Len(b) <= Len(d)
    BY <1>2, <1>5, <1>7
  <2>2. QED
    BY <1>1, <1>7, <2>1, PartIs
<1>12. Unmarshal(d) = m
  <2>1. (IF parser.inner THEN 4 ELSE 3) = k + 1
    BY <1>5
  <2>2. Unmarshal(d) = [id |-> m.id, seq |-> m.seq, uids |-> u, body |-> b]
    BY <1>8, <1>9, <1>10, <1>11, <2>1 DEF Unmarshal
  <2>3. QED
    BY <2>2, SentIs DEF u, b
<1>13. HeadHere(d)
  BY <1>9 DEF HeadHere
<1>14. QED
  BY <1>4, <1>7, <1>12, <1>13, LenProperties

\* A frame is the length and, behind it, the data.
LEMMA FrameIs ==
  ASSUME parser \in Parsers, NEW d \in Seq(Bytes)
  PROVE  LET w == parser.width
             head == PutLen((Len(d) + OwnLen) % Word)
         IN  /\ Frame(d) \in Seq(Bytes) /\ Len(Frame(d)) = w + Len(d) /\ Len(d) \in Nat
             /\ head \in Seq(Bytes) /\ Len(head) = w
             /\ \A j \in 1..w : Frame(d)[j] = head[j]
             /\ \A j \in 1..Len(d) : Frame(d)[w + j] = d[j]
<1> DEFINE w == parser.width
           v == (Len(d) + OwnLen) % Word
           head == PutLen(v)
           n == Len(d)
<1>1. w \in {1, 2, 4} /\ w \in Nat /\ n \in Nat /\ OwnLen \in Nat
  BY ParserIs, LenProperties DEF OwnLen
<1>2. Word \in Nat /\ Word >= 1
  <2>1. 4 \in {1, 2, 4} /\ 4 \in 0..4
    OBVIOUS
  <2>2. QED
    BY <2>1, PowerIs DEF Word
<1>3. v \in Nat
  BY <1>1, <1>2, Division
<1>4. Frame(d) = head \o d
  BY DEF Frame
<1> HIDE DEF v
<1>5. head \in Seq(Bytes) /\ Len(head) = w
  BY <1>3, LengthCrosses
<1> HIDE DEF head, w
<1>6. Frame(d) \in Seq(Bytes) /\ Len(Frame(d)) = w + n
      /\ \A i \in 1..(w + n) : Frame(d)[i] = IF i <= w THEN head[i] ELSE d[i - w]
  <2>1. /\ head \o d \in Seq(Bytes) /\ Len(head \o d) = Len(head) + Len(d)
        /\ \A i \in 1..(Len(head) + Len(d)) :
             (head \o d)[i] = IF i <= Len(head) THEN head[i] ELSE d[i - Len(head)]
    BY <1>5, ConcatProperties
  <2>2. QED
    BY <1>4, <1>5, <2>1
<1>7. \A j \in 1..w : Frame(d)[j] = head[j]
  BY <1>1, <1>6
<1>8. \A j \in 1..n : Frame(d)[w + j] = d[j]
  <2> TAKE j \in 1..n
  <2>1. j \in Nat /\ j >= 1 /\ j <= n /\ w \in Nat
    BY <1>1 DEF w
  <2>2. w + j \in 1..(w + n) /\ ~ (w + j <= w) /\ w + j - w = j
    BY <1>1, <2>1
  <2>3. Frame(d)[w + j] = d[w + j - w]
    BY <1>6, <2>1, <2>2
  <2>4. QED
    BY <2>2, <2>3
<1>9. QED
  BY <1>1, <1>5, <1>6, <1>7, <1>8 DEF w, head, v

\* What a length becomes between the two ends: itself, or none when the reader
\* takes no such frame.
LEMMA LengthIs ==
  ASSUME parser \in Parsers, NEW n \in Nat, n <= parser.send, parser.width + n < Word
  PROVE  /\ MsgLen(GetLen(PutLen((n + OwnLen) % Word))) = IF Unreadable(n) THEN Word ELSE n
         /\ Unreadable(n) \in BOOLEAN
<1> DEFINE w == parser.width
           top == Power[w]
           o == OwnLen
           v == (n + o) % Word
           r == GetLen(PutLen(v))
<1>1. w \in {1, 2, 4} /\ parser.includeHead \in BOOLEAN /\ parser.recv \in 1..(top - 1) /\ parser.send \in 1..(top - 1)
  BY ParserIs
<1>2. top \in Nat /\ w < top + 1 /\ top <= Word /\ Word \in Nat /\ (w # 4 => Word - w >= top)
  BY <1>1, WidthIs
<1>3. w = 4 => top = Word
  BY DEF Word
<1>4. (parser.includeHead => o = w) /\ (~ parser.includeHead => o = 0) /\ o \in Nat /\ o <= w
  BY <1>1 DEF OwnLen
<1>5. Truncated(n) <=> parser.includeHead /\ w < 4 /\ n + w >= top
  BY DEF Truncated
<1> HIDE DEF w, top, o
<1>6. w \in Nat /\ n + o < Word /\ n < top
  BY <1>1, <1>2, <1>4 DEF w
<1>7. v = n + o
  BY <1>2, <1>4, <1>6
<1>8. r = (n + o) % top
  <2> HIDE DEF v
  <2>1. v \in Nat
    BY <1>4, <1>7
  <2>2. r = v % Power[parser.width]
    BY <2>1, LengthCrosses
  <2>3. QED
    BY <1>7, <2>2 DEF top, w
<1> HIDE DEF v, r
<1>9. MsgLen(r) = LET l == (r + Word - o) % Word IN IF l > parser.recv THEN Word ELSE l
  BY DEF MsgLen, o
<1>10. CASE ~ Truncated(n)
  <2>1. n + o < top
    <3>1. CASE ~ parser.includeHead
      BY <1>4, <1>6, <3>1
    <3>2. CASE parser.includeHead /\ w = 4
      BY <1>3, <1>6, <3>2
    <3>3. CASE parser.includeHead /\ w # 4
      <4>1. w < 4
        BY <1>1, <3>3
      <4>2. QED
        BY <1>2, <1>4, <1>5, <1>6, <1>10, <3>3, <4>1
    <3>4. QED
      BY <3>1, <3>2, <3>3
  <2>2. r = n + o
    BY <1>2, <1>4, <1>8, <2>1
  <2>3. (r + Word - o) % Word = n
    <3>1. r + Word - o = Word + n /\ n < Word /\ Word >= 1
      BY <1>2, <1>4, <1>6, <2>2
    <3>2. (Word + n) % Word = n
      BY <1>2, <3>1, OneTurn
    <3>3. QED
      BY <3>1, <3>2
  <2>4. QED
    BY <1>9, <1>10, <2>3 DEF Unreadable, r, v, o
<1>11. CASE Truncated(n)
  <2>1. o = w /\ w # 4 /\ n + w >= top
    BY <1>1, <1>4, <1>5, <1>11
  <2>2. r = n + w - top
    <3> DEFINE x == n + w - top
    <3>1. n + w = top + x /\ x \in Nat /\ x < top /\ top >= 1
      BY <1>2, <1>6, <2>1
    <3> HIDE DEF x
    <3>2. (top + x) % top = x
      BY <1>2, <3>1, OneTurn
    <3>3. (n + w) % top = n + w - top
      BY <3>1, <3>2 DEF x
    <3>4. QED
      BY <1>8, <2>1, <3>3
  <2>3. r \in Nat /\ r < w
    BY <1>2, <1>6, <2>1, <2>2
  <2>4. (r + Word - w) % Word = r + Word - w /\ r + Word - w >= top
    BY <1>2, <1>6, <2>1, <2>3
  <2>5. parser.recv < top
    BY <1>1, <1>2 DEF top
  <2>6. r + Word - w > parser.recv
    <3>1. parser.recv \in Nat
      BY <1>1
    <3>2. QED
      BY <1>2, <1>6, <2>3, <2>4, <2>5, <3>1
  <2>7. MsgLen(r) = Word
    BY <1>9, <2>1, <2>4, <2>6
  <2>8. QED
    BY <1>11, <2>7 DEF Unreadable, r, v, o
<1>12. QED
  BY <1>10, <1>11

\* The first frame in the stream, once its length has arrived, is that of the
\* first message not read; the reader takes it whole, or refuses it.
LEMMA HeadOfStream ==
  ASSUME FrameInv, Len(stream) >= parser.width, NEW ends, NEW frames, FramesAt(ends, frames),
         NEW k, k = got + 1
  PROVE  /\ got < Len(written) /\ ends[k] = Len(frames[k])
         /\ \E m \in Carried :
              /\ written[k] = m /\ (TooLong <=> Lost(m))
              /\ FrameHere => /\ FrameData = Marshal(m)
                              /\ FrameSize \in Nat /\ Len(frames[k]) = parser.width + FrameSize
<1> DEFINE w == parser.width
           f == frames[k]
<1>1. /\ parser \in Parsers /\ written \in Seq(Carried) /\ stream \in Seq(Bytes) /\ got \in 0..Len(written)
  BY DEF FrameInv
<1>3. Len(stream) \in Nat /\ Len(written) \in Nat /\ w \in Nat /\ w >= 1 /\ got \in Nat
  <2>1. w \in {1, 2, 4}
    BY <1>1, ParserIs
  <2>2. QED
    BY <1>1, <2>1, LenProperties
<1>4. got < Len(written)
  <2> SUFFICES ASSUME ~ (got < Len(written)) PROVE FALSE
    OBVIOUS
  <2>1. got = Len(written)
    BY <1>1, <1>3
  <2>2. Len(stream) <= 0
    BY <2>1 DEF FramesAt
  <2>3. QED
    BY <1>3, <2>2
<1>5. k \in 1..Len(written) /\ k \in (got + 1)..Len(written) /\ k - 1 = got
  BY <1>3, <1>4
<1>6. PICK m \in Carried : written[k] = m
  BY <1>1, <1>5, ElementOfSeq
<1> DEFINE d == Marshal(m)
           n == Len(d)
           head == PutLen((n + OwnLen) % Word)
<1>7. d \in Seq(Bytes) /\ n \in Nat
  BY <1>1, MarshalIs
<1>10. f = Frame(d) /\ n <= parser.send /\ ~Overflows(d)
  BY <1>5, <1>6 DEF FramesAt, FrameFor, Fits
<1>8. w + n < Word
  <2>1. Word \in Nat
    BY PowerIs DEF Word
  <2> HIDE DEF d
  <2>2. QED
    BY <1>3, <1>7, <1>10, <2>1 DEF Overflows
<1>9. (\A j \in 1..Len(f) : j <= Len(stream) => stream[j] = f[j]) /\ ends[k] = ends[k-1] + Len(f) /\ ends[k-1] = 0
  <2>1. ends[got] = 0
    BY DEF FramesAt
  <2>2. \A j \in 1..Len(f) : ends[k-1] + j <= Len(stream) => stream[ends[k-1] + j] = f[j]
    BY <1>5 DEF FramesAt
  <2>3. ends[k] = ends[k-1] + Len(f)
    BY <1>5 DEF FramesAt
  <2> HIDE DEF f
  <2>4. ASSUME NEW j \in 1..Len(f), j <= Len(stream) PROVE stream[j] = f[j]
    <3>1. ends[k-1] + j = j
      BY <1>5, <2>1
    <3>2. QED
      BY <2>2, <2>4, <3>1
  <2>5. QED
    BY <1>5, <2>1, <2>3, <2>4
<1> HIDE DEF d, f
<1>11. /\ f \in Seq(Bytes) /\ Len(f) = w + n /\ head \in Seq(Bytes) /\ Len(head) = w
       /\ (\A j \in 1..w : f[j] = head[j]) /\ (\A j \in 1..n : f[w + j] = d[j])
  <2>1. LET ww == parser.width
            hh == PutLen((Len(d) + OwnLen) % Word)
        IN  /\ Frame(d) \in Seq(Bytes) /\ Len(Frame(d)) = ww + Len(d) /\ Len(d) \in Nat
            /\ hh \in Seq(Bytes) /\ Len(hh) = ww
            /\ \A j \in 1..ww : Frame(d)[j] = hh[j]
            /\ \A j \in 1..Len(d) : Frame(d)[ww + j] = d[j]
    BY <1>1, <1>7, FrameIs, Zenon
  <2>2. QED
    BY <1>10, <2>1
<1> HIDE DEF head, w
<1>12. SubSeq(stream, 1, w) = head
  <2>1. \A i \in 1..w : stream[0 + i] = head[i]
    <3> TAKE i \in 1..w
    <3>1. i \in 1..Len(f) /\ i <= Len(stream) /\ 0 + i = i
      BY <1>3, <1>7, <1>11 DEF w
    <3>2. QED
      BY <1>9, <1>11, <3>1
  <2>2. 0 + 1 = 1 /\ 0 + w = w /\ 0 \in Nat /\ 0 + Len(head) <= Len(stream)
    BY <1>3, <1>11 DEF w
  <2>3. SubSeq(stream, 0 + 1, 0 + Len(head)) = head
    BY <1>1, <1>11, <2>1, <2>2, PartIs
  <2>4. QED
    BY <1>11, <2>2, <2>3
<1>13. FrameSize = IF Unreadable(n) THEN Word ELSE n
  <2>1. FrameSize = MsgLen(GetLen(SubSeq(stream, 1, w)))
    BY <1>3 DEF FrameSize, w
  <2>2. FrameSize = MsgLen(GetLen(PutLen((n + OwnLen) % Word)))
    BY <1>12, <2>1 DEF head
  <2> HIDE DEF n
  <2>3. QED
    BY <1>1, <1>7, <1>8, <1>10, <2>2, LengthIs DEF w
<1>14. n # Word
  <2>1. Word \in Nat
    BY PowerIs DEF Word
  <2>2. QED
    BY <1>3, <1>7, <1>8, <2>1
<1>15. TooLong <=> Unreadable(n)
  <2> HIDE DEF n
  <2>1. QED
    BY <1>13, <1>14 DEF TooLong
<1>16. ASSUME FrameHere PROVE FrameData = d /\ FrameSize \in Nat /\ Len(f) = w + FrameSize
  <2>1. FrameSize = n /\ Len(stream) >= w + n
    BY <1>13, <1>15, <1>16 DEF FrameHere, w
  <2>2. \A i \in 1..Len(d) : stream[w + i] = d[i]
    <3> TAKE i \in 1..Len(d)
    <3>1. w + i \in 1..Len(f) /\ w + i <= Len(stream)
      BY <1>3, <1>7, <1>11, <2>1
    <3>2. QED
      BY <1>9, <1>11, <3>1
  <2>3. SubSeq(stream, w + 1, w + n) = d
    BY <1>1, <1>3, <1>7, <2>1, <2>2, PartIs
  <2>4. QED
    BY <1>7, <1>11, <2>1, <2>3 DEF FrameData, w
<1>17. TooLong <=> Lost(m)
  BY <1>15 DEF Lost, d
<1>18. ends[k] = Len(f)
  <2>1. Len(f) \in Nat
    BY <1>11, LenProperties
  <2>2. QED
    BY <1>9, <2>1
<1>19. QED
  BY <1>4, <1>6, <1>16, <1>17, <1>18 DEF d, f, w

\* What a message adds to the messages that handlers are meant for.
Grown(v, m) == IF m.id # HeartBeat /\ m.body # <<>> THEN Append(v, m) ELSE v

Growing(f, s, n) == f[0] = <<>> /\ \A i \in 1..n : f[i] = Grown(f[i-1], s[i])

\* A function that grows in this way ends with the messages that Meant selects.
LEMMA MeantIs ==
  ASSUME NEW s, NEW n \in Nat, NEW f, Growing(f, s, n)
  PROVE  Meant(s, n) = f[n]
<1>0. f[0] = <<>> /\ \A i \in 1..n : f[i] = Grown(f[i-1], s[i])
  BY DEF Growing
<1> DEFINE meant == CHOOSE g : g = [i \in 0..n |->
                      IF i = 0 THEN <<>>
                      ELSE IF s[i].id # HeartBeat /\ s[i].body # <<>> THEN Append(g[i-1], s[i]) ELSE g[i-1]]
           h == [i \in 0..n |-> f[i]]
<1>1. Meant(s, n) = meant[n]
  BY DEF Meant
<1>2. \A i \in 0..n : h[i] = f[i]
  OBVIOUS
<1>3. h = [i \in 0..n |-> h[i]]
  OBVIOUS
<1> HIDE DEF h
<1>4. \A i \in 0..n : i = 0 \/ (i \in 1..n /\ i - 1 \in 0..n)
  OBVIOUS
<1>5. \A i \in 0..n : h[i] = IF i = 0 THEN <<>>
                        ELSE IF s[i].id # HeartBeat /\ s[i].body # <<>> THEN Append(h[i-1], s[i]) ELSE h[i-1]
  <2> TAKE i \in 0..n
  <2>1. CASE i = 0
    BY <1>0, <1>2, <2>1
  <2>2. CASE i # 0
    <3>1. i \in 1..n /\ i - 1 \in 0..n
      BY <1>4, <2>2
    <3>2. h[i] = f[i] /\ h[i-1] = f[i-1] /\ f[i] = Grown(f[i-1], s[i])
      BY <1>0, <1>2, <3>1
    <3>3. QED
      BY <2>2, <3>2 DEF Grown
  <2>3. QED
    BY <2>1, <2>2
<1>6. h = [i \in 0..n |-> IF i = 0 THEN <<>>
             ELSE IF s[i].id # HeartBeat /\ s[i].body # <<>> THEN Append(h[i-1], s[i]) ELSE h[i-1]]
  BY <1>3, <1>5, Zenon
<1>7. meant = [i \in 0..n |-> IF i = 0 THEN <<>>
                ELSE IF s[i].id # HeartBeat /\ s[i].body # <<>> THEN Append(meant[i-1], s[i]) ELSE meant[i-1]]
  BY <1>6
<1> HIDE DEF meant
<1>8. \A i \in 0..n : meant[i] = IF i = 0 THEN <<>>
                        ELSE IF s[i].id # HeartBeat /\ s[i].body # <<>> THEN Append(meant[i-1], s[i]) ELSE meant[i-1]
  BY <1>7, Zenon
<1> DEFINE P == {i \in 0..n : meant[i] = h[i]}
<1>9. 0 \in P
  BY <1>5, <1>8
<1>10. \A i \in 0..n : i \in P /\ i < n => i + 1 \in P
  <2> SUFFICES ASSUME NEW i \in 0..n, i \in P, i < n PROVE i + 1 \in P
    OBVIOUS
  <2>1. i + 1 \in 0..n /\ i + 1 # 0 /\ i + 1 - 1 = i
    OBVIOUS
  <2> DEFINE k == i + 1
  <2>2. k \in 0..n /\ k # 0 /\ k - 1 = i
    BY <2>1
  <2> HIDE DEF k
  <2>3. meant[k] = h[k]
    BY <1>5, <1>8, <2>2
  <2>4. k \in P
    BY <2>2, <2>3
  <2>5. QED
    BY <2>4 DEF k
<1> HIDE DEF P
<1>11. \A i \in 0..n : i \in P
  BY <1>9, <1>10, IntervalInduction
<1>12. meant[n] = h[n] /\ h[n] = f[n]
  BY <1>2, <1>11 DEF P
<1>13. QED
  BY <1>1, <1>12

\* There is such a function.
LEMMA MeantGrows ==
  ASSUME NEW S, NEW s, NEW n \in Nat, \A i \in 1..n : s[i] \in S
  PROVE  \E f \in [0..n -> Seq(S)] : Growing(f, s, n)
<1> DEFINE V == Seq(S)
           step == [p \in (0..n) \X V |-> IF p[1] = 0 THEN p[2] ELSE Grown(p[2], s[p[1]])]
<1>1. \A i \in 0..n, v \in V : step[<<i, v>>] = IF i = 0 THEN v ELSE Grown(v, s[i])
  OBVIOUS
<1> HIDE DEF step
<1>2. StepsIn(step, 0, n, V)
  <2> SUFFICES ASSUME NEW i \in 0..n, NEW v \in V PROVE step[<<i, v>>] \in V
    BY DEF StepsIn
  <2>1. CASE i = 0
    BY <1>1, <2>1
  <2>2. CASE i # 0
    <3>1. s[i] \in S
      BY <2>2
    <3>2. Append(v, s[i]) \in V
      BY <3>1, AppendProperties
    <3>3. QED
      BY <1>1, <2>2, <3>2 DEF Grown
  <2>3. QED
    BY <2>1, <2>2
<1>3. <<>> \in V /\ 0 \in Nat /\ 0 <= n
  OBVIOUS
<1> HIDE DEF V
<1>4. PICK f : Recursive(f, step, 0, n, V, <<>>)
  BY <1>2, <1>3, RecursionExists
<1>5. f \in [0..n -> V] /\ f[0] = <<>> /\ \A i \in 0..n : i # 0 => f[i] = step[<<i, f[i-1]>>]
  BY <1>4 DEF Recursive
<1>6. \A i \in 1..n : f[i] = Grown(f[i-1], s[i])
  <2> TAKE i \in 1..n
  <2>1. i \in 0..n /\ i # 0 /\ i - 1 \in 0..n
    OBVIOUS
  <2>2. f[i] = step[<<i, f[i-1]>>] /\ f[i-1] \in V
    BY <1>5, <2>1
  <2>3. QED
    BY <1>1, <2>1, <2>2
<1>7. QED
  BY <1>5, <1>6 DEF V, Growing

\* The messages meant for handlers grow with the messages read, and do not
\* depend on those behind.
LEMMA MeantNext ==
  ASSUME NEW S, NEW s \in Seq(S), NEW n \in Nat, n < Len(s)
  PROVE  Meant(s, n) \in Seq(S) /\ Meant(s, n + 1) = Grown(Meant(s, n), s[n+1])
<1> DEFINE k == n + 1
<1>1. k \in Nat /\ \A i \in 1..k : s[i] \in S
  BY LenProperties, ElementOfSeq
<1>2. n \in 0..k /\ k \in 1..k /\ k - 1 = n /\ \A i \in 1..n : i \in 1..k
  OBVIOUS
<1> HIDE DEF k
<1>3. PICK f \in [0..k -> Seq(S)] : Growing(f, s, k)
  BY <1>1, MeantGrows
<1>4. Meant(s, k) = f[k]
  BY <1>1, <1>3, MeantIs
<1>5. Meant(s, n) = f[n]
  <2>1. Growing(f, s, n)
    BY <1>2, <1>3 DEF Growing
  <2>2. QED
    BY <2>1, MeantIs
<1>6. f[n] \in Seq(S) /\ f[k] = Grown(f[n], s[k])
  BY <1>2, <1>3 DEF Growing
<1>7. QED
  BY <1>4, <1>5, <1>6 DEF k

\* What the first frames meant does not change with one more.
LEMMA MeantAppend ==
  ASSUME NEW S, NEW s \in Seq(S), NEW m \in S, NEW n \in 0..Len(s)
  PROVE  Meant(Append(s, m), n) = Meant(s, n)
<1> DEFINE t == Append(s, m)
<1>1. n \in Nat /\ \A i \in 1..n : s[i] \in S /\ t[i] = s[i]
  <2>1. Len(s) \in Nat /\ n \in Nat /\ \A i \in 1..Len(s) : t[i] = s[i] /\ s[i] \in S
    BY LenProperties, ElementOfSeq, AppendProperties
  <2>2. \A i \in 1..n : i \in 1..Len(s)
    BY <2>1
  <2>3. QED
    BY <2>1, <2>2
<1> HIDE DEF t
<1>2. PICK f \in [0..n -> Seq(S)] : Growing(f, s, n)
  BY <1>1, MeantGrows
<1>3. Meant(s, n) = f[n]
  BY <1>1, <1>2, MeantIs
<1>4. Meant(t, n) = f[n]
  <2>1. Growing(f, t, n)
    BY <1>1, <1>2 DEF Growing
  <2>2. QED
    BY <1>1, <2>1, MeantIs
<1>5. QED
  BY <1>3, <1>4 DEF t

\* Of no frame read nothing was meant for a handler.
LEMMA MeantNone == ASSUME NEW s PROVE Meant(s, 0) = <<>>
<1>1. PICK f : f = [i \in 0..0 |-> <<>>]
  OBVIOUS
<1>2. f[0] = <<>> /\ 0 \in Nat
  BY <1>1
<1>3. Growing(f, s, 0)
  BY <1>2 DEF Growing
<1>4. QED
  BY <1>2, <1>3, MeantIs

(* ------------------------- Framing: its actions ------------------------- *)

\* A step that leaves the parser alone changes nothing of what becomes of a
\* message.
LEMMA SameParser ==
  ASSUME parser' = parser, NEW m
  PROVE  /\ FrameFor(m)' = FrameFor(m) /\ (Fits(m)' <=> Fits(m)) /\ (Lost(m)' <=> Lost(m))
         /\ Carried' = Carried
<1>1. FrameFor(m)' = FrameFor(m)
  BY DEF FrameFor, Frame, Marshal, PutLen, ByteOrder, OwnLen
<1>2. Fits(m)' <=> Fits(m)
  BY DEF Fits, Marshal, Overflows
<1>3. Lost(m)' <=> Lost(m)
  BY DEF Lost, Marshal, Unreadable, Truncated
<1>4. Carried' = Carried
  BY DEF Carried
<1>5. QED
  BY <1>1, <1>2, <1>3, <1>4

\* Nothing has been written at first.
LEMMA FrameInvInit == FrameInit => FrameInv
<1> SUFFICES ASSUME FrameInit PROVE FrameInv
  OBVIOUS
<1> USE DEF FrameInit
<1>1. Len(written) = 0 /\ written \in Seq(Carried) /\ stream \in Seq(Bytes) /\ Len(stream) = 0
  OBVIOUS
<1>2. handled = Meant(written, got)
  BY MeantNone
<1>3. PICK ends : ends = [i \in 0..0 |-> 0]
  OBVIOUS
<1>4. FramesAt(ends, <<>>)
  BY <1>1, <1>3 DEF FramesAt
<1>5. 0 <= MaxMessages
  BY FramingAssumption
<1>6. QED
  BY <1>1, <1>2, <1>4, <1>5 DEF FrameInv

\* A message that is written goes behind those on their way.
LEMMA FrameInvWrite ==
  ASSUME FrameInv, NEW m \in Carried, WriteMessage(m)
  PROVE  FrameInv'
<1>1. /\ parser \in Parsers /\ written \in Seq(Carried) /\ stream \in Seq(Bytes) /\ got \in 0..Len(written)
      /\ Len(written) <= MaxMessages /\ handled = Meant(written, got)
      /\ reader \in {"open", "refused", "eof"}
      /\ reader = "refused" => got < Len(written) /\ \A n \in Carried : written[got + 1] = n => Lost(n)
  BY DEF FrameInv
<1>2. parser' = parser /\ reader' = reader /\ got' = got /\ handled' = handled
      /\ writer = "open" /\ Len(written) < MaxMessages
  BY DEF WriteMessage
<1>3. Carried' = Carried /\ \A n : FrameFor(n)' = FrameFor(n) /\ (Fits(n)' <=> Fits(n)) /\ (Lost(n)' <=> Lost(n))
  BY <1>2, SameParser
<1>4. PICK ends, frames : FramesAt(ends, frames)
  BY DEF FrameInv
<1>5. CASE Len(Marshal(m)) > parser.send \/ Overflows(Marshal(m))
  <2>1. writer' = "ended" /\ stream' = stream /\ written' = written
    BY <1>5 DEF WriteMessage
  <2>2. FramesAt(ends, frames)'
    BY <1>2, <1>3, <1>4, <2>1 DEF FramesAt
  <2>3. (\E e, f : FramesAt(e, f))'
    BY <2>2
  <2>4. QED
    BY <1>1, <1>2, <1>3, <2>1, <2>3 DEF FrameInv
<1>6. CASE ~ (Len(Marshal(m)) > parser.send \/ Overflows(Marshal(m)))
  <2> DEFINE f == FrameFor(m)
             L == Len(written)
  <2>1. writer' = "open" /\ stream' = stream \o f /\ written' = Append(written, m)
    BY <1>2, <1>6 DEF WriteMessage, FrameFor
  <2>2. f \in Seq(Bytes) /\ Len(f) \in Nat /\ L \in Nat /\ Len(stream) \in Nat /\ Fits(m) /\ got \in 0..L
    <3>1. Marshal(m) \in Seq(Bytes) /\ Len(Marshal(m)) \in Nat
      BY <1>1, MarshalIs
    <3>2. f \in Seq(Bytes)
      BY <1>1, <3>1, FrameIs DEF FrameFor
    <3>3. Fits(m)
      <4>1. parser.send \in Nat
        BY <1>1, ParserIs
      <4>2. QED
        BY <1>6, <3>1, <4>1 DEF Fits
    <3>4. QED
      BY <1>1, <3>2, <3>3, LenProperties
  <2> HIDE DEF f
  <2>3. /\ stream' \in Seq(Bytes) /\ Len(stream') = Len(stream) + Len(f)
        /\ (\A i \in 1..Len(stream) : stream'[i] = stream[i])
        /\ (\A j \in 1..Len(f) : stream'[Len(stream) + j] = f[j])
    <3>1. /\ stream' \in Seq(Bytes) /\ Len(stream') = Len(stream) + Len(f)
          /\ \A i \in 1..(Len(stream) + Len(f)) :
               stream'[i] = IF i <= Len(stream) THEN stream[i] ELSE f[i - Len(stream)]
      BY <1>1, <2>1, <2>2, ConcatProperties
    <3>2. \A i \in 1..Len(stream) : stream'[i] = stream[i]
      BY <2>2, <3>1
    <3>3. \A j \in 1..Len(f) : stream'[Len(stream) + j] = f[j]
      <4> TAKE j \in 1..Len(f)
      <4>1. /\ Len(stream) + j \in 1..(Len(stream) + Len(f)) /\ ~ (Len(stream) + j <= Len(stream))
            /\ Len(stream) + j - Len(stream) = j
        BY <2>2
      <4>2. QED
        BY <2>2, <3>1, <4>1
    <3>4. QED
      BY <3>1, <3>2, <3>3
  <2>4. /\ written' \in Seq(Carried) /\ Len(written') = L + 1
        /\ (\A i \in 1..L : written'[i] = written[i]) /\ written'[L + 1] = m
    BY <1>1, <2>1, AppendProperties
  <2>5. /\ ends \in [got..L -> Nat] /\ ends[got] = 0
        /\ \A i \in (got + 1)..L : ends[i] = ends[i-1] + Len(frames[i])
        /\ \A i, j \in got..L : i <= j => ends[i] <= ends[j]
        /\ \A i \in (got + 1)..L : \A j \in 1..Len(frames[i]) :
             ends[i-1] + j <= Len(stream) => stream[ends[i-1] + j] = frames[i][j]
        /\ Len(stream) = ends[L]
        /\ \A i \in 1..L, n \in Carried : written[i] = n => frames[i] = FrameFor(n) /\ Fits(n)
    BY <1>2, <1>4 DEF FramesAt
  <2> DEFINE newEnds == [i \in got..(L + 1) |-> IF i = L + 1 THEN ends[L] + Len(f) ELSE ends[i]]
             newFrames == [i \in 1..(L + 1) |-> IF i = L + 1 THEN f ELSE frames[i]]
  <2>a. PICK e, g : e = newEnds /\ g = newFrames
    OBVIOUS
  <2>6. /\ (\A i \in got..L : e[i] = ends[i] /\ e[i] \in Nat) /\ e[L + 1] = ends[L] + Len(f)
        /\ e \in [got..(L + 1) -> Nat]
        /\ (\A i \in 1..L : g[i] = frames[i]) /\ g[L + 1] = f
    <3>1. got \in Nat /\ L + 1 \in got..(L + 1) /\ L \in got..L
      BY <2>2
    <3>2. ends[L] \in Nat /\ ends[L] + Len(f) \in Nat
      BY <2>2, <2>5, <3>1
    <3> DEFINE top == ends[L] + Len(f)
    <3>3. top \in Nat
      BY <3>2
    <3>4. \A i \in got..L : ends[i] \in Nat
      BY <2>5
    <3> HIDE DEF top
    <3>5. \A i \in got..(L + 1) : i = L + 1 \/ i \in got..L
      BY <2>2
    <3>6. \A i \in got..L : i # L + 1 /\ i \in got..(L + 1)
      BY <2>2
    <3>7. \A i \in 1..L : i # L + 1 /\ i \in 1..(L + 1)
      BY <2>2
    <3>8. e = [i \in got..(L + 1) |-> IF i = L + 1 THEN top ELSE ends[i]]
      BY <2>a DEF top
    <3>9. L + 1 \in 1..(L + 1)
      BY <2>2
    <3>10. e \in [got..(L + 1) -> Nat]
      BY <3>3, <3>4, <3>5, <3>8
    <3>11. (\A i \in got..L : e[i] = ends[i] /\ e[i] \in Nat) /\ e[L + 1] = top
      BY <3>1, <3>4, <3>6, <3>8
    <3>12. (\A i \in 1..L : g[i] = frames[i]) /\ g[L + 1] = f
      BY <2>a, <3>7, <3>9
    <3>13. QED
      BY <3>10, <3>11, <3>12 DEF top
  <2> HIDE DEF newEnds, newFrames, L
  <2>7. \A i \in 1..(L + 1), n \in Carried : written'[i] = n => g[i] = FrameFor(n) /\ Fits(n)
    <3> SUFFICES ASSUME NEW i \in 1..(L + 1), NEW n \in Carried, written'[i] = n PROVE g[i] = FrameFor(n) /\ Fits(n)
      OBVIOUS
    <3>1. CASE i = L + 1
      BY <2>2, <2>4, <2>6, <3>1 DEF f
    <3>2. CASE i # L + 1
      <4>1. i \in 1..L
        BY <2>2, <3>2
      <4>2. written[i] = n
        BY <2>4, <4>1
      <4>3. QED
        BY <2>5, <2>6, <4>1, <4>2
    <3>3. QED
      BY <3>1, <3>2
  <2>8. \A i \in (got + 1)..(L + 1) : e[i] = e[i-1] + Len(g[i])
    <3> TAKE i \in (got + 1)..(L + 1)
    <3>1. CASE i = L + 1
      <4>1. i - 1 = L /\ L \in got..L
        BY <2>2, <3>1
      <4>2. QED
        BY <2>6, <3>1, <4>1
    <3>2. CASE i # L + 1
      <4>1. i \in got..L /\ i - 1 \in got..L /\ i \in (got + 1)..L /\ i \in 1..L
        BY <2>2, <3>2
      <4>2. QED
        BY <2>5, <2>6, <4>1
    <3>3. QED
      BY <3>1, <3>2
  <2>9. \A i, j \in got..(L + 1) : i <= j => e[i] <= e[j]
    <3> SUFFICES ASSUME NEW i \in got..(L + 1), NEW j \in got..(L + 1), i <= j PROVE e[i] <= e[j]
      OBVIOUS
    <3>1. L \in got..L /\ ends[L] \in Nat
      BY <2>2, <2>5
    <3>2. CASE i = L + 1
      <4>1. j = L + 1
        BY <2>2, <3>2
      <4>2. QED
        BY <2>2, <2>6, <3>1, <3>2, <4>1
    <3>3. CASE i # L + 1
      <4>1. i \in got..L /\ i <= L
        BY <2>2, <3>3
      <4>2. ends[i] <= ends[L] /\ ends[i] \in Nat /\ e[i] = ends[i]
        BY <2>5, <2>6, <3>1, <4>1
      <4>3. CASE j = L + 1
        BY <2>2, <2>6, <3>1, <4>2, <4>3
      <4>4. CASE j # L + 1
        <5>1. j \in got..L
          BY <2>2, <4>4
        <5>2. QED
          BY <2>5, <2>6, <4>1, <5>1
      <4>5. QED
        BY <4>3, <4>4
    <3>4. QED
      BY <3>2, <3>3
  <2>10. \A i \in (got + 1)..(L + 1) : \A j \in 1..Len(g[i]) :
           e[i-1] + j <= Len(stream') => stream'[e[i-1] + j] = g[i][j]
    <3> SUFFICES ASSUME NEW i \in (got + 1)..(L + 1), NEW j \in 1..Len(g[i])
                 PROVE  stream'[e[i-1] + j] = g[i][j]
      OBVIOUS
    <3>1. CASE i = L + 1
      <4>1. i - 1 = L /\ L \in got..L
        BY <2>2, <3>1
      <4>2. e[i-1] = Len(stream) /\ g[i] = f
        BY <2>5, <2>6, <3>1, <4>1
      <4>3. QED
        BY <2>3, <4>2
    <3>2. CASE i # L + 1
      <4>1. i \in got..L /\ i - 1 \in got..L /\ i \in (got + 1)..L /\ i \in 1..L /\ L \in got..L /\ i <= L
        BY <2>2, <3>2
      <4>2. e[i-1] = ends[i-1] /\ g[i] = frames[i] /\ ends[i-1] \in Nat
        BY <2>6, <4>1
      <4>3. ends[i] = ends[i-1] + Len(frames[i]) /\ ends[i] <= ends[L] /\ ends[i] \in Nat
        BY <2>5, <4>1
      <4>4. j \in Nat /\ j >= 1 /\ j <= Len(g[i])
        OBVIOUS
      <4> DEFINE x == ends[i-1] + j
                 y == Len(frames[i])
      <4>5. y \in Nat
        <5>1. PICK n \in Carried : written[i] = n
          BY <1>1, <4>1, ElementOfSeq DEF L
        <5>2. Marshal(n) \in Seq(Bytes)
          BY <1>1, MarshalIs
        <5>3. FrameFor(n) \in Seq(Bytes)
          BY <1>1, <5>2, FrameIs DEF FrameFor
        <5>4. frames[i] = FrameFor(n)
          BY <2>5, <4>1, <5>1
        <5>5. QED
          BY <5>3, <5>4, LenProperties
      <4>6. j <= y
        BY <4>2, <4>4
      <4> HIDE DEF y
      <4>7. x \in 1..Len(stream)
        <5>1. ends[i] = ends[i-1] + y
          BY <4>3 DEF y
        <5>2. Len(stream) = ends[L]
          BY <2>5
        <5>3. \A a, b, c, k \in Nat : k >= 1 /\ k <= b /\ a + b <= c => a + k \in 1..c
          OBVIOUS
        <5>4. ends[i-1] + y <= Len(stream) /\ j <= y /\ j \in Nat /\ j >= 1
          BY <4>3, <4>4, <4>6, <5>1, <5>2
        <5>5. QED
          BY <2>2, <4>2, <4>5, <5>3, <5>4
      <4>8. stream[x] = frames[i][j]
        <5>1. j \in 1..Len(frames[i]) /\ x <= Len(stream)
          BY <2>2, <4>2, <4>7
        <5>2. QED
          BY <2>5, <4>1, <5>1
      <4> HIDE DEF x
      <4>9. stream'[x] = stream[x]
        BY <2>3, <4>7
      <4>10. QED
        BY <4>2, <4>8, <4>9 DEF x
    <3>3. QED
      BY <3>1, <3>2
  <2>11. Len(stream') = e[L + 1]
    <3>1. L \in got..L
      BY <2>2
    <3>2. QED
      BY <2>3, <2>5, <2>6
  <2>12. FramesAt(e, g)'
    <3>1. ends[got] = 0 /\ got \in got..L
      BY <2>2, <2>5
    <3>2. e[got] = 0
      BY <2>6, <3>1
    <3>3. e[L + 1] \in Nat
      BY <2>2, <2>3, <2>11
    <3>4. Len(stream') <= e[L + 1]
      BY <2>11, <3>3
    <3>5. \A i \in 1..Len(written'), n \in Carried' : written'[i] = n => g[i] = FrameFor(n)' /\ Fits(n)'
      BY <1>3, <2>4, <2>7
    <3>6. got' = got /\ Len(written') = L + 1 /\ writer' # "cut"
      BY <1>2, <2>1, <2>4
    <3>7. e \in [got'..Len(written') -> Nat] /\ e[got'] = 0
      BY <2>6, <3>2, <3>6
    <3>8. \A i \in (got' + 1)..Len(written') : e[i] = e[i-1] + Len(g[i])
      BY <2>8, <3>6
    <3>9. \A i, j \in got'..Len(written') : i <= j => e[i] <= e[j]
      BY <2>9, <3>6
    <3>10. \A i \in (got' + 1)..Len(written') : \A j \in 1..Len(g[i]) :
             e[i-1] + j <= Len(stream') => stream'[e[i-1] + j] = g[i][j]
      BY <2>10, <3>6
    <3>11. Len(stream') <= e[Len(written')] /\ Len(stream') = e[Len(written')]
      BY <2>11, <3>4, <3>6
    <3>12. QED
      BY <3>5, <3>7, <3>8, <3>9, <3>10, <3>11 DEF FramesAt
  <2>13. (\E ee, ff : FramesAt(ee, ff))'
    BY <2>12
  <2>14. handled' = Meant(written', got')
    <3>1. Meant(Append(written, m), got) = Meant(written, got)
      BY <1>1, MeantAppend
    <3>2. QED
      BY <1>1, <1>2, <2>1, <3>1
  <2>15. reader' = "refused" => got' < Len(written') /\ \A n \in Carried' : written'[got' + 1] = n => Lost(n)'
    <3> SUFFICES ASSUME reader' = "refused" PROVE got' < Len(written') /\ \A n \in Carried' : written'[got' + 1] = n => Lost(n)'
      OBVIOUS
    <3>1. got < L /\ \A n \in Carried : written[got + 1] = n => Lost(n)
      BY <1>1, <1>2 DEF L
    <3>2. got + 1 \in 1..L
      BY <2>2, <3>1
    <3>3. written'[got + 1] = written[got + 1]
      BY <2>4, <3>2
    <3>4. got' < Len(written')
      BY <1>2, <2>2, <2>4, <3>1
    <3>5. QED
      BY <1>2, <1>3, <3>1, <3>3, <3>4
  <2>16. got' \in 0..Len(written') /\ Len(written') <= MaxMessages
    <3>1. MaxMessages \in Nat
      BY FramingAssumption
    <3>2. QED
      BY <1>2, <2>2, <2>4, <3>1 DEF L
  <2>17. QED
    BY <1>1, <1>2, <1>3, <2>1, <2>3, <2>4, <2>13, <2>14, <2>15, <2>16 DEF FrameInv
<1>7. QED
  BY <1>5, <1>6

\* What is cut off is the end of the stream.
LEMMA FrameInvBreak ==
  ASSUME FrameInv, NEW n \in Cuts, Break(n)
  PROVE  FrameInv'
<1>1. /\ parser \in Parsers /\ written \in Seq(Carried) /\ stream \in Seq(Bytes) /\ got \in 0..Len(written)
      /\ Len(written) <= MaxMessages /\ handled = Meant(written, got)
      /\ reader \in {"open", "refused", "eof"}
      /\ reader = "refused" => got < Len(written) /\ \A m \in Carried : written[got + 1] = m => Lost(m)
  BY DEF FrameInv
<1>2. /\ parser' = parser /\ reader' = reader /\ got' = got /\ handled' = handled /\ written' = written
      /\ writer' = "cut" /\ n <= Len(stream) /\ stream' = SubSeq(stream, 1, n)
  BY DEF Break
<1>3. Carried' = Carried /\ \A m : FrameFor(m)' = FrameFor(m) /\ (Fits(m)' <=> Fits(m)) /\ (Lost(m)' <=> Lost(m))
  BY <1>2, SameParser
<1>4. PICK ends, frames : FramesAt(ends, frames)
  BY DEF FrameInv
<1>5. n \in Nat /\ Len(stream) \in Nat
  BY <1>1, FramingAssumption, LenProperties
<1>6. stream' \in Seq(Bytes) /\ Len(stream') = n /\ \A i \in 1..n : stream'[i] = stream[i]
  <2>1. \A i \in 1..n : stream[i] \in Bytes
    BY <1>1, <1>2, <1>5, ElementOfSeq
  <2>2. /\ SubSeq(stream, 1, n) \in Seq(Bytes)
        /\ Len(SubSeq(stream, 1, n)) = IF 1 <= n THEN n - 1 + 1 ELSE 0
        /\ \A i \in 1..(n - 1 + 1) : SubSeq(stream, 1, n)[i] = stream[1 + i - 1]
    BY <1>5, <2>1, SubSeqProperties
  <2>3. n - 1 + 1 = n /\ \A i \in 1..n : 1 + i - 1 = i
    BY <1>5
  <2>4. QED
    BY <1>2, <1>5, <2>2, <2>3
<1>7. FramesAt(ends, frames)'
  <2>1. ends \in [got..Len(written) -> Nat] /\ Len(stream) <= ends[Len(written)]
        /\ \A i \in (got + 1)..Len(written) : \A j \in 1..Len(frames[i]) :
             ends[i-1] + j <= Len(stream) => stream[ends[i-1] + j] = frames[i][j]
    BY <1>4 DEF FramesAt
  <2>2. \A i \in (got + 1)..Len(written) : \A j \in 1..Len(frames[i]) :
          ends[i-1] + j <= Len(stream') => stream'[ends[i-1] + j] = frames[i][j]
    <3> SUFFICES ASSUME NEW i \in (got + 1)..Len(written), NEW j \in 1..Len(frames[i]),
                        ends[i-1] + j <= Len(stream')
                 PROVE  stream'[ends[i-1] + j] = frames[i][j]
      OBVIOUS
    <3>1. i - 1 \in got..Len(written)
      BY <1>1, LenProperties
    <3>2. ends[i-1] \in Nat
      BY <2>1, <3>1
    <3>3. ends[i-1] + j \in 1..n /\ ends[i-1] + j <= Len(stream)
      BY <1>2, <1>5, <1>6, <3>2
    <3>4. QED
      BY <1>6, <2>1, <3>3
  <2>3. Len(written) \in got..Len(written)
    BY <1>1, LenProperties
  <2>4. Len(stream') <= ends[Len(written)]
    BY <1>2, <1>5, <1>6, <2>1, <2>3
  <2>5. QED
    BY <1>2, <1>3, <1>4, <2>2, <2>4 DEF FramesAt
<1>8. (\E e, f : FramesAt(e, f))'
  BY <1>7
<1>9. QED
  BY <1>1, <1>2, <1>3, <1>6, <1>8 DEF FrameInv

\* The head of a frame says the same of its data as of the message's.
LEMMA DataOf ==
  ASSUME NEW d, FrameData = d
  PROVE  Unmarshal(FrameData) = Unmarshal(d) /\ (HeadHere(FrameData) <=> HeadHere(d))
  BY DEF Unmarshal, HeadHere, HeadLen

\* A message is received as it was written.
LEMMA FrameInvReceive ==
  ASSUME FrameInv, Receive
  PROVE  FrameInv'
<1>1. /\ parser \in Parsers /\ written \in Seq(Carried) /\ stream \in Seq(Bytes) /\ got \in 0..Len(written)
      /\ Len(written) <= MaxMessages /\ handled = Meant(written, got)
      /\ writer \in {"open", "ended", "cut"}
  BY DEF FrameInv
<1>2. /\ parser' = parser /\ reader' = reader /\ writer' = writer /\ written' = written /\ reader = "open"
      /\ got' = got + 1 /\ FrameHere /\ stream' = Behind
  BY DEF Receive
<1>3. Carried' = Carried /\ \A m : FrameFor(m)' = FrameFor(m) /\ (Fits(m)' <=> Fits(m)) /\ (Lost(m)' <=> Lost(m))
  BY <1>2, SameParser
<1>4. PICK ends, frames : FramesAt(ends, frames)
  BY DEF FrameInv
<1>5. PICK L, k, w : L = Len(written) /\ k = got + 1 /\ w = parser.width
  OBVIOUS
<1>6. w \in Nat /\ w >= 1 /\ L \in Nat /\ got \in Nat /\ k \in Nat /\ Len(stream) \in Nat
  <2>1. parser.width \in {1, 2, 4}
    BY <1>1, ParserIs
  <2>2. Len(written) \in Nat /\ Len(stream) \in Nat /\ got \in Nat
    BY <1>1, LenProperties
  <2>3. QED
    BY <1>5, <2>1, <2>2
<1>7. Len(stream) >= w /\ Len(stream) >= w + FrameSize
  <2>1. Word \in Nat
    BY PowerIs DEF Word
  <2>2. Len(stream) >= w
    <3> SUFFICES ASSUME Len(stream) < w PROVE FALSE
      BY <1>6
    <3>1. FrameSize = Word
      BY <1>5 DEF FrameSize
    <3>2. Len(stream) >= w + Word
      BY <1>2, <1>5, <3>1 DEF FrameHere
    <3>3. QED
      BY <1>6, <2>1, <3>2
  <2>3. Len(stream) >= w + FrameSize
    BY <1>2, <1>5 DEF FrameHere
  <2>4. QED
    BY <2>2, <2>3
<1>8. got < L /\ ends[k] = Len(frames[k])
  BY <1>4, <1>5, <1>7, HeadOfStream
<1>9. PICK m \in Carried : /\ written[k] = m /\ FrameData = Marshal(m)
                           /\ FrameSize \in Nat /\ Len(frames[k]) = w + FrameSize
  BY <1>2, <1>4, <1>5, <1>7, HeadOfStream
<1>10. PICK F : F = w + FrameSize
  OBVIOUS
<1>11. F \in Nat /\ F <= Len(stream) /\ Len(frames[k]) = F /\ ends[k] = F
  BY <1>6, <1>7, <1>8, <1>9, <1>10
<1>12. /\ stream' \in Seq(Bytes) /\ Len(stream') = Len(stream) - F
       /\ \A i \in 1..(Len(stream) - F) : stream'[i] = stream[F + i]
  <2>1. stream' = SubSeq(stream, F + 1, Len(stream))
    BY <1>2, <1>5, <1>10 DEF Behind
  <2>2. PICK n : n = Len(stream)
    OBVIOUS
  <2>3. n \in Nat /\ F <= n
    BY <1>6, <1>11, <2>2
  <2>4. \A i \in (F + 1)..n : stream[i] \in Bytes
    <3>1. \A i \in (F + 1)..n : i \in 1..n
      BY <1>11
    <3>2. QED
      BY <1>1, <2>2, <3>1, ElementOfSeq
  <2>5. F + 1 \in Int /\ n \in Int
    BY <1>11, <2>3
  <2>6. /\ SubSeq(stream, F + 1, n) \in Seq(Bytes)
        /\ Len(SubSeq(stream, F + 1, n)) = IF F + 1 <= n THEN n - (F + 1) + 1 ELSE 0
        /\ \A i \in 1..(n - (F + 1) + 1) : SubSeq(stream, F + 1, n)[i] = stream[F + 1 + i - 1]
    BY <2>4, <2>5, SubSeqProperties
  <2>7. n - (F + 1) + 1 = n - F /\ \A i \in 1..(n - F) : F + 1 + i - 1 = F + i
    BY <1>11, <2>3
  <2>8. (IF F + 1 <= n THEN n - (F + 1) + 1 ELSE 0) = n - F
    BY <1>11, <2>3
  <2>9. QED
    BY <2>1, <2>2, <2>6, <2>7, <2>8
<1>13. /\ k \in got..L /\ k \in 1..L
       /\ ends \in [got..L -> Nat]
       /\ (\A i \in (got + 1)..L : ends[i] = ends[i-1] + Len(frames[i]))
       /\ (\A i, j \in got..L : i <= j => ends[i] <= ends[j])
       /\ (\A i \in (got + 1)..L : \A j \in 1..Len(frames[i]) :
             ends[i-1] + j <= Len(stream) => stream[ends[i-1] + j] = frames[i][j])
       /\ Len(stream) <= ends[L] /\ (writer # "cut" => Len(stream) = ends[L])
  <2>1. k \in got..L /\ k \in 1..L
    BY <1>5, <1>6, <1>8
  <2>2. /\ ends \in [got..Len(written) -> Nat]
        /\ (\A i \in (got + 1)..Len(written) : ends[i] = ends[i-1] + Len(frames[i]))
        /\ (\A i, j \in got..Len(written) : i <= j => ends[i] <= ends[j])
        /\ (\A i \in (got + 1)..Len(written) : \A j \in 1..Len(frames[i]) :
              ends[i-1] + j <= Len(stream) => stream[ends[i-1] + j] = frames[i][j])
        /\ Len(stream) <= ends[Len(written)] /\ (writer # "cut" => Len(stream) = ends[Len(written)])
    BY <1>4, Zenon DEF FramesAt
  <2>3. L = Len(written)
    BY <1>5
  <2>4. QED
    BY <2>1, <2>2, <2>3, Zenon
<1>14. PICK e : e = [i \in k..L |-> ends[i] - F]
  OBVIOUS
<1>15. /\ \A i \in k..L : i \in got..L /\ e[i] = ends[i] - F /\ e[i] \in Nat /\ ends[i] \in Nat
       /\ e \in [k..L -> Nat] /\ e[k] = 0 /\ L \in k..L /\ k \in k..L
  <2>1. L \in k..L /\ k \in k..L
    BY <1>5, <1>6, <1>8
  <2>2. ASSUME NEW i \in k..L PROVE i \in got..L /\ e[i] = ends[i] - F /\ e[i] \in Nat /\ ends[i] \in Nat
    <3>1. i \in got..L /\ k <= i
      BY <1>5, <1>6, <2>2
    <3>2. ends[i] \in Nat /\ F <= ends[i]
      BY <1>11, <1>13, <3>1
    <3>3. e[i] = ends[i] - F
      BY <1>14, <2>2
    <3>4. QED
      BY <1>11, <3>1, <3>2, <3>3
  <2>3. e = [i \in k..L |-> e[i]]
    BY <1>14
  <2>4. e[k] = 0
    BY <1>11, <2>1, <2>2
  <2>5. e \in [k..L -> Nat]
    BY <2>2, <2>3
  <2>6. QED
    BY <2>1, <2>2, <2>4, <2>5
<1>16. FramesAt(e, frames)'
  <2>1. \A i \in (k + 1)..L : e[i] = e[i-1] + Len(frames[i])
    <3> TAKE i \in (k + 1)..L
    <3>1. i \in k..L /\ i - 1 \in k..L /\ i \in (got + 1)..L
      BY <1>5, <1>6
    <3>2. ends[i] = ends[i-1] + Len(frames[i])
      BY <1>13, <3>1
    <3>3. e[i] = ends[i] - F /\ e[i-1] = ends[i-1] - F /\ ends[i] \in Nat /\ ends[i-1] \in Nat
      BY <1>15, <3>1
    <3>4. Len(frames[i]) = ends[i] - ends[i-1]
      <4>1. PICK n \in Carried : written[i] = n
        BY <1>1, <1>5, <1>6, <3>1, ElementOfSeq
      <4>2. Marshal(n) \in Seq(Bytes)
        BY <1>1, MarshalIs
      <4>3. FrameFor(n) \in Seq(Bytes)
        BY <1>1, <4>2, FrameIs DEF FrameFor
      <4>4. i \in 1..Len(written)
        BY <1>5, <1>6, <3>1
      <4>5. frames[i] = FrameFor(n)
        BY <1>4, <4>1, <4>4 DEF FramesAt
      <4>6. Len(frames[i]) \in Nat
        BY <4>3, <4>5, LenProperties
      <4>7. QED
        BY <3>2, <3>3, <4>6
    <3>5. QED
      BY <1>11, <3>3, <3>4
  <2>2. \A i, j \in k..L : i <= j => e[i] <= e[j]
    <3> SUFFICES ASSUME NEW i \in k..L, NEW j \in k..L, i <= j PROVE e[i] <= e[j]
      OBVIOUS
    <3>1. e[i] = ends[i] - F /\ e[j] = ends[j] - F /\ ends[i] \in Nat /\ ends[j] \in Nat
      BY <1>15
    <3>2. ends[i] <= ends[j]
      BY <1>13, <1>15
    <3>3. QED
      BY <1>11, <3>1, <3>2
  <2>3. ASSUME NEW i \in (k + 1)..L, NEW j \in 1..Len(frames[i]), e[i-1] + j <= Len(stream')
        PROVE  stream'[e[i-1] + j] = frames[i][j]
    <3>1. i - 1 \in k..L /\ i \in (got + 1)..L
      BY <1>5, <1>6
    <3>2. e[i-1] = ends[i-1] - F /\ ends[i-1] \in Nat /\ e[i-1] \in Nat
      BY <1>15, <3>1
    <3>3. j \in Nat /\ j >= 1
      OBVIOUS
    <3>4. PICK x : x = ends[i-1] + j
      OBVIOUS
    <3>5. x \in Nat /\ x <= Len(stream) /\ e[i-1] + j = x - F /\ x - F \in 1..(Len(stream) - F) /\ F + (x - F) = x
      <4>1. PICK p, n : p = ends[i-1] /\ n = Len(stream)
        OBVIOUS
      <4>2. p \in Nat /\ n \in Nat /\ p - F \in Nat /\ F <= n /\ (p - F) + j <= n - F /\ x = p + j
        BY <1>6, <1>11, <1>12, <2>3, <3>2, <3>4, <4>1
      <4>3. p + j \in Nat /\ p + j <= n /\ (p - F) + j = (p + j) - F
            /\ (p + j) - F \in 1..(n - F) /\ F + ((p + j) - F) = p + j
        BY <1>11, <3>3, <4>2
      <4>4. QED
        BY <3>2, <4>1, <4>2, <4>3
    <3>6. stream[x] = frames[i][j]
      BY <1>13, <2>3, <3>1, <3>4, <3>5
    <3>7. stream'[x - F] = stream[x]
      BY <1>12, <3>5
    <3>8. QED
      BY <3>5, <3>6, <3>7
  <2>4. Len(stream') <= e[L] /\ (writer' # "cut" => Len(stream') = e[L])
    <3>1. e[L] = ends[L] - F /\ ends[L] \in Nat
      BY <1>15
    <3>2. \A a, b, c \in Nat : a <= b => a - c <= b - c
      OBVIOUS
    <3>3. Len(stream') = Len(stream) - F /\ Len(stream) <= ends[L] /\ (writer # "cut" => Len(stream) = ends[L])
      BY <1>12, <1>13
    <3>4. Len(stream) - F <= ends[L] - F
      BY <1>6, <1>11, <3>1, <3>2, <3>3
    <3>5. QED
      BY <1>2, <3>1, <3>3, <3>4
  <2>5. got' = k /\ Len(written') = L /\ written' = written
    BY <1>2, <1>5
  <2>6. \A i \in 1..Len(written'), n \in Carried' : written'[i] = n => frames[i] = FrameFor(n)' /\ Fits(n)'
    <3>1. \A i \in 1..L, n \in Carried : written[i] = n => frames[i] = FrameFor(n) /\ Fits(n)
      BY <1>4, <1>5 DEF FramesAt
    <3>2. QED
      BY <1>3, <2>5, <3>1
  <2>7. e \in [got'..Len(written') -> Nat] /\ e[got'] = 0
    BY <1>15, <2>5
  <2>8. \A i \in (got' + 1)..Len(written') : e[i] = e[i-1] + Len(frames[i])
    BY <2>1, <2>5
  <2>9. \A i, j \in got'..Len(written') : i <= j => e[i] <= e[j]
    BY <2>2, <2>5
  <2>10. \A i \in (got' + 1)..Len(written') : \A j \in 1..Len(frames[i]) :
           e[i-1] + j <= Len(stream') => stream'[e[i-1] + j] = frames[i][j]
    BY <2>3, <2>5
  <2>11. Len(stream') <= e[Len(written')] /\ (writer' # "cut" => Len(stream') = e[Len(written')])
    BY <2>4, <2>5
  <2>12. QED
    BY <2>6, <2>7, <2>8, <2>9, <2>10, <2>11 DEF FramesAt
<1>17. (\E ee, ff : FramesAt(ee, ff))'
  BY <1>16
<1>18. handled' = Meant(written', got')
  <2>1. HeadHere(Marshal(m)) /\ Unmarshal(Marshal(m)) = m
    BY <1>1, MarshalIs
  <2>2. Unmarshal(FrameData) = m
    <3>1. PICK d : d = Marshal(m)
      OBVIOUS
    <3>2. Unmarshal(FrameData) = Unmarshal(d)
      BY <1>9, <3>1, DataOf
    <3>3. Unmarshal(d) = Unmarshal(Marshal(m))
      BY <3>1
    <3>4. QED
      BY <2>1, <3>2, <3>3
  <2>3. handled' = IF OnRecv(Unmarshal(FrameData)) THEN Append(handled, Unmarshal(FrameData)) ELSE handled
    BY DEF Receive
  <2>4. handled' = Grown(handled, m)
    BY <2>2, <2>3 DEF OnRecv, Grown
  <2>5. Meant(written, got + 1) = Grown(Meant(written, got), written[got + 1])
    BY <1>1, <1>5, <1>6, <1>8, MeantNext
  <2>6. QED
    BY <1>1, <1>2, <1>5, <1>9, <2>4, <2>5
<1>19. got' \in 0..Len(written')
  BY <1>2, <1>5, <1>6, <1>8
<1>20. QED
  BY <1>1, <1>2, <1>3, <1>12, <1>17, <1>18, <1>19 DEF FrameInv

\* Only a message that the reader does not take makes it refuse.
LEMMA FrameInvRefuse ==
  ASSUME FrameInv, Refuse
  PROVE  FrameInv'
<1>1. parser \in Parsers
  BY DEF FrameInv
<1>2. /\ parser' = parser /\ stream' = stream /\ writer' = writer /\ written' = written /\ got' = got
      /\ handled' = handled /\ reader' = "refused"
      /\ TooLong \/ (FrameHere /\ ~HeadHere(FrameData))
  BY DEF Refuse
<1>3. Carried' = Carried /\ \A m : FrameFor(m)' = FrameFor(m) /\ (Fits(m)' <=> Fits(m)) /\ (Lost(m)' <=> Lost(m))
  BY <1>2, SameParser
<1>4. PICK ends, frames : FramesAt(ends, frames)
  BY DEF FrameInv
<1>5. Len(stream) >= parser.width
  <2>1. CASE TooLong
    BY <2>1 DEF TooLong
  <2>2. CASE FrameHere
    <3>1. parser.width \in {1, 2, 4} /\ Word \in Nat /\ Len(stream) \in Nat
      <4>1. parser.width \in {1, 2, 4}
        BY <1>1, ParserIs
      <4>2. Word \in Nat
        BY PowerIs DEF Word
      <4>3. Len(stream) \in Nat
        BY LenProperties DEF FrameInv
      <4>4. QED
        BY <4>1, <4>2, <4>3
    <3> SUFFICES ASSUME Len(stream) < parser.width PROVE FALSE
      BY <3>1
    <3>2. FrameSize = Word
      BY DEF FrameSize
    <3>3. Len(stream) >= parser.width + Word
      BY <2>2, <3>2 DEF FrameHere
    <3>4. QED
      BY <3>1, <3>3
  <2>3. QED
    BY <1>2, <2>1, <2>2
<1>6. PICK k : k = got + 1
  OBVIOUS
<1>7. got < Len(written)
  BY <1>4, <1>5, <1>6, HeadOfStream
<1>8. PICK m \in Carried : /\ written[k] = m /\ (TooLong <=> Lost(m))
                           /\ FrameHere => FrameData = Marshal(m)
  BY <1>4, <1>5, <1>6, HeadOfStream
<1>9. Lost(m)
  <2> SUFFICES ASSUME FrameHere, ~HeadHere(FrameData) PROVE FALSE
    BY <1>2, <1>8
  <2>1. PICK d : d = Marshal(m)
    OBVIOUS
  <2>2. HeadHere(FrameData) <=> HeadHere(d)
    BY <1>8, <2>1, DataOf
  <2>3. HeadHere(d) <=> HeadHere(Marshal(m))
    BY <2>1
  <2>4. QED
    BY <1>1, <2>2, <2>3, MarshalIs
<1>10. \A n \in Carried : written[got + 1] = n => Lost(n)
  BY <1>6, <1>8, <1>9
<1>11. FramesAt(ends, frames)'
  BY <1>2, <1>3, <1>4 DEF FramesAt
<1>12. (\E ee, ff : FramesAt(ee, ff))'
  BY <1>11
<1>13. QED
  BY <1>2, <1>3, <1>7, <1>10, <1>12 DEF FrameInv

\* Every step keeps the invariant.
LEMMA FrameInvNext == FrameInv /\ [FrameNext]_frameVars => FrameInv'
<1> SUFFICES ASSUME FrameInv, [FrameNext]_frameVars PROVE FrameInv'
  OBVIOUS
<1>1. ASSUME NEW m \in Carried, WriteMessage(m) PROVE FrameInv'
  BY <1>1, FrameInvWrite
<1>2. ASSUME NEW n \in Cuts, Break(n) PROVE FrameInv'
  BY <1>2, FrameInvBreak
<1>3. CASE Receive
  BY <1>3, FrameInvReceive
<1>4. CASE Refuse
  BY <1>4, FrameInvRefuse
<1>5. CASE EndOfStream \/ UNCHANGED frameVars
  <2>1. /\ parser' = parser /\ stream' = stream /\ writer' = writer /\ written' = written /\ got' = got
        /\ handled' = handled /\ (reader' = "eof" \/ reader' = reader)
    BY <1>5 DEF EndOfStream, frameVars
  <2>2. Carried' = Carried /\ \A m : FrameFor(m)' = FrameFor(m) /\ (Fits(m)' <=> Fits(m)) /\ (Lost(m)' <=> Lost(m))
    BY <2>1, SameParser
  <2>3. PICK ends, frames : FramesAt(ends, frames)
    BY DEF FrameInv
  <2>4. FramesAt(ends, frames)'
    BY <2>1, <2>2, <2>3 DEF FramesAt
  <2>5. (\E ee, ff : FramesAt(ee, ff))'
    BY <2>4
  <2>6. QED
    BY <2>1, <2>2, <2>5 DEF FrameInv
<1>6. FrameNext => (\E m \in Carried : WriteMessage(m)) \/ (\E n \in Cuts : Break(n)) \/ Receive \/ Refuse \/ EndOfStream
  BY DEF FrameNext, Carried
<1>7. QED
  BY <1>1, <1>2, <1>3, <1>4, <1>5, <1>6

\* The invariant holds in every state.
LEMMA FrameInvAlways == FrameSpec => []FrameInv
<1>1. FrameInit => FrameInv
  BY FrameInvInit
<1>2. FrameInv /\ [FrameNext]_frameVars => FrameInv'
  BY FrameInvNext
<1>3. QED
  BY <1>1, <1>2, PTL DEF FrameSpec

\* Types of the parser, of the stream and of the messages, whatever the parser.
THEOREM FrameTypeCorrect == FrameSpec => []FrameTypeOK
<1>1. FrameInv => FrameTypeOK
  <2> SUFFICES ASSUME FrameInv PROVE FrameTypeOK
    OBVIOUS
  <2>1. /\ parser \in Parsers /\ written \in Seq(Carried) /\ stream \in Seq(Bytes) /\ got \in 0..Len(written)
        /\ writer \in {"open", "ended", "cut"} /\ reader \in {"open", "refused", "eof"}
        /\ Len(written) <= MaxMessages /\ handled = Meant(written, got)
    BY DEF FrameInv
  <2>2. parser.width \in {1, 2, 4} /\ {parser.recv, parser.send} \subseteq 1..(Power[parser.width] - 1)
    BY <2>1, ParserIs
  <2>3. Carried \subseteq Message
    BY DEF Carried, Message
  <2>4. written \in Seq(Message) /\ Len(written) \in Nat
    <3>1. \A i \in 1..Len(written) : written[i] \in Message
      BY <2>1, <2>3, ElementOfSeq
    <3>2. written \in [1..Len(written) -> Message] /\ Len(written) \in Nat
      BY <2>1, <3>1, LenProperties
    <3>3. QED
      BY <3>2, SeqDef
  <2>5. got \in 0..MaxMessages
    <3>1. MaxMessages \in Nat
      BY FramingAssumption
    <3>2. QED
      BY <2>1, <2>4, <3>1
  <2>6. handled \in Seq(Message)
    <3>1. \A i \in 1..got : written[i] \in Message
      BY <2>1, <2>4, ElementOfSeq
    <3>2. got \in Nat
      BY <2>1
    <3>3. PICK f \in [0..got -> Seq(Message)] : Growing(f, written, got)
      BY <3>1, <3>2, MeantGrows
    <3>4. handled = f[got]
      BY <2>1, <3>2, <3>3, MeantIs
    <3>5. got \in 0..got
      BY <3>2
    <3>6. QED
      BY <3>3, <3>4, <3>5
  <2>7. QED
    BY <2>1, <2>2, <2>4, <2>5, <2>6 DEF FrameTypeOK
<1>2. QED
  BY <1>1, FrameInvAlways, PTL

\* The reader never loses step, for every width and order of the length, with
\* and without itself in it, for all limits of the two ends and all messages:
\* the handlers get what was written, in order and whole, and a frame is refused
\* only if the reader takes none so long or its length was cut off.
THEOREM ReaderInStep == FrameSpec => []FramesInStep
<1>1. FrameInv => FramesInStep
  <2> SUFFICES ASSUME FrameInv PROVE FramesInStep
    OBVIOUS
  <2>1. written \in Seq(Carried) /\ got \in 0..Len(written) /\ handled = Meant(written, got) /\ Len(written) \in Nat
    BY LenProperties DEF FrameInv
  <2>2. ASSUME reader = "refused"
        PROVE  /\ got < Len(written)
               /\ LET n == Len(Marshal(written[got + 1])) IN n > parser.recv \/ Truncated(n)
    <3>1. got < Len(written) /\ \A m \in Carried : written[got + 1] = m => Lost(m)
      BY <2>2 DEF FrameInv
    <3>2. got + 1 \in 1..Len(written)
      BY <2>1, <3>1
    <3>3. PICK m \in Carried : written[got + 1] = m
      BY <2>1, <3>2, ElementOfSeq
    <3>4. Lost(m)
      BY <3>1, <3>3
    <3>5. QED
      BY <3>1, <3>3, <3>4 DEF Lost, Unreadable, Truncated, Marshal
  <2>3. QED
    BY <2>1, <2>2 DEF FramesInStep
<1>2. QED
  BY <1>1, FrameInvAlways, PTL

(* ------------------------- Crons: days and times ----------------------- *)

\* The units are positive, and every time of the calendar has a day.
LEMMA CronUnits ==
  /\ MinSecs \in Nat /\ MinSecs >= 1 /\ HourMins \in Nat /\ HourMins >= 1
  /\ DayHours \in Nat /\ DayHours >= 1
  /\ HourSecs \in Nat /\ HourSecs >= 1 /\ DaySecs \in Nat /\ DaySecs >= 1
<1>1. /\ MinSecs \in Nat /\ MinSecs >= 1 /\ HourMins \in Nat /\ HourMins >= 1
      /\ DayHours \in Nat /\ DayHours >= 1
  <2>1. {MinSecs, HourMins, DayHours, MonthMax, DomMax, WeekDays} \subseteq Nat \ {0}
    BY CronAssumption
  <2>2. QED
    BY <2>1
<1>2. HourSecs \in Nat /\ HourSecs >= 1
  BY <1>1, Product DEF HourSecs
<1>3. DaySecs \in Nat /\ DaySecs >= 1
  BY <1>1, <1>2, Product DEF DaySecs
<1>4. QED
  BY <1>1, <1>2, <1>3

\* The days of the calendar: the first one begins a month.
LEMMA CronDays ==
  /\ Len(Calendar) \in Nat /\ Len(Calendar) >= 1
  /\ \A i \in 1..Len(Calendar) :
       /\ Calendar[i].year \in Nat /\ Calendar[i].month \in 1..MonthMax
       /\ Calendar[i].dom \in 1..DomMax /\ Calendar[i].dow \in 0..(WeekDays - 1)
       /\ Calendar[i].month \in Nat /\ Calendar[i].dom \in Nat /\ Calendar[i].dom >= 1
  /\ Calendar[1].dom = 1
  /\ \A i \in 1..Len(Calendar) : i + 1 \in 1..Len(Calendar) => Consecutive(Calendar[i], Calendar[i+1])
<1> DEFINE D == [year : Nat, month : 1..MonthMax, dom : 1..DomMax, dow : 0..(WeekDays - 1)]
           n == Len(Calendar)
<1>1. Calendar \in Seq(D) /\ MonthMax \in Nat /\ DomMax \in Nat /\ WeekDays \in Nat
  BY CronAssumption
<1>2. n \in Nat /\ \A i \in 1..n : Calendar[i] \in D
  <2> HIDE DEF D
  <2>1. QED
    BY <1>1, LenProperties, ElementOfSeq
<1>3. \A i \in 1..n :
       /\ Calendar[i].year \in Nat /\ Calendar[i].month \in 1..MonthMax
       /\ Calendar[i].dom \in 1..DomMax /\ Calendar[i].dow \in 0..(WeekDays - 1)
  BY <1>2
<1>4. \A i \in 1..n : Calendar[i].month \in Nat /\ Calendar[i].dom \in Nat /\ Calendar[i].dom >= 1
  <2> HIDE DEF n
  <2>1. \A m \in Nat : \A v \in 1..m : v \in Nat /\ v >= 1
    OBVIOUS
  <2>2. QED
    BY <1>1, <1>3, <2>1
<1>5. n >= 1
  <2>1. MaxTime \in Nat /\ MaxTime + 1 \in 0..(n * DaySecs - 1)
    BY CronAssumption DEF Times
  <2>2. CASE n = 0
    <3>1. n * DaySecs = 0
      BY <2>2, CronUnits
    <3>2. QED
      BY <2>1, <3>1
  <2>3. QED
    BY <1>2, <2>2
<1>6. ASSUME NEW i \in 1..n, i + 1 \in 1..n PROVE Consecutive(Calendar[i], Calendar[i+1])
  <2>1. i \in 1..(n - 1)
    BY <1>2, <1>6
  <2>2. QED
    BY <2>1, CronAssumption
<1>7. QED
  BY <1>2, <1>3, <1>4, <1>5, <1>6, CronAssumption

\* The day of a time, by its number.
DayOf(t) == t \div DaySecs + 1

\* The times of the calendar are those of its days.
LEMMA TimesOfDays ==
  ASSUME NEW t \in Nat
  PROVE  /\ DayOf(t) \in Nat /\ DayOf(t) >= 1 /\ Day(t) = Calendar[DayOf(t)]
         /\ t \in Times <=> DayOf(t) <= Len(Calendar)
<1> DEFINE d == DaySecs
           n == Len(Calendar)
           q == t \div d
           r == t % d
<1>1. d \in Nat /\ d >= 1 /\ n \in Nat
  BY CronUnits, CronDays
<1>2. q \in Nat /\ r \in Nat /\ r < d /\ t = d * q + r
  <2> HIDE DEF d
  <2>1. QED
    BY <1>1, Division
<1>3. t \in Times <=> t <= n * d - 1
  BY <1>1 DEF Times
<1> HIDE DEF d, q, r, n
<1>4. n * d \in Nat /\ d * q \in Nat
  BY <1>1, <1>2, ProductNat
<1>5. CASE q + 1 <= n
  <2>1. PICK m \in Nat : n = (q + 1) + m
    <3>1. n - (q + 1) \in Nat /\ n = (q + 1) + (n - (q + 1))
      BY <1>1, <1>2, <1>5
    <3>2. QED
      BY <3>1
  <2>2. d * n = d * (q + 1) + d * m /\ d * (q + 1) = d * q + d * 1 /\ d * n = n * d /\ d * m \in Nat
    BY <1>1, <1>2, <2>1, TimesOver, ProductNat
  <2>3. d * 1 = d
    BY <1>1
  <2>4. n * d = d * q + d + d * m
    BY <2>2, <2>3, <1>4, <1>1
  <2>5. t <= n * d - 1
    BY <2>2, <2>4, <1>2, <1>4, <1>1
  <2>6. QED
    BY <2>5, <1>3, <1>5, <1>2 DEF DayOf, Day, d, q, n
<1>6. CASE ~(q + 1 <= n)
  <2>1. PICK m \in Nat : q = n + m
    <3>1. q - n \in Nat /\ q = n + (q - n)
      BY <1>1, <1>2, <1>6
    <3>2. QED
      BY <3>1
  <2>2. d * q = d * n + d * m /\ d * n = n * d /\ d * m \in Nat
    BY <1>1, <1>2, <2>1, TimesOver, ProductNat
  <2>3. ~(t <= n * d - 1)
    BY <2>2, <1>2, <1>4, <1>1
  <2>4. QED
    BY <2>3, <1>3, <1>6, <1>2 DEF DayOf, Day, d, q, n
<1>7. QED
  BY <1>5, <1>6

\* A time of the calendar has a day, with its date.
LEMMA TimeHasDay ==
  ASSUME NEW t \in Times
  PROVE  /\ t \in Nat /\ DayOf(t) \in 1..Len(Calendar) /\ Day(t) = Calendar[DayOf(t)]
         /\ Year(t) = Calendar[DayOf(t)].year /\ Year(t) \in Nat
<1> DEFINE d == DayOf(t)
           n == Len(Calendar)
<1>1. t \in Nat
  BY DEF Times
<1>2. n \in Nat
  BY CronDays
<1>3. d \in Nat /\ d >= 1 /\ d <= n /\ Day(t) = Calendar[d]
  BY <1>1, TimesOfDays
<1>4. d \in 1..n
  <2> HIDE DEF d, n
  <2>1. QED
    BY <1>2, <1>3
<1>5. Calendar[d].year \in Nat
  BY <1>4, CronDays
<1>6. QED
  BY <1>1, <1>3, <1>4, <1>5 DEF Year

\* What the fields of a time are.
LEMMA ValuesAre ==
  ASSUME NEW t
  PROVE  /\ Value("sec", t) = t % MinSecs /\ Value("min", t) = (t \div MinSecs) % HourMins
         /\ Value("hour", t) = (t \div HourSecs) % DayHours /\ Value("dom", t) = Day(t).dom
         /\ Value("month", t) = Day(t).month /\ Value("dow", t) = Day(t).dow
BY DEF Value

\* The loops from the coarsest field to the finest, and their lowest values.
LEMMA LoopsAre ==
  /\ Loop[1] = "month" /\ Loop[2] = "dom" /\ Loop[3] = "hour" /\ Loop[4] = "min" /\ Loop[5] = "sec"
  /\ Lowest["month"] = 1 /\ Lowest["dom"] = 1 /\ Lowest["hour"] = 0 /\ Lowest["min"] = 0 /\ Lowest["sec"] = 0
BY DEF Loop, Lowest

\* A time begins a round of the k-th loop when all finer fields are at their
\* lowest; of the loop 0, a year.
Begins(k, t) == \A j \in 1..5 : j > k => Value(Loop[j], t) = Lowest[Loop[j]]

\* A time begins a round of a loop when its seconds since midnight are a
\* multiple of the unit, and for a month or a year the day is the first one.
LEMMA BeginsIs ==
  ASSUME NEW t \in Nat
  PROVE  /\ Begins(5, t)
         /\ Begins(4, t) <=> t % MinSecs = 0
         /\ Begins(3, t) <=> t % HourSecs = 0
         /\ Begins(2, t) <=> t % DaySecs = 0
         /\ Begins(1, t) <=> t % DaySecs = 0 /\ Day(t).dom = 1
         /\ Begins(0, t) <=> t % DaySecs = 0 /\ Day(t).dom = 1 /\ Day(t).month = 1
<1> DEFINE sec == t % MinSecs
           min == (t \div MinSecs) % HourMins
           hour == (t \div HourSecs) % DayHours
<1>1. /\ Begins(5, t)
      /\ Begins(4, t) <=> sec = 0
      /\ Begins(3, t) <=> sec = 0 /\ min = 0
      /\ Begins(2, t) <=> sec = 0 /\ min = 0 /\ hour = 0
      /\ Begins(1, t) <=> sec = 0 /\ min = 0 /\ hour = 0 /\ Day(t).dom = 1
      /\ Begins(0, t) <=> sec = 0 /\ min = 0 /\ hour = 0 /\ Day(t).dom = 1 /\ Day(t).month = 1
  <2> DEFINE L(j) == Value(Loop[j], t) = Lowest[Loop[j]]
  <2>1. /\ L(1) <=> Day(t).month = 1
        /\ L(2) <=> Day(t).dom = 1
        /\ L(3) <=> hour = 0
        /\ L(4) <=> min = 0
        /\ L(5) <=> sec = 0
    BY ValuesAre, LoopsAre
  <2>2. \A k \in 0..5 : Begins(k, t) <=> \A j \in 1..5 : j > k => L(j)
    BY DEF Begins
  <2>3. \A j \in 1..5 : j = 1 \/ j = 2 \/ j = 3 \/ j = 4 \/ j = 5
    OBVIOUS
  <2> HIDE DEF L, sec, min, hour
  <2>4. /\ Begins(5, t)
        /\ Begins(4, t) <=> L(5)
        /\ Begins(3, t) <=> L(5) /\ L(4)
        /\ Begins(2, t) <=> L(5) /\ L(4) /\ L(3)
        /\ Begins(1, t) <=> L(5) /\ L(4) /\ L(3) /\ L(2)
        /\ Begins(0, t) <=> L(5) /\ L(4) /\ L(3) /\ L(2) /\ L(1)
    BY <2>2, <2>3
  <2>5. QED
    BY <2>1, <2>4
<1>2. sec \in Nat /\ min \in Nat /\ hour \in Nat /\ t % HourSecs \in Nat
  <2>1. t \div MinSecs \in Nat /\ t \div HourSecs \in Nat /\ sec \in Nat /\ t % HourSecs \in Nat
    BY CronUnits, Division
  <2>2. QED
    BY <2>1, CronUnits, Division
<1>3. min * MinSecs + sec = t % HourSecs
  <2>1. min * MinSecs + sec = t % (HourMins * MinSecs)
    BY CronUnits, DigitsAdd
  <2>2. HourMins * MinSecs = HourSecs
    BY CronUnits, TimesOver DEF HourSecs
  <2>3. QED
    BY <2>1, <2>2
<1>4. hour * HourSecs + (t % HourSecs) = t % DaySecs
  <2>1. hour * HourSecs + (t % HourSecs) = t % (DayHours * HourSecs)
    BY CronUnits, DigitsAdd
  <2>2. DayHours * HourSecs = DaySecs
    BY CronUnits, TimesOver DEF DaySecs
  <2>3. QED
    BY <2>1, <2>2
<1>5. ASSUME NEW a \in Nat, NEW b \in Nat, NEW c \in Nat, b >= 1 PROVE a * b + c = 0 <=> a = 0 /\ c = 0
  <2>1. CASE a = 0
    BY <1>5, <2>1
  <2>2. CASE a # 0
    <3>1. a * b \in Nat /\ a * b >= 1
      BY <1>5, <2>2, Product
    <3>2. QED
      BY <3>1, <2>2
  <2>3. QED
    BY <2>1, <2>2
<1>6. t % HourSecs = 0 <=> sec = 0 /\ min = 0
  <2> HIDE DEF sec, min
  <2>1. min * MinSecs + sec = 0 <=> min = 0 /\ sec = 0
    <3>1. min \in Nat /\ sec \in Nat /\ MinSecs \in Nat /\ MinSecs >= 1
      BY <1>2, CronUnits
    <3>2. QED
      BY <1>5, <3>1
  <2>2. QED
    BY <2>1, <1>3
<1>7. t % DaySecs = 0 <=> sec = 0 /\ min = 0 /\ hour = 0
  <2> HIDE DEF sec, min, hour
  <2>1. hour * HourSecs + (t % HourSecs) = 0 <=> hour = 0 /\ t % HourSecs = 0
    <3>1. hour \in Nat /\ t % HourSecs \in Nat /\ HourSecs \in Nat /\ HourSecs >= 1
      BY <1>2, CronUnits
    <3>2. \A c \in Nat : hour * HourSecs + c = 0 <=> hour = 0 /\ c = 0
      <4> TAKE c \in Nat
      <4>1. QED
        BY <1>5, <3>1
    <3>3. QED
      BY <3>1, <3>2, Zenon
  <2>2. QED
    BY <2>1, <1>4, <1>6
<1> HIDE DEF min, hour
<1>8. QED
  BY <1>1, <1>6, <1>7

\* A year begins with a month, a month with a day, and so on, and with the
\* lowest value of each.
LEMMA BeginsNested ==
  ASSUME NEW t, NEW j \in 0..5, NEW k \in 0..5, j < k, Begins(j, t)
  PROVE  Begins(k, t) /\ Value(Loop[k], t) = Lowest[Loop[k]]
BY DEF Begins

\* Where no round begins, the quotient is that of the second before.
LEMMA SameQuotient ==
  ASSUME NEW u \in Nat, u >= 1, NEW d \in Nat, d >= 1, u % d # 0
  PROVE  (u - 1) \div d = u \div d
<1> DEFINE q == u \div d
           r == u % d
<1>1. q \in Nat /\ r \in Nat /\ r < d /\ u = d * q + r /\ r # 0
  BY Division
<1> HIDE DEF q, r
<1>2. r - 1 \in Nat /\ r - 1 < d /\ u - 1 \in Nat /\ d * q \in Nat
  BY <1>1, ProductNat
<1>3. u - 1 = d * q + (r - 1)
  BY <1>1, <1>2
<1>4. (u - 1) \div d = q
  BY <1>1, <1>2, <1>3, DivModIs
<1>5. QED
  BY <1>4 DEF q

(* ------------------------ Crons: months and years ---------------------- *)

\* The first day of the month of day d.
FirstOf(d) == d - (Calendar[d].dom - 1)
SameMonth(a, b) == Calendar[a].year = Calendar[b].year /\ Calendar[a].month = Calendar[b].month
IsFirstOf(f, d) ==
  /\ f \in 1..d /\ Calendar[f].dom = 1 /\ SameMonth(f, d)
  /\ \A x \in 1..d : f < x => Calendar[x].dom # 1

\* Every day has a first day of its month, at or before it.
LEMMA MonthBegins ==
  ASSUME NEW d \in 1..Len(Calendar)
  PROVE  IsFirstOf(FirstOf(d), d)
<1> DEFINE n == Len(Calendar)
           P == {x \in 1..n : IsFirstOf(FirstOf(x), x)}
<1>1. n \in Nat /\ n >= 1
  BY CronDays
<1>2. 1 \in P
  <2>1. FirstOf(1) = 1
    BY CronDays DEF FirstOf
  <2>2. IsFirstOf(1, 1)
    BY CronDays DEF IsFirstOf, SameMonth
  <2>3. QED
    BY <1>1, <2>1, <2>2
<1>3. ASSUME NEW x \in 1..n, x \in P, x < n PROVE x + 1 \in P
  <2>1. IsFirstOf(FirstOf(x), x)
    BY <1>3
  <2>2. x + 1 \in 1..n /\ x \in Nat /\ Calendar[x].dom \in Nat /\ Calendar[x+1].dom \in Nat
    BY <1>1, <1>3, CronDays
  <2>3. Consecutive(Calendar[x], Calendar[x+1])
    BY <2>2, CronDays
  <2>4. CASE Calendar[x+1].dom = 1
    <3>1. FirstOf(x+1) = x + 1
      BY <2>2, <2>4 DEF FirstOf
    <3>2. IsFirstOf(x+1, x+1)
      BY <2>2, <2>4 DEF IsFirstOf, SameMonth
    <3>3. QED
      BY <3>1, <3>2, <2>2
  <2>5. CASE Calendar[x+1].dom # 1
    <3>1. Calendar[x+1].dom = Calendar[x].dom + 1 /\ SameMonth(x, x+1)
      BY <2>3, <2>5 DEF Consecutive, SameMonth
    <3>2. FirstOf(x+1) = FirstOf(x)
      <4>1. \A a, b \in Nat : (a + 1) - ((b + 1) - 1) = a - (b - 1)
        OBVIOUS
      <4>2. FirstOf(x+1) = (x + 1) - ((Calendar[x].dom + 1) - 1)
        BY <3>1 DEF FirstOf
      <4>3. QED
        BY <2>2, <4>1, <4>2 DEF FirstOf
    <3>3. IsFirstOf(FirstOf(x), x+1)
      <4> DEFINE f == FirstOf(x)
      <4>1. f \in 1..x /\ Calendar[f].dom = 1 /\ SameMonth(f, x)
            /\ \A y \in 1..x : f < y => Calendar[y].dom # 1
        BY <2>1 DEF IsFirstOf
      <4> HIDE DEF f
      <4>2. SameMonth(f, x+1) /\ f \in 1..(x+1)
        BY <4>1, <3>1, <2>2 DEF SameMonth
      <4>3. ASSUME NEW y \in 1..(x+1), f < y PROVE Calendar[y].dom # 1
        <5>1. y = x + 1 \/ y \in 1..x
          BY <2>2
        <5>2. QED
          BY <5>1, <4>1, <4>3, <2>5
      <4>4. IsFirstOf(f, x+1)
        BY <4>1, <4>2, <4>3 DEF IsFirstOf
      <4>5. QED
        BY <4>4 DEF f
    <3>4. QED
      BY <3>2, <3>3, <2>2
  <2>6. QED
    BY <2>4, <2>5
<1>4. \A x \in 1..n : x \in P
  <2> HIDE DEF P
  <2>1. QED
    BY <1>1, <1>2, <1>3, IntervalInduction
<1>5. QED
  BY <1>4

\* Days are in order, and the first day of a month comes behind another month.
Below(a, b) ==
  \/ Calendar[a].year < Calendar[b].year
  \/ Calendar[a].year = Calendar[b].year /\ Calendar[a].month < Calendar[b].month
BehindAll(b) == \A a \in 1..b : (Below(a, b) \/ SameMonth(a, b)) /\ (Calendar[b].dom = 1 /\ a # b => Below(a, b))

\* Of two days of the calendar the later one is of the same or a later month;
\* a month begins once.
LEMMA DaysInOrder == \A b \in 1..Len(Calendar) : BehindAll(b)
<1> DEFINE n == Len(Calendar)
           P == {b \in 1..n : BehindAll(b)}
<1>1. n \in Nat /\ n >= 1
  BY CronDays
<1>2. 1 \in P
  BY <1>1 DEF BehindAll, SameMonth
<1>3. ASSUME NEW b \in 1..n, b \in P, b < n PROVE b + 1 \in P
  <2>1. b + 1 \in 1..n /\ b \in Nat
    BY <1>1, <1>3
  <2>2. Consecutive(Calendar[b], Calendar[b+1])
    BY <2>1, CronDays
  <2>3. /\ Below(b, b+1) \/ SameMonth(b, b+1)
        /\ Calendar[b+1].dom = 1 => Below(b, b+1)
    <3>1. Calendar[b].dom \in Nat /\ Calendar[b].dom >= 1 /\ Calendar[b].month \in Nat /\ Calendar[b].year \in Nat
          /\ Calendar[b+1].month \in Nat /\ Calendar[b+1].year \in Nat
      BY CronDays, <2>1
    <3>2. QED
      BY <2>2, <3>1 DEF Consecutive, Below, SameMonth
  <2>4. ASSUME NEW a \in 1..(b+1)
        PROVE  (Below(a, b+1) \/ SameMonth(a, b+1)) /\ (Calendar[b+1].dom = 1 /\ a # b+1 => Below(a, b+1))
    <3>1. CASE a = b + 1
      BY <3>1 DEF SameMonth
    <3>2. CASE a # b + 1
      <4>1. a \in 1..b /\ a \in 1..n
        BY <2>1, <3>2
      <4>2. Below(a, b) \/ SameMonth(a, b)
        BY <4>1, <1>3 DEF BehindAll
      <4>3. /\ Calendar[a].month \in Nat /\ Calendar[a].year \in Nat
            /\ Calendar[b].month \in Nat /\ Calendar[b].year \in Nat
            /\ Calendar[b+1].month \in Nat /\ Calendar[b+1].year \in Nat
        BY CronDays, <2>1, <4>1
      <4>4. QED
        BY <4>2, <4>3, <2>3 DEF Below, SameMonth
    <3>3. QED
      BY <3>1, <3>2
  <2>5. BehindAll(b+1)
    BY <2>4 DEF BehindAll
  <2>6. QED
    BY <2>1, <2>5
<1>4. \A b \in 1..n : b \in P
  <2> HIDE DEF P
  <2>1. QED
    BY <1>1, <1>2, <1>3, IntervalInduction
<1>5. QED
  BY <1>4

\* Where no month begins the days are of one month.
LEMMA OneMonth ==
  ASSUME NEW a \in 1..Len(Calendar), NEW b \in a..Len(Calendar),
         \A x \in 1..b : a < x => Calendar[x].dom # 1
  PROVE  SameMonth(a, b)
<1>1. a \in Nat /\ b \in Nat /\ a <= b /\ 1 <= a /\ b <= Len(Calendar) /\ Len(Calendar) \in Nat
  BY CronDays
<1> DEFINE P == {x \in a..b : SameMonth(a, x)}
<1>2. a \in P
  BY <1>1 DEF SameMonth
<1>3. ASSUME NEW x \in a..b, x \in P, x < b PROVE x + 1 \in P
  <2>1. x \in 1..Len(Calendar) /\ x + 1 \in 1..Len(Calendar) /\ x + 1 \in 1..b /\ a < x + 1 /\ x + 1 \in a..b
    BY <1>1, <1>3
  <2>2. Consecutive(Calendar[x], Calendar[x+1]) /\ Calendar[x+1].dom # 1
    BY <2>1, CronDays
  <2>3. SameMonth(x, x+1)
    BY <2>2 DEF Consecutive, SameMonth
  <2>4. QED
    BY <1>3, <2>1, <2>3 DEF SameMonth
<1>4. b \in P
  <2> HIDE DEF P
  <2>1. \A x \in a..b : x \in P
    BY <1>1, <1>2, <1>3, IntervalInduction
  <2>2. QED
    BY <1>1, <2>1
<1>5. QED
  BY <1>4

\* A month has the days from its first one to the first one of the next, e.
NextMonthIs(d, e) ==
  /\ e \in 1..Len(Calendar) /\ d < e /\ Calendar[e].dom = 1
  /\ \A x \in 1..Len(Calendar) : d < x /\ x < e => Calendar[x].dom # 1
  /\ Cardinality({i \in DOMAIN Calendar : SameMonth(i, d)}) = e - d

\* A month that begins in the calendar, but for its last year, ends in it: the
\* next one begins as many days on as the month has.
LEMMA MonthEnds ==
  ASSUME NEW d \in 1..Len(Calendar), Calendar[d].dom = 1,
         Calendar[d].year < Calendar[Len(Calendar)].year
  PROVE  \E e \in Nat : NextMonthIs(d, e)
<1> DEFINE n == Len(Calendar)
           E == {x \in 1..n : d < x /\ Calendar[x].dom = 1}
<1>1. n \in Nat /\ n >= 1 /\ d \in Nat /\ 1 <= d /\ d <= n
  BY CronDays
<1>2. E # {}
  <2>1. SUFFICES ASSUME \A x \in 1..n : d < x => Calendar[x].dom # 1 PROVE FALSE
    OBVIOUS
  <2>2. n \in d..n
    BY <1>1
  <2>3. SameMonth(d, n)
    BY <2>1, <2>2, OneMonth
  <2>4. Calendar[d].year \in Nat
    BY CronDays
  <2>5. QED
    BY <2>3, <2>4 DEF SameMonth
<1>3. PICK e \in E : \A x \in E : e <= x
  <2>1. E \in SUBSET Nat
    BY <1>1
  <2> HIDE DEF E
  <2>2. QED
    BY <1>2, <2>1, LeastElement
<1>4. e \in 1..n /\ d < e /\ Calendar[e].dom = 1 /\ e \in Nat
  BY <1>1, <1>3
<1>5. \A x \in 1..n : d < x /\ x < e => Calendar[x].dom # 1
  BY <1>1, <1>3, <1>4
<1>6. \A i \in 1..n : SameMonth(i, d) <=> i \in d..(e-1)
  <2> TAKE i \in 1..n
  <2>0. /\ Calendar[i].month \in Nat /\ Calendar[i].year \in Nat
        /\ Calendar[d].month \in Nat /\ Calendar[d].year \in Nat
        /\ Calendar[e].month \in Nat /\ Calendar[e].year \in Nat
    BY CronDays, <1>4
  <2>1. CASE i < d
    <3>1. Below(i, d)
      <4>1. BehindAll(d) /\ i \in 1..d /\ i # d
        BY <1>1, <2>1, DaysInOrder
      <4>2. QED
        BY <4>1 DEF BehindAll
    <3>2. ~SameMonth(i, d)
      BY <3>1, <2>0 DEF Below, SameMonth
    <3>3. QED
      BY <3>2, <2>1, <1>1
  <2>2. CASE d <= i /\ i < e
    <3>1. i \in d..n /\ \A x \in 1..i : d < x => Calendar[x].dom # 1
      BY <1>1, <1>4, <1>5, <2>2
    <3>2. SameMonth(d, i)
      BY <3>1, OneMonth
    <3>3. QED
      BY <3>2, <2>2, <1>1, <1>4 DEF SameMonth
  <2>3. CASE e <= i
    <3>1. Below(d, e)
      <4>1. BehindAll(e) /\ d \in 1..e /\ d # e
        BY <1>1, <1>4, DaysInOrder
      <4>2. QED
        BY <4>1, <1>4 DEF BehindAll
    <3>2. Below(e, i) \/ SameMonth(e, i)
      <4>1. BehindAll(i) /\ e \in 1..i
        BY <1>1, <1>4, <2>3, DaysInOrder
      <4>2. QED
        BY <4>1 DEF BehindAll
    <3>3. ~SameMonth(i, d)
      BY <3>1, <3>2, <2>0 DEF Below, SameMonth
    <3>4. QED
      BY <3>3, <2>3, <1>1, <1>4
  <2>4. QED
    BY <2>1, <2>2, <2>3, <1>1, <1>4
<1>7. {i \in DOMAIN Calendar : SameMonth(i, d)} = d..(e-1)
  <2>1. DOMAIN Calendar = 1..n
    BY CronAssumption, LenProperties
  <2>2. d..(e-1) \subseteq 1..n
    BY <1>1, <1>4
  <2>3. QED
    BY <1>6, <2>1, <2>2
<1>8. Cardinality(d..(e-1)) = e - d
  <2>1. e - 1 \in Int /\ d \in Int /\ ~(d > e - 1) /\ (e - 1) - d + 1 = e - d
    BY <1>1, <1>4
  <2>2. QED
    BY <2>1, FS_Interval
<1>9. QED
  BY <1>4, <1>5, <1>7, <1>8 DEF NextMonthIs

(* --------------------------- Crons: one round -------------------------- *)

\* A time with no remainder is the first of its day, and the seconds of that
\* day follow it.
LEMMA FirstOfDay ==
  ASSUME NEW d \in Nat, d >= 1
  PROVE  /\ DaySecs * (d - 1) \in Nat
         /\ \A r \in Nat : r < DaySecs =>
              DayOf(DaySecs * (d - 1) + r) = d /\ (DaySecs * (d - 1) + r) % DaySecs = r
<1>1. d - 1 \in Nat /\ DaySecs \in Nat /\ DaySecs >= 1
  BY CronUnits
<1>2. DaySecs * (d - 1) \in Nat
  BY <1>1, ProductNat
<1>3. ASSUME NEW r \in Nat, r < DaySecs
      PROVE DayOf(DaySecs * (d - 1) + r) = d /\ (DaySecs * (d - 1) + r) % DaySecs = r
  <2>1. DaySecs * (d - 1) + r \in Nat
    BY <1>2
  <2> DEFINE t == DaySecs * (d - 1) + r
             q == d - 1
  <2>2. t \in Nat /\ q \in Nat /\ t = DaySecs * q + r
    BY <1>1, <2>1
  <2> HIDE DEF t, q
  <2>3. t \div DaySecs = q /\ t % DaySecs = r
    BY <1>1, <1>3, <2>2, DivModIs
  <2>4. q + 1 = d
    BY DEF q
  <2>5. QED
    BY <2>3, <2>4 DEF t, DayOf
<1>4. QED
  BY <1>2, <1>3

\* The field of a loop changes only where a round of it begins, and the year
\* where a year does.
LEMMA FieldStays ==
  ASSUME NEW u \in Times, u >= 1, NEW k \in 0..5, ~Begins(k, u), NEW e
  PROVE  /\ u - 1 \in Times
         /\ k >= 1 => (Matches(e, Loop[k], u) <=> Matches(e, Loop[k], u - 1))
         /\ k <= 1 => Year(u) = Year(u - 1)
<1>1. u \in Nat /\ u - 1 \in Nat
  BY DEF Times
<1>2. u - 1 \in Times
  <2>1. Len(Calendar) * DaySecs \in Nat
    BY CronUnits, CronDays, ProductNat
  <2>2. QED
    BY <1>1, <2>1 DEF Times
<1> DEFINE d == DayOf(u)
           c == DayOf(u - 1)
<1>3. d \in 1..Len(Calendar) /\ Day(u) = Calendar[d] /\ c \in 1..Len(Calendar) /\ Day(u - 1) = Calendar[c]
  <2>1. \A t \in Times : DayOf(t) \in 1..Len(Calendar) /\ Day(t) = Calendar[DayOf(t)]
    BY TimeHasDay
  <2>2. QED
    BY <1>2, <2>1
<1>4. CASE u % DaySecs # 0
  <2>1. Day(u) = Day(u - 1)
    <3>1. (u - 1) \div DaySecs = u \div DaySecs
      BY <1>1, <1>4, CronUnits, SameQuotient
    <3>2. QED
      BY <3>1 DEF Day
  <2>2. Year(u) = Year(u - 1)
    BY <2>1 DEF Year
  <2>3. /\ Matches(e, "month", u) <=> Matches(e, "month", u - 1)
        /\ Matches(e, "dom", u) <=> Matches(e, "dom", u - 1)
    BY <2>1, ValuesAre DEF Matches, MatchDay
  <2>4. CASE k = 3
    <3>1. u % HourSecs # 0
      BY <1>1, <2>4, BeginsIs
    <3>2. (u - 1) \div HourSecs = u \div HourSecs
      BY <1>1, <3>1, CronUnits, SameQuotient
    <3>3. Value("hour", u) = Value("hour", u - 1)
      BY <3>2, ValuesAre
    <3>4. QED
      BY <3>3, <2>4, <1>2, LoopsAre DEF Matches
  <2>5. CASE k = 4
    <3>1. u % MinSecs # 0
      BY <1>1, <2>5, BeginsIs
    <3>2. (u - 1) \div MinSecs = u \div MinSecs
      BY <1>1, <3>1, CronUnits, SameQuotient
    <3>3. Value("min", u) = Value("min", u - 1)
      BY <3>2, ValuesAre
    <3>4. QED
      BY <3>3, <2>5, <1>2, LoopsAre DEF Matches
  <2>6. k # 5
    BY <1>1, BeginsIs
  <2>7. k = 0 \/ k = 1 \/ k = 2 \/ k = 3 \/ k = 4
    BY <2>6
  <2>8. QED
    BY <1>2, <2>2, <2>3, <2>4, <2>5, <2>7, LoopsAre
<1>5. CASE u % DaySecs = 0
  <2>1. c + 1 = d
    <3>1. PICK q \in Nat : u = DaySecs * q /\ u \div DaySecs = q /\ q >= 1
      <4>1. u \div DaySecs \in Nat /\ u = DaySecs * (u \div DaySecs) + (u % DaySecs)
        BY <1>1, CronUnits, Division
      <4>2. u = DaySecs * (u \div DaySecs)
        <5>1. DaySecs * (u \div DaySecs) \in Nat
          BY <4>1, CronUnits, ProductNat
        <5>2. QED
          BY <4>1, <5>1, <1>5
      <4>3. u \div DaySecs # 0
        BY <4>2, CronUnits
      <4>4. QED
        BY <4>1, <4>2, <4>3
    <3>2. u - 1 = DaySecs * (q - 1) + (DaySecs - 1)
      <4>1. DaySecs * q = DaySecs * (q - 1) + DaySecs * 1
        <5>1. q = (q - 1) + 1 /\ q - 1 \in Nat
          BY <3>1
        <5>2. QED
          BY <5>1, CronUnits, TimesOver
      <4>2. DaySecs * (q - 1) \in Nat /\ DaySecs * 1 = DaySecs
        BY <3>1, CronUnits, ProductNat
      <4>3. QED
        BY <3>1, <4>1, <4>2, CronUnits
    <3>3. DayOf(DaySecs * (q - 1) + (DaySecs - 1)) = q
      <4>1. \A r \in Nat : r < DaySecs => DayOf(DaySecs * (q - 1) + r) = q
        BY <3>1, FirstOfDay
      <4>2. DaySecs - 1 \in Nat /\ DaySecs - 1 < DaySecs
        BY CronUnits
      <4>3. QED
        BY <4>1, <4>2
    <3>4. QED
      BY <3>1, <3>2, <3>3 DEF DayOf
  <2>2. Consecutive(Calendar[c], Calendar[d])
    BY <1>3, <2>1, CronDays
  <2>3. k = 0 \/ k = 1
    <3>1. ~(k \in 2..5)
      <4>1. Begins(2, u)
        BY <1>1, <1>5, BeginsIs
      <4>2. QED
        BY <4>1 DEF Begins
    <3>2. QED
      BY <3>1
  <2>4. CASE k = 1
    <3>1. Calendar[d].dom # 1
      BY <1>1, <1>3, <1>5, <2>4, BeginsIs
    <3>2. SameMonth(c, d)
      BY <2>2, <3>1 DEF Consecutive, SameMonth
    <3>3. Value("month", u) = Value("month", u - 1) /\ Year(u) = Year(u - 1)
      BY <1>3, <3>2, ValuesAre DEF SameMonth, Year
    <3>4. QED
      BY <1>2, <2>4, <3>3, LoopsAre DEF Matches
  <2>5. CASE k = 0
    <3>1. ~(Calendar[d].dom = 1 /\ Calendar[d].month = 1)
      BY <1>1, <1>3, <1>5, <2>5, BeginsIs
    <3>2. Calendar[c].year = Calendar[d].year
      BY <2>2, <3>1 DEF Consecutive
    <3>3. QED
      BY <1>2, <1>3, <2>5, <3>2 DEF Year
  <2>6. QED
    BY <2>3, <2>4, <2>5
<1>6. QED
  BY <1>4, <1>5

\* The last multiple of d that is not behind t, and the next multiple.
LEMMA LastMultiple ==
  ASSUME NEW t \in Nat, NEW d \in Nat, d >= 1
  PROVE  /\ t - (t % d) \in Nat /\ t - (t % d) <= t /\ (t - (t % d)) % d = 0
         /\ \A v \in Nat : t - (t % d) < v /\ v <= t => v % d # 0
<1> DEFINE q == t \div d
           r == t % d
<1>1. q \in Nat /\ r \in Nat /\ r < d /\ t = d * q + r
  BY Division
<1> HIDE DEF q, r
<1>2. d * q \in Nat /\ t - r = d * q
  BY <1>1, ProductNat
<1>3. ASSUME NEW s \in Nat, s < d PROVE (d * q + s) % d = s
  <2>1. d * q + s \in Nat
    BY <1>2
  <2>2. QED
    BY <1>1, <1>3, <2>1, DivModIs
<1>4. (d * q) % d = 0
  <2>1. d * q + 0 = d * q
    BY <1>2
  <2>2. 0 \in Nat /\ 0 < d
    OBVIOUS
  <2>3. QED
    BY <1>3, <2>1, <2>2
<1>5. ASSUME NEW v \in Nat, t - r < v, v <= t PROVE v % d # 0
  <2>1. PICK s \in Nat : v = d * q + s /\ s # 0 /\ s < d
    <3>1. v - d * q \in Nat /\ v = d * q + (v - d * q) /\ v - d * q # 0 /\ v - d * q < d
      BY <1>1, <1>2, <1>5
    <3>2. QED
      BY <3>1
  <2>2. QED
    BY <1>3, <2>1
<1>6. QED
  BY <1>1, <1>2, <1>4, <1>5 DEF r

\* Behind a multiple of d the next one is d further on.
LEMMA NextMultiple ==
  ASSUME NEW f \in Nat, NEW d \in Nat, d >= 1, f % d = 0
  PROVE  /\ (f + d) % d = 0
         /\ \A v \in Nat : f < v /\ v < f + d => v % d # 0
<1> DEFINE q == f \div d
<1>1. q \in Nat /\ f = d * q + (f % d)
  BY Division
<1> HIDE DEF q
<1>2. d * q \in Nat /\ f = d * q
  <2>1. d * q \in Nat
    BY <1>1, ProductNat
  <2>2. QED
    BY <1>1, <2>1
<1>3. (f + d) % d = 0
  <2>1. d * (q + 1) = d * q + d * 1 /\ d * 1 = d /\ q + 1 \in Nat
    BY <1>1, TimesOver
  <2> DEFINE x == q + 1
             g == f + d
  <2>2. g = d * x + 0 /\ g \in Nat /\ x \in Nat /\ 0 \in Nat /\ 0 < d
    BY <1>2, <2>1
  <2> HIDE DEF x, g
  <2>3. g % d = 0
    BY <2>2, DivModIs
  <2>4. QED
    BY <2>3 DEF g
<1>4. ASSUME NEW v \in Nat, f < v, v < f + d PROVE v % d # 0
  <2>1. PICK s \in Nat : v = d * q + s /\ s # 0 /\ s < d
    <3>1. v - d * q \in Nat /\ v = d * q + (v - d * q) /\ v - d * q # 0 /\ v - d * q < d
      BY <1>2, <1>4
    <3>2. QED
      BY <3>1
  <2>2. v % d = s
    <3>1. ASSUME NEW x \in Nat, x < d PROVE (d * q + x) % d = x
      <4>1. d * q + x \in Nat /\ q \in Nat
        BY <1>1, <1>2
      <4>2. QED
        BY <3>1, <4>1, DivModIs
    <3>2. QED
      BY <2>1, <3>1
  <2>3. QED
    BY <2>1, <2>2
<1>5. QED
  BY <1>3, <1>4

\* The rounds of all loops but the first have one length, and begin at its
\* multiples.
IsUnit(k, d) ==
  /\ d \in Nat /\ d >= 1 /\ d <= DaySecs
  /\ \A t : Round(Loop[k], t) = d
  /\ \A v \in Nat : Begins(k, v) <=> v % d = 0

\* From the day on, every round of a loop is of the same length.
LEMMA UnitsAre == \A k \in 2..5 : \E d \in Nat : IsUnit(k, d)
<1> TAKE k \in 2..5
<1>1. HourSecs <= DaySecs /\ MinSecs <= HourSecs /\ MinSecs <= DaySecs
  <2>1. HourSecs <= DaySecs /\ MinSecs <= HourSecs
    BY CronUnits, Product DEF HourSecs, DaySecs
  <2>2. QED
    BY <2>1, CronUnits
<1>2. \A t : /\ Round("dom", t) = DaySecs /\ Round("hour", t) = HourSecs
             /\ Round("min", t) = MinSecs /\ Round("sec", t) = 1
  BY DEF Round
<1>3. CASE k = 2
  <2>1. IsUnit(2, DaySecs)
    BY <1>2, CronUnits, LoopsAre, BeginsIs DEF IsUnit
  <2>2. QED
    BY <2>1, <1>3, CronUnits
<1>4. CASE k = 3
  <2>1. IsUnit(3, HourSecs)
    BY <1>1, <1>2, CronUnits, LoopsAre, BeginsIs DEF IsUnit
  <2>2. QED
    BY <2>1, <1>4, CronUnits
<1>5. CASE k = 4
  <2>1. IsUnit(4, MinSecs)
    BY <1>1, <1>2, CronUnits, LoopsAre, BeginsIs DEF IsUnit
  <2>2. QED
    BY <2>1, <1>5, CronUnits
<1>6. CASE k = 5
  <2>1. \A v \in Nat : v % 1 = 0
    OBVIOUS
  <2>2. IsUnit(5, 1)
    BY <2>1, <1>2, CronUnits, LoopsAre, BeginsIs DEF IsUnit
  <2>3. QED
    BY <2>2, <1>6
<1>7. QED
  BY <1>3, <1>4, <1>5, <1>6

\* A time that begins a day.
LEMMA BeginsDay ==
  ASSUME NEW t \in Nat, t % DaySecs = 0
  PROVE  t = DaySecs * (DayOf(t) - 1) /\ DayOf(t) - 1 \in Nat /\ DaySecs * (DayOf(t) - 1) \in Nat
<1> DEFINE q == t \div DaySecs
<1>1. q \in Nat /\ t = DaySecs * q + (t % DaySecs)
  BY CronUnits, Division
<1>2. DayOf(t) - 1 = q
  BY <1>1 DEF DayOf
<1> HIDE DEF q
<1>3. DaySecs * q \in Nat
  BY <1>1, CronUnits, ProductNat
<1>4. t = DaySecs * q
  BY <1>1, <1>3
<1>5. QED
  BY <1>1, <1>2, <1>3, <1>4

\* The days of two times are in their order.
LEMMA DaysOfTimes ==
  ASSUME NEW s \in Nat, NEW t \in Nat
  PROVE  s <= t => DayOf(s) <= DayOf(t)
<1> DEFINE a == s \div DaySecs
           b == t \div DaySecs
           x == s % DaySecs
           y == t % DaySecs
<1>1. a \in Nat /\ b \in Nat /\ x \in Nat /\ y \in Nat /\ x < DaySecs /\ y < DaySecs
      /\ s = DaySecs * a + x /\ t = DaySecs * b + y
  BY CronUnits, Division
<1> HIDE DEF a, b, x, y
<1>2. SUFFICES ASSUME b < a PROVE t < s
  BY <1>1 DEF DayOf, a, b
<1>3. PICK m \in Nat : a = b + (m + 1)
  <2>1. a - b - 1 \in Nat /\ a = b + ((a - b - 1) + 1)
    BY <1>1, <1>2
  <2>2. QED
    BY <2>1
<1>4. DaySecs * a = DaySecs * b + DaySecs * (m + 1) /\ DaySecs * (m + 1) >= DaySecs
      /\ DaySecs * b \in Nat /\ DaySecs * (m + 1) \in Nat
  BY <1>1, <1>3, CronUnits, TimesOver, ProductNat, Product
<1>5. QED
  BY <1>1, <1>4, CronUnits

\* A round of the k-th loop from where one begins ends where the next begins,
\* and none begins in between.
RoundIs(k, f, u) ==
  /\ u \in Times /\ f < u /\ Begins(k, u)
  /\ \A v \in Nat : f < v /\ v < u => ~Begins(k, v)

\* A round of a loop ends where the next one begins, a month of any length too.
LEMMA RoundEnds ==
  ASSUME NEW k \in 1..5, NEW f \in Times, Begins(k, f), Year(f) < Calendar[Len(Calendar)].year
  PROVE  RoundIs(k, f, f + Round(Loop[k], f))
<1> DEFINE d == DayOf(f)
           n == Len(Calendar)
<1>1. f \in Nat /\ d \in 1..n /\ n \in Nat /\ Year(f) = Calendar[d].year
  BY TimeHasDay, CronDays
<1>2. CASE k # 1
  <2>0. k \in 2..5
    BY <1>2
  <2>1. PICK l \in Nat : IsUnit(k, l)
    BY <2>0, UnitsAre
  <2>2. l >= 1 /\ l <= DaySecs /\ Round(Loop[k], f) = l /\ \A v \in Nat : Begins(k, v) <=> v % l = 0
    BY <2>1 DEF IsUnit
  <2>3. f % l = 0
    BY <1>1, <2>2
  <2>4. /\ (f + l) % l = 0
        /\ \A v \in Nat : f < v /\ v < f + l => v % l # 0
    BY <1>1, <2>2, <2>3, NextMultiple
  <2>5. f + l \in Times
    <3>1. d # n
      <4>1. Calendar[d].year \in Nat
        BY <1>1, CronDays
      <4>2. QED
        BY <1>1, <4>1
    <3>2. f + DaySecs \in Nat /\ f + l \in Nat
      BY <1>1, CronUnits
    <3>3. DayOf(f + DaySecs) = d + 1
      <4>1. PICK q, r \in Nat : f = DaySecs * q + r /\ r < DaySecs /\ q + 1 = d
        <5>1. f \div DaySecs \in Nat /\ f % DaySecs \in Nat /\ f % DaySecs < DaySecs
              /\ f = DaySecs * (f \div DaySecs) + (f % DaySecs)
          BY <1>1, CronUnits, Division
        <5>2. QED
          BY <5>1 DEF DayOf
      <4>2. DaySecs * (q + 1) = DaySecs * q + DaySecs * 1 /\ DaySecs * 1 = DaySecs /\ DaySecs * q \in Nat
        BY <4>1, CronUnits, TimesOver, ProductNat
      <4>3. f + DaySecs = DaySecs * (q + 1) + r
        BY <4>1, <4>2, CronUnits
      <4>4. \A x \in Nat : x < DaySecs => DayOf(DaySecs * ((d + 1) - 1) + x) = d + 1
        <5>1. d + 1 \in Nat /\ d + 1 >= 1
          BY <1>1
        <5>2. QED
          BY <5>1, FirstOfDay
      <4>5. (d + 1) - 1 = q + 1
        BY <1>1, <4>1
      <4>6. QED
        BY <4>1, <4>3, <4>4, <4>5
    <3>4. f + DaySecs \in Times
      <4>1. d + 1 <= n
        BY <1>1, <3>1
      <4>2. QED
        BY <3>2, <3>3, <4>1, TimesOfDays
    <3>5. n * DaySecs \in Nat
      BY <1>1, CronUnits, ProductNat
    <3>6. QED
      BY <1>1, <2>2, <3>2, <3>4, <3>5, CronUnits DEF Times
  <2>6. Begins(k, f + l) /\ \A v \in Nat : f < v /\ v < f + l => ~Begins(k, v)
    BY <1>1, <2>2, <2>4
  <2>7. f < f + l
    BY <1>1, <2>2
  <2> HIDE DEF d
  <2>8. QED
    BY <2>2, <2>5, <2>6, <2>7 DEF RoundIs
<1>3. CASE k = 1
  <2>1. f % DaySecs = 0 /\ Calendar[d].dom = 1
    BY <1>1, <1>3, BeginsIs, TimesOfDays
  <2>2. PICK e \in Nat : NextMonthIs(d, e)
    BY <1>1, <2>1, MonthEnds
  <2>3. e \in 1..n /\ d < e /\ Calendar[e].dom = 1
        /\ (\A x \in 1..n : d < x /\ x < e => Calendar[x].dom # 1)
        /\ Cardinality({i \in DOMAIN Calendar : SameMonth(i, d)}) = e - d
    BY <2>2 DEF NextMonthIs
  <2>4. Round(Loop[k], f) = (e - d) * DaySecs
    <3>1. Day(f) = Calendar[d]
      BY <1>1, TimesOfDays
    <3>2. MonthLen(f) = Cardinality({i \in DOMAIN Calendar : SameMonth(i, d)})
      BY <3>1 DEF MonthLen, SameMonth, Year
    <3>3. Round("month", f) = MonthLen(f) * DaySecs
      BY DEF Round
    <3>4. QED
      BY <1>3, <2>3, <3>2, <3>3, LoopsAre
  <2>5. f + (e - d) * DaySecs = DaySecs * (e - 1) /\ DaySecs * (e - 1) \in Nat
    <3>1. d - 1 \in Nat /\ e - d \in Nat /\ e - 1 = (d - 1) + (e - d) /\ e - 1 \in Nat
      BY <1>1, <2>3
    <3>2. DaySecs * (e - 1) = DaySecs * (d - 1) + DaySecs * (e - d) /\ DaySecs * (e - d) = (e - d) * DaySecs
          /\ DaySecs * (e - 1) \in Nat
      <4>1. \A x, y \in Nat : /\ DaySecs * (x + y) = DaySecs * x + DaySecs * y
                              /\ DaySecs * y = y * DaySecs /\ DaySecs * (x + y) \in Nat
        <5> TAKE x, y \in Nat
        <5>1. DaySecs \in Nat /\ x + y \in Nat
          BY CronUnits
        <5>2. QED
          BY <5>1, TimesOver, ProductNat
      <4>2. QED
        BY <3>1, <4>1
    <3>3. f = DaySecs * (d - 1)
      BY <1>1, <2>1, BeginsDay
    <3>4. QED
      BY <3>2, <3>3
  <2> DEFINE u == DaySecs * (e - 1)
  <2>6. u \in Nat /\ DayOf(u) = e /\ u % DaySecs = 0
    <3>1. DayOf(u + 0) = e /\ (u + 0) % DaySecs = 0
      <4>1. \A r \in Nat : r < DaySecs =>
              DayOf(DaySecs * (e - 1) + r) = e /\ (DaySecs * (e - 1) + r) % DaySecs = r
        BY <2>3, FirstOfDay
      <4>2. 0 \in Nat /\ 0 < DaySecs
        BY CronUnits
      <4>3. QED
        BY <4>1, <4>2
    <3>2. u + 0 = u
      BY <2>5
    <3>3. QED
      BY <2>5, <3>1, <3>2
  <2>7. Round(Loop[k], f) = (e - d) * DaySecs /\ f + (e - d) * DaySecs = u
    BY <2>4, <2>5
  <2> HIDE DEF u
  <2>8. u \in Times /\ Begins(1, u)
    <3>1. Day(u) = Calendar[e] /\ (u \in Times <=> e <= n)
      BY <2>6, TimesOfDays
    <3>2. Begins(1, u) <=> u % DaySecs = 0 /\ Day(u).dom = 1
      BY <2>6, BeginsIs
    <3>3. e <= n
      BY <1>1, <2>3
    <3>4. QED
      BY <2>3, <2>6, <3>1, <3>2, <3>3
  <2>9. f < u
    <3>1. u <= f => DayOf(u) <= DayOf(f)
      BY <1>1, <2>6, DaysOfTimes
    <3>2. QED
      BY <1>1, <2>3, <2>6, <3>1
  <2>10. ASSUME NEW v \in Nat, f < v, v < u PROVE ~Begins(1, v)
    <3>1. SUFFICES ASSUME Begins(1, v) PROVE FALSE
      OBVIOUS
    <3> DEFINE c == DayOf(v)
    <3>2. v % DaySecs = 0 /\ Calendar[c].dom = 1 /\ c \in Nat /\ c >= 1
      BY <3>1, BeginsIs, TimesOfDays
    <3>3. d <= c /\ c <= e
      <4>1. f <= v => DayOf(f) <= DayOf(v)
        BY <1>1, DaysOfTimes
      <4>2. v <= u => DayOf(v) <= DayOf(u)
        BY <2>6, DaysOfTimes
      <4>3. QED
        BY <1>1, <2>6, <2>10, <4>1, <4>2
    <3>4. c # d /\ c # e
      <4>1. f = DaySecs * (d - 1) /\ v = DaySecs * (c - 1) /\ u = DaySecs * (e - 1)
        BY <1>1, <2>1, <2>6, <3>2, BeginsDay
      <4> HIDE DEF d, c
      <4>2. QED
        BY <1>1, <2>6, <2>10, <4>1
    <3>5. d < c /\ c < e /\ c \in 1..n
      BY <1>1, <2>3, <3>2, <3>3, <3>4
    <3>6. QED
      BY <2>3, <3>2, <3>5
  <2>11. QED
    BY <1>3, <2>7, <2>8, <2>9, <2>10 DEF RoundIs
<1>4. QED
  BY <1>2, <1>3

\* Truncating goes back to where the round began.
LEMMA TruncateBegins ==
  ASSUME NEW k \in 1..5, NEW t \in Times
  PROVE  /\ Truncate(Loop[k], t) \in Times /\ Truncate(Loop[k], t) <= t /\ Begins(k, Truncate(Loop[k], t))
         /\ \A v \in Nat : Truncate(Loop[k], t) < v /\ v <= t => ~Begins(k, v)
<1> DEFINE f == Truncate(Loop[k], t)
           d == DayOf(t)
           n == Len(Calendar)
<1>1. t \in Nat /\ n \in Nat /\ d \in 1..n /\ Day(t) = Calendar[d]
  BY TimeHasDay, CronDays
<1>2. \A v \in Nat : v <= t => v \in Times
  <2>1. n * DaySecs \in Nat
    BY <1>1, CronUnits, ProductNat
  <2>2. QED
    BY <1>1, <2>1 DEF Times
<1>3. CASE k # 1
  <2>1. k \in 2..5 /\ Loop[k] # "month"
    <3>1. k = 2 \/ k = 3 \/ k = 4 \/ k = 5
      BY <1>3
    <3>2. QED
      BY <3>1, LoopsAre
  <2>2. PICK l \in Nat : IsUnit(k, l)
    BY <2>1, UnitsAre
  <2>3. l >= 1 /\ Round(Loop[k], t) = l /\ \A v \in Nat : Begins(k, v) <=> v % l = 0
    BY <2>2 DEF IsUnit
  <2>4. f = t - (t % l)
    BY <2>1, <2>3 DEF Truncate
  <2>5. /\ f \in Nat /\ f <= t /\ f % l = 0
        /\ \A v \in Nat : f < v /\ v <= t => v % l # 0
    <3> HIDE DEF f
    <3>1. QED
      BY <1>1, <2>3, <2>4, LastMultiple
  <2> HIDE DEF f
  <2>6. f \in Times /\ f <= t /\ Begins(k, f) /\ \A v \in Nat : f < v /\ v <= t => ~Begins(k, v)
    BY <1>2, <2>3, <2>5
  <2>7. QED
    BY <2>6 DEF f
<1>4. CASE k = 1
  <2> DEFINE b == FirstOf(d)
             dom == Calendar[d].dom
  <2>1. /\ b \in 1..d /\ Calendar[b].dom = 1
        /\ \A x \in 1..d : b < x => Calendar[x].dom # 1
    BY <1>1, MonthBegins DEF IsFirstOf
  <2>2. dom \in Nat /\ dom >= 1
    BY <1>1, CronDays
  <2>3. b = d - (dom - 1)
    BY DEF FirstOf
  <2>4. f = t - (t % DaySecs) - (dom - 1) * DaySecs
    BY <1>1, <1>4, LoopsAre DEF Truncate
  <2> HIDE DEF b, dom
  <2>5. PICK q, r \in Nat : t = DaySecs * q + r /\ q + 1 = d /\ r = t % DaySecs
    <3>1. t \div DaySecs \in Nat /\ t % DaySecs \in Nat
          /\ t = DaySecs * (t \div DaySecs) + (t % DaySecs)
      BY <1>1, CronUnits, Division
    <3>2. QED
      BY <3>1 DEF DayOf
  <2>6. f = DaySecs * (b - 1) /\ DaySecs * (b - 1) \in Nat /\ f <= t
    <3>1. b - 1 \in Nat /\ dom - 1 \in Nat /\ q = (b - 1) + (dom - 1)
      <4>1. \A v, w, x, y \in Nat : x >= 1 /\ y >= 1 /\ y = v - (x - 1) /\ w + 1 = v
                                   => y - 1 \in Nat /\ x - 1 \in Nat /\ w = (y - 1) + (x - 1)
        OBVIOUS
      <4>2. b \in Nat /\ b >= 1 /\ d \in Nat
        BY <1>1, <2>1
      <4> HIDE DEF d
      <4>3. QED
        BY <2>2, <2>3, <2>5, <4>1, <4>2
    <3>2. \A x, y \in Nat : /\ DaySecs * (x + y) = DaySecs * x + DaySecs * y
                            /\ DaySecs * y = y * DaySecs /\ DaySecs * x \in Nat /\ DaySecs * y \in Nat
      <4> TAKE x, y \in Nat
      <4>1. QED
        BY CronUnits, TimesOver, ProductNat
    <3> DEFINE x == b - 1
               y == dom - 1
    <3>3. x \in Nat /\ y \in Nat /\ q = x + y
      BY <3>1
    <3> HIDE DEF f, d, x, y
    <3>4. DaySecs * q = DaySecs * x + DaySecs * y /\ DaySecs * y = y * DaySecs
          /\ DaySecs * x \in Nat /\ DaySecs * y \in Nat
      BY <3>2, <3>3
    <3>5. f = t - r - y * DaySecs
      BY <2>4, <2>5 DEF y
    <3>6. f = DaySecs * x /\ f <= t
      <4>1. \A v, w, s \in Nat : ((v + w) + s) - s - w = v /\ v <= (v + w) + s
        OBVIOUS
      <4>2. t = (DaySecs * x + DaySecs * y) + r /\ f = t - r - DaySecs * y
        BY <2>5, <3>4, <3>5
      <4>3. QED
        BY <2>5, <3>4, <4>1, <4>2
    <3>7. QED
      BY <3>4, <3>6 DEF x
  <2> HIDE DEF f
  <2>7. f \in Nat /\ DayOf(f) = b /\ f % DaySecs = 0
    <3>1. \A x \in Nat : x < DaySecs =>
            DayOf(DaySecs * (b - 1) + x) = b /\ (DaySecs * (b - 1) + x) % DaySecs = x
      BY <2>1, FirstOfDay
    <3>2. 0 \in Nat /\ 0 < DaySecs
      BY CronUnits
    <3>3. DayOf(f + 0) = b /\ (f + 0) % DaySecs = 0
      BY <2>6, <3>1, <3>2
    <3>4. f \in Nat /\ f + 0 = f
      BY <2>6
    <3>5. QED
      BY <3>3, <3>4
  <2>8. Begins(1, f)
    <3>1. Day(f) = Calendar[b]
      BY <2>7, TimesOfDays
    <3>2. QED
      BY <2>1, <2>7, <3>1, BeginsIs
  <2>9. ASSUME NEW v \in Nat, f < v, v <= t PROVE ~Begins(1, v)
    <3>1. SUFFICES ASSUME Begins(1, v) PROVE FALSE
      OBVIOUS
    <3> DEFINE c == DayOf(v)
    <3>2. v % DaySecs = 0 /\ Calendar[c].dom = 1 /\ c \in Nat /\ c >= 1
      BY <3>1, BeginsIs, TimesOfDays
    <3>3. b <= c /\ c <= d
      <4>1. f <= v => DayOf(f) <= DayOf(v)
        BY <2>7, DaysOfTimes
      <4>2. v <= t => DayOf(v) <= DayOf(t)
        BY <1>1, DaysOfTimes
      <4>3. QED
        BY <2>7, <2>9, <4>1, <4>2
    <3>4. c # b
      <4>1. v = DaySecs * (c - 1)
        BY <3>2, BeginsDay
      <4> HIDE DEF c
      <4>2. QED
        BY <2>6, <2>7, <2>9, <4>1
    <3>5. b < c /\ c \in 1..d
      BY <1>1, <2>1, <3>2, <3>3, <3>4
    <3>6. QED
      BY <2>1, <3>2, <3>5
  <2>10. f \in Times
    BY <1>2, <2>6, <2>7
  <2>11. QED
    BY <1>4, <2>6, <2>8, <2>9, <2>10 DEF f
<1>5. QED
  BY <1>3, <1>4

(* -------------------------- Crons: the next time ----------------------- *)

\* From t to the end of its round the field of the k-th loop and of those
\* before it stay as they are: f is where the round began.
LEMMA RoundStays ==
  ASSUME NEW e, NEW k \in 1..5, NEW f \in Times, NEW u \in Times, f < u,
         \A v \in Nat : f < v /\ v < u => ~Begins(k, v)
  PROVE  \A v \in f..(u-1) :
           /\ v \in Times
           /\ \A j \in 1..k : Matches(e, Loop[j], v) <=> Matches(e, Loop[j], f)
           /\ Year(v) = Year(f)
<1> DEFINE Same(v) == /\ v \in Times
                      /\ \A j \in 1..k : Matches(e, Loop[j], v) <=> Matches(e, Loop[j], f)
                      /\ Year(v) = Year(f)
           P == {v \in f..(u-1) : Same(v)}
<1>1. f \in Nat /\ u \in Nat /\ u - 1 \in Nat
  BY DEF Times
<1>2. f \in P
  BY <1>1
<1>3. ASSUME NEW v \in f..(u-1), v \in P, v < u - 1 PROVE v + 1 \in P
  <2> DEFINE w == v + 1
  <2>1. v \in Nat /\ w \in Nat /\ w >= 1 /\ w - 1 = v /\ f < w /\ w < u /\ w \in f..(u-1)
    BY <1>1, <1>3
  <2> HIDE DEF w
  <2>2. ~Begins(k, w)
    BY <2>1
  <2>3. w \in Times
    <3>1. Len(Calendar) * DaySecs \in Nat
      BY CronUnits, CronDays, ProductNat
    <3>2. QED
      BY <1>1, <2>1, <3>1 DEF Times
  <2>4. \A j \in 0..k : ~Begins(j, w)
    <3> TAKE j \in 0..k
    <3>1. SUFFICES ASSUME Begins(j, w) PROVE FALSE
      OBVIOUS
    <3>2. j \in 0..5 /\ k \in 0..5 /\ (j = k \/ j < k)
      OBVIOUS
    <3>3. QED
      BY <2>2, <3>1, <3>2, BeginsNested
  <2>5. \A j \in 1..k : Matches(e, Loop[j], w) <=> Matches(e, Loop[j], v)
    <3> TAKE j \in 1..k
    <3>1. j \in 0..5 /\ j >= 1 /\ ~Begins(j, w)
      BY <2>4
    <3>2. Matches(e, Loop[j], w) <=> Matches(e, Loop[j], w - 1)
      BY <2>1, <2>3, <3>1, FieldStays
    <3>3. QED
      BY <2>1, <3>2
  <2>6. Year(w) = Year(v)
    <3>1. 0 \in 0..5 /\ ~Begins(0, w)
      BY <2>4
    <3>2. Year(w) = Year(w - 1)
      BY <2>1, <2>3, <3>1, FieldStays
    <3>3. QED
      BY <2>1, <3>2
  <2>7. Same(w)
    BY <1>3, <2>3, <2>5, <2>6
  <2> HIDE DEF Same
  <2>8. w \in P
    BY <2>1, <2>7
  <2>9. QED
    BY <2>8 DEF w
<1>4. \A v \in f..(u-1) : v \in P
  <2> HIDE DEF P
  <2>1. QED
    BY <1>1, <1>2, <1>3, IntervalInduction
<1>5. QED
  BY <1>4

\* The last year of the calendar.
LEMMA LastYear == Calendar[Len(Calendar)].year \in Nat
<1>1. Len(Calendar) \in 1..Len(Calendar)
  BY CronDays
<1>2. QED
  BY <1>1, CronDays

\* A round of the k-th loop at t: where it begins and where it ends.
RoundFrom(k, t, first) == IF t = first THEN Truncate(Loop[k], t) ELSE t
RoundTo(k, t, first) == RoundFrom(k, t, first) + Round(Loop[k], RoundFrom(k, t, first))

\* What holds of a time at which the loops before the k-th have matched: they
\* match, and but for the first time the others begin a round where they do not.
At(e, k, t, first, year) ==
  /\ t \in Times /\ t >= first
  /\ \A j \in 1..5 : j < k => Matches(e, Loop[j], t)
  /\ k >= 1 => Year(t) <= year
  /\ t # first => \A j \in 1..5 : ~Matches(e, Loop[j], t) => Begins(j, t)

\* The round goes beyond t, which it began at or before.
LEMMA RoundGoesOn ==
  ASSUME NEW k \in 1..5, NEW first \in Nat, NEW t \in Times, t # first => Begins(k, t),
         Year(t) < Calendar[Len(Calendar)].year
  PROVE  LET f == RoundFrom(k, t, first)
             u == RoundTo(k, t, first)
         IN  f \in Times /\ f <= t /\ t < u /\ RoundIs(k, f, u) /\ Year(f) = Year(t)
<1> DEFINE f == RoundFrom(k, t, first)
           u == RoundTo(k, t, first)
<1>1. t \in Nat
  BY DEF Times
<1>2. f \in Times /\ f <= t /\ Begins(k, f) /\ \A v \in Nat : f < v /\ v <= t => ~Begins(k, v)
  <2>1. CASE t = first
    BY <1>1, <2>1, TruncateBegins DEF RoundFrom
  <2>2. CASE t # first
    BY <1>1, <2>2 DEF RoundFrom
  <2>3. QED
    BY <2>1, <2>2
<1>3. u = f + Round(Loop[k], f)
  BY DEF RoundTo
<1> HIDE DEF f, u
<1>4. f \in Nat
  BY <1>2 DEF Times
<1>5. Year(f) = Year(t)
  <2>1. CASE f = t
    BY <2>1
  <2>2. CASE f # t
    <3>1. f < t /\ \A v \in Nat : f < v /\ v < t => ~Begins(k, v)
      BY <1>1, <1>2, <1>4, <2>2
    <3>2. Year(t - 1) = Year(f)
      <4>1. t - 1 \in f..(t-1)
        BY <1>1, <1>4, <3>1
      <4>2. \A v \in f..(t-1) : Year(v) = Year(f)
        BY <1>1, <1>2, <3>1, RoundStays
      <4>3. QED
        BY <4>1, <4>2
    <3>3. Year(t) = Year(t - 1)
      <4>1. ~Begins(0, t)
        <5>1. ~Begins(k, t)
          BY <1>1, <1>2, <3>1
        <5>2. QED
          BY <5>1, BeginsNested
      <4>2. t >= 1
        BY <1>1, <1>4, <3>1
      <4>3. QED
        BY <1>1, <4>1, <4>2, FieldStays
    <3>4. QED
      BY <3>2, <3>3
  <2>3. QED
    BY <2>1, <2>2
<1>6. RoundIs(k, f, u)
  <2>1. Year(f) < Calendar[Len(Calendar)].year
    BY <1>5
  <2>2. RoundIs(k, f, u)
    BY <1>2, <1>3, <2>1, RoundEnds
  <2>3. QED
    BY <2>2
<1>7. t < u
  <2>1. u \in Nat /\ f < u /\ Begins(k, u)
    BY <1>6 DEF RoundIs, Times
  <2>2. u <= t => FALSE
    BY <1>2, <2>1
  <2>3. QED
    BY <1>1, <2>1, <2>2
<1>8. QED
  BY <1>2, <1>5, <1>6, <1>7 DEF f, u

\* After a round nothing was passed that matches, and the same holds again:
\* for all loops if the field is at its lowest, and else for the same one.
LEMMA RoundKeeps ==
  ASSUME NEW e, NEW k \in 1..5, NEW first \in Nat, NEW year \in Nat,
         year < Calendar[Len(Calendar)].year,
         NEW t, At(e, k, t, first, year), ~Matches(e, Loop[k], t)
  PROVE  LET u == RoundTo(k, t, first)
         IN  /\ u \in Nat /\ t < u
             /\ \A v \in t..(u-1) : ~Matches(e, Loop[k], v)
             /\ At(e, IF Value(Loop[k], u) = Lowest[Loop[k]] THEN 0 ELSE k, u, first, year)
<1> DEFINE f == RoundFrom(k, t, first)
           u == RoundTo(k, t, first)
<1>1. t \in Times /\ t >= first /\ Year(t) <= year /\ (\A j \in 1..5 : j < k => Matches(e, Loop[j], t))
      /\ (t # first => Begins(k, t)) /\ t \in Nat
  BY DEF At, Times
<1>2. f \in Times /\ f <= t /\ t < u /\ RoundIs(k, f, u) /\ Year(f) = Year(t)
  <2>1. t # first => Begins(k, t)
    BY <1>1
  <2>2. Year(t) < Calendar[Len(Calendar)].year
    <3>1. Year(t) \in Nat /\ Calendar[Len(Calendar)].year \in Nat
      BY <1>1, TimeHasDay, LastYear
    <3>2. QED
      BY <1>1, <3>1
  <2>3. QED
    BY <1>1, <2>1, <2>2, RoundGoesOn
<1> HIDE DEF f, u
<1>4. f \in Nat
  BY <1>2 DEF Times
<1>5. Year(f) = Year(t)
  BY <1>2
<1>6. u \in Times /\ f < u /\ Begins(k, u) /\ \A v \in Nat : f < v /\ v < u => ~Begins(k, v)
  BY <1>2 DEF RoundIs
<1>7. u \in Nat /\ t < u
  BY <1>2, <1>6 DEF Times
<1>8. \A v \in f..(u-1) :
           /\ v \in Times
           /\ \A j \in 1..k : Matches(e, Loop[j], v) <=> Matches(e, Loop[j], f)
           /\ Year(v) = Year(f)
  BY <1>2, <1>6, RoundStays
<1>9. t \in f..(u-1) /\ u - 1 \in f..(u-1) /\ t..(u-1) \subseteq f..(u-1) /\ k \in 1..k
  BY <1>1, <1>2, <1>4, <1>7
<1>10. \A v \in t..(u-1) : ~Matches(e, Loop[k], v)
  BY <1>8, <1>9
<1>11. \A j \in 1..5 : j < k => Matches(e, Loop[j], u - 1)
  <2> TAKE j \in 1..5
  <2>1. SUFFICES ASSUME j < k PROVE Matches(e, Loop[j], u - 1)
    OBVIOUS
  <2>2. j \in 1..k /\ Matches(e, Loop[j], t)
    BY <1>1, <2>1
  <2>3. QED
    BY <1>8, <1>9, <2>2
<1>12. ASSUME NEW j \in 1..5, ~Matches(e, Loop[j], u) PROVE Begins(j, u)
  <2>1. CASE j < k
    <3>1. SUFFICES ASSUME ~Begins(j, u) PROVE FALSE
      OBVIOUS
    <3>2. u >= 1 /\ j \in 0..5 /\ j >= 1
      BY <1>1, <1>7
    <3>3. Matches(e, Loop[j], u) <=> Matches(e, Loop[j], u - 1)
      BY <1>6, <3>1, <3>2, FieldStays
    <3>4. QED
      BY <1>11, <1>12, <2>1, <3>3
  <2>2. CASE k = j
    BY <1>6, <2>2
  <2>3. CASE k < j
    <3>1. j \in 0..5 /\ k \in 0..5
      OBVIOUS
    <3>2. QED
      BY <1>6, <2>3, <3>1, BeginsNested
  <2>4. QED
    BY <2>1, <2>2, <2>3
<1>13. CASE Value(Loop[k], u) = Lowest[Loop[k]]
  <2>1. At(e, 0, u, first, year)
    BY <1>1, <1>6, <1>7, <1>12 DEF At
  <2>2. QED
    BY <1>7, <1>10, <1>13, <2>1 DEF u
<1>14. CASE Value(Loop[k], u) # Lowest[Loop[k]]
  <2>1. \A j \in 0..5 : j < k => ~Begins(j, u)
    BY <1>14, BeginsNested
  <2>2. u >= 1
    BY <1>1, <1>7
  <2>3. \A j \in 1..5 : j < k => Matches(e, Loop[j], u)
    <3> TAKE j \in 1..5
    <3>1. SUFFICES ASSUME j < k PROVE Matches(e, Loop[j], u)
      OBVIOUS
    <3>2. j \in 0..5 /\ j >= 1 /\ ~Begins(j, u)
      BY <2>1, <3>1
    <3>3. Matches(e, Loop[j], u) <=> Matches(e, Loop[j], u - 1)
      BY <1>6, <2>2, <3>2, FieldStays
    <3>4. QED
      BY <1>11, <3>1, <3>3
  <2>4. Year(u) <= year
    <3>1. 0 \in 0..5 /\ ~Begins(0, u)
      BY <2>1
    <3>2. Year(u) = Year(u - 1)
      BY <1>6, <2>2, <3>1, FieldStays
    <3>3. QED
      BY <1>1, <1>5, <1>8, <1>9, <3>2
  <2>5. At(e, k, u, first, year)
    BY <1>1, <1>6, <1>7, <1>12, <2>3, <2>4 DEF At
  <2>6. QED
    BY <1>7, <1>10, <1>14, <2>5 DEF u
<1>15. QED
  BY <1>13, <1>14

\* The years are in order.
LEMMA YearsInOrder ==
  ASSUME NEW s \in Times, NEW t \in Times, s <= t
  PROVE  Year(s) <= Year(t)
<1> DEFINE a == DayOf(s)
           b == DayOf(t)
<1>1. /\ s \in Nat /\ t \in Nat /\ a \in 1..Len(Calendar) /\ b \in 1..Len(Calendar)
      /\ Year(s) = Calendar[a].year /\ Year(t) = Calendar[b].year
  BY TimeHasDay
<1>2. a <= b
  BY <1>1, DaysOfTimes
<1> HIDE DEF a, b
<1>3. Below(a, b) \/ SameMonth(a, b)
  <2>1. BehindAll(b) /\ a \in 1..b
    BY <1>1, <1>2, DaysInOrder
  <2>2. QED
    BY <2>1 DEF BehindAll
<1>4. Calendar[a].year \in Nat /\ Calendar[b].year \in Nat
  BY <1>1, CronDays
<1>5. QED
  BY <1>1, <1>3, <1>4 DEF Below, SameMonth

\* An expression allows a time when all loops match.
LEMMA SaysIs ==
  ASSUME NEW e, NEW t \in Times
  PROVE  Says(e, t) <=> \A j \in 1..5 : Matches(e, Loop[j], t)
<1>1. /\ Lowest["dom"] = 1 /\ Lowest["dow"] = 0 /\ Highest["dom"] = DomMax /\ Highest["dow"] = WeekDays - 1
  BY DEF Lowest, Highest
<1>2. Value("dom", t) \in 1..DomMax /\ Value("dow", t) \in 0..(WeekDays - 1)
  <2>1. DayOf(t) \in 1..Len(Calendar) /\ Day(t) = Calendar[DayOf(t)]
    BY TimeHasDay
  <2>2. QED
    BY <2>1, CronDays, ValuesAre
<1>3. (\A f \in Fields \ {"dom", "dow"} : Value(f, t) \in e[f])
      <=> /\ Value("sec", t) \in e["sec"] /\ Value("min", t) \in e["min"]
          /\ Value("hour", t) \in e["hour"] /\ Value("month", t) \in e["month"]
  <2>1. Fields \ {"dom", "dow"} = {"sec", "min", "hour", "month"}
    BY DEF Fields
  <2>2. QED
    BY <2>1
<1>4. (\A j \in 1..5 : Matches(e, Loop[j], t))
      <=> /\ Value("sec", t) \in e["sec"] /\ Value("min", t) \in e["min"]
          /\ Value("hour", t) \in e["hour"] /\ Value("month", t) \in e["month"] /\ MatchDay(e, t)
  <2>1. /\ Matches(e, Loop[1], t) <=> Value("month", t) \in e["month"]
        /\ Matches(e, Loop[2], t) <=> MatchDay(e, t)
        /\ Matches(e, Loop[3], t) <=> Value("hour", t) \in e["hour"]
        /\ Matches(e, Loop[4], t) <=> Value("min", t) \in e["min"]
        /\ Matches(e, Loop[5], t) <=> Value("sec", t) \in e["sec"]
    BY LoopsAre DEF Matches
  <2>2. \A j \in 1..5 : j = 1 \/ j = 2 \/ j = 3 \/ j = 4 \/ j = 5
    OBVIOUS
  <2>3. 1 \in 1..5 /\ 2 \in 1..5 /\ 3 \in 1..5 /\ 4 \in 1..5 /\ 5 \in 1..5
    OBVIOUS
  <2>4. QED
    BY <2>1, <2>2, <2>3
<1> DEFINE blank(f) == e[f] = Lowest[f]..Highest[f]
           day == {f \in {"dom", "dow"} : ~blank(f)}
<1>5. (day = {} \/ \E f \in day : Value(f, t) \in e[f]) <=> MatchDay(e, t)
  <2>1. blank("dom") <=> e["dom"] = 1..DomMax
    BY <1>1
  <2>2. blank("dow") <=> e["dow"] = 0..(WeekDays - 1)
    BY <1>1
  <2>3. (day = {} \/ \E f \in day : Value(f, t) \in e[f])
        <=> \/ blank("dom") /\ blank("dow")
            \/ ~blank("dom") /\ Value("dom", t) \in e["dom"]
            \/ ~blank("dow") /\ Value("dow", t) \in e["dow"]
    <3> HIDE DEF blank
    <3>1. QED
      OBVIOUS
  <2>4. MatchDay(e, t)
        <=> IF e["dom"] = 1..DomMax THEN Value("dow", t) \in e["dow"]
            ELSE IF e["dow"] = 0..(WeekDays - 1) THEN Value("dom", t) \in e["dom"]
            ELSE Value("dow", t) \in e["dow"] \/ Value("dom", t) \in e["dom"]
    BY DEF MatchDay
  <2> HIDE DEF day, blank
  <2>5. QED
    BY <1>2, <2>1, <2>2, <2>3, <2>4
<1>6. Says(e, t) <=> /\ \A f \in Fields \ {"dom", "dow"} : Value(f, t) \in e[f]
                     /\ day = {} \/ \E f \in day : Value(f, t) \in e[f]
  BY DEF Says
<1> HIDE DEF day, blank
<1>7. QED
  BY <1>3, <1>4, <1>5, <1>6

\* The last year in which Next looks, and what it does in the loop k at t, if f
\* has the answers from there on.
LastYearFor(now) == Year(now + 1) + 1
Answer(f, e, now, k, t) ==
  IF t \notin Times THEN Never
  ELSE IF k = 0 THEN IF Year(t) > LastYearFor(now) THEN Never ELSE f[<<1, t>>]
  ELSE IF k = 6 THEN t
  ELSE IF Matches(e, Loop[k], t) THEN f[<<k + 1, t>>]
  ELSE LET u == RoundTo(k, t, now + 1)
       IN  f[<<IF Value(Loop[k], u) = Lowest[Loop[k]] THEN 0 ELSE k, u>>]
NextIs(f, e, now) == \A k \in 0..6, t \in Nat : f[<<k, t>>] = Answer(f, e, now, k, t)

\* How many steps there are to go at most.
TimesLen == Len(Calendar) * DaySecs
ToGo(k, t) == IF t \in Times THEN 7 * (TimesLen - t) + (7 - k) ELSE 0

\* Every step of the search leaves fewer to go: it goes on to the next loop, or
\* to a later time.
LEMMA ToGoIs ==
  /\ TimesLen \in Nat
  /\ \A k \in 0..6, t \in Nat :
       /\ ToGo(k, t) \in 0..(7 * TimesLen + 7)
       /\ t \in Times /\ k < 6 => ToGo(k + 1, t) < ToGo(k, t)
       /\ t \in Times => \A l \in 0..6, u \in Nat : t < u => ToGo(l, u) < ToGo(k, t)
<1>1. TimesLen \in Nat
  BY CronUnits, CronDays, ProductNat DEF TimesLen
<1>2. \A t \in Nat : t \in Times <=> t < TimesLen
  BY <1>1 DEF Times, TimesLen
<1>3. QED
  BY <1>1, <1>2 DEF ToGo

\* A round goes on from any time, whether Next comes to it or not.
LEMMA RoundForward ==
  ASSUME NEW k \in 1..5, NEW now \in 0..MaxTime, NEW t \in Times
  PROVE  RoundTo(k, t, now + 1) \in Nat /\ t < RoundTo(k, t, now + 1)
<1> DEFINE u == RoundTo(k, t, now + 1)
<1>1. t \in Nat /\ now + 1 \in Nat
  BY CronAssumption, TimeHasDay
<1>2. CASE t = now + 1
  <2>1. Year(t) < Calendar[Len(Calendar)].year
    <3>1. MaxTime + 1 \in Times /\ t <= MaxTime + 1 /\ Year(MaxTime + 1) + 1 < Calendar[Len(Calendar)].year
      BY <1>2, CronAssumption
    <3>2. Year(t) <= Year(MaxTime + 1) /\ Year(t) \in Nat /\ Year(MaxTime + 1) \in Nat
      BY <3>1, YearsInOrder, TimeHasDay
    <3>3. QED
      BY <3>1, <3>2, LastYear
  <2>2. t < u /\ RoundIs(k, RoundFrom(k, t, now + 1), u)
    BY <1>1, <1>2, <2>1, RoundGoesOn
  <2>3. QED
    BY <2>2 DEF RoundIs, Times
<1>3. CASE t # now + 1
  <2>1. u = t + Round(Loop[k], t)
    BY <1>3 DEF RoundTo, RoundFrom
  <2>2. Round(Loop[k], t) \in Nat /\ Round(Loop[k], t) >= 1
    <3>1. CASE k = 1
      <4> DEFINE M == {i \in DOMAIN Calendar : Calendar[i].year = Year(t) /\ Calendar[i].month = Day(t).month}
      <4>1. IsFiniteSet(M) /\ M # {}
        <5>1. DOMAIN Calendar = 1..Len(Calendar) /\ Len(Calendar) \in Nat
          BY CronAssumption, CronDays, LenProperties
        <5>2. IsFiniteSet(1..Len(Calendar))
          BY <5>1, FS_Interval
        <5>3. IsFiniteSet(M)
          BY <5>1, <5>2, FS_Subset
        <5>4. DayOf(t) \in M
          BY <5>1, TimeHasDay
        <5>5. QED
          BY <5>3, <5>4
      <4>2. Cardinality(M) \in Nat /\ Cardinality(M) # 0
        <5> HIDE DEF M
        <5>1. QED
          BY <4>1, FS_CardinalityType, FS_EmptySet
      <4>3. MonthLen(t) \in Nat /\ MonthLen(t) >= 1
        BY <4>2 DEF MonthLen
      <4>4. Round(Loop[k], t) = MonthLen(t) * DaySecs
        BY <3>1, LoopsAre DEF Round
      <4>5. QED
        BY <4>3, <4>4, CronUnits, Product
    <3>2. CASE k # 1
      <4>1. PICK l \in Nat : IsUnit(k, l)
        BY <3>2, UnitsAre
      <4>2. QED
        BY <4>1 DEF IsUnit
    <3>3. QED
      BY <3>1, <3>2
  <2>3. QED
    BY <1>1, <2>1, <2>2
<1>4. QED
  BY <1>2, <1>3

\* NextTime goes from one loop to the next as long as there are some to go.
LEMMA NextLoops ==
  ASSUME NEW e, NEW now \in 0..MaxTime
  PROVE  \E f : NextIs(f, e, now) /\ NextTime(e, now) = f[<<0, now + 1>>]
<1> DEFINE S == (0..6) \X Nat
           Onward(k, t) == <<IF Value(Loop[k], RoundTo(k, t, now + 1)) = Lowest[Loop[k]] THEN 0 ELSE k,
                         RoundTo(k, t, now + 1)>>
           done == {s \in S : \/ s[2] \notin Times \/ s[1] = 6
                              \/ s[1] = 0 /\ Year(s[2]) > LastYearFor(now)}
           step == [s \in S |-> IF s[1] = 0 THEN <<1, s[2]>>
                                ELSE IF Matches(e, Loop[s[1]], s[2]) THEN <<s[1] + 1, s[2]>>
                                ELSE Onward(s[1], s[2])]
           size == [s \in S |-> ToGo(s[1], s[2])]
           result == [s \in S |-> IF s[2] \in Times /\ s[1] = 6 THEN s[2] ELSE Never]
           V == Nat \cup {Never}
           bound == 7 * TimesLen + 7
           Body(f) == [s \in (0..6) \X Nat |->
             LET k == s[1]
                 t == s[2]
                 from == IF t = now + 1 THEN Truncate(Loop[k], t) ELSE t
                 u == from + Round(Loop[k], from)
             IN  IF t \notin Times THEN Never
                 ELSE IF k = 0 THEN IF Year(t) > Year(now + 1) + 1 THEN Never ELSE f[<<1, t>>]
                 ELSE IF k = 6 THEN t
                 ELSE IF Matches(e, Loop[k], t) THEN f[<<k + 1, t>>]
                 ELSE f[<<IF Value(Loop[k], u) = Lowest[Loop[k]] THEN 0 ELSE k, u>>]]
           next == CHOOSE f : f = Body(f)
<1>1. \A f : \A k \in 0..6, t \in Nat : Body(f)[<<k, t>>] = Answer(f, e, now, k, t)
  BY DEF Answer, LastYearFor, RoundTo, RoundFrom
<1>2. \A s \in S : s = <<s[1], s[2]>> /\ s[1] \in 0..6 /\ s[2] \in Nat
  OBVIOUS
<1>3. \A k \in 0..6, t \in Nat : <<k, t>> \in S /\ <<k, t>>[1] = k /\ <<k, t>>[2] = t
  OBVIOUS
<1>4. ASSUME NEW s \in S
      PROVE  size[s] \in 0..bound /\ (s \notin done => step[s] \in S /\ size[step[s]] < size[s])
  <2> DEFINE k == s[1]
             t == s[2]
  <2>1. s = <<k, t>> /\ k \in 0..6 /\ t \in Nat
    BY <1>2
  <2>2. \A x \in S : size[x] = ToGo(x[1], x[2])
    OBVIOUS
  <2>3. size[s] \in 0..bound
    BY <2>1, <2>2, ToGoIs
  <2>4. ASSUME s \notin done PROVE step[s] \in S /\ size[step[s]] < size[s]
    <3>1. t \in Times /\ k < 6
      BY <2>1, <2>4
    <3>2. CASE k = 0 \/ Matches(e, Loop[k], t)
      <4>1. step[s] = <<k + 1, t>>
        BY <3>2
      <4>2. k + 1 \in 0..6
        BY <2>1, <3>1
      <4>3. ToGo(k + 1, t) < ToGo(k, t)
        BY <2>1, <3>1, ToGoIs
      <4> HIDE DEF S, size, step, k, t
      <4>4. <<k + 1, t>> \in S /\ size[<<k + 1, t>>] = ToGo(k + 1, t)
        BY <1>3, <2>1, <2>2, <4>2
      <4>5. size[s] = ToGo(k, t)
        BY <2>2 DEF k, t
      <4>6. QED
        BY <4>1, <4>3, <4>4, <4>5
    <3>3. CASE k # 0 /\ ~Matches(e, Loop[k], t)
      <4> DEFINE u == RoundTo(k, t, now + 1)
                 l == IF Value(Loop[k], u) = Lowest[Loop[k]] THEN 0 ELSE k
      <4>1. step[s] = <<l, u>>
        BY <3>3
      <4>2. k \in 1..5
        BY <2>1, <3>1, <3>3
      <4> HIDE DEF S, size, step, k, t
      <4>3. u \in Nat /\ t < u
        BY <3>1, <4>2, RoundForward
      <4>4. l \in 0..6
        BY <2>1
      <4> HIDE DEF u, l
      <4>5. <<l, u>> \in S /\ size[<<l, u>>] = ToGo(l, u)
        BY <1>3, <2>2, <4>3, <4>4
      <4>6. ToGo(l, u) < ToGo(k, t)
        BY <2>1, <3>1, <4>3, <4>4, ToGoIs
      <4>7. size[s] = ToGo(k, t)
        BY <2>2 DEF k, t
      <4>8. QED
        BY <4>1, <4>5, <4>6, <4>7
    <3>4. QED
      BY <3>2, <3>3
  <2>5. QED
    BY <2>3, <2>4
<1>5. LoopEnds(S, step, done, size, bound)
  <2> HIDE DEF S, step, done, size, bound
  <2>1. QED
    BY <1>4 DEF LoopEnds
<1>6. result \in [S -> V] /\ bound \in Nat
  <2>1. \A s \in S : (IF s[2] \in Times /\ s[1] = 6 THEN s[2] ELSE Never) \in V
    BY <1>2
  <2>2. result \in [S -> V]
    <3> HIDE DEF S, V
    <3>1. QED
      BY <2>1
  <2>3. QED
    BY <2>2, ToGoIs
<1>7. PICK g : ResultOf(g, S, V, step, done, result)
  <2> HIDE DEF S, V, step, done, size, result, bound
  <2>1. QED
    BY <1>5, <1>6, LoopExists
<1>8. g \in [S -> V] /\ \A s \in S : g[s] = IF s \in done THEN result[s] ELSE g[step[s]]
  BY <1>7 DEF ResultOf
<1>9. \A k \in 0..6, t \in Nat : g[<<k, t>>] = Answer(g, e, now, k, t)
  <2> TAKE k \in 0..6, t \in Nat
  <2> DEFINE s == <<k, t>>
  <2>1. s \in S /\ s[1] = k /\ s[2] = t
    BY <1>3
  <2> HIDE DEF s
  <2>2. CASE s \in done
    <3>1. g[s] = IF t \in Times /\ k = 6 THEN t ELSE Never
      <4>1. g[s] = result[s]
        <5> HIDE DEF S, V, done, step, result
        <5>1. QED
          BY <1>8, <2>1, <2>2
      <4>2. QED
        BY <2>1, <4>1
    <3>2. t \notin Times \/ k = 6 \/ (k = 0 /\ Year(t) > LastYearFor(now))
      BY <2>1, <2>2
    <3>3. QED
      BY <3>1, <3>2 DEF Answer, s
  <2>3. CASE s \notin done
    <3>1. g[s] = g[step[s]]
      <4> HIDE DEF S, V, done, step, result
      <4>1. QED
        BY <1>8, <2>1, <2>3
    <3>2. step[s] = IF k = 0 THEN <<1, t>> ELSE IF Matches(e, Loop[k], t) THEN <<k + 1, t>> ELSE Onward(k, t)
      BY <2>1
    <3>3. t \in Times /\ k # 6 /\ ~(k = 0 /\ Year(t) > LastYearFor(now))
      BY <2>1, <2>3
    <3> HIDE DEF step, done, S, V
    <3>4. CASE k = 0
      BY <3>1, <3>2, <3>3, <3>4 DEF Answer, s
    <3>5. CASE k # 0 /\ Matches(e, Loop[k], t)
      BY <3>1, <3>2, <3>3, <3>5 DEF Answer, s
    <3>6. CASE k # 0 /\ ~Matches(e, Loop[k], t)
      BY <3>1, <3>2, <3>3, <3>6 DEF Answer, s
    <3>7. QED
      BY <3>4, <3>5, <3>6
  <2>4. QED
    BY <2>2, <2>3
<1>10. g = Body(g)
  <2>1. ASSUME NEW s \in S PROVE g[s] = Body(g)[s]
    <3>1. PICK k \in 0..6, t \in Nat : s = <<k, t>>
      BY <1>2
    <3> HIDE DEF Body
    <3>2. QED
      BY <1>1, <1>9, <3>1
  <2>2. g = [s \in S |-> g[s]]
    <3> HIDE DEF S, V
    <3>1. QED
      BY <1>8
  <2>3. Body(g) = [s \in S |-> Body(g)[s]]
    OBVIOUS
  <2>4. [s \in S |-> g[s]] = [s \in S |-> Body(g)[s]]
    <3> HIDE DEF Body, S
    <3>1. QED
      BY <2>1
  <2> HIDE DEF Body, S
  <2>5. QED
    BY <2>2, <2>3, <2>4
<1>11. next = Body(next)
  <2> HIDE DEF Body
  <2>1. QED
    BY <1>10, Zenon
<1>12. NextTime(e, now) = next[<<0, now + 1>>]
  BY Zenon DEF NextTime
<1> HIDE DEF next
<1>13. NextIs(next, e, now)
  <2>1. \A k \in 0..6, t \in Nat : next[<<k, t>>] = Body(next)[<<k, t>>]
    <3> HIDE DEF Body
    <3>1. QED
      BY <1>11, Zenon
  <2> HIDE DEF Body
  <2>2. QED
    BY <1>1, <2>1 DEF NextIs
<1>14. QED
  BY <1>12, <1>13

\* The times from t to the end of the year that an expression allows, and the
\* first of them.
SaidFrom(e, t, year) == {v \in Times : v >= t /\ Year(v) <= year /\ Says(e, v)}
IsFirstOfTimes(r, T) == IF T = {} THEN r = Never ELSE r \in T /\ \A v \in T : r <= v

\* From every time that Next comes to it finds the first that is allowed.
LEMMA NextFinds ==
  ASSUME NEW e, NEW now \in 0..MaxTime, NEW f, NextIs(f, e, now)
  PROVE  \A k \in 0..6, t \in Nat :
           At(e, k, t, now + 1, LastYearFor(now))
             => IsFirstOfTimes(f[<<k, t>>], SaidFrom(e, t, LastYearFor(now)))
<1> DEFINE first == now + 1
           year == LastYearFor(now)
           bound == 7 * TimesLen + 7
           Right(k, t) == At(e, k, t, first, year) => IsFirstOfTimes(f[<<k, t>>], SaidFrom(e, t, year))
           P == {n \in 0..bound : \A k \in 0..6, t \in Nat : ToGo(k, t) <= n => Right(k, t)}
<1>1. first \in Nat /\ bound \in Nat /\ first \in Times
  <2>1. now \in Nat /\ now <= MaxTime /\ MaxTime + 1 \in Times /\ MaxTime \in Nat
    BY CronAssumption
  <2>2. Len(Calendar) * DaySecs \in Nat
    BY CronUnits, CronDays, ProductNat
  <2>3. first \in Nat /\ first \in Times
    BY <2>1, <2>2 DEF Times
  <2>4. bound \in Nat
    BY ToGoIs
  <2>5. QED
    BY <2>3, <2>4
<1>2. year \in Nat /\ year < Calendar[Len(Calendar)].year
  <2>1. MaxTime + 1 \in Times /\ first <= MaxTime + 1 /\ Year(MaxTime + 1) + 1 < Calendar[Len(Calendar)].year
    BY CronAssumption
  <2>2. Year(first) <= Year(MaxTime + 1) /\ Year(first) \in Nat /\ Year(MaxTime + 1) \in Nat
    BY <1>1, <2>1, YearsInOrder, TimeHasDay
  <2>3. year = Year(first) + 1
    BY DEF LastYearFor
  <2>4. QED
    BY <2>1, <2>2, <2>3, LastYear
<1>3. \A k \in 0..6, t \in Nat : f[<<k, t>>] = Answer(f, e, now, k, t)
  BY DEF NextIs
<1>4. ASSUME NEW k \in 0..6, NEW t \in Nat, At(e, k, t, first, year),
             \A l \in 0..6, u \in Nat : ToGo(l, u) < ToGo(k, t) => Right(l, u)
      PROVE  IsFirstOfTimes(f[<<k, t>>], SaidFrom(e, t, year))
  <2>1. t \in Times /\ t >= first /\ (k >= 1 => Year(t) <= year)
        /\ (\A j \in 1..5 : j < k => Matches(e, Loop[j], t))
    BY <1>4 DEF At
  <2>2. ASSUME k < 6, At(e, k + 1, t, first, year)
        PROVE  IsFirstOfTimes(f[<<k + 1, t>>], SaidFrom(e, t, year))
    <3>1. k + 1 \in 0..6 /\ ToGo(k + 1, t) < ToGo(k, t)
      <4>1. k + 1 \in 0..6
        BY <2>2
      <4>2. ToGo(k + 1, t) < ToGo(k, t)
        BY <2>1, <2>2, ToGoIs
      <4>3. QED
        BY <4>1, <4>2
    <3>2. Right(k + 1, t)
      <4> HIDE DEF Right
      <4>1. QED
        BY <1>4, <3>1
    <3>3. QED
      BY <2>2, <3>2
  <2>3. CASE k = 0 /\ Year(t) > year
    <3>1. f[<<k, t>>] = Never
      BY <1>3, <2>1, <2>3 DEF Answer
    <3>2. SaidFrom(e, t, year) = {}
      <4>1. ASSUME NEW v \in Times, v >= t, Year(v) <= year PROVE FALSE
        <5>1. Year(t) <= Year(v) /\ Year(t) \in Nat /\ Year(v) \in Nat
          BY <2>1, <4>1, YearsInOrder, TimeHasDay
        <5>2. QED
          BY <1>2, <2>3, <4>1, <5>1
      <4>2. QED
        BY <4>1 DEF SaidFrom
    <3>3. QED
      BY <3>1, <3>2 DEF IsFirstOfTimes
  <2>4. CASE k = 0 /\ ~(Year(t) > year)
    <3>1. f[<<k, t>>] = f[<<k + 1, t>>]
      BY <1>3, <2>1, <2>4 DEF Answer
    <3>2. At(e, k + 1, t, first, year)
      <4>1. Year(t) <= year
        BY <1>2, <2>1, <2>4, TimeHasDay
      <4>2. QED
        BY <1>4, <2>4, <4>1 DEF At
    <3>3. QED
      BY <2>2, <2>4, <3>1, <3>2
  <2>5. CASE k = 6
    <3>1. f[<<k, t>>] = t
      BY <1>3, <2>1, <2>5 DEF Answer
    <3>2. t \in SaidFrom(e, t, year)
      <4>1. Says(e, t)
        BY <2>1, <2>5, SaysIs
      <4>2. QED
        BY <2>1, <2>5, <4>1 DEF SaidFrom
    <3>3. QED
      BY <3>1, <3>2 DEF IsFirstOfTimes, SaidFrom
  <2>6. CASE k \in 1..5 /\ Matches(e, Loop[k], t)
    <3>1. f[<<k, t>>] = f[<<k + 1, t>>]
      <4>1. k # 0 /\ k # 6
        BY <2>6
      <4>2. QED
        BY <1>3, <2>1, <2>6, <4>1 DEF Answer
    <3>2. At(e, k + 1, t, first, year)
      <4>1. \A j \in 1..5 : j < k + 1 => Matches(e, Loop[j], t)
        <5>1. \A j \in 1..5 : j < k + 1 => j < k \/ j = k
          OBVIOUS
        <5>2. QED
          BY <2>1, <2>6, <5>1
      <4>2. QED
        BY <1>4, <2>6, <4>1 DEF At
    <3>3. QED
      BY <2>2, <2>6, <3>1, <3>2
  <2>7. CASE k \in 1..5 /\ ~Matches(e, Loop[k], t)
    <3> DEFINE u == RoundTo(k, t, first)
               l == IF Value(Loop[k], u) = Lowest[Loop[k]] THEN 0 ELSE k
    <3>1. f[<<k, t>>] = f[<<l, u>>]
      <4>1. k # 0 /\ k # 6
        BY <2>7
      <4>2. f[<<k, t>>] = Answer(f, e, now, k, t)
        BY <1>3
      <4>3. QED
        BY <2>1, <2>7, <4>1, <4>2 DEF Answer
    <3>2. /\ u \in Nat /\ t < u /\ (\A v \in t..(u-1) : ~Matches(e, Loop[k], v))
          /\ At(e, l, u, first, year)
      BY <1>1, <1>2, <1>4, <2>7, RoundKeeps
    <3>3. l \in 0..6
      BY <2>7
    <3> HIDE DEF u, l
    <3>4. IsFirstOfTimes(f[<<l, u>>], SaidFrom(e, u, year))
      <4>1. ToGo(l, u) < ToGo(k, t)
        BY <2>1, <3>2, <3>3, ToGoIs
      <4>2. Right(l, u)
        <5> HIDE DEF Right
        <5>1. QED
          BY <1>4, <3>2, <3>3, <4>1
      <4>3. QED
        BY <3>2, <4>2
    <3>5. SaidFrom(e, t, year) = SaidFrom(e, u, year)
      <4>1. ASSUME NEW v \in Times, Says(e, v), v >= t PROVE v >= u
        <5>1. Matches(e, Loop[k], v)
          BY <2>7, <4>1, SaysIs
        <5>2. v \in Nat
          BY TimeHasDay
        <5>3. v \in t..(u-1) \/ v >= u
          BY <3>2, <4>1, <5>2
        <5>4. QED
          BY <3>2, <5>1, <5>3
      <4>2. \A v \in Times : v >= u => v >= t
        BY <3>2, TimeHasDay
      <4>3. QED
        BY <4>1, <4>2 DEF SaidFrom
    <3>6. QED
      BY <3>1, <3>4, <3>5
  <2>8. k = 0 \/ k = 6 \/ k \in 1..5
    OBVIOUS
  <2>9. QED
    BY <2>3, <2>4, <2>5, <2>6, <2>7, <2>8
<1>5. \A k \in 0..6, t \in Nat : ToGo(k, t) \in Nat /\ ToGo(k, t) <= bound
  <2> TAKE k \in 0..6, t \in Nat
  <2>1. ToGo(k, t) \in 0..bound
    BY ToGoIs
  <2> HIDE DEF bound
  <2>2. \A x \in 0..bound : x \in Nat /\ x <= bound
    BY <1>1
  <2>3. QED
    BY <2>1, <2>2
<1>11. ASSUME NEW k \in 0..6, NEW t \in Nat,
              \A l \in 0..6, u \in Nat : ToGo(l, u) < ToGo(k, t) => Right(l, u)
       PROVE  Right(k, t)
  BY <1>4, <1>11
<1> HIDE DEF bound, Right
<1>6. 0 \in P
  <2>1. ASSUME NEW k \in 0..6, NEW t \in Nat, ToGo(k, t) <= 0 PROVE Right(k, t)
    <3>1. \A l \in 0..6, u \in Nat : ~(ToGo(l, u) < ToGo(k, t))
      <4>1. \A x, y \in Nat : y <= 0 => ~(x < y)
        OBVIOUS
      <4>2. QED
        BY <1>5, <2>1, <4>1
    <3>2. QED
      BY <1>11, <3>1
  <2>2. QED
    BY <1>1, <2>1
<1>7. ASSUME NEW n \in 0..bound, n \in P, n < bound PROVE n + 1 \in P
  <2>1. ASSUME NEW k \in 0..6, NEW t \in Nat, ToGo(k, t) <= n + 1 PROVE Right(k, t)
    <3>1. ASSUME NEW l \in 0..6, NEW u \in Nat, ToGo(l, u) < ToGo(k, t) PROVE Right(l, u)
      <4>1. ToGo(l, u) <= n
        <5>1. \A x, y \in Nat : \A m \in 0..bound : x < y /\ y <= m + 1 => x <= m
          OBVIOUS
        <5>2. QED
          BY <1>5, <2>1, <3>1, <5>1
      <4>2. QED
        BY <1>7, <4>1
    <3>2. QED
      BY <1>11, <3>1
  <2>2. n + 1 \in 0..bound
    BY <1>1, <1>7
  <2>3. QED
    BY <2>1, <2>2
<1>8. bound \in P
  <2> HIDE DEF P
  <2>1. \A n \in 0..bound : n \in P
    BY <1>1, <1>6, <1>7, IntervalInduction
  <2>2. QED
    BY <1>1, <2>1
<1>9. ASSUME NEW k \in 0..6, NEW t \in Nat PROVE Right(k, t)
  <2>1. ToGo(k, t) <= bound
    BY <1>1, <1>5
  <2>2. QED
    BY <1>8, <2>1
<1>10. QED
  BY <1>9 DEF Right

\* Next finds the first second behind now that the expression allows, this year
\* or the next one.
LEMMA NextTimeFinds ==
  ASSUME NEW e, NEW now \in 0..MaxTime
  PROVE  IsFirstOfTimes(NextTime(e, now), SaidFrom(e, now + 1, LastYearFor(now)))
<1>1. PICK f : NextIs(f, e, now) /\ NextTime(e, now) = f[<<0, now + 1>>]
  BY NextLoops
<1>2. now + 1 \in Nat /\ now + 1 \in Times
  <2>1. now \in Nat /\ now <= MaxTime /\ MaxTime + 1 \in Times /\ MaxTime \in Nat
    BY CronAssumption
  <2>2. Len(Calendar) * DaySecs \in Nat
    BY CronUnits, CronDays, ProductNat
  <2>3. QED
    BY <2>1, <2>2 DEF Times
<1>3. At(e, 0, now + 1, now + 1, LastYearFor(now))
  BY <1>2 DEF At
<1>4. QED
  BY <1>1, <1>2, <1>3, NextFinds

(* ------------------------ Crons: the specification --------------------- *)

\* A cron waits for the answer of Next to the clock at which it was last run,
\* at which no second is like the one it was run at.
CronInv ==
  /\ CronTypeOK /\ ranAt <= clock
  /\ cronState \in {"set", "over"} /\ clock = ranAt => cronTimer = NextTime(expr, ranAt)

\* The values of an expression that is accepted are numbers.
LEMMA ExprValues ==
  ASSUME NEW x \in Allowed
  PROVE  x \in [Fields -> SUBSET Nat]
<1>1. PICK e \in Exprs : x = NewCronExpr(e)
  BY DEF Allowed
<1>2. ASSUME NEW f \in Fields
      PROVE  UNION {ItemValues(e[f][i], Lowest[f], Highest[f]) : i \in DOMAIN e[f]} \subseteq Nat
  <2>1. ASSUME NEW i \in DOMAIN e[f] PROVE ItemValues(e[f][i], Lowest[f], Highest[f]) \subseteq Nat
    <3>1. From(e[f][i], Lowest[f]) \in Nat /\ To(e[f][i], Highest[f]) \in Nat
      BY CronAssumption
    <3>2. QED
      BY <3>1 DEF ItemValues
  <2>2. QED
    BY <2>1
<1>3. QED
  BY <1>1, <1>2 DEF NewCronExpr

\* The initial states satisfy the invariant.
LEMMA CronInitially == CronInit => CronInv
<1> SUFFICES ASSUME CronInit PROVE CronInv
  OBVIOUS
<1>1. expr \in [Fields -> SUBSET Nat]
  BY ExprValues DEF CronInit
<1>2. QED
  BY <1>1, CronAssumption DEF CronInit, CronInv, CronTypeOK

\* Every step keeps it: the timer is set to the first time of the expression,
\* and a later reading of the clock does not change what was right when it was
\* set.
LEMMA CronStep == CronInv /\ [CronNext]_cronVars => CronInv'
<1> SUFFICES ASSUME CronInv, [CronNext]_cronVars PROVE CronInv'
  OBVIOUS
<1>1. expr \in [Fields -> SUBSET Nat] /\ clock \in 0..MaxTime /\ ranAt \in 0..MaxTime /\ MaxTime \in Nat
      /\ cronState \in {"new", "set", "over", "stopped"} /\ cronTimer \in Nat \cup {Never}
      /\ (cronState = "set" <=> cronTimer # Never) /\ ranAt <= clock
  BY CronAssumption DEF CronInv, CronTypeOK
<1>2. CASE SetNext
  <2>1. /\ cronTimer' = NextTime(expr, clock) /\ ranAt' = clock /\ expr' = expr /\ clock' = clock
        /\ cronState' = IF cronTimer' = Never THEN "over" ELSE "set"
    BY <1>2 DEF SetNext
  <2>2. cronTimer' \in Nat \cup {Never}
    <3>1. IsFirstOfTimes(NextTime(expr, clock), SaidFrom(expr, clock + 1, LastYearFor(clock)))
      BY <1>1, NextTimeFinds
    <3>2. SaidFrom(expr, clock + 1, LastYearFor(clock)) \subseteq Nat
      BY TimeHasDay DEF SaidFrom
    <3>3. QED
      BY <2>1, <3>1, <3>2 DEF IsFirstOfTimes
  <2>3. CronTypeOK'
    BY <1>1, <2>1, <2>2 DEF CronTypeOK
  <2>4. QED
    BY <1>1, <2>1, <2>3 DEF CronInv
<1>3. CASE CronStop
  BY <1>1, <1>3, CronAssumption DEF CronStop, CronInv, CronTypeOK
<1>4. CASE Second
  <2>1. clock < MaxTime /\ clock' = clock + 1 /\ expr' = expr /\ cronState' = cronState
        /\ cronTimer' = cronTimer /\ ranAt' = ranAt
    BY <1>4 DEF Second
  <2>2. clock' \in 0..MaxTime /\ ranAt' < clock'
    BY <1>1, <2>1
  <2>3. clock' # ranAt' /\ ranAt' <= clock'
    BY <1>1, <2>1
  <2>4. QED
    BY <1>1, <2>1, <2>2, <2>3 DEF CronInv, CronTypeOK
<1>5. CASE UNCHANGED cronVars
  BY <1>5 DEF cronVars, CronInv, CronTypeOK
<1>6. QED
  BY <1>2, <1>3, <1>4, <1>5 DEF CronNext, CronFunc, CronCb

\* The invariant holds in every state.
LEMMA CronInvariant == CronSpec => []CronInv
<1>1. QED
  BY CronInitially, CronStep, PTL DEF CronSpec

\* The variables of a cron keep their types: a cron that is set has a time to
\* wait for (CronFunc, Next).
THEOREM CronTypeCorrect == CronSpec => []CronTypeOK
<1>1. CronInv => CronTypeOK
  BY DEF CronInv
<1>2. QED
  BY <1>1, CronInvariant, PTL

\* A cron waits for the first second behind the last time it was run that its
\* expression allows, on any calendar, and gives up only when there is none this
\* year or the next (CronExpr.Next, CronFunc).
THEOREM CronsRunOnTime == CronSpec => []CronFollows
<1>1. CronInv => CronFollows
  <2> SUFFICES ASSUME CronInv, cronState \in {"set", "over"}, clock = ranAt
      PROVE  LET said == {t \in Times : t > ranAt /\ Year(t) <= Year(ranAt + 1) + 1 /\ Says(expr, t)}
             IN  IF said = {} THEN cronTimer = Never
                 ELSE cronTimer \in said /\ \A t \in said : cronTimer <= t
    BY DEF CronFollows
  <2> DEFINE said == {t \in Times : t > ranAt /\ Year(t) <= Year(ranAt + 1) + 1 /\ Says(expr, t)}
  <2>1. ranAt \in 0..MaxTime /\ ranAt \in Nat /\ cronTimer = NextTime(expr, ranAt)
    BY CronAssumption DEF CronInv, CronTypeOK
  <2>2. SaidFrom(expr, ranAt + 1, LastYearFor(ranAt)) = said
    <3>1. \A t \in Times : t > ranAt <=> t >= ranAt + 1
      BY <2>1, TimeHasDay
    <3>2. QED
      BY <3>1 DEF SaidFrom, LastYearFor
  <2>3. IsFirstOfTimes(NextTime(expr, ranAt), SaidFrom(expr, ranAt + 1, LastYearFor(ranAt)))
    BY <2>1, NextTimeFinds
  <2> HIDE DEF said
  <2>4. IF said = {} THEN cronTimer = Never ELSE cronTimer \in said /\ \A t \in said : cronTimer <= t
    BY <2>1, <2>2, <2>3 DEF IsFirstOfTimes
  <2>5. QED
    BY <2>4 DEF said
<1>2. QED
  BY <1>1, CronInvariant, PTL
===============================================================================
