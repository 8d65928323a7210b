----------------------------- MODULE TcpClientProof -----------------------------
(***************************************************************************)
(* What holds of TcpClient.tla for every set of addresses, every capacity  *)
(* of ChanCall and every number of orders, sessions and messages.          *)
(***************************************************************************)
EXTENDS TcpClient, SeqLemmas

(* ------------------------ The inductive invariant ---------------------- *)


\* The calls that are sent: an add has an address, a del has none.
Calls == [type : {"connect", "recv", "close"}, s : SessionIds]
         \cup [type : {"add"}, a : Addrs] \cup [type : {"del"}, a : {None}]
Adds == [type : {"add"}, a : Addrs]

Begins(x, t) == x.type = "connect" /\ x.s = t
Ends(x, t) == x.type = "close" /\ x.s = t
Of(x, t) == x.type \in {"connect", "recv", "close"} /\ x.s = t
Other(x, t) == x.type \in {"connect", "recv", "close"} /\ x.s # t

\* Where the events of the session t begin: at a connect in the queue, or in
\* front of the queue if the main loop has handled it.
Opens(q, t, begun, i) == \/ i = 0 /\ begun
                         \/ i \in DOMAIN q /\ Begins(q[i], t)

\* The events of t begin once, they end before any of another session, and they
\* have their end unless the goroutine works on t.
Block(q, t, begun, working) ==
  /\ \A i, j \in 0..Len(q) : Opens(q, t, begun, i) /\ Opens(q, t, begun, j) => i = j
  /\ \A i \in 0..Len(q), j \in DOMAIN q :
       Opens(q, t, begun, i) /\ i < j /\ Other(q[j], t) =>
         \E k \in DOMAIN q : i < k /\ k < j /\ Ends(q[k], t)
  /\ ~working => \A i \in 0..Len(q) : Opens(q, t, begun, i) =>
                   \E k \in DOMAIN q : i < k /\ Ends(q[k], t)

Begun(t) == info # None /\ info.session = t
Working(t) == \E c \in ClientIds : pc[c] = "receive" /\ session[c] = t
BlocksInv == \A t \in SessionIds : Block(chanCall, t, Begun(t), Working(t))

\* A session that was not made, or not yet posted, has no event.
Fresh(t) == t > sessions \/ \E c \in ClientIds : pc[c] \in {"dialled", "connect"} /\ session[c] = t
FreshInv == \A t \in SessionIds : Fresh(t) => ~Begun(t) /\ \A x \in Elems(chanCall) : ~Of(x, t)

\* A goroutine that has a session made it; a session has a client that was
\* made; only the client in place runs.
RunInv ==
  /\ OneClientRuns
  /\ \A c \in ClientIds :
       /\ c > clients => pc[c] = "none"
       /\ pc[c] \in {"dialled", "connect", "receive", "leave"} =>
            session[c] \in SessionIds /\ session[c] <= sessions
  /\ \A t \in SessionIds : t <= sessions => owner[t] \in ClientIds /\ owner[t] <= clients

\* The logic session in place is of the address in place, and open.
InfoInv ==
  /\ mainPc = "stop" => info # None
  /\ \A t \in SessionIds : Begun(t) => info.addr = addr[owner[t]] /\ (mainPc = "select" => logic[t] = "open")

\* A client is made for an order.
OrderInv == clients + Count(chanCall, Adds) + (IF mainPc = "stop" /\ next # None THEN 1 ELSE 0) <= orders

CliTypes ==
  /\ chanCall \in Seq(Calls) /\ Len(chanCall) <= CallCap
  /\ orders \in 0..MaxOrders
  /\ mainPc \in {"select", "stop"} /\ next \in {None} \cup Addrs
  /\ info = None \/ info \in [cli : ClientIds, addr : Addrs, session : {None} \cup SessionIds]
  /\ clients \in Nat /\ sessions \in 0..MaxSessions
  /\ pc \in [ClientIds -> {"none", "dial", "dialled", "connect", "receive", "leave", "done"}]
  /\ addr \in [ClientIds -> {None} \cup Addrs] /\ closeFlag \in [ClientIds -> BOOLEAN]
  /\ member \in [ClientIds -> {None} \cup SessionIds]
  /\ session \in [ClientIds -> {None} \cup SessionIds]
  /\ owner \in [SessionIds -> {None} \cup ClientIds]
  /\ alive \in [SessionIds -> BOOLEAN]
  /\ logic \in [SessionIds -> {"none", "open", "closed"}]

CliInv == CliTypes /\ RunInv /\ InfoInv /\ OrderInv /\ FreshInv /\ BlocksInv

(* ------------------------------- Blocks -------------------------------- *)

\* A call is put in the queue: the connect of a session without one, an event
\* of another session only behind the end of t, the close as the last of t.
LEMMA BlockAppend ==
  ASSUME NEW q \in Seq(Calls), NEW x \in Calls, NEW t, NEW b, NEW w, NEW v, Block(q, t, b, w),
         Begins(x, t) => v /\ ~b /\ \A y \in Elems(q) : ~Of(y, t),
         Other(x, t) => ~w, ~v => ~w \/ Ends(x, t)
  PROVE  Block(Append(q, x), t, b, v)
<1> DEFINE n == Len(q)
           A == Append(q, x)
<1>1. n \in Nat /\ DOMAIN q = 1..n
  BY LenProperties
<1>2. A \in Seq(Calls) /\ Len(A) = n + 1 /\ A[n + 1] = x /\ \A i \in 1..n : A[i] = q[i]
  BY AppendProperties
<1>3. DOMAIN A = 1..(n + 1)
  BY <1>2, LenProperties
<1> HIDE DEF A
<1>4. \A i \in 0..n : Opens(A, t, b, i) <=> Opens(q, t, b, i)
  BY <1>1, <1>2, <1>3 DEF Opens
<1>5. Opens(A, t, b, n + 1) => Begins(x, t) /\ \A i \in 0..n : ~Opens(q, t, b, i)
  <2> SUFFICES ASSUME Opens(A, t, b, n + 1) PROVE Begins(x, t) /\ \A i \in 0..n : ~Opens(q, t, b, i)
    OBVIOUS
  <2>1. Begins(x, t)
    BY <1>1, <1>2 DEF Opens
  <2>2. ~b /\ \A i \in DOMAIN q : ~Begins(q[i], t)
    BY <2>1 DEF Elems, Begins, Of
  <2>3. QED
    BY <2>1, <2>2 DEF Opens
<1>6. /\ \A i \in 0..(n + 1) : i \in 0..n \/ i = n + 1
      /\ \A i \in 1..(n + 1) : i \in 1..n \/ i = n + 1
      /\ n + 1 \in 1..(n + 1) /\ \A i \in 1..n : i \in 1..(n + 1)
      /\ \A i \in 0..n : i < n + 1
      /\ \A i \in 1..(n + 1) : ~(n + 1 < i)
  BY <1>1
<1>7. /\ \A i, j \in 0..n : Opens(q, t, b, i) /\ Opens(q, t, b, j) => i = j
      /\ \A i \in 0..n, j \in 1..n :
           Opens(q, t, b, i) /\ i < j /\ Other(q[j], t) => \E k \in 1..n : i < k /\ k < j /\ Ends(q[k], t)
      /\ ~w => \A i \in 0..n : Opens(q, t, b, i) => \E k \in 1..n : i < k /\ Ends(q[k], t)
  BY <1>1 DEF Block
<1> HIDE DEF n
<1>8. \A i, j \in 0..(n + 1) : Opens(A, t, b, i) /\ Opens(A, t, b, j) => i = j
  BY <1>4, <1>5, <1>6, <1>7
<1>9. ASSUME NEW i \in 0..(n + 1), NEW j \in 1..(n + 1), Opens(A, t, b, i), i < j, Other(A[j], t)
      PROVE  \E k \in 1..(n + 1) : i < k /\ k < j /\ Ends(A[k], t)
  <2>1. i \in 0..n /\ Opens(q, t, b, i)
    BY <1>4, <1>6, <1>9
  <2>2. CASE j \in 1..n
    <3>1. PICK k \in 1..n : i < k /\ k < j /\ Ends(q[k], t)
      BY <1>2, <1>7, <1>9, <2>1, <2>2
    <3>2. QED
      BY <1>2, <1>6, <3>1
  <2>3. CASE j = n + 1
    <3>1. ~w
      BY <1>2, <1>9, <2>3
    <3>2. PICK k \in 1..n : i < k /\ Ends(q[k], t)
      BY <1>7, <2>1, <3>1
    <3>3. k < n + 1
      BY <1>6, <3>2, <1>1
    <3>4. QED
      BY <1>2, <1>6, <2>3, <3>2, <3>3
  <2>4. QED
    BY <1>6, <2>2, <2>3
<1>10. ASSUME ~v, NEW i \in 0..(n + 1), Opens(A, t, b, i)
       PROVE  \E k \in 1..(n + 1) : i < k /\ Ends(A[k], t)
  <2>1. i \in 0..n /\ Opens(q, t, b, i)
    BY <1>4, <1>5, <1>6, <1>10
  <2>2. CASE ~w
    <3>1. PICK k \in 1..n : i < k /\ Ends(q[k], t)
      BY <1>7, <2>1, <2>2
    <3>2. QED
      BY <1>2, <1>6, <3>1
  <2>3. CASE Ends(x, t)
    BY <1>2, <1>6, <2>1, <2>3
  <2>4. QED
    BY <1>10, <2>2, <2>3
<1>11. QED
  BY <1>2, <1>3, <1>8, <1>9, <1>10 DEF Block, A

\* A call is taken from the queue: the close of t takes it from the entry.
LEMMA BlockTail ==
  ASSUME NEW q \in Seq(Calls), q # <<>>, NEW t, NEW b, NEW w, NEW d, Block(q, t, b, w),
         d => (b /\ ~Ends(Head(q), t)) \/ Begins(Head(q), t)
  PROVE  Block(Tail(q), t, d, w)
<1> DEFINE n == Len(q)
           B == Tail(q)
           m == n - 1
<1>1. n \in Nat \ {0} /\ DOMAIN q = 1..n /\ Head(q) = q[1]
  BY LenProperties, EmptySeq
<1>2. B \in Seq(Calls) /\ Len(B) = m /\ \A i \in 1..m : B[i] = q[i + 1]
  BY HeadTailProperties
<1>3. DOMAIN B = 1..m
  BY <1>2, LenProperties
<1> HIDE DEF B
<1>4. /\ \A i, j \in 0..n : Opens(q, t, b, i) /\ Opens(q, t, b, j) => i = j
      /\ \A i \in 0..n, j \in 1..n :
           Opens(q, t, b, i) /\ i < j /\ Other(q[j], t) => \E k \in 1..n : i < k /\ k < j /\ Ends(q[k], t)
      /\ ~w => \A i \in 0..n : Opens(q, t, b, i) => \E k \in 1..n : i < k /\ Ends(q[k], t)
  BY <1>1 DEF Block
<1> HIDE DEF n
<1>5. /\ \A i \in 0..m : i + 1 \in 0..n /\ i + 1 # 0
      /\ \A i \in 1..m : i + 1 \in 1..n /\ i + 1 # 1 /\ i # 0
      /\ \A k \in 1..n : k = 1 \/ (k - 1 \in 1..m /\ (k - 1) + 1 = k /\ k > 1)
      /\ 0 \in 0..n /\ 1 \in 0..n /\ 1 \in 1..n /\ m \in Nat
  BY <1>1
<1> HIDE DEF m
\* The place in q of what opens the rest.
<1> DEFINE From(i) == IF i = 0 THEN (IF Begins(q[1], t) THEN 1 ELSE 0) ELSE i + 1
<1>6. ASSUME NEW i \in 0..m, Opens(B, t, d, i)
      PROVE  /\ From(i) \in 0..n /\ Opens(q, t, b, From(i)) /\ From(i) <= i + 1
             /\ \A k \in 1..n : From(i) < k /\ Ends(q[k], t) => k - 1 \in 1..m /\ i < k - 1 /\ B[k - 1] = q[k]
  <2>1. CASE i = 0
    <3>1. d
      BY <1>3, <1>6, <2>1 DEF Opens
    <3>2. CASE Begins(q[1], t)
      <4>1. From(i) = 1
        BY <2>1, <3>2
      <4>2. Opens(q, t, b, 1)
        BY <1>1, <1>5, <3>2 DEF Opens
      <4> HIDE DEF From
      <4>3. ASSUME NEW k \in 1..n, 1 < k PROVE k - 1 \in 1..m /\ 0 < k - 1 /\ B[k - 1] = q[k]
        BY <1>2, <1>5, <4>3
      <4>4. QED
        BY <1>5, <2>1, <4>1, <4>2, <4>3
    <3>3. CASE ~Begins(q[1], t)
      <4>1. From(i) = 0
        BY <2>1, <3>3
      <4>2. b /\ ~Ends(q[1], t)
        BY <1>1, <3>1, <3>3
      <4>3. Opens(q, t, b, 0)
        BY <4>2 DEF Opens
      <4> HIDE DEF From
      <4>4. ASSUME NEW k \in 1..n, Ends(q[k], t) PROVE k - 1 \in 1..m /\ 0 < k - 1 /\ B[k - 1] = q[k]
        <5>1. k # 1
          BY <4>2, <4>4
        <5>2. QED
          BY <1>2, <1>5, <5>1
      <4>5. QED
        BY <1>5, <2>1, <4>1, <4>3, <4>4
    <3>4. QED
      BY <3>2, <3>3
  <2>2. CASE i # 0
    <3>1. From(i) = i + 1 /\ i \in 1..m
      BY <1>3, <1>6, <2>2 DEF Opens
    <3>2. Opens(q, t, b, i + 1)
      BY <1>1, <1>2, <1>3, <1>5, <1>6, <2>2, <3>1 DEF Opens
    <3> HIDE DEF From
    <3>3. ASSUME NEW k \in 1..n, i + 1 < k PROVE k - 1 \in 1..m /\ i < k - 1 /\ B[k - 1] = q[k]
      <4>1. k # 1 /\ k - 1 > i
        BY <1>1, <3>1, <3>3
      <4>2. QED
        BY <1>2, <1>5, <4>1
    <3>4. QED
      BY <1>5, <3>1, <3>2, <3>3
  <2>3. QED
    BY <2>1, <2>2
<1>7. ASSUME NEW i \in 0..m, NEW j \in 0..m, Opens(B, t, d, i), Opens(B, t, d, j) PROVE i = j
  <2>1. From(i) = From(j)
    <3> HIDE DEF From
    <3>1. QED
      BY <1>4, <1>6, <1>7
  <2>2. i = 0 => ~(j # 0)
    <3>1. ASSUME i = 0, j # 0 PROVE FALSE
      <4>1. From(j) = j + 1 /\ j + 1 # 1 /\ j + 1 # 0
        BY <1>5, <3>1
      <4>2. From(i) \in {0, 1}
        BY <3>1
      <4>3. QED
        BY <2>1, <4>1, <4>2
    <3>2. QED
      BY <3>1
  <2>3. j = 0 => ~(i # 0)
    <3>1. ASSUME j = 0, i # 0 PROVE FALSE
      <4>1. From(i) = i + 1 /\ i + 1 # 1 /\ i + 1 # 0
        BY <1>5, <3>1
      <4>2. From(j) \in {0, 1}
        BY <3>1
      <4>3. QED
        BY <2>1, <4>1, <4>2
    <3>2. QED
      BY <3>1
  <2>4. i # 0 /\ j # 0 => i + 1 = j + 1
    BY <2>1
  <2>5. QED
    BY <2>2, <2>3, <2>4
<1>8. ASSUME NEW i \in 0..m, NEW j \in 1..m, Opens(B, t, d, i), i < j, Other(B[j], t)
      PROVE  \E k \in 1..m : i < k /\ k < j /\ Ends(B[k], t)
  <2> HIDE DEF From
  <2>1. From(i) < j + 1 /\ j + 1 \in 1..n /\ Other(q[j + 1], t)
    <3>1. From(i) \in Nat /\ From(i) <= i + 1 /\ i \in Nat /\ j \in Nat
      BY <1>6, <1>8
    <3>2. QED
      BY <1>2, <1>5, <1>8, <3>1
  <2>2. PICK k \in 1..n : From(i) < k /\ k < j + 1 /\ Ends(q[k], t)
    BY <1>4, <1>6, <1>8, <2>1
  <2>3. k - 1 \in 1..m /\ i < k - 1 /\ B[k - 1] = q[k]
    BY <1>6, <1>8, <2>2
  <2>4. k - 1 < j
    BY <2>2
  <2>5. QED
    BY <2>2, <2>3, <2>4
<1>9. ASSUME ~w, NEW i \in 0..m, Opens(B, t, d, i) PROVE \E k \in 1..m : i < k /\ Ends(B[k], t)
  <2> HIDE DEF From
  <2>1. PICK k \in 1..n : From(i) < k /\ Ends(q[k], t)
    BY <1>4, <1>6, <1>9
  <2>2. k - 1 \in 1..m /\ i < k - 1 /\ B[k - 1] = q[k]
    BY <1>6, <1>9, <2>1
  <2>3. QED
    BY <2>1, <2>2
<1>10. QED
  BY <1>2, <1>3, <1>7, <1>8, <1>9 DEF Block, B

\* Nothing is put or taken; the entry may lose its session.
LEMMA BlockLess ==
  ASSUME NEW q, NEW t, NEW b, NEW w, NEW d, NEW v, Block(q, t, b, w), d => b, w => v
  PROVE  Block(q, t, d, v)
<1>1. \A i \in 0..Len(q) : Opens(q, t, d, i) => Opens(q, t, b, i)
  BY DEF Opens
<1>2. QED
  BY <1>1 DEF Block

\* The head of the queue, if the main loop has opened t: an event of t, and not
\* its connect.
LEMMA BlockHead ==
  ASSUME NEW q \in Seq(Calls), q # <<>>, NEW t, NEW b, NEW w, Block(q, t, b, w), Opens(q, t, b, 0)
  PROVE  ~Other(Head(q), t) /\ ~Begins(Head(q), t)
<1> DEFINE P == 0..Len(q)
           D == DOMAIN q
<1>1. Len(q) \in Nat \ {0} /\ DOMAIN q = 1..Len(q) /\ Head(q) = q[1]
  BY LenProperties, EmptySeq
<1>2. 0 \in P /\ 1 \in P /\ 1 \in D /\ \A k \in D : ~(0 < k /\ k < 1)
  BY <1>1
<1>3. /\ \A i, j \in P : Opens(q, t, b, i) /\ Opens(q, t, b, j) => i = j
      /\ \A i \in P, j \in D :
           Opens(q, t, b, i) /\ i < j /\ Other(q[j], t) => \E k \in D : i < k /\ k < j /\ Ends(q[k], t)
  BY DEF Block
<1>4. Opens(q, t, b, 0)
  OBVIOUS
<1> HIDE DEF P, D
<1>5. ~Opens(q, t, b, 1)
  BY <1>2, <1>3, <1>4
<1>6. ~Begins(q[1], t)
  BY <1>2, <1>5 DEF Opens, D
<1>7. ~Other(q[1], t)
  BY <1>2, <1>3, <1>4
<1>8. QED
  BY <1>1, <1>6, <1>7

(* ------------------------------- Steps --------------------------------- *)

\* The invariant holds before the first order.
LEMMA CliStarts == Init => CliInv
<1> SUFFICES ASSUME Init PROVE CliInv
  OBVIOUS
<1>1. /\ chanCall = <<>> /\ chanCall \in Seq(Calls) /\ Len(chanCall) = 0 /\ DOMAIN chanCall = {}
      /\ Elems(chanCall) = {} /\ Count(chanCall, Adds) = 0
  BY ElemsEmpty, CountEmpty DEF Init
<1>2. info = None /\ clients = 0 /\ sessions = 0 /\ orders = 0 /\ mainPc = "select"
  BY DEF Init
<1>3. CliTypes
  BY <1>1, TcpClientAssumption DEF Init, CliTypes
<1>4. \A t \in SessionIds : ~Begun(t)
  BY <1>2 DEF Begun
<1>5. RunInv /\ InfoInv
  BY <1>2, <1>4 DEF Init, RunInv, OneClientRuns, InfoInv, SessionIds
<1>6. OrderInv
  BY <1>1, <1>2 DEF OrderInv
<1>7. FreshInv
  BY <1>1, <1>4 DEF FreshInv
<1>8. BlocksInv
  BY <1>1, <1>4 DEF BlocksInv, Block, Opens
<1>9. QED
  BY <1>3, <1>5, <1>6, <1>7, <1>8 DEF CliInv

\* A goroutine dials, joins Client.sessions with its session, or leaves.
LEMMA GoStep ==
  ASSUME CliInv, NEW c \in ClientIds, Dial(c) \/ DialFail(c) \/ Join(c) \/ Leave(c)
  PROVE  CliInv'
<1>1. CliTypes /\ RunInv /\ InfoInv /\ OrderInv /\ FreshInv /\ BlocksInv
  BY DEF CliInv
<1>2. UNCHANGED <<chanCall, orders, mainPc, next, info, clients, addr, logic, closeFlag>>
  BY DEF Dial, DialFail, Join, Leave, mgrVars
<1>3. /\ pc[c] \in {"dial", "dialled", "leave"}
      /\ pc' \in [ClientIds -> {"none", "dial", "dialled", "connect", "receive", "leave", "done"}]
      /\ pc'[c] \in {"dial", "dialled", "connect", "done"}
      /\ \A d \in ClientIds : d # c => pc'[d] = pc[d]
  BY <1>1 DEF Dial, DialFail, Join, Leave, Goto, CliTypes
<1>4. pc[c] \in {"dialled", "connect", "receive", "leave"} =>
        session[c] \in SessionIds /\ session[c] <= sessions
  BY <1>1 DEF RunInv
<1>5. /\ sessions \in Nat /\ sessions' \in 0..MaxSessions /\ sessions <= sessions' /\ MaxSessions \in Nat
      /\ \A d \in ClientIds : d # c => session'[d] = session[d]
      /\ session' \in [ClientIds -> {None} \cup SessionIds]
      /\ owner' \in [SessionIds -> {None} \cup ClientIds]
      /\ \A t \in SessionIds : t <= sessions => owner'[t] = owner[t]
  <2>1. CASE Dial(c)
    <3>1. /\ sessions + 1 \in SessionIds /\ sessions \in Nat
          /\ sessions + 1 \in 0..MaxSessions /\ MaxSessions \in Nat
      BY <1>1, <2>1, TcpClientAssumption DEF Dial, CliTypes, SessionIds
    <3>2. /\ sessions' = sessions + 1
          /\ session' = [session EXCEPT ![c] = sessions + 1] /\ owner' = [owner EXCEPT ![sessions + 1] = c]
      BY <2>1 DEF Dial
    <3>3. \A t \in SessionIds : t <= sessions => t # sessions + 1
      BY <3>1 DEF SessionIds
    <3>4. /\ \A d \in ClientIds : d # c => session'[d] = session[d]
          /\ session' \in [ClientIds -> {None} \cup SessionIds]
          /\ owner' \in [SessionIds -> {None} \cup ClientIds]
      BY <1>1, <3>1, <3>2 DEF CliTypes
    <3>5. \A t \in SessionIds : t <= sessions => owner'[t] = owner[t]
      BY <1>1, <3>1, <3>2, <3>3 DEF CliTypes
    <3>6. QED
      BY <3>1, <3>2, <3>4, <3>5
  <2>2. CASE DialFail(c) \/ Join(c) \/ Leave(c)
    <3>1. sessions \in Nat /\ sessions \in 0..MaxSessions /\ MaxSessions \in Nat
      BY <1>1, TcpClientAssumption DEF CliTypes
    <3>2. /\ sessions' = sessions /\ owner' = owner
          /\ session' = session \/ session' = [session EXCEPT ![c] = None]
      BY <2>2 DEF DialFail, Join, Leave
    <3>3. QED
      BY <1>1, <3>1, <3>2 DEF CliTypes
  <2>3. QED
    BY <2>1, <2>2
<1>6. /\ alive' \in [SessionIds -> BOOLEAN] /\ member' \in [ClientIds -> {None} \cup SessionIds]
  <2>1. CASE Dial(c)
    BY <1>1, <2>1 DEF Dial, CliTypes
  <2>2. CASE Join(c)
    <3>1. session[c] \in SessionIds
      BY <1>4, <2>2 DEF Join
    <3>2. CASE closeFlag[c]
      BY <1>1, <2>2, <3>1, <3>2 DEF Join, CliTypes
    <3>3. CASE ~closeFlag[c]
      BY <1>1, <2>2, <3>1, <3>3 DEF Join, CliTypes
    <3>4. QED
      BY <3>2, <3>3
  <2>3. CASE DialFail(c) \/ Leave(c)
    BY <1>1, <2>3 DEF DialFail, Leave, CliTypes
  <2>4. QED
    BY <2>1, <2>2, <2>3
<1>7. CliTypes'
  BY <1>1, <1>2, <1>3, <1>5, <1>6 DEF CliTypes
\* What the goroutine works on now.
<1>8. \/ /\ pc'[c] \in {"dialled", "connect"} /\ session'[c] \in SessionIds /\ session'[c] <= sessions'
         /\ \/ session'[c] = sessions + 1
            \/ pc[c] = "dialled" /\ session'[c] = session[c]
      \/ pc'[c] \in {"dial", "done"}
  <2>1. CASE Dial(c)
    BY <1>1, <2>1, TcpClientAssumption DEF Dial, Goto, CliTypes, SessionIds
  <2>2. CASE Join(c)
    BY <1>1, <1>4, <2>2 DEF Join, Goto, CliTypes
  <2>3. CASE DialFail(c) \/ Leave(c)
    BY <1>1, <2>3 DEF DialFail, Leave, Goto, CliTypes
  <2>4. QED
    BY <2>1, <2>2, <2>3
<1>9. c <= clients /\ info # None /\ info.cli = c
  BY <1>1, <1>3 DEF RunInv, OneClientRuns, CliTypes, ClientIds
<1>10. \A t \in SessionIds : t <= sessions' => t <= sessions \/ owner'[t] = c
  <2>1. CASE Dial(c)
    BY <1>1, <1>5, <2>1 DEF Dial, CliTypes, SessionIds
  <2>2. CASE DialFail(c) \/ Join(c) \/ Leave(c)
    BY <2>2 DEF DialFail, Join, Leave
  <2>3. QED
    BY <2>1, <2>2
<1>11. RunInv'
  <2>1. OneClientRuns'
    BY <1>1, <1>2, <1>3, <1>9 DEF RunInv, OneClientRuns
  <2>2. \A d \in ClientIds : d > clients => pc'[d] = "none"
    BY <1>1, <1>3, <1>9 DEF RunInv, CliTypes, ClientIds
  <2>3. ASSUME NEW d \in ClientIds, pc'[d] \in {"dialled", "connect", "receive", "leave"}
        PROVE  session'[d] \in SessionIds /\ session'[d] <= sessions'
    <3>1. CASE d = c
      BY <1>3, <1>8, <2>3, <3>1
    <3>2. CASE d # c
      <4>1. session'[d] = session[d] /\ session[d] \in SessionIds /\ session[d] <= sessions
        BY <1>1, <1>3, <1>5, <2>3, <3>2 DEF RunInv
      <4>2. session[d] \in Nat /\ sessions' \in Nat
        BY <1>5, <4>1 DEF SessionIds
      <4>3. QED
        BY <1>5, <4>1, <4>2
    <3>3. QED
      BY <3>1, <3>2
  <2>4. \A t \in SessionIds : t <= sessions' => owner'[t] \in ClientIds /\ owner'[t] <= clients
    BY <1>1, <1>5, <1>9, <1>10 DEF RunInv
  <2>5. QED
    BY <1>2, <2>1, <2>2, <2>3, <2>4 DEF RunInv
<1>12. \A t \in SessionIds : (Begun(t)' <=> Begun(t)) /\ (Begun(t) => t <= sessions)
  BY <1>1, <1>2, <1>5 DEF Begun, FreshInv, Fresh, SessionIds
<1>13. InfoInv'
  BY <1>1, <1>2, <1>5, <1>12 DEF InfoInv
<1>14. OrderInv'
  BY <1>1, <1>2 DEF OrderInv
<1>15. ASSUME NEW t \in SessionIds, Fresh(t)' PROVE Fresh(t)
  <2>1. CASE t > sessions'
    BY <1>5, <2>1 DEF Fresh, SessionIds
  <2>2. ASSUME NEW d \in ClientIds, pc'[d] \in {"dialled", "connect"}, session'[d] = t PROVE Fresh(t)
    <3>1. CASE d # c
      BY <1>3, <1>5, <2>2, <3>1 DEF Fresh
    <3>2. CASE d = c /\ session'[c] = sessions + 1
      BY <1>5, <2>2, <3>2 DEF Fresh
    <3>3. CASE d = c /\ pc[c] = "dialled" /\ session'[c] = session[c]
      BY <2>2, <3>3 DEF Fresh
    <3>4. QED
      BY <1>8, <2>2, <3>1, <3>2, <3>3
  <2>3. QED
    BY <1>15, <2>1, <2>2 DEF Fresh
<1>16. FreshInv'
  BY <1>1, <1>2, <1>12, <1>15 DEF FreshInv
<1>17. \A t \in SessionIds : Working(t) => Working(t)'
  BY <1>3, <1>5 DEF Working
<1>18. BlocksInv'
  <2>1. ASSUME NEW t \in SessionIds PROVE Block(chanCall', t, Begun(t)', Working(t)')
    <3>1. PICK b, w, v : (b <=> Begun(t)) /\ (w <=> Working(t)) /\ (v <=> Working(t)')
      OBVIOUS
    <3>2. QED
      BY <1>1, <1>2, <1>12, <1>17, BlockLess DEF BlocksInv
  <2>2. QED
    BY <2>1 DEF BlocksInv
<1>19. QED
  BY <1>7, <1>11, <1>13, <1>14, <1>16, <1>18 DEF CliInv

\* What a call that is put in the queue does to types and counts.
LEMMA PostCall ==
  ASSUME CliTypes, NEW x \in Calls, Post(x)
  PROVE  /\ chanCall' = Append(chanCall, x)
         /\ chanCall' \in Seq(Calls) /\ Len(chanCall') <= CallCap
         /\ Elems(chanCall') = Elems(chanCall) \cup {x}
         /\ Count(chanCall', Adds) = Count(chanCall, Adds) + In(x, Adds)
         /\ Count(chanCall, Adds) \in Nat
<1>1. chanCall \in Seq(Calls) /\ Len(chanCall) < CallCap /\ chanCall' = Append(chanCall, x)
  BY DEF CliTypes, Post
<1>2. /\ Append(chanCall, x) \in Seq(Calls) /\ Len(Append(chanCall, x)) = Len(chanCall) + 1
      /\ Len(chanCall) \in Nat /\ CallCap \in Nat
  BY <1>1, AppendProperties, LenProperties, TcpClientAssumption
<1>3. QED
  BY <1>1, <1>2, ElemsAppend, CountAppend, CountType

\* A goroutine posts that its session is connected, has received, or is closed.
LEMMA PostStep ==
  ASSUME CliInv, NEW c \in ClientIds, PostConnect(c) \/ PostRecv(c) \/ PostClose(c)
  PROVE  CliInv'
<1>1. CliTypes /\ RunInv /\ InfoInv /\ OrderInv /\ FreshInv /\ BlocksInv
  BY DEF CliInv
<1>2. PICK s : s = session[c]
  OBVIOUS
<1>3. PICK x : \/ PostConnect(c) /\ x = Event("connect", s)
               \/ PostRecv(c) /\ x = Event("recv", s)
               \/ PostClose(c) /\ x = Event("close", s)
  OBVIOUS
<1>4. /\ UNCHANGED <<orders, mainPc, next, info, clients, addr, logic, closeFlag, member, session,
                      sessions, owner, alive>>
      /\ Post(x) /\ pc[c] \in {"connect", "receive"}
      /\ pc' = [pc EXCEPT ![c] = IF x.type = "close" THEN "leave" ELSE "receive"]
      /\ x.s = s /\ x.type \in {"connect", "recv", "close"}
      /\ x.type = "connect" <=> pc[c] = "connect"
  <2>1. CASE PostConnect(c)
    <3>1. x = Event("connect", s) /\ pc[c] = "connect"
      BY <1>3, <2>1 DEF PostConnect, PostRecv, PostClose, Event
    <3>2. QED
      BY <1>2, <2>1, <3>1 DEF PostConnect, Goto, Event, mgrVars
  <2>2. CASE PostRecv(c)
    <3>1. x = Event("recv", s) /\ pc[c] = "receive" /\ UNCHANGED pc
      BY <1>3, <2>2 DEF PostConnect, PostRecv, PostClose, Event
    <3>2. pc' = [pc EXCEPT ![c] = "receive"]
      BY <1>1, <3>1 DEF CliTypes
    <3>3. QED
      BY <1>2, <2>2, <3>1, <3>2 DEF PostRecv, Event, mgrVars
  <2>3. CASE PostClose(c)
    <3>1. x = Event("close", s) /\ pc[c] = "receive"
      BY <1>3, <2>3 DEF PostConnect, PostRecv, PostClose, Event
    <3>2. QED
      BY <1>2, <2>3, <3>1 DEF PostClose, Goto, Event, mgrVars
  <2>4. QED
    BY <2>1, <2>2, <2>3
<1>5. s \in SessionIds /\ s <= sessions /\ x \in Calls /\ x \notin Adds
  <2>1. s \in SessionIds /\ s <= sessions
    BY <1>1, <1>2, <1>4 DEF RunInv
  <2>2. x = Event(x.type, s)
    BY <1>3 DEF Event
  <2>3. QED
    BY <1>4, <2>1, <2>2 DEF Event, Calls, Adds
<1>6. /\ chanCall' = Append(chanCall, x) /\ chanCall' \in Seq(Calls) /\ Len(chanCall') <= CallCap
      /\ Elems(chanCall') = Elems(chanCall) \cup {x}
      /\ Count(chanCall', Adds) = Count(chanCall, Adds)
  <2>1. In(x, Adds) = 0
    BY <1>5 DEF In
  <2>2. QED
    BY <1>1, <1>4, <1>5, <2>1, PostCall
<1>7. /\ pc' \in [ClientIds -> {"none", "dial", "dialled", "connect", "receive", "leave", "done"}]
      /\ pc'[c] \in {"receive", "leave"} /\ (pc'[c] = "receive" <=> x.type # "close")
      /\ \A d \in ClientIds : d # c => pc'[d] = pc[d]
  BY <1>1, <1>4 DEF CliTypes
\* No other goroutine has a session.
<1>8. c <= clients /\ info # None /\ info.cli = c /\ \A d \in ClientIds : d # c => pc[d] \in {"none", "done"}
  BY <1>1, <1>4 DEF RunInv, OneClientRuns, CliTypes, ClientIds
<1>9. CliTypes'
  BY <1>1, <1>4, <1>6, <1>7 DEF CliTypes
<1>10. RunInv'
  <2>1. OneClientRuns'
    BY <1>4, <1>7, <1>8 DEF OneClientRuns
  <2>2. \A d \in ClientIds : d > clients => pc'[d] = "none"
    BY <1>1, <1>7, <1>8 DEF RunInv, CliTypes, ClientIds
  <2>3. \A d \in ClientIds : pc'[d] \in {"dialled", "connect", "receive", "leave"} =>
                               session[d] \in SessionIds /\ session[d] <= sessions
    BY <1>1, <1>2, <1>5, <1>7 DEF RunInv
  <2>4. QED
    BY <1>1, <1>4, <2>1, <2>2, <2>3 DEF RunInv
<1>11. \A t \in SessionIds : Begun(t)' <=> Begun(t)
  BY <1>4 DEF Begun
<1>12. InfoInv'
  BY <1>1, <1>4, <1>11 DEF InfoInv
<1>13. OrderInv'
  BY <1>1, <1>4, <1>6 DEF OrderInv
<1>14. FreshInv'
  <2>1. ASSUME NEW t \in SessionIds, Fresh(t)' PROVE Fresh(t) /\ t # s
    <3>1. \A d \in ClientIds : pc'[d] \notin {"dialled", "connect"}
      BY <1>7, <1>8
    <3>2. t > sessions
      BY <1>4, <2>1, <3>1 DEF Fresh
    <3>3. QED
      BY <1>1, <1>5, <3>2 DEF Fresh, CliTypes, SessionIds
  <2>2. QED
    BY <1>1, <1>4, <1>6, <1>11, <2>1 DEF FreshInv, Of
<1>15. BlocksInv'
  <2>1. ASSUME NEW t \in SessionIds PROVE Block(chanCall', t, Begun(t)', Working(t)')
    <3>1. Block(chanCall, t, Begun(t)', Working(t))
      BY <1>1, <1>11, BlockLess DEF BlocksInv
    <3>2. CASE t = s
      <4>1. ~Other(x, t) /\ (Ends(x, t) <=> x.type = "close") /\ (Begins(x, t) <=> x.type = "connect")
        BY <1>4, <3>2 DEF Other, Ends, Begins
      <4>2. Working(t)' <=> x.type # "close"
        BY <1>2, <1>4, <1>7, <1>8, <3>2 DEF Working
      <4>3. x.type = "connect" => ~Begun(t)' /\ \A y \in Elems(chanCall) : ~Of(y, t)
        BY <1>1, <1>2, <1>4, <1>11, <3>2 DEF FreshInv, Fresh
      <4>4. Block(Append(chanCall, x), t, Begun(t)', Working(t)')
        BY <1>1, <1>5, <3>1, <4>1, <4>2, <4>3, BlockAppend DEF CliTypes
      <4>5. QED
        BY <1>6, <4>4
    <3>3. CASE t # s
      <4>1. ~Begins(x, t)
        BY <1>4, <3>3 DEF Begins
      <4>2. ~Working(t)
        BY <1>2, <1>8, <3>3 DEF Working
      <4>3. ~Working(t)'
        BY <1>2, <1>4, <1>7, <1>8, <3>3 DEF Working
      <4>4. Block(Append(chanCall, x), t, Begun(t)', Working(t)')
        BY <1>1, <1>5, <3>1, <4>1, <4>2, <4>3, BlockAppend DEF CliTypes
      <4>5. QED
        BY <1>6, <4>4
    <3>4. QED
      BY <3>2, <3>3
  <2>2. QED
    BY <2>1 DEF BlocksInv
<1>16. QED
  BY <1>9, <1>10, <1>12, <1>13, <1>14, <1>15 DEF CliInv

\* A connection breaks, or the cluster connection announces something.
LEMMA OutsideStep ==
  ASSUME CliInv, SendOrder \/ \E s \in SessionIds : ConnectionLost(s)
  PROVE  CliInv'
<1>1. CliTypes /\ RunInv /\ InfoInv /\ OrderInv /\ FreshInv /\ BlocksInv
  BY DEF CliInv
<1>2. UNCHANGED <<mainPc, next, info, clients, addr, logic, pc, closeFlag, member, session, sessions, owner>>
  BY DEF SendOrder, ConnectionLost, mgrVars, cliVars
<1>3. RunInv'
  BY <1>1, <1>2 DEF RunInv, OneClientRuns
<1>4. \A t \in SessionIds : /\ Begun(t)' <=> Begun(t)
                            /\ (Working(t)' <=> Working(t)) /\ (Fresh(t)' <=> Fresh(t))
  BY <1>2 DEF Begun, Working, Fresh
<1>5. InfoInv'
  BY <1>1, <1>2, <1>4 DEF InfoInv
<1>6. CASE \E s \in SessionIds : ConnectionLost(s)
  <2>1. PICK s \in SessionIds : ConnectionLost(s)
    BY <1>6
  <2>2. chanCall' = chanCall /\ orders' = orders /\ alive' \in [SessionIds -> BOOLEAN]
    BY <1>1, <2>1 DEF ConnectionLost, mgrVars, CliTypes
  <2>3. CliTypes'
    BY <1>1, <1>2, <2>2 DEF CliTypes
  <2>4. OrderInv' /\ FreshInv'
    BY <1>1, <1>2, <1>4, <2>2 DEF OrderInv, FreshInv
  <2>5. BlocksInv'
    <3>1. ASSUME NEW t \in SessionIds PROVE Block(chanCall', t, Begun(t)', Working(t)')
      <4>1. Block(chanCall, t, Begun(t)', Working(t)')
        BY <1>1, <1>4, BlockLess DEF BlocksInv
      <4>2. QED
        BY <2>2, <4>1
    <3>2. QED
      BY <3>1 DEF BlocksInv
  <2>6. QED
    BY <1>3, <1>5, <2>3, <2>4, <2>5 DEF CliInv
<1>7. CASE SendOrder
  <2>1. PICK x \in {Order("add", a) : a \in Addrs} \cup {Order("del", None)} : Post(x)
    BY <1>7 DEF SendOrder
  <2>2. x \in Calls /\ x.type \in {"add", "del"}
    BY <2>1 DEF Calls, Order
  <2>3. /\ chanCall' = Append(chanCall, x) /\ chanCall' \in Seq(Calls) /\ Len(chanCall') <= CallCap
        /\ Elems(chanCall') = Elems(chanCall) \cup {x}
        /\ Count(chanCall', Adds) = Count(chanCall, Adds) + In(x, Adds) /\ Count(chanCall, Adds) \in Nat
    BY <1>1, <2>1, <2>2, PostCall
  <2>4. orders \in Nat /\ orders' = orders + 1 /\ orders' \in 0..MaxOrders /\ alive' = alive
    BY <1>1, <1>7, TcpClientAssumption DEF SendOrder, cliVars, CliTypes
  <2>5. CliTypes'
    BY <1>1, <1>2, <2>3, <2>4 DEF CliTypes
  <2>6. OrderInv'
    <3>1. In(x, Adds) \in {0, 1} /\ clients \in Nat
      BY <1>1 DEF In, CliTypes
    <3>2. PICK k \in {0, 1} : k = (IF mainPc = "stop" /\ next # None THEN 1 ELSE 0)
      OBVIOUS
    <3>3. clients + Count(chanCall, Adds) + k <= orders
      BY <1>1, <3>2 DEF OrderInv
    <3>4. clients + (Count(chanCall, Adds) + In(x, Adds)) + k <= orders + 1
      BY <2>3, <2>4, <3>1, <3>2, <3>3
    <3>5. QED
      BY <1>2, <2>3, <2>4, <3>2, <3>4 DEF OrderInv
  <2>7. FreshInv'
    BY <1>1, <1>4, <2>2, <2>3 DEF FreshInv, Of
  <2>8. BlocksInv'
    <3>1. ASSUME NEW t \in SessionIds PROVE Block(chanCall', t, Begun(t)', Working(t)')
      <4>1. Block(chanCall, t, Begun(t)', Working(t)')
        BY <1>1, <1>4, BlockLess DEF BlocksInv
      <4>2. ~Begins(x, t) /\ ~Other(x, t)
        BY <2>2 DEF Begins, Other
      <4>3. Block(Append(chanCall, x), t, Begun(t)', Working(t)')
        BY <1>1, <2>2, <4>1, <4>2, BlockAppend DEF CliTypes
      <4>4. QED
        BY <2>3, <4>3
    <3>2. QED
      BY <3>1 DEF BlocksInv
  <2>9. QED
    BY <1>3, <1>5, <2>5, <2>6, <2>7, <2>8 DEF CliInv
<1>8. QED
  BY <1>6, <1>7

\* OnClose of the logic session in place finds it open.
LEMMA LogicClosed ==
  ASSUME CliInv, info # None, mainPc = "select"
  PROVE  OnClose(info.session) \in [SessionIds -> {"none", "open", "closed"}]
<1>1. logic \in [SessionIds -> {"none", "open", "closed"}] /\ info.session \in {None} \cup SessionIds
  BY DEF CliInv, CliTypes
<1>2. CASE info.session = None
  BY <1>1, <1>2 DEF OnClose
<1>3. CASE info.session # None
  <2>1. PICK s \in SessionIds : s = info.session
    BY <1>1, <1>3
  <2>2. logic[s] = "open"
    BY <2>1 DEF CliInv, InfoInv, Begun
  <2>3. OnClose(info.session) = [logic EXCEPT ![s] = "closed"]
    BY <1>3, <2>1, <2>2 DEF OnClose
  <2>4. QED
    BY <1>1, <2>3
<1>4. QED
  BY <1>2, <1>3

\* What the queue is without its head, and that the head is of a session that
\* was posted.
LEMMA Popped ==
  ASSUME CliInv, chanCall # <<>>, chanCall' = Tail(chanCall), NEW h, h = Head(chanCall)
  PROVE  /\ h \in Calls /\ h \in Elems(chanCall)
         /\ chanCall' \in Seq(Calls) /\ Len(chanCall') <= CallCap
         /\ Elems(chanCall') \subseteq Elems(chanCall)
         /\ Count(chanCall', Adds) = Count(chanCall, Adds) - In(h, Adds)
         /\ Count(chanCall', Adds) \in Nat /\ Count(chanCall, Adds) \in Nat
         /\ h.type \in {"connect", "recv", "close"} => h.s \in SessionIds /\ ~Fresh(h.s)
<1>1. chanCall \in Seq(Calls) /\ Len(chanCall) <= CallCap /\ FreshInv
  BY DEF CliInv, CliTypes
<1>2. Tail(chanCall) \in Seq(Calls) /\ Len(Tail(chanCall)) = Len(chanCall) - 1
  BY <1>1, HeadTailProperties
<1>3. Len(Tail(chanCall)) <= CallCap
  BY <1>1, <1>2, LenProperties, TcpClientAssumption
<1>4. h \in Elems(chanCall) /\ Elems(Tail(chanCall)) \subseteq Elems(chanCall)
  BY <1>1, ElemsTail
<1>5. h \in Calls
  BY <1>1, <1>4, ElemsType
<1>6. h.type \in {"connect", "recv", "close"} => h.s \in SessionIds /\ ~Fresh(h.s)
  <2>1. ASSUME h.type \in {"connect", "recv", "close"} PROVE h.s \in SessionIds /\ Of(h, h.s)
    BY <1>5, <2>1 DEF Calls, Of
  <2>2. QED
    BY <1>1, <1>4, <2>1 DEF FreshInv
<1>7. QED
  BY <1>1, <1>2, <1>3, <1>4, <1>5, <1>6, CountTail, CountType

\* The events left stay in their blocks if the entry has the session of a
\* connect that was handled, and no session whose close was.
LEMMA PopBlocks ==
  ASSUME CliInv, chanCall # <<>>, chanCall' = Tail(chanCall),
         \A t \in SessionIds : Working(t)' <=> Working(t),
         \A t \in SessionIds : Begun(t)' => \/ Begun(t) /\ ~Ends(Head(chanCall), t)
                                            \/ Begins(Head(chanCall), t)
  PROVE  BlocksInv'
<1>1. chanCall \in Seq(Calls) /\ BlocksInv
  BY DEF CliInv, CliTypes
<1>2. ASSUME NEW t \in SessionIds PROVE Block(chanCall', t, Begun(t)', Working(t)')
  <2>1. PICK b, w, d : (b <=> Begun(t)) /\ (w <=> Working(t)) /\ (d <=> Begun(t)')
    OBVIOUS
  <2>2. Block(chanCall, t, Begun(t), Working(t))
    BY <1>1 DEF BlocksInv
  <2>3. Block(Tail(chanCall), t, Begun(t)', Working(t))
    BY <1>1, <2>2, BlockTail
  <2>4. Block(Tail(chanCall), t, Begun(t)', Working(t)')
    BY <2>3, BlockLess
  <2>5. QED
    BY <2>4
<1>3. QED
  BY <1>2 DEF BlocksInv

\* The main loop handles an order that changes nothing, or a message.
LEMMA QuietStep ==
  ASSUME CliInv, AddSame \/ RemoveNone \/ OnRecv
  PROVE  CliInv'
<1>1. CliTypes /\ RunInv /\ InfoInv /\ OrderInv /\ FreshInv /\ BlocksInv
  BY DEF CliInv
<1>2. PICK h : h = Head(chanCall)
  OBVIOUS
<1>3. /\ chanCall # <<>> /\ chanCall' = Tail(chanCall) /\ h.type \in {"add", "del", "recv"}
      /\ UNCHANGED <<orders, mainPc, next, info, clients, addr, logic, pc, closeFlag, member, session,
                      sessions, owner>>
  BY <1>2 DEF AddSame, RemoveNone, OnRecv, Pop, mgrVars, cliVars
<1>4. /\ h \in Calls /\ chanCall' \in Seq(Calls) /\ Len(chanCall') <= CallCap
      /\ Elems(chanCall') \subseteq Elems(chanCall)
      /\ Count(chanCall', Adds) = Count(chanCall, Adds) - In(h, Adds)
      /\ Count(chanCall', Adds) \in Nat /\ Count(chanCall, Adds) \in Nat
      /\ h.type \in {"connect", "recv", "close"} => h.s \in SessionIds
  BY <1>2, <1>3, Popped
<1>5. alive' \in [SessionIds -> BOOLEAN]
  <2>1. CASE AddSame \/ RemoveNone
    BY <1>1, <2>1 DEF AddSame, RemoveNone, cliVars, CliTypes
  <2>2. CASE OnRecv
    <3>1. h.s \in SessionIds
      BY <1>2, <1>4, <2>2 DEF OnRecv, Pop
    <3>2. alive' = alive \/ alive' = [alive EXCEPT ![h.s] = FALSE]
      BY <1>2, <2>2 DEF OnRecv
    <3>3. QED
      BY <1>1, <3>1, <3>2 DEF CliTypes
  <2>3. QED
    BY <1>3, <2>1, <2>2
<1>6. CliTypes'
  BY <1>1, <1>3, <1>4, <1>5 DEF CliTypes
<1>7. RunInv'
  BY <1>1, <1>3 DEF RunInv, OneClientRuns
<1>8. \A t \in SessionIds : /\ Begun(t)' <=> Begun(t)
                            /\ (Working(t)' <=> Working(t)) /\ (Fresh(t)' <=> Fresh(t))
  BY <1>3 DEF Begun, Working, Fresh
<1>9. InfoInv'
  BY <1>1, <1>3, <1>8 DEF InfoInv
<1>10. OrderInv'
  <2>1. In(h, Adds) \in {0, 1} /\ clients \in Nat /\ orders \in Nat
    BY <1>1, TcpClientAssumption DEF In, CliTypes
  <2>2. PICK k \in {0, 1} : k = (IF mainPc = "stop" /\ next # None THEN 1 ELSE 0)
    OBVIOUS
  <2>3. clients + Count(chanCall, Adds) + k <= orders
    BY <1>1, <2>2 DEF OrderInv
  <2>4. clients + (Count(chanCall, Adds) - In(h, Adds)) + k <= orders
    BY <1>4, <2>1, <2>2, <2>3
  <2>5. QED
    BY <1>3, <1>4, <2>2, <2>4 DEF OrderInv
<1>11. FreshInv'
  BY <1>1, <1>4, <1>8 DEF FreshInv
<1>12. BlocksInv'
  <2>1. \A t \in SessionIds : ~Ends(h, t)
    BY <1>3 DEF Ends
  <2>2. QED
    BY <1>2, <1>3, <1>8, <2>1, PopBlocks
<1>13. QED
  BY <1>6, <1>7, <1>9, <1>10, <1>11, <1>12 DEF CliInv

\* AddClient at another address, and RemoveClient, up to the wait in Stop.
LEMMA StopStep ==
  ASSUME CliInv, AddMoved \/ Remove
  PROVE  CliInv'
<1>1. CliTypes /\ RunInv /\ InfoInv /\ OrderInv /\ FreshInv /\ BlocksInv
  BY DEF CliInv
<1>2. PICK h : h = Head(chanCall)
  OBVIOUS
<1>3. /\ chanCall # <<>> /\ chanCall' = Tail(chanCall)
      /\ \/ h.type = "add" /\ next' = h.a
         \/ h.type = "del" /\ next' = None
      /\ mainPc = "select" /\ mainPc' = "stop" /\ info # None /\ BeginStop(info.cli)
      /\ UNCHANGED <<orders, info, clients, addr, pc, member, session, sessions, owner>>
  BY <1>2 DEF AddMoved, Remove, Pop, BeginStop
<1>4. /\ h \in Calls /\ chanCall' \in Seq(Calls) /\ Len(chanCall') <= CallCap
      /\ Elems(chanCall') \subseteq Elems(chanCall)
      /\ Count(chanCall', Adds) = Count(chanCall, Adds) - In(h, Adds)
      /\ Count(chanCall', Adds) \in Nat /\ Count(chanCall, Adds) \in Nat
  BY <1>2, <1>3, Popped
<1>5. \/ h.type = "add" /\ next' = h.a /\ h.a \in Addrs /\ h \in Adds
      \/ h.type = "del" /\ next' = None
  BY <1>3, <1>4 DEF Calls, Adds
<1>6. /\ info \in [cli : ClientIds, addr : Addrs, session : {None} \cup SessionIds]
      /\ info.cli \in ClientIds /\ info.session \in {None} \cup SessionIds
  BY <1>1, <1>3 DEF CliTypes
<1>7. closeFlag' \in [ClientIds -> BOOLEAN]
  BY <1>1, <1>3 DEF BeginStop, CliTypes
<1>8. alive' \in [SessionIds -> BOOLEAN]
  <2>1. PICK m : m = member[info.cli]
    OBVIOUS
  <2>2. m \in {None} \cup SessionIds
    BY <1>1, <1>6, <2>1 DEF CliTypes
  <2>3. alive' = alive \/ (m # None /\ alive' = [alive EXCEPT ![m] = FALSE])
    BY <1>3, <2>1 DEF BeginStop
  <2>4. QED
    BY <1>1, <2>2, <2>3 DEF CliTypes
<1>9. logic' \in [SessionIds -> {"none", "open", "closed"}]
  BY <1>1, <1>3, <1>6, LogicClosed DEF BeginStop, CliTypes
<1>10. CliTypes'
  BY <1>1, <1>3, <1>4, <1>5, <1>7, <1>8, <1>9 DEF CliTypes
<1>11. RunInv'
  BY <1>1, <1>3 DEF RunInv, OneClientRuns
<1>12. \A t \in SessionIds : /\ Begun(t)' <=> Begun(t)
                             /\ (Working(t)' <=> Working(t)) /\ (Fresh(t)' <=> Fresh(t))
  BY <1>3 DEF Begun, Working, Fresh
<1>13. InfoInv'
  BY <1>1, <1>3, <1>12 DEF InfoInv
<1>14. OrderInv'
  <2>1. In(h, Adds) \in {0, 1} /\ clients \in Nat /\ orders \in Nat /\ None \notin Addrs
    BY <1>1, TcpClientAssumption DEF In, CliTypes
  <2>2. clients + Count(chanCall, Adds) + 0 <= orders
    BY <1>1, <1>3 DEF OrderInv
  <2>3. PICK k : k = (IF next' # None THEN 1 ELSE 0)
    OBVIOUS
  <2>4. k \in {0, 1} /\ k <= In(h, Adds)
    BY <1>5, <2>1, <2>3 DEF In
  <2>5. clients + (Count(chanCall, Adds) - In(h, Adds)) + k <= orders
    BY <1>4, <2>1, <2>2, <2>4
  <2>6. QED
    BY <1>3, <1>4, <2>3, <2>5 DEF OrderInv
<1>15. FreshInv'
  BY <1>1, <1>4, <1>12 DEF FreshInv
<1>16. BlocksInv'
  <2>1. \A t \in SessionIds : ~Ends(h, t)
    BY <1>3 DEF Ends
  <2>2. QED
    BY <1>2, <1>3, <1>12, <2>1, PopBlocks
<1>17. QED
  BY <1>10, <1>11, <1>13, <1>14, <1>15, <1>16 DEF CliInv

\* An entry is not None.
LEMMA InfoNotNone ==
  \A x \in [cli : ClientIds, addr : Addrs, session : {None} \cup SessionIds] : x # None
<1>1. [cli : ClientIds, addr : Addrs, session : {None} \cup SessionIds] \subseteq
        [cli : Nat, addr : Addrs, session : {None} \cup Nat]
  BY DEF ClientIds, SessionIds
<1>2. QED
  BY <1>1, TcpClientAssumption

\* A sequence over a set is one over a larger set.
LEMMA SeqWiden == ASSUME NEW S, NEW T, S \subseteq T, NEW q \in Seq(S) PROVE q \in Seq(T)
BY SeqDef

\* A new client for an entry without one, and the end of the wait in Stop.
LEMMA InstallStep ==
  ASSUME CliInv, AddNew \/ StopReturns
  PROVE  CliInv'
<1>1. CliTypes /\ RunInv /\ InfoInv /\ OrderInv /\ FreshInv /\ BlocksInv
  BY DEF CliInv
<1>2. PICK h : h = Head(chanCall)
  OBVIOUS
\* What was made for this step, an order or next, is used up.
<1>3. PICK k \in {0, 1} : k = (IF mainPc = "stop" /\ next # None THEN 1 ELSE 0)
  OBVIOUS
<1>4. /\ clients \in Nat /\ orders \in Nat /\ orders <= MaxOrders /\ MaxOrders \in Nat /\ None \notin Addrs
      /\ None \notin SessionIds /\ Count(chanCall, Adds) \in Nat
      /\ clients + Count(chanCall, Adds) + k <= orders
  <2>1. Count(chanCall, Adds) \in Nat /\ clients + Count(chanCall, Adds) + k <= orders
    BY <1>1, <1>3, CountType DEF OrderInv, CliTypes
  <2>2. QED
    BY <1>1, <2>1, TcpClientAssumption DEF CliTypes, SessionIds
<1>5. /\ chanCall' \in Seq(Calls) /\ Len(chanCall') <= CallCap
      /\ Elems(chanCall') \subseteq Elems(chanCall) /\ Count(chanCall', Adds) \in Nat
      /\ mainPc' = "select" /\ next' \in {None} \cup Addrs
      /\ UNCHANGED <<orders, closeFlag, member, session, sessions, owner, alive, logic>>
      /\ \A c \in ClientIds : pc[c] \in {"none", "done"}
      /\ \/ /\ \E a \in Addrs : Install(a)
            /\ Goto(clients + 1, "dial") /\ clients + 1 + Count(chanCall', Adds) <= orders
         \/ /\ info' = None /\ UNCHANGED <<clients, addr, pc>>
            /\ clients + Count(chanCall', Adds) <= orders
  <2>1. CASE AddNew
    <3>1. /\ chanCall # <<>> /\ chanCall' = Tail(chanCall) /\ h.type = "add" /\ Install(h.a)
          /\ Goto(clients + 1, "dial") /\ info = None
          /\ mainPc = "select" /\ mainPc' = "select" /\ next' = next
          /\ UNCHANGED <<orders, closeFlag, member, session, sessions, owner, alive, logic>>
      BY <1>2, <2>1 DEF AddNew, Pop
    <3>2. /\ h \in Calls /\ chanCall' \in Seq(Calls) /\ Len(chanCall') <= CallCap
          /\ Elems(chanCall') \subseteq Elems(chanCall) /\ Count(chanCall', Adds) \in Nat
          /\ Count(chanCall', Adds) = Count(chanCall, Adds) - In(h, Adds)
      BY <1>2, <3>1, Popped
    <3>3. h \in Adds /\ h.a \in Addrs /\ In(h, Adds) = 1
      BY <3>1, <3>2 DEF Calls, Adds, In
    <3>4. \A c \in ClientIds : pc[c] \in {"none", "done"}
      BY <1>1, <3>1 DEF RunInv, OneClientRuns
    <3>5. clients + 1 + Count(chanCall', Adds) <= orders
      BY <1>4, <3>2, <3>3
    <3>6. next' \in {None} \cup Addrs
      BY <1>1, <3>1 DEF CliTypes
    <3>7. QED
      BY <3>1, <3>2, <3>3, <3>4, <3>5, <3>6
  <2>2. CASE StopReturns
    <3>1. /\ mainPc = "stop" /\ pc[info.cli] = "done"
          /\ mainPc' = "select" /\ next' = None /\ chanCall' = chanCall
          /\ UNCHANGED <<orders, closeFlag, member, session, sessions, owner, alive, logic>>
      BY <2>2 DEF StopReturns
    <3>2. \A c \in ClientIds : pc[c] \in {"none", "done"}
      BY <1>1, <3>1 DEF RunInv, OneClientRuns
    <3>3. chanCall \in Seq(Calls) /\ Len(chanCall) <= CallCap
      BY <1>1 DEF CliTypes
    <3>4. CASE next # None
      <4>1. next \in Addrs /\ k = 1
        BY <1>1, <1>3, <3>1, <3>4 DEF CliTypes
      <4>2. Install(next) /\ Goto(clients + 1, "dial")
        BY <2>2, <3>4 DEF StopReturns
      <4>3. clients + 1 + Count(chanCall', Adds) <= orders
        BY <1>4, <3>1, <4>1
      <4>4. QED
        BY <1>4, <3>1, <3>2, <3>3, <4>1, <4>2, <4>3
    <3>5. CASE next = None
      <4>1. info' = None /\ UNCHANGED <<clients, addr, pc>>
        BY <2>2, <3>5 DEF StopReturns
      <4>2. clients + Count(chanCall', Adds) <= orders
        BY <1>4, <3>1
      <4>3. QED
        BY <1>4, <3>1, <3>2, <3>3, <4>1, <4>2
    <3>6. QED
      BY <3>4, <3>5
  <2>3. QED
    BY <2>1, <2>2
<1>6. \/ /\ clients + 1 \in ClientIds /\ clients' = clients + 1
         /\ pc' = [pc EXCEPT ![clients + 1] = "dial"]
         /\ \E a \in Addrs : /\ addr' = [addr EXCEPT ![clients + 1] = a]
                             /\ info' = [cli |-> clients + 1, addr |-> a, session |-> None]
         /\ clients + 1 + Count(chanCall', Adds) <= orders
      \/ /\ info' = None /\ UNCHANGED <<clients, addr, pc>>
         /\ clients + Count(chanCall', Adds) <= orders
  <2>1. CASE info' = None /\ UNCHANGED <<clients, addr, pc>> /\ clients + Count(chanCall', Adds) <= orders
    BY <2>1
  <2>2. CASE /\ \E a \in Addrs : Install(a)
             /\ Goto(clients + 1, "dial") /\ clients + 1 + Count(chanCall', Adds) <= orders
    <3>1. clients + 1 \in ClientIds
      BY <1>4, <1>5, <2>2 DEF ClientIds
    <3>2. QED
      BY <2>2, <3>1 DEF Install, Goto
  <2>3. QED
    BY <1>5, <2>1, <2>2
<1>7. /\ info' = None \/ info' \in [cli : ClientIds, addr : Addrs, session : {None} \cup SessionIds]
      /\ clients' \in Nat /\ addr' \in [ClientIds -> {None} \cup Addrs]
      /\ pc' \in [ClientIds -> {"none", "dial", "dialled", "connect", "receive", "leave", "done"}]
  <2>1. CASE info' = None /\ UNCHANGED <<clients, addr, pc>>
    BY <1>1, <2>1 DEF CliTypes
  <2>2. CASE clients + 1 \in ClientIds /\ clients' = clients + 1 /\ pc' = [pc EXCEPT ![clients + 1] = "dial"]
             /\ \E a \in Addrs : /\ addr' = [addr EXCEPT ![clients + 1] = a]
                                 /\ info' = [cli |-> clients + 1, addr |-> a, session |-> None]
    <3>1. pc' \in [ClientIds -> {"none", "dial", "dialled", "connect", "receive", "leave", "done"}]
      BY <1>1, <2>2 DEF CliTypes
    <3>2. addr' \in [ClientIds -> {None} \cup Addrs]
      BY <1>1, <2>2 DEF CliTypes
    <3>3. QED
      BY <1>4, <2>2, <3>1, <3>2
  <2>3. QED
    BY <1>6, <2>1, <2>2
<1>8. CliTypes'
  BY <1>1, <1>5, <1>7 DEF CliTypes
<1>9. \A t \in SessionIds : ~Begun(t)'
  <2>1. info' = None \/ info'.session = None
    BY <1>6
  <2>2. QED
    BY <1>4, <2>1 DEF Begun
<1>10. \A d \in ClientIds : \/ pc'[d] \in {"none", "done"}
                            \/ pc'[d] = "dial" /\ info' # None /\ info'.cli = d /\ d <= clients'
  <2>1. CASE info' = None /\ UNCHANGED <<clients, addr, pc>>
    BY <1>5, <2>1
  <2>2. CASE clients + 1 \in ClientIds /\ clients' = clients + 1 /\ pc' = [pc EXCEPT ![clients + 1] = "dial"]
             /\ \E a \in Addrs : info' = [cli |-> clients + 1, addr |-> a, session |-> None]
    <3>1. info' # None /\ info'.cli = clients + 1
      BY <1>4, <2>2, TcpClientAssumption
    <3>2. \A d \in ClientIds : pc'[d] = (IF d = clients + 1 THEN "dial" ELSE pc[d])
      BY <1>1, <2>2 DEF CliTypes
    <3>3. QED
      BY <1>4, <1>5, <2>2, <3>1, <3>2
  <2>3. QED
    BY <1>6, <2>1, <2>2
<1>11. clients <= clients' /\ \A d \in ClientIds : d > clients' => pc'[d] = "none"
  <2>1. CASE info' = None /\ UNCHANGED <<clients, addr, pc>>
    BY <1>1, <1>4, <2>1 DEF RunInv
  <2>2. CASE clients + 1 \in ClientIds /\ clients' = clients + 1 /\ pc' = [pc EXCEPT ![clients + 1] = "dial"]
    <3>1. ASSUME NEW d \in ClientIds, d > clients' PROVE pc'[d] = "none"
      <4>1. d # clients + 1 /\ d > clients
        BY <1>4, <2>2, <3>1 DEF ClientIds
      <4>2. pc[d] = "none" /\ pc'[d] = pc[d]
        BY <1>1, <2>2, <4>1 DEF RunInv, CliTypes
      <4>3. QED
        BY <4>2
    <3>2. QED
      BY <1>4, <2>2, <3>1
  <2>3. QED
    BY <1>6, <2>1, <2>2
<1>12. RunInv'
  <2>1. OneClientRuns'
    BY <1>10 DEF OneClientRuns
  <2>2. \A d \in ClientIds : pc'[d] \notin {"dialled", "connect", "receive", "leave"}
    BY <1>10
  <2>3. ASSUME NEW t \in SessionIds, t <= sessions PROVE owner[t] \in ClientIds /\ owner[t] <= clients'
    <3>1. owner[t] \in ClientIds /\ owner[t] <= clients
      BY <1>1, <2>3 DEF RunInv
    <3>2. owner[t] \in Nat /\ clients' \in Nat
      BY <1>7, <3>1 DEF ClientIds
    <3>3. QED
      BY <1>4, <1>11, <3>1, <3>2
  <2>4. QED
    BY <1>5, <1>11, <2>1, <2>2, <2>3 DEF RunInv
<1>13. InfoInv'
  BY <1>5, <1>9 DEF InfoInv
<1>14. OrderInv'
  <2>1. clients' + Count(chanCall', Adds) + 0 <= orders
    BY <1>4, <1>5, <1>6
  <2>2. QED
    BY <1>5, <2>1 DEF OrderInv
<1>15. \A t \in SessionIds : ~Working(t) /\ ~Working(t)'
  BY <1>5, <1>10 DEF Working
<1>16. FreshInv'
  <2>1. ASSUME NEW t \in SessionIds, Fresh(t)' PROVE Fresh(t)
    BY <1>5, <1>10, <2>1 DEF Fresh
  <2>2. QED
    BY <1>1, <1>5, <1>9, <2>1 DEF FreshInv
<1>17. BlocksInv'
  <2>1. CASE AddNew
    <3>1. chanCall # <<>> /\ chanCall' = Tail(chanCall)
      BY <2>1 DEF AddNew, Pop
    <3>2. QED
      BY <1>9, <1>15, <3>1, PopBlocks
  <2>2. CASE StopReturns
    <3>1. ASSUME NEW t \in SessionIds PROVE Block(chanCall', t, Begun(t)', Working(t)')
      <4>1. chanCall' = chanCall
        BY <2>2 DEF StopReturns
      <4>2. Block(chanCall, t, Begun(t), Working(t))
        BY <1>1 DEF BlocksInv
      <4>3. Block(chanCall, t, Begun(t)', Working(t)')
        BY <1>9, <1>15, <4>2, BlockLess
      <4>4. QED
        BY <4>1, <4>3
    <3>2. QED
      BY <3>1 DEF BlocksInv
  <2>3. QED
    BY <2>1, <2>2
<1>18. QED
  BY <1>8, <1>12, <1>13, <1>14, <1>16, <1>17 DEF CliInv

\* The main loop handles that a session is connected, or closed.
LEMMA SessionStep ==
  ASSUME CliInv, OnConnect \/ OnSessionClose
  PROVE  CliInv'
<1>1. CliTypes /\ RunInv /\ InfoInv /\ OrderInv /\ FreshInv /\ BlocksInv
  BY DEF CliInv
<1>2. PICK h : h = Head(chanCall)
  OBVIOUS
<1>3. /\ chanCall # <<>> /\ chanCall' = Tail(chanCall) /\ h.type \in {"connect", "close"} /\ mainPc = "select"
      /\ UNCHANGED <<orders, mainPc, next, clients, addr, pc, closeFlag, member, session, sessions, owner>>
  BY <1>2 DEF OnConnect, OnSessionClose, Pop, cliVars
<1>4. /\ h \in Calls /\ h \in Elems(chanCall) /\ chanCall' \in Seq(Calls) /\ Len(chanCall') <= CallCap
      /\ Elems(chanCall') \subseteq Elems(chanCall)
      /\ Count(chanCall', Adds) = Count(chanCall, Adds) - In(h, Adds)
      /\ Count(chanCall', Adds) \in Nat /\ Count(chanCall, Adds) \in Nat
      /\ h.s \in SessionIds /\ ~Fresh(h.s)
  BY <1>2, <1>3, Popped
<1>5. None \notin SessionIds
  BY TcpClientAssumption DEF SessionIds
\* The entry keeps its session, has none, or has that of a connect.
<1>6. \/ info' = info /\ logic' = logic /\ (h.type = "close" => ~(Matches(h.s) /\ info.session # None))
      \/ info # None /\ info' = [info EXCEPT !.session = None] /\ logic' = OnClose(info.session)
      \/ /\ Matches(h.s) /\ h.type = "connect"
         /\ info' = [info EXCEPT !.session = h.s] /\ logic' = [logic EXCEPT ![h.s] = "open"]
  <2>1. CASE OnConnect
    BY <1>2, <2>1 DEF OnConnect, Pop
  <2>2. CASE OnSessionClose
    BY <1>2, <2>2 DEF OnSessionClose, Matches
  <2>3. QED
    BY <2>1, <2>2
<1>7. info # None => info \in [cli : ClientIds, addr : Addrs, session : {None} \cup SessionIds]
  BY <1>1 DEF CliTypes
<1>8. /\ info' = None <=> info = None
      /\ info' = None \/ info' \in [cli : ClientIds, addr : Addrs, session : {None} \cup SessionIds]
      /\ info # None => info'.cli = info.cli /\ info'.addr = info.addr
      /\ \/ info' = info
         \/ info # None /\ info'.session = None
         \/ info # None /\ info'.session = h.s /\ Matches(h.s) /\ h.type = "connect" /\ logic'[h.s] = "open"
  <2>1. CASE info' = info
    BY <1>7, <2>1
  <2>2. CASE info # None /\ info' = [info EXCEPT !.session = None]
    <3>1. info' \in [cli : ClientIds, addr : Addrs, session : {None} \cup SessionIds]
      BY <1>7, <2>2
    <3>2. /\ info'.cli = info.cli /\ info'.addr = info.addr /\ info'.session = None
          /\ info.addr \in Addrs /\ info.cli \in ClientIds
      BY <1>7, <2>2
    <3>3. info' # None
      BY <3>1, InfoNotNone
    <3>4. QED
      BY <2>2, <3>1, <3>2, <3>3
  <2>3. CASE /\ Matches(h.s) /\ h.type = "connect" /\ info' = [info EXCEPT !.session = h.s]
             /\ logic' = [logic EXCEPT ![h.s] = "open"]
    <3>1. info # None /\ logic'[h.s] = "open"
      BY <1>1, <1>4, <2>3 DEF Matches, CliTypes
    <3>2. info' \in [cli : ClientIds, addr : Addrs, session : {None} \cup SessionIds]
      BY <1>4, <1>7, <2>3, <3>1
    <3>3. info'.cli = info.cli /\ info'.addr = info.addr /\ info'.session = h.s
      BY <1>7, <2>3, <3>1
    <3>4. info' # None
      BY <3>2, InfoNotNone
    <3>5. QED
      BY <2>3, <3>1, <3>2, <3>3, <3>4
  <2>4. QED
    BY <1>6, <2>1, <2>2, <2>3
<1>9. logic' \in [SessionIds -> {"none", "open", "closed"}]
  <2>1. CASE logic' = logic
    BY <1>1, <2>1 DEF CliTypes
  <2>2. CASE info # None /\ logic' = OnClose(info.session)
    BY <1>3, <2>2, LogicClosed
  <2>3. CASE logic' = [logic EXCEPT ![h.s] = "open"]
    BY <1>1, <1>4, <2>3 DEF CliTypes
  <2>4. QED
    BY <1>6, <2>1, <2>2, <2>3
<1>10. alive' \in [SessionIds -> BOOLEAN]
  <2>1. alive' = alive \/ alive' = [alive EXCEPT ![h.s] = FALSE]
    BY <1>2 DEF OnConnect, OnSessionClose, cliVars
  <2>2. QED
    BY <1>1, <1>4, <2>1 DEF CliTypes
<1>11. CliTypes'
  BY <1>1, <1>3, <1>4, <1>8, <1>9, <1>10 DEF CliTypes
<1>12. RunInv'
  <2>1. OneClientRuns'
    BY <1>1, <1>3, <1>8 DEF RunInv, OneClientRuns
  <2>2. QED
    BY <1>1, <1>3, <2>1 DEF RunInv
<1>13. \A t \in SessionIds : (Working(t)' <=> Working(t)) /\ (Fresh(t)' <=> Fresh(t))
  BY <1>3 DEF Working, Fresh
\* The session in the entry after the step.
<1>14. ASSUME NEW t \in SessionIds, Begun(t)'
       PROVE  \/ Begun(t) /\ ~Ends(h, t) /\ info' = info /\ logic' = logic
              \/ /\ Begins(h, t) /\ t = h.s /\ Matches(t) /\ logic'[t] = "open"
                 /\ info # None /\ info'.addr = info.addr
  <2>1. info' # None /\ info'.session = t /\ t # None
    BY <1>5, <1>14 DEF Begun
  <2>2. CASE info' = info
    <3>1. Begun(t)
      BY <2>1, <2>2 DEF Begun
    <3>2. info.addr = addr[owner[t]]
      BY <1>1, <3>1 DEF InfoInv
    <3>3. info # None /\ info.session = t /\ info.session # None
      BY <2>1, <2>2
    <3>4. Matches(t)
      BY <3>2, <3>3 DEF Matches
    <3>5. CASE logic' = logic /\ (h.type = "close" => ~(Matches(h.s) /\ info.session # None))
      <4>1. ~Ends(h, t)
        BY <3>3, <3>4, <3>5 DEF Ends
      <4>2. QED
        BY <2>2, <3>1, <3>5, <4>1
    <3>6. CASE info' = [info EXCEPT !.session = None]
      BY <1>7, <2>2, <3>3, <3>6
    <3>7. CASE /\ Matches(h.s) /\ h.type = "connect" /\ info' = [info EXCEPT !.session = h.s]
               /\ logic' = [logic EXCEPT ![h.s] = "open"]
      <4>1. h.s = t
        BY <1>7, <2>1, <3>3, <3>7
      <4>2. logic'[t] = "open"
        BY <1>1, <3>7, <4>1 DEF CliTypes
      <4>3. QED
        BY <2>2, <3>3, <3>4, <3>7, <4>1, <4>2 DEF Begins
    <3>8. QED
      BY <1>6, <3>5, <3>6, <3>7
  <2>3. CASE info # None /\ info'.session = None
    BY <2>1, <2>3
  <2>4. CASE info # None /\ info'.session = h.s /\ Matches(h.s) /\ h.type = "connect" /\ logic'[h.s] = "open"
    BY <1>8, <2>1, <2>4 DEF Begins
  <2>5. QED
    BY <1>8, <2>2, <2>3, <2>4
<1>15. InfoInv'
  <2>1. ASSUME NEW t \in SessionIds, Begun(t)' PROVE info'.addr = addr[owner[t]] /\ logic'[t] = "open"
    <3>1. CASE Begun(t) /\ info' = info /\ logic' = logic
      BY <1>1, <1>3, <3>1 DEF InfoInv
    <3>2. CASE Matches(t) /\ logic'[t] = "open" /\ info'.addr = info.addr
      BY <3>2 DEF Matches
    <3>3. QED
      BY <1>14, <2>1, <3>1, <3>2
  <2>2. QED
    BY <1>3, <2>1 DEF InfoInv
<1>16. OrderInv'
  <2>1. In(h, Adds) = 0
    BY <1>3 DEF In, Adds
  <2>2. QED
    BY <1>1, <1>3, <1>4, <2>1 DEF OrderInv
<1>17. FreshInv'
  <2>1. ASSUME NEW t \in SessionIds, Fresh(t)' PROVE ~Begun(t)' /\ \A x \in Elems(chanCall') : ~Of(x, t)
    <3>1. Fresh(t) /\ t # h.s
      BY <1>4, <1>13, <2>1
    <3>2. ~Begun(t) /\ \A x \in Elems(chanCall) : ~Of(x, t)
      BY <1>1, <3>1 DEF FreshInv
    <3>3. ~Begun(t)'
      BY <1>14, <3>1, <3>2
    <3>4. QED
      BY <1>4, <3>2, <3>3
  <2>2. QED
    BY <2>1 DEF FreshInv
<1>18. BlocksInv'
  BY <1>2, <1>3, <1>13, <1>14, PopBlocks
<1>19. QED
  BY <1>11, <1>12, <1>15, <1>16, <1>17, <1>18 DEF CliInv

\* The places of client, session and owner: no step leaves the invariant.
LEMMA CliInvariant == Spec => []CliInv
<1>1. CliInv /\ [Next]_vars => CliInv'
  <2> SUFFICES ASSUME CliInv, [Next]_vars PROVE CliInv'
    OBVIOUS
  <2>1. ASSUME NEW c \in ClientIds, Dial(c) \/ DialFail(c) \/ Join(c) \/ Leave(c) PROVE CliInv'
    BY <2>1, GoStep
  <2>2. ASSUME NEW c \in ClientIds, PostConnect(c) \/ PostRecv(c) \/ PostClose(c) PROVE CliInv'
    BY <2>2, PostStep
  <2>3. CASE SendOrder \/ \E s \in SessionIds : ConnectionLost(s)
    BY <2>3, OutsideStep
  <2>4. CASE AddSame \/ RemoveNone \/ OnRecv
    BY <2>4, QuietStep
  <2>5. CASE AddMoved \/ Remove
    BY <2>5, StopStep
  <2>6. CASE AddNew \/ StopReturns
    BY <2>6, InstallStep
  <2>7. CASE OnConnect \/ OnSessionClose
    BY <2>7, SessionStep
  <2>8. CASE UNCHANGED vars
    <3>1. UNCHANGED <<chanCall, orders, mainPc, next, info, clients, addr, logic, pc, closeFlag,
                      member, session, sessions, owner, alive, received>>
      BY <2>8 DEF vars, mgrVars, cliVars
    <3>2. \A t \in SessionIds : /\ Begun(t)' <=> Begun(t)
                                /\ (Working(t)' <=> Working(t)) /\ (Fresh(t)' <=> Fresh(t))
      BY <3>1 DEF Begun, Working, Fresh
    <3>3. CliTypes' /\ RunInv' /\ OrderInv'
      BY <3>1 DEF CliInv, CliTypes, RunInv, OneClientRuns, OrderInv
    <3>4. InfoInv' /\ FreshInv'
      BY <3>1, <3>2 DEF CliInv, InfoInv, FreshInv
    <3>5. BlocksInv'
      <4>1. ASSUME NEW t \in SessionIds PROVE Block(chanCall', t, Begun(t)', Working(t)')
        <5>1. Block(chanCall, t, Begun(t), Working(t))
          BY DEF CliInv, BlocksInv
        <5>2. Block(chanCall, t, Begun(t)', Working(t)')
          BY <3>2, <5>1, BlockLess
        <5>3. QED
          BY <3>1, <5>2
      <4>2. QED
        BY <4>1 DEF BlocksInv
    <3>6. QED
      BY <3>3, <3>4, <3>5 DEF CliInv
  <2>9. QED
    BY <2>1, <2>2, <2>3, <2>4, <2>5, <2>6, <2>7, <2>8 DEF Next, MainLoop, Goroutine
<1>2. QED
  BY CliStarts, <1>1, PTL DEF Spec

\* TcpClient.tla's type invariant, for every set of addresses and every
\* capacity of ChanCall: the queue holds no more than its capacity, and the
\* manager makes no more clients than there were orders (tcp_client.go:60-110).
THEOREM TypeCorrect == Spec => []TypeOK
<1>1. CliInv => TypeOK
  <2> SUFFICES ASSUME CliInv PROVE TypeOK
    OBVIOUS
  <2>1. CliTypes /\ OrderInv
    BY DEF CliInv
  <2>2. Calls \subseteq Events
    BY DEF Calls, Events
  <2>3. chanCall \in Seq(Events) /\ Len(chanCall) <= CallCap
    BY <2>1, <2>2, SeqWiden DEF CliTypes
  <2>4. clients \in 0..MaxOrders
    <3>1. PICK k \in {0, 1} : k = (IF mainPc = "stop" /\ next # None THEN 1 ELSE 0)
      OBVIOUS
    <3>2. clients + Count(chanCall, Adds) + k <= orders /\ Count(chanCall, Adds) \in Nat
      BY <2>1, <3>1, CountType DEF OrderInv, CliTypes
    <3>3. QED
      BY <2>1, <3>2, TcpClientAssumption DEF CliTypes
  <2>5. logic \in [SessionIds -> {"none", "open", "closed", "twice"}]
    BY <2>1 DEF CliTypes
  <2>6. QED
    BY <2>1, <2>3, <2>4, <2>5 DEF CliTypes, TypeOK
<1>2. QED
  BY CliInvariant, <1>1, PTL

\* A client that was replaced leaves nothing to its successor: no event of one
\* session reaches the logic session of another, no logic session is closed
\* twice, and no goroutine of a replaced client runs, for every number of
\* orders, sessions and messages and every capacity of ChanCall
\* (tcp_client.go:71-110, 135-196).
THEOREM ReplacedLeavesNothing == Spec => []ReplacedIsGone
<1>1. CliInv => ReplacedIsGone
  <2> SUFFICES ASSUME CliInv PROVE ReplacedIsGone
    OBVIOUS
  <2>1. CliTypes /\ OneClientRuns /\ BlocksInv
    BY DEF CliInv, RunInv
  <2>2. ClosedOnce
    BY <2>1 DEF CliTypes, ClosedOnce
  <2>3. PICK h : h = Head(chanCall)
    OBVIOUS
  <2>4. ASSUME chanCall # <<>>, h.type \in {"connect", "recv", "close"}, Matches(h.s), info.session # None
        PROVE  h.type # "connect" /\ info.session = h.s
    <3>1. PICK t \in SessionIds : t = info.session
      BY <2>1, <2>4 DEF CliTypes, Matches
    <3>2. Opens(chanCall, t, Begun(t), 0) /\ Block(chanCall, t, Begun(t), Working(t))
      BY <2>1, <2>4, <3>1 DEF Opens, Begun, Matches, BlocksInv
    <3>3. ~Other(h, t) /\ ~Begins(h, t)
      BY <2>1, <2>3, <2>4, <3>2, BlockHead DEF CliTypes
    <3>4. QED
      BY <2>4, <3>1, <3>3 DEF Other, Begins
  <2>5. OwnSession
    BY <2>3, <2>4 DEF OwnSession
  <2>6. QED
    BY <2>1, <2>2, <2>5 DEF ReplacedIsGone
<1>2. QED
  BY CliInvariant, <1>1, PTL
================================================================================
