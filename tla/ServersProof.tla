------------------------------ MODULE ServersProof ------------------------------
(***************************************************************************)
(* What holds of the cluster server, ClusterMgr.tla, for any number of     *)
(* servers, types, connections and faults; and of the process every server *)
(* runs in, TcpServer.tla, for every set of connections and every capacity *)
(* of ChanCall.                                                            *)
(***************************************************************************)
EXTENDS ClusterMgr, TcpServer, SeqLemmas

(* ------------------- ClusterMgr: the inductive invariant --------------- *)

\* A session is registered once, by the server that made it, and nothing
\* happens on one that was not made.
SessionInv ==
  \A s \in Sessions :
    /\ s <= made => node[s] \in Nodes
    /\ s > made => toClient[s] = <<>> /\ reg[s] = None
    /\ asked[s] # None => s <= made /\ reg[s] = None /\ s \notin closed

\* A server's own session is one it made.
LinkInv == \A n \in Nodes : link[n] # None => link[n] <= made /\ node[link[n]] = n

\* The subscribers of a type are the sessions whose servers registered for it:
\* none of them is ever removed.
SubscribedInv ==
  \A t \in Types, s \in Sessions :
    s \in Elems(publish[t]) <=> reg[s] # None /\ t \in Subs[node[s]]

\* A server that has not yet been answered since it started knows nothing.
FreshInv ==
  \A n \in fresh :
    link[n] = None \/ (link[n] \in up /\ reg[link[n]] = None) =>
      peers[n] = NoPeers /\ (link[n] # None => toClient[link[n]] = <<>>)

\* A session that is clean was the only one of its server when it registered.
CleanInv == \A s \in clean : Alone(s)

IInv ==
  /\ TypeOK /\ SessionInv /\ LinkInv /\ SubscribedInv /\ FreshInv /\ CleanInv
  /\ RegistryHolds

(* ------------------------------- Inboxes ------------------------------- *)

\* Msgs without what sets of records cost the provers.
Inbox == Seq(Msgs)

\* The last message of an inbox decides, if it is about the server.
LEMMA LeadsAppend ==
  ASSUME NEW q \in Inbox, NEW msg \in Msgs, NEW n, NEW m, NEW a, NEW b
  PROVE  /\ Append(q, msg) \in Inbox
         /\ Tells(msg, n, m) /\ msg.svrs[m] = b => Leads(Append(q, msg), n, m, a, b)
         /\ ~Tells(msg, n, m) /\ Leads(q, n, m, a, b) => Leads(Append(q, msg), n, m, a, b)
<1> DEFINE A == Append(q, msg)
           l == Len(q)
           old == {i \in DOMAIN q : Tells(q[i], n, m)}
           new == {i \in DOMAIN A : Tells(A[i], n, m)}
<1>1. l \in Nat /\ DOMAIN q = 1..l
  BY LenProperties DEF Inbox
<1>2. A \in Inbox /\ Len(A) = l + 1 /\ A[l + 1] = msg /\ \A i \in 1..l : A[i] = q[i]
  BY AppendProperties DEF Inbox
<1>3. DOMAIN A = 1..(l + 1)
  BY <1>2, LenProperties DEF Inbox
<1> HIDE DEF A, l
<1>4. ASSUME Tells(msg, n, m), msg.svrs[m] = b PROVE Leads(A, n, m, a, b)
  <2>1. l + 1 \in new /\ (\A j \in new : j <= l + 1) /\ A[l + 1].svrs[m] = b
    BY <1>1, <1>2, <1>3, <1>4
  <2> HIDE DEF new
  <2>2. QED
    BY <2>1 DEF Leads, new
<1>5. ASSUME ~Tells(msg, n, m), Leads(q, n, m, a, b) PROVE Leads(A, n, m, a, b)
  <2>1. new = old
    BY <1>1, <1>2, <1>3, <1>5
  <2>2. \A i \in old : A[i] = q[i]
    BY <1>1, <1>2
  <2> HIDE DEF new, old
  <2>3. IF old = {} THEN a = b ELSE \E i \in old : (\A j \in old : j <= i) /\ q[i].svrs[m] = b
    BY <1>5 DEF Leads, old
  <2>4. IF new = {} THEN a = b ELSE \E i \in new : (\A j \in new : j <= i) /\ A[i].svrs[m] = b
    BY <2>1, <2>2, <2>3
  <2>5. QED
    BY <2>4 DEF Leads, new
<1>6. QED
  BY <1>2, <1>4, <1>5 DEF A

\* The first message of an inbox does what Learn does with it.
LEMMA LeadsTail ==
  ASSUME NEW q \in Inbox, q # <<>>, NEW n, NEW m, NEW a, NEW b, Leads(q, n, m, a, b)
  PROVE  /\ Tail(q) \in Inbox /\ Head(q) \in Msgs
         /\ Leads(Tail(q), n, m, IF Tells(Head(q), n, m) THEN Head(q).svrs[m] ELSE a, b)
<1> DEFINE L == Tail(q)
           l == Len(q)
           old == {i \in DOMAIN q : Tells(q[i], n, m)}
           new == {i \in DOMAIN L : Tells(L[i], n, m)}
           c == IF Tells(Head(q), n, m) THEN Head(q).svrs[m] ELSE a
<1>1. l \in Nat /\ l > 0 /\ DOMAIN q = 1..l /\ Head(q) = q[1]
  BY LenProperties, EmptySeq DEF Inbox
<1>2. /\ L \in Inbox /\ Len(L) = l - 1 /\ Head(q) \in Msgs
      /\ \A i \in 1..(l - 1) : L[i] = q[i + 1]
  BY HeadTailProperties DEF Inbox
<1>3. DOMAIN L = 1..(l - 1)
  BY <1>2, LenProperties DEF Inbox
<1> HIDE DEF L, l
<1>4. \A i \in 2..l : i \in old <=> i - 1 \in new
  <2>1. ASSUME NEW i \in 2..l PROVE L[i - 1] = q[i] /\ i - 1 \in 1..(l - 1) /\ i \in 1..l
    <3>1. i - 1 \in 1..(l - 1) /\ (i - 1) + 1 = i /\ i \in 1..l
      BY <1>1
    <3>2. QED
      BY <1>2, <3>1
  <2>2. QED
    BY <1>1, <1>3, <2>1
<1>5. (1 \in old <=> Tells(Head(q), n, m)) /\ old \subseteq 1..l /\ new \subseteq 1..(l - 1)
  BY <1>1, <1>3
<1>6. \A i \in new : i + 1 \in old /\ q[i + 1] = L[i] /\ i \in Nat
  <2>1. ASSUME NEW i \in new PROVE i + 1 \in old /\ q[i + 1] = L[i] /\ i \in Nat
    <3>1. i \in 1..(l - 1) /\ i + 1 \in 2..l /\ (i + 1) - 1 = i
      BY <1>1, <1>5
    <3>2. QED
      BY <1>2, <1>4, <3>1
  <2>2. QED
    BY <2>1
<1>7. IF old = {} THEN a = b ELSE \E i \in old : (\A j \in old : j <= i) /\ q[i].svrs[m] = b
  BY DEF Leads
<1> HIDE DEF old, new
<1>8. IF new = {} THEN c = b ELSE \E i \in new : (\A j \in new : j <= i) /\ L[i].svrs[m] = b
  <2>1. CASE new = {}
    <3>1. old \subseteq {1}
      BY <1>1, <1>4, <1>5, <2>1
    <3>2. QED
      BY <1>1, <1>5, <1>7, <2>1, <3>1
  <2>2. CASE new # {}
    <3>1. old # {}
      BY <1>6, <2>2
    <3>2. PICK i \in old : (\A j \in old : j <= i) /\ q[i].svrs[m] = b
      BY <1>7, <3>1
    <3>3. i \in 2..l
      <4>1. PICK j \in new : TRUE
        BY <2>2
      <4>2. j + 1 \in old /\ j \in Nat /\ j \in 1..(l - 1)
        BY <1>5, <1>6, <4>1
      <4>3. j + 1 <= i /\ i \in 1..l
        BY <1>5, <3>2, <4>2
      <4>4. QED
        BY <1>1, <4>2, <4>3
    <3>4. i - 1 \in new
      BY <1>4, <3>2, <3>3
    <3>5. (i - 1) + 1 = i
      BY <3>3
    <3>6. L[i - 1].svrs[m] = b
      BY <1>6, <3>2, <3>4, <3>5
    <3>7. \A j \in new : j <= i - 1
      BY <1>6, <3>2, <3>3
    <3>8. QED
      BY <2>2, <3>4, <3>6, <3>7
  <2>3. QED
    BY <2>1, <2>2
<1>9. Leads(L, n, m, c, b)
  BY <1>8 DEF Leads, new
<1>10. QED
  BY <1>2, <1>9 DEF L

\* Copies of a message: as good as one.
LEMMA LeadsCopies ==
  ASSUME NEW q \in Inbox, NEW msg \in Msgs, NEW k \in Nat, NEW n, NEW m, NEW a, NEW b
  PROVE  LET r == q \o [i \in 1..k |-> msg]
         IN  /\ r \in Inbox
             /\ k = 0 => r = q
             /\ k # 0 /\ Tells(msg, n, m) /\ msg.svrs[m] = b => Leads(r, n, m, a, b)
             /\ ~Tells(msg, n, m) /\ Leads(q, n, m, a, b) => Leads(r, n, m, a, b)
<1> DEFINE C == [i \in 1..k |-> msg]
           r == q \o C
           l == Len(q)
           old == {i \in DOMAIN q : Tells(q[i], n, m)}
           new == {i \in DOMAIN r : Tells(r[i], n, m)}
<1>1. l \in Nat /\ DOMAIN q = 1..l
  BY LenProperties DEF Inbox
<1>2. C \in Inbox /\ Len(C) = k /\ \A i \in 1..k : C[i] = msg
  BY DEF Inbox
<1>3. /\ r \in Inbox /\ Len(r) = l + k
      /\ \A i \in 1..(l + k) : r[i] = IF i <= l THEN q[i] ELSE C[i - l]
  BY <1>2, ConcatProperties DEF Inbox
<1>4. DOMAIN r = 1..(l + k)
  BY <1>3, LenProperties DEF Inbox
<1> HIDE DEF C, r, l
<1>5. /\ \A i \in 1..l : i \in 1..(l + k) /\ r[i] = q[i]
      /\ \A i \in 1..(l + k) : i \notin 1..l => r[i] = msg
  <2>1. \A i \in 1..l : i \in 1..(l + k) /\ i <= l
    BY <1>1
  <2>2. \A i \in 1..(l + k) : i \notin 1..l => ~(i <= l) /\ i - l \in 1..k
    BY <1>1
  <2>3. QED
    BY <1>2, <1>3, <2>1, <2>2
<1>6. ASSUME k = 0 PROVE r = q
  BY <1>1, <1>3, <1>5, <1>6, SeqEqual DEF Inbox, l
<1>7. ASSUME k # 0, Tells(msg, n, m), msg.svrs[m] = b PROVE Leads(r, n, m, a, b)
  <2>1. l + k \in 1..(l + k) /\ l + k \notin 1..l
    BY <1>1, <1>7
  <2>2. l + k \in new /\ (\A j \in new : j <= l + k) /\ r[l + k].svrs[m] = b
    BY <1>1, <1>4, <1>5, <1>7, <2>1
  <2> HIDE DEF new
  <2>3. QED
    BY <2>2 DEF Leads, new
<1>8. ASSUME ~Tells(msg, n, m), Leads(q, n, m, a, b) PROVE Leads(r, n, m, a, b)
  <2>1. new = old
    BY <1>1, <1>4, <1>5, <1>8
  <2>2. \A i \in old : r[i] = q[i]
    BY <1>1, <1>5
  <2> HIDE DEF new, old
  <2>3. IF old = {} THEN a = b ELSE \E i \in old : (\A j \in old : j <= i) /\ q[i].svrs[m] = b
    BY <1>8 DEF Leads, old
  <2>4. IF new = {} THEN a = b ELSE \E i \in new : (\A j \in new : j <= i) /\ r[i].svrs[m] = b
    BY <2>1, <2>2, <2>3
  <2>5. QED
    BY <2>4 DEF Leads, new
<1>9. QED
  BY <1>3, <1>6, <1>7, <1>8 DEF C, r

(* ------------------------------- Messages ------------------------------ *)

\* What a broadcast message tells: one server's address, and nothing to the
\* server itself.
LEMMA MsgTells ==
  ASSUME NEW opr \in {"add", "del"}, NEW m \in Nodes, NEW v \in Addrs \cup {None}
  PROVE  /\ Msg(opr, m, v) \in Msgs
         /\ Msg(opr, m, v).svrs[m] = v
         /\ \A n, k : Tells(Msg(opr, m, v), n, k) <=> k = m /\ k # n
BY DEF Msg, Msgs, Table, NoPeers, Tells

\* What the answer to a registration tells: the registered servers of the
\* types asked for.
LEMMA ResponseTells ==
  ASSUME NEW table \in Table, NEW types, NEW k \in Nodes, SvrType[k] \in types, NEW n
  PROVE  /\ Response(table, types) \in Msgs
         /\ Tells(Response(table, types), n, k) <=> table[k] # None
         /\ Response(table, types).svrs[k] = table[k]
BY DEF Response, Msgs, Table, Tells

LEMMA ResponseType ==
  ASSUME NEW table \in Table, NEW types
  PROVE  Response(table, types) \in Msgs
BY DEF Response, Msgs, Table

\* A broadcast reaches the subscribers that are connected, and nobody else.
LEMMA BroadcastReaches ==
  ASSUME NEW chan \in [Sessions -> Inbox], NEW list \in Seq(Sessions), NEW msg \in Msgs,
         NEW B, B = Broadcast(chan, list, msg)
  PROVE  /\ B \in [Sessions -> Inbox]
         /\ \A s \in Sessions : s \notin Elems(list) => B[s] = chan[s]
         /\ \A s \in Sessions : \A n, m, a, b : s \in up =>
              /\ s \in Elems(list) /\ Tells(msg, n, m) /\ msg.svrs[m] = b => Leads(B[s], n, m, a, b)
              /\ ~Tells(msg, n, m) /\ Leads(chan[s], n, m, a, b) => Leads(B[s], n, m, a, b)
<1> DEFINE C(s) == chan[s] \o [i \in 1..Count(list, {s}) |-> msg]
<1>1. B = [s \in Sessions |-> IF s \in up THEN C(s) ELSE chan[s]]
  BY DEF Broadcast
<1>2. ASSUME NEW s \in Sessions
      PROVE  Count(list, {s}) \in Nat /\ (Count(list, {s}) = 0 <=> s \notin Elems(list))
  BY CountType
<1>3. ASSUME NEW s \in Sessions
      PROVE  /\ C(s) \in Inbox
             /\ s \notin Elems(list) => C(s) = chan[s]
             /\ \A n, m, a, b :
                  /\ s \in Elems(list) /\ Tells(msg, n, m) /\ msg.svrs[m] = b => Leads(C(s), n, m, a, b)
                  /\ ~Tells(msg, n, m) /\ Leads(chan[s], n, m, a, b) => Leads(C(s), n, m, a, b)
  <2>1. chan[s] \in Inbox /\ Count(list, {s}) \in Nat
    BY <1>2
  <2>2. Count(list, {s}) = 0 <=> s \notin Elems(list)
    BY <1>2
  <2>3. \A n, m, a, b :
          /\ C(s) \in Inbox
          /\ Count(list, {s}) = 0 => C(s) = chan[s]
          /\ Count(list, {s}) # 0 /\ Tells(msg, n, m) /\ msg.svrs[m] = b => Leads(C(s), n, m, a, b)
          /\ ~Tells(msg, n, m) /\ Leads(chan[s], n, m, a, b) => Leads(C(s), n, m, a, b)
    BY <2>1, LeadsCopies
  <2> HIDE DEF C
  <2>4. QED
    BY <2>2, <2>3
<1> HIDE DEF C
<1>4. B \in [Sessions -> Inbox]
  BY <1>1, <1>3
<1>5. \A s \in Sessions : B[s] = IF s \in up THEN C(s) ELSE chan[s]
  BY <1>1
<1>6. QED
  BY <1>3, <1>4, <1>5

\* The loop of RemoveSvr removes no session.
LEMMA UnsubscribeKeeps ==
  ASSUME NEW list \in Seq(Sessions), NEW s
  PROVE  /\ Unsubscribe(list, s) \in Seq(Sessions)
         /\ Elems(Unsubscribe(list, s)) = Elems(list)
<1> DEFINE before == {i \in DOMAIN list : \A j \in 1..i : list[j] # s}
           f == Cardinality(before) + 2
           l == Len(list)
           S == SubSeq(list, f, l)
           U == list \o S
<1>1. l \in Nat /\ DOMAIN list = 1..l
  BY LenProperties
<1>2. f \in Nat /\ f > 1
  <2>1. IsFiniteSet(1..l)
    BY <1>1, FS_Interval
  <2>2. IsFiniteSet(before)
    BY <1>1, <2>1, FS_Subset
  <2>3. Cardinality(before) \in Nat
    BY <2>2, FS_CardinalityType
  <2> HIDE DEF before
  <2>4. QED
    BY <2>3
<1>3. Unsubscribe(list, s) = IF s \in Elems(list) THEN U ELSE list
  BY DEF Unsubscribe
<1> HIDE DEF f
<1>4. \A i \in f..l : list[i] \in Sessions
  BY <1>1, <1>2, ElementOfSeq
<1>5. /\ S \in Seq(Sessions)
      /\ Len(S) = IF f <= l THEN l - f + 1 ELSE 0
      /\ \A i \in 1..(l - f + 1) : S[i] = list[f + i - 1]
  BY <1>1, <1>2, <1>4, SubSeqProperties
<1> HIDE DEF S
<1>6. /\ U \in Seq(Sessions) /\ Len(U) = l + Len(S)
      /\ \A i \in 1..(l + Len(S)) : U[i] = IF i <= l THEN list[i] ELSE S[i - l]
  BY <1>5, ConcatProperties
<1>7. DOMAIN U = 1..(l + Len(S)) /\ Len(S) \in Nat /\ DOMAIN S = 1..Len(S)
  BY <1>5, <1>6, LenProperties
<1> HIDE DEF U, l
<1>8. \A i \in DOMAIN S : \E j \in DOMAIN list : S[i] = list[j]
  <2>1. ASSUME NEW i \in DOMAIN S PROVE f + i - 1 \in 1..l /\ S[i] = list[f + i - 1]
    BY <1>1, <1>2, <1>5, <1>7
  <2>2. QED
    BY <1>1, <2>1
<1>9. \A i \in DOMAIN U : \E j \in DOMAIN list : U[i] = list[j]
  <2>1. ASSUME NEW i \in DOMAIN U, i <= l PROVE i \in DOMAIN list /\ U[i] = list[i]
    BY <1>1, <1>6, <1>7, <2>1
  <2>2. ASSUME NEW i \in DOMAIN U, ~(i <= l) PROVE i - l \in DOMAIN S /\ U[i] = S[i - l]
    BY <1>1, <1>6, <1>7, <2>2
  <2>3. QED
    BY <1>8, <2>1, <2>2
<1>10. \A j \in DOMAIN list : j \in DOMAIN U /\ U[j] = list[j]
  BY <1>1, <1>6, <1>7
<1>11. Elems(U) = Elems(list)
  BY <1>9, <1>10 DEF Elems
<1>12. QED
  BY <1>3, <1>6, <1>11

\* What the registry says once v is announced for m.
Announced(m, v) == [svrs EXCEPT ![m] = v]

\* Servers know, or are about to be told, the registry tab.
Knows(chan, tab) ==
  \A n \in Nodes : Registered(n) =>
    \A k \in Wanted(n) : tab[k] # None \/ n \in fresh => Leads(chan[link[n]], n, k, peers[n][k], tab[k])

\* A broadcast to the subscribers of a server's type keeps every server up to
\* date with the registry, and tells nothing to a session not registered.
LEMMA BroadcastAnnounces ==
  ASSUME IInv, NEW opr \in {"add", "del"}, NEW m \in Nodes, NEW v \in Addrs \cup {None},
         NEW list \in Seq(Sessions), Elems(list) = Elems(publish[SvrType[m]]),
         NEW B, B = Broadcast(toClient, list, Msg(opr, m, v))
  PROVE  /\ B \in [Sessions -> Inbox]
         /\ \A s \in Sessions : reg[s] = None => B[s] = toClient[s]
         /\ Knows(B, Announced(m, v))
<1> DEFINE msg == Msg(opr, m, v)
           tab == Announced(m, v)
<1>1. msg \in Msgs /\ msg.svrs[m] = v /\ \A n, k : Tells(msg, n, k) <=> k = m /\ k # n
  BY MsgTells
<1>2. toClient \in [Sessions -> Inbox] /\ svrs \in [Nodes -> Addrs \cup {None}]
  BY DEF IInv, TypeOK, Inbox, Table
<1> HIDE DEF msg
<1>3. /\ B \in [Sessions -> Inbox]
      /\ \A s \in Sessions : s \notin Elems(list) => B[s] = toClient[s]
      /\ \A s \in Sessions : \A n, k, a, b : s \in up =>
           /\ s \in Elems(list) /\ Tells(msg, n, k) /\ msg.svrs[k] = b => Leads(B[s], n, k, a, b)
           /\ ~Tells(msg, n, k) /\ Leads(toClient[s], n, k, a, b) => Leads(B[s], n, k, a, b)
  <2>1. B = Broadcast(toClient, list, msg)
    BY DEF msg
  <2>2. QED
    BY <1>1, <1>2, <2>1, BroadcastReaches
<1>4. SvrType[m] \in Types
  BY ClusterMgrAssumption
<1>5. \A s \in Sessions : s \in Elems(list) <=> reg[s] # None /\ SvrType[m] \in Subs[node[s]]
  BY <1>4 DEF IInv, SubscribedInv
<1>6. Knows(B, tab)
  <2>1. SUFFICES ASSUME NEW n \in Nodes, Registered(n), NEW k \in Wanted(n),
                        tab[k] # None \/ n \in fresh
                 PROVE  Leads(B[link[n]], n, k, peers[n][k], tab[k])
    BY DEF Knows
  <2>2. /\ link[n] \in Sessions /\ link[n] \in up /\ node[link[n]] = n /\ reg[link[n]] # None
        /\ k \in Nodes /\ k # n /\ SvrType[k] \in Subs[n]
    BY <2>1 DEF Registered, Wanted, IInv, TypeOK, LinkInv
  <2>3. CASE k = m
    <3>1. tab[k] = v /\ Tells(msg, n, k) /\ msg.svrs[k] = v
      BY <1>1, <1>2, <2>2, <2>3 DEF Announced
    <3>2. link[n] \in Elems(list)
      BY <1>5, <2>2, <2>3
    <3> HIDE DEF tab
    <3>3. QED
      BY <1>3, <2>2, <3>1, <3>2
  <2>4. CASE k # m
    <3>1. tab[k] = svrs[k] /\ ~Tells(msg, n, k)
      BY <1>1, <1>2, <2>2, <2>4 DEF Announced
    <3>2. Leads(toClient[link[n]], n, k, peers[n][k], svrs[k])
      BY <2>1, <3>1 DEF IInv, RegistryHolds, KnowsRegistry
    <3> HIDE DEF tab
    <3>3. QED
      BY <1>3, <2>2, <3>1, <3>2
  <2>5. QED
    BY <2>3, <2>4
<1>7. QED
  BY <1>3, <1>5, <1>6

(* ------------------------------- The steps ----------------------------- *)

LEMMA InitStep == Init => IInv
<1> SUFFICES ASSUME Init PROVE IInv
  OBVIOUS
<1>1. TypeOK
  BY ClusterMgrAssumption DEF Init, TypeOK, NoPeers, Table, Sessions
<1>2. SessionInv /\ LinkInv /\ FreshInv /\ CleanInv /\ RegistryHolds
  BY ClusterMgrAssumption DEF Init, SessionInv, LinkInv, FreshInv, CleanInv, RegistryHolds, StaysRegistered,
     KnowsRegistry, Registered, Sessions
<1>3. SubscribedInv
  BY ElemsEmpty DEF Init, SubscribedInv
<1>4. QED
  BY <1>1, <1>2, <1>3 DEF IInv

\* A registration.
LEMMA RegisterStep ==
  ASSUME IInv, NEW s \in Sessions, RecvRegister(s) PROVE IInv'
<1> DEFINE n == node[s]
           a == asked[s]
           B == Broadcast(toClient, publish[SvrType[n]], Msg("add", n, a))
           R == Response(svrs', Subs[n])
<1>1. /\ s \in 1..made /\ n \in Nodes /\ a \in Addrs /\ a # None /\ s \notin closed
      /\ reg[s] = None /\ made \in Nat
  <2>1. a # None /\ s \notin closed
    BY DEF RecvRegister
  <2>2. s <= made /\ reg[s] = None /\ n \in Nodes
    BY <2>1 DEF IInv, SessionInv
  <2>3. made \in Nat /\ s \in Nat /\ s >= 1 /\ a \in Addrs \cup {None}
    BY ClusterMgrAssumption DEF IInv, TypeOK, Sessions
  <2>4. QED
    BY <2>1, <2>2, <2>3
<1>2. /\ SvrType[n] \in Types /\ Subs[n] \subseteq Types
  BY <1>1, ClusterMgrAssumption
<1>3. /\ B \in [Sessions -> Inbox]
      /\ \A t \in Sessions : reg[t] = None => B[t] = toClient[t]
      /\ Knows(B, Announced(n, a))
  <2>1. publish[SvrType[n]] \in Seq(Sessions)
    BY <1>2 DEF IInv, TypeOK
  <2>2. QED
    BY <1>1, <2>1, BroadcastAnnounces
<1>4. svrs' = Announced(n, a) /\ svrs' \in Table /\ svrs'[n] = a
      /\ \A k \in Nodes : k # n => svrs'[k] = svrs[k]
  BY <1>1 DEF RecvRegister, Announced, IInv, TypeOK, Table
<1>5. R \in Msgs
  BY <1>4, ResponseType
<1>6. /\ toClient' = IF s \in up THEN [B EXCEPT ![s] = Append(@, R)] ELSE B
      /\ reg' = [reg EXCEPT ![s] = a] /\ asked' = [asked EXCEPT ![s] = None]
      /\ pubInfo' = pubInfo \cup {n}
      /\ publish' = [t \in Types |-> IF t \in Subs[n] THEN Append(publish[t], s) ELSE publish[t]]
      /\ clean' = (IF Alone(s) THEN clean \cup {s} ELSE clean)
      /\ UNCHANGED <<made, node, up, closed, addr, link, peers, fresh, faults>>
  BY DEF RecvRegister, nodeVars
<1> HIDE DEF B, R, n, a
<1>7. toClient' \in [Sessions -> Inbox] /\ \A t \in Sessions : t # s => toClient'[t] = B[t]
  <2>1. B[s] \in Inbox /\ Append(B[s], R) \in Inbox
    BY <1>3, <1>5, AppendProperties DEF Inbox
  <2>2. QED
    BY <1>3, <1>6, <2>1
<1>8. s \in up => toClient'[s] = Append(toClient[s], R)
  BY <1>1, <1>3, <1>6
<1>9. \A t \in Sessions : (t # s => reg'[t] = reg[t]) /\ reg'[s] = a
  BY <1>6 DEF IInv, TypeOK
<1>10. TypeOK'
  <2>1. publish' \in [Types -> Seq(Sessions)]
    <3>1. \A t \in Types : publish[t] \in Seq(Sessions) /\ Append(publish[t], s) \in Seq(Sessions)
      BY AppendProperties DEF IInv, TypeOK
    <3>2. QED
      BY <1>6, <3>1
  <2>2. pubInfo' = {k \in Nodes : svrs'[k] # None}
    <3>1. pubInfo = {k \in Nodes : svrs[k] # None}
      BY DEF IInv, TypeOK
    <3>2. QED
      BY <1>1, <1>4, <1>6, <3>1
  <2>3. toClient' \in [Sessions -> Seq(Msgs)]
    BY <1>7 DEF Inbox
  <2>4. QED
    BY <1>1, <1>4, <1>6, <2>1, <2>2, <2>3 DEF IInv, TypeOK
<1>11. SessionInv'
  <2>1. \A t \in Sessions : t > made => t # s
    BY <1>1
  <2>2. \A t \in Sessions : t > made => toClient'[t] = <<>> /\ reg'[t] = None
    BY <1>3, <1>7, <1>9, <2>1 DEF IInv, SessionInv
  <2>3. \A t \in Sessions : asked'[t] # None => t # s /\ asked'[t] = asked[t]
    BY <1>6 DEF IInv, TypeOK
  <2>4. QED
    BY <1>6, <1>9, <2>2, <2>3 DEF IInv, SessionInv
<1>12. LinkInv'
  BY <1>6 DEF IInv, LinkInv
<1>13. SubscribedInv'
  <2>1. ASSUME NEW t \in Types, NEW u \in Sessions
        PROVE  u \in Elems(publish'[t]) <=> reg'[u] # None /\ t \in Subs[node'[u]]
    <3>1. publish[t] \in Seq(Sessions)
      BY DEF IInv, TypeOK
    <3>2. Elems(Append(publish[t], s)) = Elems(publish[t]) \cup {s}
      BY <3>1, ElemsAppend
    <3>3. Elems(publish'[t]) = IF t \in Subs[n] THEN Elems(publish[t]) \cup {s} ELSE Elems(publish[t])
      BY <1>6, <3>2
    <3>4. u \in Elems(publish[t]) <=> reg[u] # None /\ t \in Subs[node[u]]
      BY DEF IInv, SubscribedInv
    <3>5. QED
      BY <1>1, <1>6, <1>9, <3>3, <3>4 DEF n
  <2>2. QED
    BY <2>1 DEF SubscribedInv
<1>14. FreshInv'
  <2>1. ASSUME NEW k \in fresh, link[k] = None \/ (link[k] \in up /\ reg'[link[k]] = None)
        PROVE  peers[k] = NoPeers /\ (link[k] # None => toClient'[link[k]] = <<>>)
    <3>1. k \in Nodes /\ link[k] \in Sessions \cup {None} /\ None \notin Sessions
      BY ClusterMgrAssumption DEF IInv, TypeOK, Sessions
    <3>2. link[k] # s
      BY <1>1, <1>9, <2>1, <3>1, ClusterMgrAssumption
    <3>3. link[k] = None \/ (link[k] \in up /\ reg[link[k]] = None)
      BY <1>9, <2>1, <3>1, <3>2
    <3>4. QED
      BY <1>3, <1>7, <3>1, <3>2, <3>3 DEF IInv, FreshInv
  <2>2. QED
    BY <1>6, <2>1 DEF FreshInv
<1>15. CleanInv'
  BY <1>6 DEF IInv, CleanInv, Alone
<1>16. StaysRegistered'
  <2>1. SUFFICES ASSUME NEW t \in clean', t \notin closed,
                        \A u \in Sessions : u > t => node[u] # node[t] \/ reg'[u] = None
                 PROVE  svrs'[node[t]] = reg'[t]
    BY <1>6 DEF StaysRegistered
  <2>2. CASE t = s
    BY <1>4, <1>9, <2>2 DEF n
  <2>3. CASE t # s
    <3>1. t \in clean /\ t \in 1..made /\ t \in Sessions
      <4>1. t \in clean
        BY <1>6, <2>1, <2>3
      <4>2. clean \subseteq 1..made /\ made \in 0..MaxSessions
        BY DEF IInv, TypeOK
      <4>3. QED
        BY <4>1, <4>2, ClusterMgrAssumption DEF Sessions
    <3>2. node[t] # n
      <4>1. ASSUME node[t] = n PROVE FALSE
        <5>1. Alone(t) /\ t \in Nat /\ s \in Nat
          BY <3>1 DEF IInv, CleanInv, Sessions
        <5>2. ~(s < t)
          BY <1>1, <4>1, <5>1 DEF Alone, n
        <5>3. s > t
          BY <2>3, <5>1, <5>2
        <5>4. QED
          BY <1>1, <1>9, <2>1, <4>1, <5>3 DEF n
      <4>2. QED
        BY <4>1
    <3>3. \A u \in Sessions : u > t => node[u] # node[t] \/ reg[u] = None
      BY <1>1, <1>9, <2>1
    <3>4. svrs[node[t]] = reg[t]
      BY <2>1, <3>1, <3>3 DEF IInv, RegistryHolds, StaysRegistered
    <3>5. node[t] \in Nodes
      BY <3>1 DEF IInv, SessionInv, Sessions
    <3>6. QED
      BY <1>4, <1>9, <2>3, <3>1, <3>2, <3>4, <3>5
  <2>4. QED
    BY <2>2, <2>3
<1>17. KnowsRegistry'
  <2>1. SUFFICES ASSUME NEW k \in Nodes, Registered(k)', NEW m \in Wanted(k),
                        svrs'[m] # None \/ k \in fresh
                 PROVE  Leads(toClient'[link[k]], k, m, peers[k][m], svrs'[m])
    BY <1>6 DEF KnowsRegistry, Wanted
  <2>2. /\ link[k] \in Sessions /\ link[k] \in up /\ link[k] \notin closed /\ node[link[k]] = k
        /\ reg'[link[k]] # None /\ m \in Nodes /\ SvrType[m] \in Subs[k]
    BY <1>6, <2>1 DEF Registered, Wanted, IInv, TypeOK, LinkInv
  <2>3. CASE link[k] # s
    <3>1. Registered(k)
      BY <1>9, <2>1, <2>2, <2>3, <1>6 DEF Registered
    <3>2. Leads(B[link[k]], k, m, peers[k][m], svrs'[m])
      BY <1>3, <1>4, <2>1, <3>1 DEF Knows
    <3>3. QED
      BY <1>7, <2>2, <2>3, <3>2
  <2>4. CASE link[k] = s
    <3>1. k = n
      BY <2>2, <2>4 DEF n
    <3>2. /\ Tells(R, k, m) <=> svrs'[m] # None
          /\ R.svrs[m] = svrs'[m]
      BY <1>4, <2>2, <3>1, ResponseTells DEF R
    <3>3. toClient'[link[k]] = Append(toClient[s], R) /\ toClient[s] \in Inbox
      BY <1>8, <2>2, <2>4 DEF IInv, TypeOK, Inbox
    <3>4. CASE svrs'[m] # None
      BY <1>5, <3>2, <3>3, <3>4, LeadsAppend
    <3>5. CASE svrs'[m] = None
      <4>1. peers[k] = NoPeers /\ toClient[s] = <<>>
        <5>1. k \in fresh /\ link[k] # None
          BY <2>1, <3>5, <2>2, ClusterMgrAssumption DEF Sessions
        <5>2. link[k] \in up /\ reg[link[k]] = None
          BY <1>1, <2>2, <2>4
        <5>3. QED
          BY <2>4, <5>1, <5>2 DEF IInv, FreshInv
      <4>2. Leads(toClient[s], k, m, peers[k][m], None)
        BY <2>2, <4>1 DEF Leads, NoPeers
      <4>3. QED
        BY <1>5, <3>2, <3>3, <3>5, <4>2, LeadsAppend
    <3>6. QED
      BY <3>4, <3>5
  <2>5. QED
    BY <2>3, <2>4
<1>18. QED
  BY <1>10, <1>11, <1>12, <1>13, <1>14, <1>15, <1>16, <1>17 DEF IInv, RegistryHolds

\* The close of a session, with the registration it takes away.
LEMMA CloseStep ==
  ASSUME IInv, NEW s \in Sessions, OnClose(s) PROVE IInv'
<1> DEFINE n == node[s]
<1>1. /\ s \in 1..made /\ n \in Nodes /\ s \notin up /\ s \notin closed
      /\ closed' = closed \cup {s} /\ asked' = [asked EXCEPT ![s] = None]
      /\ UNCHANGED <<reg, clean, made, node, up, addr, link, peers, fresh, faults>>
  BY DEF OnClose, nodeVars, IInv, TypeOK, SessionInv
<1>2. /\ svrs' \in Table /\ publish' \in [Types -> Seq(Sessions)]
      /\ pubInfo' = {k \in Nodes : svrs'[k] # None}
      /\ toClient' \in [Sessions -> Inbox]
      /\ \A t \in Types : Elems(publish'[t]) = Elems(publish[t])
      /\ \A k \in Nodes : svrs'[k] = svrs[k] \/ (k = n /\ reg[s] # None)
      /\ \A t \in Sessions : reg[t] = None => toClient'[t] = toClient[t]
      /\ Knows(toClient', svrs')
  <2>1. CASE reg[s] = None \/ n \notin pubInfo
    <3>1. UNCHANGED <<svrs, publish, pubInfo, toClient>>
      BY <2>1 DEF OnClose, RemoveSvr
    <3>2. Knows(toClient, svrs)
      BY DEF IInv, RegistryHolds, KnowsRegistry, Knows
    <3>3. QED
      BY <3>1, <3>2 DEF IInv, TypeOK, Inbox, Knows
  <2>2. CASE ~(reg[s] = None \/ n \notin pubInfo)
    <3> DEFINE list == publish'[SvrType[n]]
               B == Broadcast(toClient, list, Msg("del", n, None))
    <3>1. /\ publish' = [t \in Types |-> IF t \in Subs[n] THEN Unsubscribe(publish[t], s) ELSE publish[t]]
          /\ pubInfo' = pubInfo \ {n}
          /\ svrs' = [svrs EXCEPT ![n] = None]
          /\ toClient' = B
      BY <2>2 DEF OnClose, RemoveSvr
    <3>2. ASSUME NEW t \in Types
          PROVE  /\ publish'[t] \in Seq(Sessions)
                 /\ Elems(publish'[t]) = Elems(publish[t])
      <4>1. publish[t] \in Seq(Sessions)
        BY DEF IInv, TypeOK
      <4>2. QED
        BY <3>1, <4>1, UnsubscribeKeeps
    <3>3. publish' \in [Types -> Seq(Sessions)]
      BY <3>1, <3>2
    <3>4. svrs' = Announced(n, None) /\ svrs' \in Table /\ svrs'[n] = None
          /\ \A k \in Nodes : k # n => svrs'[k] = svrs[k]
      BY <1>1, <3>1 DEF Announced, IInv, TypeOK, Table
    <3>5. pubInfo' = {k \in Nodes : svrs'[k] # None}
      <4>1. pubInfo = {k \in Nodes : svrs[k] # None}
        BY DEF IInv, TypeOK
      <4>2. QED
        BY <1>1, <3>1, <3>4, <4>1
    <3>6. SvrType[n] \in Types
      BY <1>1, ClusterMgrAssumption
    <3>7. list \in Seq(Sessions) /\ Elems(list) = Elems(publish[SvrType[n]])
      BY <3>2, <3>6
    <3> HIDE DEF list
    <3>8. /\ B \in [Sessions -> Inbox]
          /\ \A t \in Sessions : reg[t] = None => B[t] = toClient[t]
          /\ Knows(B, Announced(n, None))
      BY <1>1, <3>7, BroadcastAnnounces
    <3> HIDE DEF B
    <3>9. Knows(toClient', svrs')
      BY <3>1, <3>4, <3>8
    <3>10. QED
      BY <2>2, <3>1, <3>2, <3>3, <3>4, <3>5, <3>8, <3>9
  <2>3. QED
    BY <2>1, <2>2
<1> HIDE DEF n
<1>3. TypeOK'
  <2>1. toClient' \in [Sessions -> Seq(Msgs)]
    BY <1>2 DEF Inbox
  <2>2. QED
    BY <1>1, <1>2, <2>1 DEF IInv, TypeOK
<1>4. SessionInv'
  <2>1. ASSUME NEW t \in Sessions, asked'[t] # None PROVE t # s /\ asked[t] # None
    BY <1>1, <2>1 DEF IInv, TypeOK
  <2>2. \A t \in Sessions : t > made => toClient'[t] = <<>>
    BY <1>2 DEF IInv, SessionInv
  <2>3. QED
    BY <1>1, <2>1, <2>2 DEF IInv, SessionInv
<1>5. LinkInv'
  BY <1>1 DEF IInv, LinkInv
<1>6. SubscribedInv'
  BY <1>1, <1>2 DEF IInv, SubscribedInv
<1>7. FreshInv'
  <2>1. ASSUME NEW k \in fresh, link[k] = None \/ (link[k] \in up /\ reg[link[k]] = None)
        PROVE  peers[k] = NoPeers /\ (link[k] # None => toClient'[link[k]] = <<>>)
    <3>1. peers[k] = NoPeers /\ (link[k] # None => toClient[link[k]] = <<>>)
      BY <2>1 DEF IInv, FreshInv
    <3>2. link[k] # None => link[k] \in Sessions /\ reg[link[k]] = None
      BY <2>1 DEF IInv, TypeOK
    <3>3. QED
      BY <1>2, <3>1, <3>2
  <2>2. QED
    BY <1>1, <2>1 DEF FreshInv
<1>8. CleanInv'
  BY <1>1 DEF IInv, CleanInv, Alone
<1>9. StaysRegistered'
  <2>1. SUFFICES ASSUME NEW t \in clean, t \notin closed, t # s,
                        \A u \in Sessions : u > t => node[u] # node[t] \/ reg[u] = None
                 PROVE  svrs'[node[t]] = reg[t]
    BY <1>1 DEF StaysRegistered
  <2>2. t \in Sessions /\ t \in 1..made /\ t \in Nat /\ s \in Nat
    <3>1. clean \subseteq 1..made /\ made \in 0..MaxSessions
      BY DEF IInv, TypeOK
    <3>2. QED
      BY <2>1, <3>1, ClusterMgrAssumption DEF Sessions
  <2>3. svrs[node[t]] = reg[t] /\ node[t] \in Nodes
    BY <2>1, <2>2 DEF IInv, RegistryHolds, StaysRegistered, SessionInv
  <2>4. ASSUME node[t] = n, reg[s] # None PROVE FALSE
    <3>1. ~(s > t)
      BY <2>1, <2>4 DEF n
    <3>2. s < t
      BY <2>1, <2>2, <3>1
    <3>3. QED
      BY <1>1, <2>1, <2>4, <3>2 DEF IInv, CleanInv, Alone, n
  <2>5. QED
    BY <1>2, <2>3, <2>4
<1>10. KnowsRegistry'
  <2>1. \A k \in Nodes : Registered(k)' => Registered(k)
    BY <1>1 DEF Registered
  <2>2. QED
    BY <1>1, <1>2, <2>1 DEF KnowsRegistry, Knows, Wanted
<1>11. QED
  BY <1>3, <1>4, <1>5, <1>6, <1>7, <1>8, <1>9, <1>10 DEF IInv, RegistryHolds

\* The cluster restarts, or a connection breaks.
LEMMA FaultStep ==
  ASSUME IInv, ClusterRestart \/ \E s \in Sessions : Break(s) PROVE IInv'
<1>1. CASE ClusterRestart
  <2>1. TypeOK'
    <3>1. /\ svrs' = NoPeers /\ publish' = [t \in Types |-> <<>>] /\ pubInfo' = {}
          /\ reg' = [s \in Sessions |-> None] /\ asked' = [s \in Sessions |-> None]
          /\ closed' = 1..made /\ up' = {} /\ clean' = {} /\ faults' = faults + 1 /\ faults < MaxFaults
          /\ UNCHANGED <<made, node, toClient, addr, link, peers, fresh>>
      BY <1>1 DEF ClusterRestart, nodeVars
    <3>2. NoPeers \in Table /\ {n \in Nodes : NoPeers[n] # None} = {}
      BY DEF NoPeers, Table
    <3>3. faults' \in 0..MaxFaults
      BY <3>1, ClusterMgrAssumption DEF IInv, TypeOK
    <3>4. publish' \in [Types -> Seq(Sessions)]
      BY <3>1
    <3>5. reg' \in [Sessions -> Addrs \cup {None}] /\ asked' \in [Sessions -> Addrs \cup {None}]
      BY <3>1
    <3>6. up' \subseteq 1..made' /\ closed' \subseteq 1..made' /\ clean' \subseteq 1..made'
      BY <3>1
    <3>7. svrs' \in Table /\ pubInfo' = {n \in Nodes : svrs'[n] # None}
      BY <3>1, <3>2
    <3>8. /\ made' \in 0..MaxSessions /\ node' \in [Sessions -> Nodes \cup {None}]
          /\ toClient' \in [Sessions -> Seq(Msgs)] /\ addr' \in [Nodes -> Addrs]
          /\ link' \in [Nodes -> Sessions \cup {None}] /\ peers' \in [Nodes -> Table] /\ fresh' \subseteq Nodes
      BY <3>1 DEF IInv, TypeOK
    <3>9. QED
      BY <3>3, <3>4, <3>5, <3>6, <3>7, <3>8 DEF TypeOK
  <2>2. SessionInv'
    BY <1>1 DEF ClusterRestart, nodeVars, IInv, SessionInv
  <2>3. LinkInv' /\ CleanInv' /\ StaysRegistered'
    BY <1>1 DEF ClusterRestart, nodeVars, IInv, LinkInv, CleanInv, StaysRegistered
  <2>4. SubscribedInv'
    <3>1. publish' = [t \in Types |-> <<>>] /\ reg' = [s \in Sessions |-> None]
      BY <1>1 DEF ClusterRestart
    <3>2. QED
      BY <3>1, ElemsEmpty DEF SubscribedInv
  <2>5. FreshInv' /\ KnowsRegistry'
    BY <1>1 DEF ClusterRestart, nodeVars, IInv, FreshInv, KnowsRegistry, Registered
  <2>6. QED
    BY <2>1, <2>2, <2>3, <2>4, <2>5 DEF IInv, RegistryHolds
<1>2. ASSUME NEW s \in Sessions, Break(s) PROVE IInv'
  <2>1. /\ up' = up \ {s} /\ faults < MaxFaults /\ faults' = faults + 1
        /\ UNCHANGED <<svrs, publish, pubInfo, reg, closed, clean, made, node, asked, toClient,
                       addr, link, peers, fresh>>
    BY <1>2 DEF Break, clusterVars, nodeVars
  <2>2. TypeOK'
    <3>1. faults' \in 0..MaxFaults
      BY <2>1, ClusterMgrAssumption DEF IInv, TypeOK
    <3>2. up' \subseteq 1..made
      BY <2>1 DEF IInv, TypeOK
    <3>3. QED
      BY <2>1, <3>1, <3>2 DEF IInv, TypeOK
  <2>3. SessionInv' /\ LinkInv' /\ SubscribedInv' /\ CleanInv' /\ StaysRegistered'
    BY <2>1 DEF IInv, SessionInv, LinkInv, SubscribedInv, CleanInv, Alone, RegistryHolds, StaysRegistered
  <2>4. FreshInv' /\ KnowsRegistry'
    BY <2>1 DEF IInv, FreshInv, RegistryHolds, KnowsRegistry, Registered, Wanted
  <2>5. QED
    BY <2>2, <2>3, <2>4 DEF IInv, RegistryHolds
<1>3. QED
  BY <1>1, <1>2

\* A server connects.
LEMMA ConnectStep ==
  ASSUME IInv, NEW n \in Nodes, Connect(n) PROVE IInv'
<1> DEFINE s == made + 1
<1>1. /\ link[n] = None /\ made < MaxSessions /\ made' = s
      /\ node' = [node EXCEPT ![s] = n] /\ up' = up \cup {s}
      /\ asked' = [asked EXCEPT ![s] = addr[n]] /\ link' = [link EXCEPT ![n] = s]
      /\ UNCHANGED <<svrs, publish, pubInfo, reg, closed, clean, toClient, addr, peers, fresh, faults>>
  BY DEF Connect, clusterVars
<1>2. /\ made \in Nat /\ s \in Sessions /\ s > made /\ s \in 1..s
      /\ \A t \in Sessions : t \in Nat /\ (t <= s <=> t <= made \/ t = s) /\ (t <= made => t # s)
                             /\ (t > s => t > made)
      /\ \A t \in 1..made : t \in 1..s /\ t \in Sessions /\ t <= made /\ t # s
      /\ None \notin Sessions
  <2>1. made \in 0..MaxSessions
    BY DEF IInv, TypeOK
  <2>2. QED
    BY <1>1, <2>1, ClusterMgrAssumption DEF Sessions
<1>3. up \subseteq 1..made /\ closed \subseteq 1..made /\ clean \subseteq 1..made
  BY DEF IInv, TypeOK
<1> HIDE DEF s
<1>4. reg[s] = None /\ toClient[s] = <<>>
  BY <1>2 DEF IInv, SessionInv
<1>5. \A t \in Sessions : node'[t] = IF t = s THEN n ELSE node[t]
  BY <1>1 DEF IInv, TypeOK
<1>6. \A k \in Nodes : link'[k] = IF k = n THEN s ELSE link[k]
  BY <1>1 DEF IInv, TypeOK
<1>7. TypeOK'
  <2>1. addr[n] \in Addrs \cup {None} /\ s \in 0..MaxSessions
    BY <1>2, ClusterMgrAssumption DEF IInv, TypeOK, Sessions
  <2>2. node' \in [Sessions -> Nodes \cup {None}] /\ asked' \in [Sessions -> Addrs \cup {None}]
        /\ link' \in [Nodes -> Sessions \cup {None}]
    BY <1>1, <1>2, <2>1 DEF IInv, TypeOK
  <2>3. made' \in 0..MaxSessions /\ up' \subseteq 1..made' /\ closed' \subseteq 1..made' /\ clean' \subseteq 1..made'
    BY <1>1, <1>2, <1>3, <2>1
  <2>4. QED
    BY <1>1, <2>2, <2>3 DEF IInv, TypeOK
<1>8. SessionInv'
  <2>1. ASSUME NEW t \in Sessions, asked'[t] # None
        PROVE  t <= s /\ reg[t] = None /\ t \notin closed
    <3>1. CASE t = s
      BY <1>2, <1>3, <1>4, <3>1
    <3>2. CASE t # s
      <4>1. asked[t] # None
        BY <1>1, <2>1, <3>2 DEF IInv, TypeOK
      <4>2. QED
        BY <1>2, <4>1 DEF IInv, SessionInv
    <3>3. QED
      BY <3>1, <3>2
  <2>2. ASSUME NEW t \in Sessions PROVE t <= s => node'[t] \in Nodes
    BY <1>2, <1>5 DEF IInv, SessionInv
  <2>3. ASSUME NEW t \in Sessions PROVE t > s => toClient[t] = <<>> /\ reg[t] = None
    BY <1>2 DEF IInv, SessionInv
  <2>4. QED
    BY <1>1, <2>1, <2>2, <2>3 DEF SessionInv
<1>9. LinkInv'
  <2>1. ASSUME NEW k \in Nodes, link'[k] # None PROVE link'[k] <= s /\ node'[link'[k]] = k
    <3>1. CASE k = n
      BY <1>2, <1>5, <1>6, <3>1
    <3>2. CASE k # n
      <4>1. link'[k] = link[k] /\ link[k] \in Sessions /\ link[k] <= made /\ node[link[k]] = k
        BY <1>6, <2>1, <3>2 DEF IInv, TypeOK, LinkInv
      <4>2. QED
        BY <1>2, <1>5, <4>1
    <3>3. QED
      BY <3>1, <3>2
  <2>2. QED
    BY <1>1, <2>1 DEF LinkInv
<1>10. SubscribedInv'
  BY <1>1, <1>4, <1>5 DEF IInv, SubscribedInv
<1>11. FreshInv'
  <2>1. ASSUME NEW k \in fresh, link'[k] = None \/ (link'[k] \in up' /\ reg[link'[k]] = None)
        PROVE  peers[k] = NoPeers /\ (link'[k] # None => toClient[link'[k]] = <<>>)
    <3>1. k \in Nodes
      BY DEF IInv, TypeOK
    <3>2. CASE k = n
      BY <1>1, <1>2, <1>4, <1>6, <3>1, <3>2 DEF IInv, FreshInv
    <3>3. CASE k # n
      <4>1. link'[k] = link[k] /\ link[k] # s
        <5>1. link'[k] = link[k]
          BY <1>6, <3>1, <3>3
        <5>2. link[k] # None => link[k] \in Sessions /\ link[k] <= made
          BY <3>1 DEF IInv, TypeOK, LinkInv
        <5>3. QED
          BY <1>2, <5>1, <5>2
      <4>2. link[k] = None \/ (link[k] \in up /\ reg[link[k]] = None)
        BY <1>1, <2>1, <4>1
      <4>3. QED
        BY <4>1, <4>2 DEF IInv, FreshInv
    <3>4. QED
      BY <3>2, <3>3
  <2>2. QED
    BY <1>1, <2>1 DEF FreshInv
<1>12. CleanInv'
  <2>1. ASSUME NEW t \in clean, NEW u \in Sessions, u < t, node'[u] = node'[t] PROVE u \in closed
    <3>1. t \in Sessions /\ t # s /\ t <= made /\ t \in Nat /\ u \in Nat
      BY <1>2, <1>3
    <3>2. u <= made
      BY <1>2, <2>1, <3>1
    <3>3. node[u] = node[t]
      BY <1>2, <1>5, <2>1, <3>1, <3>2
    <3>4. QED
      BY <2>1, <3>3 DEF IInv, CleanInv, Alone
  <2>2. QED
    BY <1>1, <2>1 DEF CleanInv, Alone
<1>13. StaysRegistered'
  <2>1. ASSUME NEW t \in clean, t \notin closed,
               \A u \in Sessions : u > t => node'[u] # node'[t] \/ reg[u] = None
        PROVE  svrs[node'[t]] = reg[t]
    <3>1. node'[t] = node[t]
      BY <1>2, <1>3, <1>5
    <3>2. \A u \in Sessions : u > t => node[u] # node[t] \/ reg[u] = None
      BY <1>4, <1>5, <2>1, <3>1
    <3>3. QED
      BY <2>1, <3>1, <3>2 DEF IInv, RegistryHolds, StaysRegistered
  <2>2. QED
    BY <1>1, <2>1 DEF StaysRegistered
<1>14. KnowsRegistry'
  <2>1. ASSUME NEW k \in Nodes, Registered(k)' PROVE Registered(k) /\ link'[k] = link[k]
    <3>1. k # n
      BY <1>1, <1>4, <1>6, <2>1 DEF Registered
    <3>2. link'[k] = link[k]
      BY <1>6, <3>1
    <3>3. link[k] \in Sessions /\ link[k] <= made
      BY <2>1, <3>2 DEF Registered, IInv, TypeOK, LinkInv
    <3>4. QED
      BY <1>1, <1>2, <2>1, <3>2, <3>3 DEF Registered
  <2>2. QED
    BY <1>1, <2>1 DEF IInv, RegistryHolds, KnowsRegistry, Wanted
<1>15. QED
  BY <1>7, <1>8, <1>9, <1>10, <1>11, <1>12, <1>13, <1>14 DEF IInv, RegistryHolds

\* A message arrives at a server.
LEMMA MessageStep ==
  ASSUME IInv, NEW n \in Nodes, RecvMsg(n) PROVE IInv'
<1> DEFINE s == link[n]
           q == toClient[s]
<1>1. /\ s # None /\ q # <<>>
      /\ peers' = [peers EXCEPT ![n] = Learn(n, peers[n], Head(q))]
      /\ toClient' = [toClient EXCEPT ![s] = Tail(q)]
      /\ UNCHANGED <<svrs, publish, pubInfo, reg, closed, clean, made, node, up, asked, addr, link, fresh, faults>>
  BY DEF RecvMsg, clusterVars
<1>2. s \in Sessions /\ s <= made /\ node[s] = n /\ q \in Inbox
      /\ peers[n] \in Table /\ toClient \in [Sessions -> Inbox]
  BY <1>1 DEF IInv, TypeOK, LinkInv, Inbox
<1>3. \A k, m, a, b : Leads(q, k, m, a, b) =>
        Leads(Tail(q), k, m, IF Tells(Head(q), k, m) THEN Head(q).svrs[m] ELSE a, b)
  BY <1>1, <1>2, LeadsTail
<1>4. Tail(q) \in Inbox /\ Head(q) \in Msgs
  BY <1>1, <1>2, HeadTailProperties DEF Inbox
<1>5. \A k \in Nodes : k # n /\ link[k] # None => link[k] # s
  BY <1>2 DEF IInv, LinkInv
<1> HIDE DEF s, q
<1>6. toClient'[s] = Tail(q) /\ \A t \in Sessions : t # s => toClient'[t] = toClient[t]
  BY <1>1, <1>2
<1>7. Learn(n, peers[n], Head(q)) \in Table
  <2>1. Head(q).svrs \in Table
    BY <1>4 DEF Msgs
  <2>2. QED
    BY <1>2, <2>1 DEF Learn, Table
<1>8. /\ \A k \in Nodes : k # n => peers'[k] = peers[k]
      /\ \A m \in Nodes : peers'[n][m] = IF Tells(Head(q), n, m) THEN Head(q).svrs[m] ELSE peers[n][m]
  BY <1>1 DEF IInv, TypeOK, Learn
<1>9. TypeOK'
  <2>1. peers' \in [Nodes -> Table] /\ toClient' \in [Sessions -> Seq(Msgs)]
    BY <1>1, <1>2, <1>4, <1>7 DEF IInv, TypeOK, Inbox
  <2>2. QED
    BY <1>1, <2>1 DEF IInv, TypeOK
<1>10. SessionInv'
  <2>1. \A t \in Sessions : t > made => t # s
    <3>1. made \in Nat /\ s \in Nat /\ \A t \in Sessions : t \in Nat
      BY <1>2, ClusterMgrAssumption DEF IInv, TypeOK, Sessions
    <3>2. QED
      BY <1>2, <3>1
  <2>2. QED
    BY <1>1, <1>6, <2>1 DEF IInv, SessionInv
<1>11. LinkInv' /\ SubscribedInv' /\ CleanInv' /\ StaysRegistered'
  BY <1>1 DEF IInv, LinkInv, SubscribedInv, CleanInv, Alone, RegistryHolds, StaysRegistered
<1>12. FreshInv'
  <2>1. ASSUME NEW k \in fresh, link[k] = None \/ (link[k] \in up /\ reg[link[k]] = None)
        PROVE  peers'[k] = NoPeers /\ (link[k] # None => toClient'[link[k]] = <<>>)
    <3>1. peers[k] = NoPeers /\ (link[k] # None => toClient[link[k]] = <<>>)
      BY <2>1 DEF IInv, FreshInv
    <3>2. k # n
      BY <1>1, <3>1 DEF s, q
    <3>3. k \in Nodes /\ (link[k] # None => link[k] \in Sessions)
      BY DEF IInv, TypeOK
    <3>4. QED
      BY <1>5, <1>6, <1>8, <3>1, <3>2, <3>3
  <2>2. QED
    BY <1>1, <2>1 DEF FreshInv
<1>13. KnowsRegistry'
  <2>1. SUFFICES ASSUME NEW k \in Nodes, Registered(k), NEW m \in Wanted(k), svrs[m] # None \/ k \in fresh
                 PROVE  Leads(toClient'[link[k]], k, m, peers'[k][m], svrs[m])
    BY <1>1 DEF KnowsRegistry, Wanted, Registered
  <2>2. Leads(toClient[link[k]], k, m, peers[k][m], svrs[m])
    BY <2>1 DEF IInv, RegistryHolds, KnowsRegistry
  <2>3. m \in Nodes /\ link[k] \in Sessions /\ link[k] # None
    BY <2>1 DEF Wanted, Registered, IInv, TypeOK
  <2>4. CASE k = n
    <3>1. Leads(q, n, m, peers[n][m], svrs[m])
      BY <2>2, <2>4 DEF q, s
    <3>2. Leads(Tail(q), n, m, peers'[n][m], svrs[m])
      BY <1>3, <1>8, <2>3, <3>1
    <3>3. link[k] = s
      BY <2>4 DEF s
    <3>4. QED
      BY <1>6, <2>4, <3>2, <3>3
  <2>5. CASE k # n
    BY <1>5, <1>6, <1>8, <2>2, <2>3, <2>5
  <2>6. QED
    BY <2>4, <2>5
<1>14. QED
  BY <1>9, <1>10, <1>11, <1>12, <1>13 DEF IInv, RegistryHolds

\* A server loses its connection.
LEMMA LostStep ==
  ASSUME IInv, NEW n \in Nodes, LinkLost(n) PROVE IInv'
<1> DEFINE s == link[n]
<1>1. /\ s # None /\ link' = [link EXCEPT ![n] = None]
      /\ toClient' = [toClient EXCEPT ![s] = <<>>] /\ fresh' = fresh \ {n}
      /\ UNCHANGED <<svrs, publish, pubInfo, reg, closed, clean, made, node, up, asked, addr, peers, faults>>
  BY DEF LinkLost, clusterVars
<1>2. s \in Sessions
  BY <1>1 DEF IInv, TypeOK
<1>3. \A k \in Nodes : k # n /\ link[k] # None => link[k] # s /\ link[k] \in Sessions
  BY <1>1 DEF IInv, LinkInv, TypeOK
<1> HIDE DEF s
<1>4. toClient'[s] = <<>> /\ \A t \in Sessions : t # s => toClient'[t] = toClient[t]
  BY <1>1, <1>2 DEF IInv, TypeOK
<1>5. link'[n] = None /\ \A k \in Nodes : k # n => link'[k] = link[k]
  BY <1>1 DEF IInv, TypeOK
<1>6. TypeOK'
  <2>1. toClient' \in [Sessions -> Seq(Msgs)]
    <3>1. <<>> \in Seq(Msgs) /\ toClient \in [Sessions -> Seq(Msgs)]
      BY EmptySeq DEF IInv, TypeOK
    <3>2. QED
      BY <1>1, <3>1
  <2>2. link' \in [Nodes -> Sessions \cup {None}] /\ fresh' \subseteq Nodes
    BY <1>1 DEF IInv, TypeOK
  <2>3. QED
    BY <1>1, <2>1, <2>2 DEF IInv, TypeOK
<1>7. SessionInv'
  BY <1>1, <1>4 DEF IInv, SessionInv
<1>8. LinkInv' /\ SubscribedInv' /\ CleanInv' /\ StaysRegistered'
  BY <1>1, <1>5 DEF IInv, LinkInv, SubscribedInv, CleanInv, Alone, RegistryHolds, StaysRegistered
<1>9. ASSUME NEW k \in Nodes, k # n
      PROVE  link'[k] = link[k] /\ (link[k] # None => toClient'[link[k]] = toClient[link[k]])
  BY <1>3, <1>4, <1>5, <1>9
<1>10. FreshInv'
  <2>1. ASSUME NEW k \in fresh, k # n, link'[k] = None \/ (link'[k] \in up /\ reg[link'[k]] = None)
        PROVE  peers[k] = NoPeers /\ (link'[k] # None => toClient'[link'[k]] = <<>>)
    <3>1. k \in Nodes
      BY DEF IInv, TypeOK
    <3>2. QED
      BY <1>9, <2>1, <3>1 DEF IInv, FreshInv
  <2>2. QED
    BY <1>1, <2>1 DEF FreshInv
<1>11. KnowsRegistry'
  <2>1. ASSUME NEW k \in Nodes, Registered(k)' PROVE Registered(k) /\ k # n
    <3>1. k # n
      BY <1>5, <2>1 DEF Registered
    <3>2. QED
      BY <1>1, <1>9, <2>1, <3>1 DEF Registered
  <2>2. ASSUME NEW k \in Nodes, Registered(k), k # n, NEW m \in Wanted(k), svrs[m] # None \/ k \in fresh'
        PROVE  Leads(toClient'[link'[k]], k, m, peers[k][m], svrs[m])
    <3>1. Leads(toClient[link[k]], k, m, peers[k][m], svrs[m])
      BY <1>1, <2>2 DEF IInv, RegistryHolds, KnowsRegistry
    <3>2. QED
      BY <1>9, <2>2, <3>1 DEF Registered
  <2>3. QED
    BY <1>1, <2>1, <2>2 DEF KnowsRegistry, Wanted
<1>12. QED
  BY <1>6, <1>7, <1>8, <1>10, <1>11 DEF IInv, RegistryHolds

\* A server restarts.
LEMMA RestartStep ==
  ASSUME IInv, NEW n \in Nodes, Restart(n) PROVE IInv'
<1> DEFINE s == link[n]
<1>1. /\ faults < MaxFaults /\ faults' = faults + 1
      /\ \E a \in Addrs : addr' = [addr EXCEPT ![n] = a]
      /\ link' = [link EXCEPT ![n] = None] /\ peers' = [peers EXCEPT ![n] = NoPeers]
      /\ fresh' = fresh \cup {n} /\ up' = up \ {s}
      /\ toClient' = [t \in Sessions |-> IF t = s THEN <<>> ELSE toClient[t]]
      /\ UNCHANGED <<svrs, publish, pubInfo, reg, closed, clean, made, node, asked>>
  BY DEF Restart, clusterVars
<1>2. \A k \in Nodes : k # n /\ link[k] # None => link[k] # s /\ link[k] \in Sessions
  BY DEF IInv, LinkInv, TypeOK
<1> HIDE DEF s
<1>3. \A t \in Sessions : toClient'[t] = <<>> \/ (t # s /\ toClient'[t] = toClient[t])
  BY <1>1
<1>4. /\ link'[n] = None /\ peers'[n] = NoPeers
      /\ \A k \in Nodes : k # n => link'[k] = link[k] /\ peers'[k] = peers[k]
  BY <1>1 DEF IInv, TypeOK
<1>5. TypeOK'
  <2>1. toClient' \in [Sessions -> Seq(Msgs)]
    BY <1>1 DEF IInv, TypeOK
  <2>2. link' \in [Nodes -> Sessions \cup {None}] /\ fresh' \subseteq Nodes
    BY <1>1 DEF IInv, TypeOK
  <2>3. peers' \in [Nodes -> Table]
    BY <1>1 DEF IInv, TypeOK, NoPeers, Table
  <2>4. addr' \in [Nodes -> Addrs]
    BY <1>1 DEF IInv, TypeOK
  <2>5. faults' \in 0..MaxFaults
    BY <1>1, ClusterMgrAssumption DEF IInv, TypeOK
  <2>6. up' \subseteq 1..made
    BY <1>1 DEF IInv, TypeOK
  <2>7. QED
    BY <1>1, <2>1, <2>2, <2>3, <2>4, <2>5, <2>6 DEF IInv, TypeOK
<1>6. SessionInv'
  BY <1>1, <1>3 DEF IInv, SessionInv
<1>7. LinkInv' /\ SubscribedInv' /\ CleanInv' /\ StaysRegistered'
  BY <1>1, <1>4 DEF IInv, LinkInv, SubscribedInv, CleanInv, Alone, RegistryHolds, StaysRegistered
<1>8. ASSUME NEW k \in Nodes, k # n
      PROVE  link'[k] = link[k] /\ peers'[k] = peers[k]
             /\ (link[k] # None => toClient'[link[k]] = toClient[link[k]])
  BY <1>1, <1>2, <1>4, <1>8
<1>9. FreshInv'
  <2>1. ASSUME NEW k \in fresh, k # n, link'[k] = None \/ (link'[k] \in up' /\ reg[link'[k]] = None)
        PROVE  peers'[k] = NoPeers /\ (link'[k] # None => toClient'[link'[k]] = <<>>)
    <3>1. k \in Nodes
      BY DEF IInv, TypeOK
    <3>2. QED
      BY <1>1, <1>8, <2>1, <3>1 DEF IInv, FreshInv
  <2>2. QED
    BY <1>1, <1>4, <2>1 DEF FreshInv
<1>10. KnowsRegistry'
  <2>1. ASSUME NEW k \in Nodes, Registered(k)' PROVE Registered(k) /\ k # n
    <3>1. k # n
      BY <1>4, <2>1 DEF Registered
    <3>2. QED
      BY <1>1, <1>8, <2>1, <3>1 DEF Registered
  <2>2. ASSUME NEW k \in Nodes, Registered(k), k # n, NEW m \in Wanted(k), svrs[m] # None \/ k \in fresh'
        PROVE  Leads(toClient'[link'[k]], k, m, peers'[k][m], svrs[m])
    <3>1. Leads(toClient[link[k]], k, m, peers[k][m], svrs[m])
      BY <1>1, <2>2 DEF IInv, RegistryHolds, KnowsRegistry
    <3>2. QED
      BY <1>8, <2>2, <3>1 DEF Registered
  <2>3. QED
    BY <1>1, <2>1, <2>2 DEF KnowsRegistry, Wanted
<1>11. QED
  BY <1>5, <1>6, <1>7, <1>9, <1>10 DEF IInv, RegistryHolds

(* ------------------------------ The theorems --------------------------- *)

\* The invariant holds of every behaviour.
LEMMA InductiveInvariant == Spec => []IInv
<1>1. Init => IInv
  BY InitStep
<1>2. IInv /\ [Next]_vars => IInv'
  <2> SUFFICES ASSUME IInv, [Next]_vars PROVE IInv'
    OBVIOUS
  <2>1. CASE ClusterRestart
    BY <2>1, FaultStep
  <2>2. ASSUME NEW s \in Sessions, RecvRegister(s) PROVE IInv'
    BY <2>2, RegisterStep
  <2>3. ASSUME NEW s \in Sessions, OnClose(s) PROVE IInv'
    BY <2>3, CloseStep
  <2>4. ASSUME NEW s \in Sessions, Break(s) PROVE IInv'
    BY <2>4, FaultStep
  <2>5. ASSUME NEW n \in Nodes, Connect(n) PROVE IInv'
    BY <2>5, ConnectStep
  <2>6. ASSUME NEW n \in Nodes, RecvMsg(n) PROVE IInv'
    BY <2>6, MessageStep
  <2>7. ASSUME NEW n \in Nodes, LinkLost(n) PROVE IInv'
    BY <2>7, LostStep
  <2>8. ASSUME NEW n \in Nodes, Restart(n) PROVE IInv'
    BY <2>8, RestartStep
  <2>9. CASE UNCHANGED vars
    BY <2>9 DEF vars, clusterVars, netVars, nodeVars, IInv, TypeOK, SessionInv, LinkInv, SubscribedInv, FreshInv,
       CleanInv, Alone, RegistryHolds, StaysRegistered, KnowsRegistry, Registered, Wanted
  <2>10. QED
    BY <2>1, <2>2, <2>3, <2>4, <2>5, <2>6, <2>7, <2>8, <2>9 DEF Next
<1>3. QED
  BY <1>1, <1>2, PTL DEF Spec

\* Every variable keeps its type, and a server has a recorded subscription
\* exactly as long as it is registered (svrs_mgr/mgr.go:57-194).
THEOREM TypeCorrect == Spec => []TypeOK
<1>1. IInv => TypeOK
  BY DEF IInv
<1>2. QED
  BY <1>1, InductiveInvariant, PTL

\* A server that lives is in the registry, and a server that is registered has
\* been told or is about to be told the address of every registered server it
\* asked for, whatever connections break and whoever restarts
\* (svrs_mgr/mgr.go:57-194, tcp_cluster.go:44-98).
THEOREM ServersFindEachOther == Spec => []RegistryHolds
<1>1. IInv => RegistryHolds
  BY DEF IInv
<1>2. QED
  BY <1>1, InductiveInvariant, PTL

(* ------------------- TcpServer: the inductive invariant ---------------- *)

\* The places of a connection's goroutine while its session is stored, and
\* once it has posted to the main loop.
Stored == {"accept", "receive", "recv", "close", "defer", "delete"}
Posted == {"receive", "recv", "close", "defer", "delete", "gone"}

\* A session is in the set while its goroutine says so; what the main loop
\* knows of was stored before; a goroutine that has left has closed.
ConnInv ==
  \A c \in Conns :
    /\ pc[c] = "none" => conn[c] = "none"
    /\ c \in sessions <=> pc[c] \in Stored
    /\ pc[c] \in {"delete", "gone"} => conn[c] = "closed"
    /\ logic[c] = "open" => pc[c] \in Posted
    /\ \A x \in Elems(chanCall) : x.c = c => pc[c] \in Posted

\* Stop begins when the main loop has ended, and walks over every session that
\* the main loop knows of.
StopInv ==
  /\ main \in {"listener", "range", "walk", "stopped"} => pool = "done"
  /\ main = "walk" => \A c \in Conns : logic[c] = "open" => conn[c] = "closed" \/ c \in walk

SrvInv == TcpTypeOK /\ ConnInv /\ StopInv /\ StopCloses

Calls == [type : {"accept", "recv", "close"}, c : Conns]

\* The invariant holds before the first connection.
LEMMA SrvInit == TcpInit => SrvInv
<1> SUFFICES ASSUME TcpInit PROVE SrvInv
  OBVIOUS
<1>1. TcpTypeOK
  BY TcpServerAssumption DEF TcpInit, TcpTypeOK
<1>2. ConnInv
  BY ElemsEmpty DEF TcpInit, ConnInv, Stored
<1>3. StopInv /\ StopCloses
  BY DEF TcpInit, StopInv, StopCloses
<1>4. QED
  BY <1>1, <1>2, <1>3 DEF SrvInv

\* What Go puts into ChanCall.
LEMMA GoPosts ==
  ASSUME TcpTypeOK, NEW c \in Conns, NEW type \in {"accept", "recv", "close"}, Go(type, c)
  PROVE  /\ chanCall' \in Seq(Calls) /\ Len(chanCall') <= CallCap
         /\ \A x \in Elems(chanCall') : x \in Elems(chanCall) \/ x.c = c
<1> DEFINE m == [type |-> type, c |-> c]
<1>1. m \in Calls /\ chanCall \in Seq(Calls) /\ m.c = c
  BY DEF TcpTypeOK, Calls
<1> HIDE DEF m
<1>2. /\ Append(chanCall, m) \in Seq(Calls) /\ Len(Append(chanCall, m)) = Len(chanCall) + 1
      /\ Elems(Append(chanCall, m)) = Elems(chanCall) \cup {m}
  BY <1>1, AppendProperties, ElemsAppend
<1>3. Len(chanCall) \in Nat /\ CallCap \in Nat
  BY <1>1, LenProperties, TcpServerAssumption
<1>4. chanCall' = (IF callOpen THEN Append(chanCall, m) ELSE chanCall) /\ (callOpen => Len(chanCall) < CallCap)
  BY DEF Go, m
<1>5. CASE callOpen
  BY <1>1, <1>2, <1>3, <1>4, <1>5
<1>6. CASE ~callOpen
  BY <1>1, <1>4, <1>6 DEF TcpTypeOK
<1>7. QED
  BY <1>5, <1>6

\* What the main loop takes from it.
LEMMA PopTakes ==
  ASSUME TcpTypeOK, NEW type, Pop(type)
  PROVE  /\ chanCall' \in Seq(Calls) /\ Len(chanCall') <= CallCap
         /\ Head(chanCall) \in Elems(chanCall) /\ Head(chanCall).c \in Conns
         /\ Elems(chanCall') \subseteq Elems(chanCall)
<1>1. chanCall \in Seq(Calls) /\ chanCall # <<>> /\ chanCall' = Tail(chanCall) /\ Len(chanCall) <= CallCap
  BY DEF TcpTypeOK, Calls, Pop
<1>2. Elems(chanCall) = Elems(Tail(chanCall)) \cup {Head(chanCall)}
  BY <1>1, ElemsTail
<1>3. /\ Tail(chanCall) \in Seq(Calls) /\ Len(Tail(chanCall)) = Len(chanCall) - 1 /\ Head(chanCall) \in Calls
      /\ Len(chanCall) \in Nat /\ CallCap \in Nat
  BY <1>1, HeadTailProperties, LenProperties, TcpServerAssumption
<1>4. Len(Tail(chanCall)) <= CallCap
  BY <1>1, <1>3
<1>5. QED
  BY <1>1, <1>2, <1>3, <1>4 DEF Calls

\* A step of a connection's goroutine that posts nothing, of its client, or of
\* the main loop that closes it.
LEMMA ConnStep ==
  ASSUME SrvInv, NEW c \in Conns,
         \/ Accept(c) \/ Upgrade(c) \/ Store(c) \/ Receive(c) \/ ReceiveBad(c) \/ ReceiveEnd(c)
         \/ DeferClose(c) \/ Delete(c) \/ ConnectionLost(c) \/ Kick(c)
  PROVE  SrvInv'
<1> USE DEF procVars, callVars, connVars, Goto, CloseSession
<1>1. CASE Accept(c)
  BY <1>1 DEF Accept, SrvInv, TcpTypeOK, ConnInv, StopInv, StopCloses, Stored, Posted
<1>2. CASE Upgrade(c)
  BY <1>2 DEF Upgrade, SrvInv, TcpTypeOK, ConnInv, StopInv, StopCloses, Stored, Posted
<1>3. CASE Store(c)
  BY <1>3 DEF Store, SrvInv, TcpTypeOK, ConnInv, StopInv, StopCloses, Stored, Posted
<1>4. CASE Receive(c)
  BY <1>4 DEF Receive, SrvInv, TcpTypeOK, ConnInv, StopInv, StopCloses, Stored, Posted
<1>5. CASE ReceiveBad(c)
  BY <1>5 DEF ReceiveBad, SrvInv, TcpTypeOK, ConnInv, StopInv, StopCloses, Stored, Posted
<1>6. CASE ReceiveEnd(c)
  BY <1>6 DEF ReceiveEnd, SrvInv, TcpTypeOK, ConnInv, StopInv, StopCloses, Stored, Posted
<1>7. CASE DeferClose(c)
  BY <1>7 DEF DeferClose, SrvInv, TcpTypeOK, ConnInv, StopInv, StopCloses, Stored, Posted
<1>8. CASE Delete(c)
  BY <1>8 DEF Delete, SrvInv, TcpTypeOK, ConnInv, StopInv, StopCloses, Stored, Posted
<1>9. CASE ConnectionLost(c)
  BY <1>9 DEF ConnectionLost, SrvInv, TcpTypeOK, ConnInv, StopInv, StopCloses, Stored, Posted
<1>10. CASE Kick(c)
  BY <1>10 DEF Kick, SrvInv, TcpTypeOK, ConnInv, StopInv, StopCloses, Stored, Posted
<1>11. QED
  BY <1>1, <1>2, <1>3, <1>4, <1>5, <1>6, <1>7, <1>8, <1>9, <1>10

\* A step that posts to the main loop.
LEMMA PostStep ==
  ASSUME SrvInv, NEW c \in Conns, PostAccept(c) \/ PostRecv(c) \/ PostClose(c) PROVE SrvInv'
<1>1. /\ \E type \in {"accept", "recv", "close"} : Go(type, c)
      /\ pc[c] \in Stored \ {"defer", "delete"}
      /\ \E l \in Posted \ {"delete", "gone", "none"} : l \in Stored /\ pc' = [pc EXCEPT ![c] = l]
      /\ UNCHANGED <<kind, process, main, pool, listener, callOpen, conn, received, sessions, walk, logic>>
  BY DEF PostAccept, PostRecv, PostClose, Goto, procVars, Stored, Posted
<1>2. /\ chanCall' \in Seq(Calls) /\ Len(chanCall') <= CallCap
      /\ \A x \in Elems(chanCall') : x \in Elems(chanCall) \/ x.c = c
  BY <1>1, GoPosts DEF SrvInv
<1>3. TcpTypeOK'
  BY <1>1, <1>2 DEF SrvInv, TcpTypeOK, Calls, Posted
<1>4. ConnInv'
  BY <1>1, <1>2 DEF SrvInv, TcpTypeOK, ConnInv, Stored, Posted
<1>5. StopInv' /\ StopCloses'
  BY <1>1 DEF SrvInv, StopInv, StopCloses
<1>6. QED
  BY <1>3, <1>4, <1>5 DEF SrvInv

\* The main loop handles a call.
LEMMA MainLoopStep ==
  ASSUME SrvInv, MainLoop PROVE SrvInv'
<1> DEFINE c == Head(chanCall).c
<1>1. /\ \E type : Pop(type)
      /\ pool = "select"
      /\ \/ logic' = logic
         \/ \E l \in {"open", "closed"} : logic' = [logic EXCEPT ![c] = l]
      /\ UNCHANGED <<kind, process, main, pool, listener, callOpen, pc, conn, received, sessions, walk>>
  BY DEF MainLoop, OnTcpAccept, OnTcpRecv, OnTcpClose, Pop, procVars, connVars
<1>2. /\ chanCall' \in Seq(Calls) /\ Len(chanCall') <= CallCap
      /\ Head(chanCall) \in Elems(chanCall) /\ c \in Conns
      /\ Elems(chanCall') \subseteq Elems(chanCall)
  BY <1>1, PopTakes DEF SrvInv
<1>3. pc[c] \in Posted
  BY <1>2 DEF SrvInv, ConnInv
<1> HIDE DEF c
<1>4. TcpTypeOK'
  BY <1>1, <1>2 DEF SrvInv, TcpTypeOK, Calls
<1>5. ConnInv'
  BY <1>1, <1>2, <1>3 DEF SrvInv, TcpTypeOK, ConnInv
<1>6. StopInv' /\ StopCloses'
  BY <1>1 DEF SrvInv, StopInv, StopCloses
<1>7. QED
  BY <1>4, <1>5, <1>6 DEF SrvInv

\* A step of RunMutli and Close, of the main loop's start and end, or the
\* crash of a websocket server.
LEMMA ServiceStep ==
  ASSUME SrvInv, Service \/ Start \/ Signal \/ WsServeFails PROVE SrvInv'
<1> USE DEF procVars, callVars, connVars, CloseSession
<1>1. CASE StartPool
  BY <1>1 DEF StartPool, SrvInv, TcpTypeOK, ConnInv, StopInv, StopCloses
<1>2. CASE CloseSig
  BY <1>2 DEF CloseSig, SrvInv, TcpTypeOK, ConnInv, StopInv, StopCloses
<1>3. CASE PoolEnds
  <2>1. TcpTypeOK'
    <3>1. /\ chanCall' = <<>> /\ callOpen' = FALSE /\ pool' = "end"
          /\ UNCHANGED <<kind, process, main, listener, pc, conn, sessions, walk, logic>>
      BY <1>3 DEF PoolEnds
    <3>2. Len(<<>>) <= CallCap
      BY TcpServerAssumption
    <3>3. Len(chanCall') <= CallCap /\ chanCall' \in Seq([type : {"accept", "recv", "close"}, c : Conns])
      BY <3>1, <3>2
    <3>4. QED
      BY <3>1, <3>3 DEF SrvInv, TcpTypeOK
  <2>2. ConnInv'
    BY <1>3, ElemsEmpty DEF PoolEnds, SrvInv, ConnInv
  <2>3. StopInv' /\ StopCloses'
    BY <1>3 DEF PoolEnds, SrvInv, StopInv, StopCloses
  <2>4. QED
    BY <2>1, <2>2, <2>3 DEF SrvInv
<1>4. CASE CloseEnd
  BY <1>4 DEF CloseEnd, SrvInv, TcpTypeOK, ConnInv, StopInv, StopCloses
<1>5. CASE StopListener
  BY <1>5 DEF StopListener, SrvInv, TcpTypeOK, ConnInv, StopInv, StopCloses
<1>6. CASE StopRange
  <2>1. \A c \in Conns : logic[c] = "open" => conn[c] = "closed" \/ c \in sessions
    BY DEF SrvInv, ConnInv, Stored, Posted
  <2>2. QED
    BY <1>6, <2>1 DEF StopRange, SrvInv, TcpTypeOK, ConnInv, StopInv, StopCloses
<1>7. CASE StopReturns
  BY <1>7 DEF StopReturns, SrvInv, TcpTypeOK, ConnInv, StopInv, StopCloses
<1>8. CASE Exit
  BY <1>8 DEF Exit, SrvInv, TcpTypeOK, ConnInv, StopInv, StopCloses
<1>9. ASSUME NEW c \in Conns, StopVisit(c) PROVE SrvInv'
  BY <1>9 DEF StopVisit, SrvInv, TcpTypeOK, ConnInv, StopInv, StopCloses, Stored, Posted
<1>10. CASE Start
  BY <1>10 DEF Start, CreateServer, SrvInv, TcpTypeOK, ConnInv, StopInv, StopCloses
<1>11. CASE Signal
  BY <1>11 DEF Signal, SrvInv, TcpTypeOK, ConnInv, StopInv, StopCloses
<1>12. CASE WsServeFails
  BY <1>12 DEF WsServeFails, SrvInv, TcpTypeOK, ConnInv, StopInv, StopCloses
<1>13. QED
  BY <1>1, <1>2, <1>3, <1>4, <1>5, <1>6, <1>7, <1>8, <1>9, <1>10, <1>11, <1>12 DEF Service

\* The invariant is inductive.
LEMMA SrvInvariant == TcpSpec => []SrvInv
<1>1. SrvInv /\ [TcpNext]_tcpVars => SrvInv'
  <2> SUFFICES ASSUME SrvInv, [TcpNext]_tcpVars PROVE SrvInv'
    OBVIOUS
  <2>1. CASE MainLoop \/ Service \/ Start \/ Signal \/ WsServeFails
    BY <2>1, MainLoopStep, ServiceStep
  <2>2. ASSUME NEW c \in Conns,
               Handler(c) \/ Accept(c) \/ Receive(c) \/ ReceiveBad(c) \/ ConnectionLost(c) \/ Kick(c)
        PROVE  SrvInv'
    BY <2>2, ConnStep, PostStep DEF Handler
  <2>3. CASE UNCHANGED tcpVars
    BY <2>3 DEF tcpVars, procVars, callVars, connVars, SrvInv, TcpTypeOK, ConnInv, StopInv, StopCloses
  <2>4. QED
    BY <2>1, <2>2, <2>3 DEF TcpNext
<1>2. QED
  BY <1>1, SrvInit, PTL DEF TcpSpec

\* The variables of a server process keep their types, and ChanCall never
\* holds more than its capacity (chanrpc.go:199-209, server.go:81-96).
THEOREM TcpTypeCorrect == TcpSpec => []TcpTypeOK
<1>1. SrvInv => TcpTypeOK
  BY DEF SrvInv
<1>2. QED
  BY <1>1, SrvInvariant, PTL

\* Stop leaves no connection open that the main loop was told of, for any
\* number of connections that come and go while it walks over the sessions
\* (server.go:64-96, service.go:107-116).
THEOREM StopClosesConnections == TcpSpec => []StopCloses
<1>1. SrvInv => StopCloses
  BY DEF SrvInv
<1>2. QED
  BY <1>1, SrvInvariant, PTL
================================================================================
