---------------------------- MODULE GateLoginProof ----------------------------
(***************************************************************************)
(* What holds of GateLogin.tla for every set of client connections and     *)
(* accounts, any number of tries and of broken connections; and of         *)
(* Selector.tla, by which the servers choose where to send, for any nodes, *)
(* any hash values of their spots and any keys.                            *)
(***************************************************************************)
EXTENDS GateLogin, Selector, SeqLemmas

(* ------------------------ The inductive invariant ---------------------- *)

\* What travels on which connection.
FlowInv ==
  /\ \A m \in Elems(toSvr["login"]) : m.type = "login"
  /\ \A m \in Elems(toGate["login"]) :
       m.type \in {"ok", "fail"} /\ (m.type = "ok" => m.u \in Uids)
  /\ \A m \in Elems(toSvr["gs"]) : m.type \in {"online", "offline"} /\ m.u \in Uids
  /\ \A m \in Elems(toGate["gs"]) : m.type \in {"game", "refused", "push"} /\ m.u \in Uids

\* A player has an account; nothing arrives on a connection that is gone; a
\* connection that never broke works.
PlayerInv ==
  /\ \A s \in Sessions : where[s] = "player" => uid[s] \in Uids
  /\ \A v \in Svrs : link[v] = "down" => toGate[v] = <<>>
  /\ breaks = 0 => \A v \in Svrs : link[v] = "up"

\* An account that is online for the game server has a player, or a message
\* on its way that makes it one or puts it offline.
OnlineInv ==
  breaks = 0 =>
    \A u \in online \ untold :
      \/ \E s \in Sessions : where[s] = "player" /\ uid[s] = u
      \/ \E m \in Elems(toGate["gs"]) : m.type = "game" /\ m.u = u
      \/ \E m \in Elems(toSvr["gs"]) : m.type = "offline" /\ m.u = u

IInv == TypeOK /\ FlowInv /\ PlayerInv /\ OneLogin /\ NoDeadPlayer /\ OnlineInv

(* --------------------- Messages between the servers -------------------- *)

Flows == [Svrs -> Seq(Flow)]
Put(f, v, m) == [f EXCEPT ![v] = Append(@, m)]
Take(f, v) == [f EXCEPT ![v] = Tail(@)]
At(w, v, x) == IF w = v THEN x ELSE 0

\* From f to g, the queue of v gained the message m, or nothing changed.
Gained(f, g, v, m) ==
  /\ g \in Flows
  /\ \A w \in Svrs : /\ Elems(f[w]) \subseteq Elems(g[w])
                     /\ \A x \in Elems(g[w]) : x \in Elems(f[w]) \/ (w = v /\ x = m)
  /\ \A w \in Svrs : \A S : Count(g[w], S) <= Count(f[w], S) + At(w, v, In(m, S))

\* From f to g, the message m was taken from the queue of v.
Taken(f, g, v, m) ==
  /\ g \in Flows /\ m \in Flow /\ m \in Elems(f[v])
  /\ \A w \in Svrs : /\ Elems(g[w]) \subseteq Elems(f[w])
                     /\ \A x \in Elems(f[w]) : x \in Elems(g[w]) \/ (w = v /\ x = m)
  /\ \A w \in Svrs : \A S : Count(g[w], S) + At(w, v, In(m, S)) <= Count(f[w], S)

\* From f to g, messages were lost.
Lost(f, g) ==
  /\ g \in Flows
  /\ \A w \in Svrs : Elems(g[w]) \subseteq Elems(f[w])
  /\ \A w \in Svrs : \A S : Count(g[w], S) <= Count(f[w], S)

\* Counts of messages are numbers.
LEMMA CountFlow ==
  ASSUME NEW f \in Flows, NEW w \in Svrs, NEW S
  PROVE  Count(f[w], S) \in Nat
BY CountType DEF Flows

\* A message is put in one queue, or lost on its way.
LEMMA PutGains ==
  ASSUME NEW f \in Flows, NEW v \in Svrs, NEW m \in Flow
  PROVE  /\ Gained(f, Put(f, v, m), v, m) /\ m \in Elems(Put(f, v, m)[v])
         /\ Gained(f, f, v, m)
<1> DEFINE g == Put(f, v, m)
<1>1. f[v] \in Seq(Flow) /\ Append(f[v], m) \in Seq(Flow)
  BY AppendProperties DEF Flows
<1>2. g \in Flows
  BY <1>1 DEF Flows, Put
<1>3. ASSUME NEW w \in Svrs
      PROVE  g[w] = IF w = v THEN Append(f[w], m) ELSE f[w]
  BY DEF Flows, Put
<1> HIDE DEF g
<1>4. ASSUME NEW w \in Svrs, NEW S
      PROVE  /\ Count(g[w], S) <= Count(f[w], S) + At(w, v, In(m, S))
             /\ Count(f[w], S) <= Count(f[w], S) + At(w, v, In(m, S))
  <2>1. Count(g[w], S) \in Nat /\ Count(f[w], S) \in Nat
    BY <1>2, CountFlow
  <2>2. CASE w = v
    <3>1. /\ Count(g[w], S) = Count(f[w], S) + In(m, S)
          /\ In(m, S) \in {0, 1}
      BY <1>1, <1>3, <2>2, CountAppend DEF In
    <3>2. At(w, v, In(m, S)) = In(m, S)
      BY <2>2 DEF At
    <3>3. QED
      BY <2>1, <3>1, <3>2
  <2>3. CASE w # v
    BY <1>3, <2>1, <2>3 DEF At
  <2>4. QED
    BY <2>2, <2>3
<1>5. Elems(g[v]) = Elems(f[v]) \cup {m}
  BY <1>1, <1>3, ElemsAppend
<1>6. ASSUME NEW w \in Svrs, w # v PROVE Elems(g[w]) = Elems(f[w])
  BY <1>3, <1>6
<1>7. QED
  BY <1>2, <1>4, <1>5, <1>6 DEF g, Gained

\* The first message of a queue is taken from it.
LEMMA TakeTakes ==
  ASSUME NEW f \in Flows, NEW v \in Svrs, f[v] # <<>>
  PROVE  Taken(f, Take(f, v), v, Head(f[v]))
<1> DEFINE g == Take(f, v)
           m == Head(f[v])
<1>1. f[v] \in Seq(Flow) /\ Tail(f[v]) \in Seq(Flow) /\ m \in Flow
  BY HeadTailProperties DEF Flows
<1>2. g \in Flows
  BY <1>1 DEF Flows, Take
<1>3. ASSUME NEW w \in Svrs
      PROVE  g[w] = IF w = v THEN Tail(f[w]) ELSE f[w]
  BY DEF Flows, Take
<1>4. Elems(f[v]) = Elems(Tail(f[v])) \cup {m}
  BY <1>1, ElemsTail
<1> HIDE DEF g
<1>5. ASSUME NEW w \in Svrs, NEW S
      PROVE  Count(g[w], S) + At(w, v, In(m, S)) <= Count(f[w], S)
  <2>1. Count(g[w], S) \in Nat /\ Count(f[w], S) \in Nat
    BY <1>2, CountFlow
  <2>2. CASE w = v
    <3>1. /\ Count(g[w], S) = Count(f[w], S) - In(m, S)
          /\ In(m, S) \in {0, 1}
      BY <1>1, <1>3, <2>2, CountTail DEF In
    <3>2. At(w, v, In(m, S)) = In(m, S)
      BY <2>2 DEF At
    <3>3. QED
      BY <2>1, <3>1, <3>2
  <2>3. CASE w # v
    BY <1>3, <2>1, <2>3 DEF At
  <2>4. QED
    BY <2>2, <2>3
<1> HIDE DEF m
<1>6. Elems(f[v]) = Elems(g[v]) \cup {m}
  BY <1>3, <1>4
<1>7. ASSUME NEW w \in Svrs, w # v PROVE Elems(g[w]) = Elems(f[w])
  BY <1>3, <1>7
<1>8. Taken(f, g, v, m)
  BY <1>1, <1>2, <1>5, <1>6, <1>7 DEF Taken
<1>9. QED
  BY <1>8 DEF g, m

\* Only an initial part of a queue is left, or nothing.
LEMMA CutLoses ==
  ASSUME NEW f \in Flows, NEW v \in Svrs
  PROVE  /\ \A k \in 0..Len(f[v]) : Lost(f, [f EXCEPT ![v] = SubSeq(@, 1, k)])
         /\ Lost(f, [f EXCEPT ![v] = <<>>])
<1>1. f[v] \in Seq(Flow)
  BY DEF Flows
<1>2. ASSUME NEW q \in Seq(Flow), Elems(q) \subseteq Elems(f[v]),
             \A S : Count(q, S) <= Count(f[v], S)
      PROVE  Lost(f, [f EXCEPT ![v] = q])
  <2> DEFINE g == [f EXCEPT ![v] = q]
  <2>1. g \in Flows
    BY DEF Flows
  <2>2. ASSUME NEW w \in Svrs PROVE g[w] = IF w = v THEN q ELSE f[w]
    BY DEF Flows
  <2> HIDE DEF g
  <2>3. ASSUME NEW w \in Svrs, NEW S PROVE Count(g[w], S) <= Count(f[w], S)
    <3>1. Count(f[w], S) \in Nat
      BY CountFlow
    <3>2. QED
      BY <1>2, <2>2, <3>1
  <2>4. ASSUME NEW w \in Svrs PROVE Elems(g[w]) \subseteq Elems(f[w])
    BY <1>2, <2>2
  <2>5. Lost(f, g)
    BY <2>1, <2>3, <2>4 DEF Lost
  <2>6. QED
    BY <2>5 DEF g
<1>3. ASSUME NEW k \in 0..Len(f[v]) PROVE Lost(f, [f EXCEPT ![v] = SubSeq(@, 1, k)])
  <2>1. /\ SubSeq(f[v], 1, k) \in Seq(Flow)
        /\ Elems(SubSeq(f[v], 1, k)) \subseteq Elems(f[v])
        /\ \A S : Count(SubSeq(f[v], 1, k), S) <= Count(f[v], S)
    BY <1>1, CutQueue
  <2>2. Lost(f, [f EXCEPT ![v] = SubSeq(f[v], 1, k)])
    BY <1>2, <2>1
  <2>3. QED
    BY <2>2
<1>4. Lost(f, [f EXCEPT ![v] = <<>>])
  <2>1. <<>> \in Seq(Flow) /\ Elems(<<>>) \subseteq Elems(f[v])
    BY EmptySeq, ElemsEmpty
  <2>2. ASSUME NEW S PROVE Count(<<>>, S) <= Count(f[v], S)
    BY CountFlow, CountEmpty
  <2>3. QED
    BY <1>2, <2>1, <2>2
<1>5. QED
  BY <1>3, <1>4

\* Which messages are logins of a session.
LEMMA InLogins ==
  ASSUME NEW m \in Flow, NEW t \in Sessions, NEW T
  PROVE  In(m, LoginsOf(t, T)) = IF m.s = t /\ m.type \in T THEN 1 ELSE 0
BY DEF In, LoginsOf, Flow

\* Messages of the gate and of the servers are messages.
LEMMA NoticeType ==
  ASSUME NEW s \in Sessions, NEW u \in Uids \cup {None},
         NEW type \in {"login", "ok", "fail", "online", "offline", "game", "refused", "push"}
  PROVE  /\ Notice(type, s, u) \in Flow
         /\ Notice(type, s, u).type = type /\ Notice(type, s, u).s = s
         /\ Notice(type, s, u).u = u
BY DEF Notice, Flow

(* ------------------- What the handlers do to the queues ---------------- *)

\* Session.Send to a server: the message arrives or is lost.
LEMMA Sent ==
  ASSUME toSvr \in Flows, NEW v \in Svrs, NEW m \in Flow, SendTo(v, m)
  PROVE  /\ Gained(toSvr, toSvr', v, m)
         /\ link[v] = "up" => m \in Elems(toSvr'[v])
<1>1. CASE link[v] = "up"
  <2>1. toSvr' = Put(toSvr, v, m)
    BY <1>1 DEF SendTo, Put
  <2>2. QED
    BY <2>1, PutGains
<1>2. CASE link[v] # "up"
  <2>1. toSvr' = toSvr
    BY <1>2 DEF SendTo
  <2>2. QED
    BY <1>2, <2>1, PutGains
<1>3. QED
  BY <1>1, <1>2

\* The answer of a server.
LEMMA Answered ==
  ASSUME toGate \in Flows, NEW v \in Svrs, NEW m \in Flow, Answer(v, <<m>>)
  PROVE  Gained(toGate, toGate', v, m)
<1>1. CASE link[v] = "up"
  <2>1. toGate[v] \in Seq(Flow)
    BY DEF Flows
  <2>2. toGate[v] \o <<m>> = Append(toGate[v], m)
    BY <2>1, AppendIsConcat
  <2>3. toGate' = Put(toGate, v, m)
    BY <1>1, <2>2 DEF Answer, Put
  <2>4. QED
    BY <2>3, PutGains
<1>2. CASE link[v] # "up"
  <2>1. toGate' = toGate
    BY <1>2 DEF Answer
  <2>2. QED
    BY <2>1, PutGains
<1>3. QED
  BY <1>1, <1>2

\* The two messages of the game server, when a player comes online.
LEMMA AnsweredTwice ==
  ASSUME toGate \in Flows, NEW v \in Svrs, NEW a \in Flow, NEW b \in Flow,
         Answer(v, <<a, b>>)
  PROVE  \E h \in Flows : /\ Gained(toGate, h, v, a) /\ Gained(h, toGate', v, b)
                          /\ link[v] = "up" => a \in Elems(toGate'[v])
<1>1. CASE link[v] = "up"
  <2> DEFINE h == Put(toGate, v, a)
  <2>1. toGate[v] \in Seq(Flow)
    BY DEF Flows
  <2>2. toGate[v] \o <<a, b>> = Append(Append(toGate[v], a), b)
    BY <2>1, AppendTwo
  <2>3. toGate' = [toGate EXCEPT ![v] = Append(Append(toGate[v], a), b)]
    BY <1>1, <2>2 DEF Answer
  <2>4. Put(h, v, b) = [toGate EXCEPT ![v] = Append(Append(toGate[v], a), b)]
    BY DEF Put, Flows
  <2>5. Gained(toGate, h, v, a) /\ a \in Elems(h[v])
    BY PutGains
  <2> HIDE DEF h
  <2>6. h \in Flows
    BY <2>5 DEF Gained
  <2>7. Gained(h, Put(h, v, b), v, b)
    BY <2>6, PutGains
  <2>8. Gained(h, toGate', v, b)
    BY <2>3, <2>4, <2>7
  <2>9. a \in Elems(toGate'[v])
    BY <2>5, <2>8 DEF Gained
  <2>10. QED
    BY <2>5, <2>6, <2>8, <2>9
<1>2. CASE link[v] # "up"
  <2>1. toGate' = toGate
    BY <1>2 DEF Answer
  <2>2. QED
    BY <1>2, <2>1, PutGains
<1>3. QED
  BY <1>1, <1>2

\* The gate takes a message of a server.
LEMMA Popped ==
  ASSUME toGate \in Flows, NEW v \in Svrs, NEW type, Pop(v, type)
  PROVE  /\ Taken(toGate, toGate', v, Head(toGate[v]))
         /\ Head(toGate[v]).type = type
<1>1. toGate' = Take(toGate, v) /\ toGate[v] # <<>>
  BY DEF Pop, Take
<1>2. QED
  BY <1>1, TakeTakes DEF Pop

\* A connection that breaks loses messages in both directions.
LEMMA Broken ==
  ASSUME toSvr \in Flows, toGate \in Flows, NEW v \in Svrs, Break(v)
  PROVE  Lost(toSvr, toSvr') /\ Lost(toGate, toGate')
<1>1. PICK k \in 0..Len(toSvr[v]) : toSvr' = [toSvr EXCEPT ![v] = SubSeq(@, 1, k)]
  BY DEF Break
<1>2. PICK n \in 0..Len(toGate[v]) : toGate' = [toGate EXCEPT ![v] = SubSeq(@, 1, n)]
  BY DEF Break
<1>3. Lost(toSvr, toSvr')
  BY <1>1, CutLoses
<1>4. Lost(toGate, toGate')
  BY <1>2, CutLoses
<1>5. QED
  BY <1>3, <1>4

\* A message of the gate's queue is one, and its session and account are, too.
LEMMA MessageType ==
  ASSUME NEW m \in Flow
  PROVE  m.s \in Sessions /\ m.u \in Uids \cup {None}
BY DEF Flow

(* --------------------------- Type correctness -------------------------- *)

LEMMA TypeInit == Init => TypeOK
<1>1. None \notin Sessions \cup Uids /\ MaxBreaks \in Nat /\ MaxTries \in Nat
  BY GateLoginAssumption
<1>2. <<>> \in Seq(Flow)
  BY EmptySeq
<1>3. QED
  BY <1>1, <1>2 DEF Init, TypeOK

\* Every handler keeps the types; a message of a server names a session and,
\* if a game server sent it, an account.
LEMMA TypeStep == TypeOK /\ FlowInv /\ PlayerInv /\ [Next]_vars => TypeOK'
<1> SUFFICES ASSUME TypeOK, FlowInv, PlayerInv, [Next]_vars PROVE TypeOK'
  OBVIOUS
<1> USE GateLoginAssumption
<1>1. toSvr \in Flows /\ toGate \in Flows
  BY DEF TypeOK, Flows
<1>2. ASSUME NEW s \in Sessions, Accept(s) PROVE TypeOK'
  BY <1>2 DEF Accept, svrVars, TypeOK
<1>3. ASSUME NEW s \in Sessions, Ask(s) PROVE TypeOK'
  BY <1>3 DEF Ask, playerVars, svrVars, TypeOK
<1>4. ASSUME NEW s \in Sessions, Leave(s) PROVE TypeOK'
  BY <1>4 DEF Leave, playerVars, svrVars, TypeOK
<1>5. ASSUME NEW s \in Sessions, RecvPlayerLogin(s) PROVE TypeOK'
  <2>1. Notice("login", s, None) \in Flow
    BY NoticeType
  <2>2. toSvr' \in Flows
    BY <1>1, <1>5, <2>1, Sent DEF RecvPlayerLogin, Gained, Svrs
  <2>3. QED
    BY <1>5, <2>2 DEF RecvPlayerLogin, TypeOK, Flows
<1>6. ASSUME NEW s \in Sessions, OnClose(s) PROVE TypeOK'
  <2>1. uid[s] \in Uids \cup {None}
    BY DEF TypeOK
  <2>2. Notice("offline", s, uid[s]) \in Flow
    BY <2>1, NoticeType
  <2>3. toSvr' \in Flows
    BY <1>1, <1>6, <2>2, Sent DEF OnClose, Gained, Svrs
  <2>4. uid' = uid /\ untold' \subseteq Uids
    <3>1. CASE where[s] = "player" /\ ~gsId[s]
      <4>1. uid[s] \in Uids
        BY <3>1 DEF PlayerInv
      <4>2. QED
        BY <1>6, <3>1, <4>1 DEF OnClose, TypeOK
    <3>2. CASE ~(where[s] = "player" /\ ~gsId[s])
      BY <1>6, <3>2 DEF OnClose, TypeOK
    <3>3. QED
      BY <1>6, <3>1, <3>2 DEF OnClose
  <2>5. QED
    BY <1>6, <2>1, <2>3, <2>4 DEF OnClose, TypeOK, Flows
<1>7. CASE LoginFailed
  <2>1. toGate' \in Flows /\ Head(toGate["login"]) \in Flow
    BY <1>1, <1>7, Popped DEF LoginFailed, Taken, Svrs
  <2>2. Head(toGate["login"]).s \in Sessions
    BY <2>1, MessageType
  <2>3. QED
    BY <1>7, <2>1, <2>2 DEF LoginFailed, TypeOK, Flows, clientVars
<1>8. CASE LoginOk
  <2> DEFINE m == Head(toGate["login"])
  <2>1. toGate' \in Flows /\ m \in Flow
    BY <1>1, <1>8, Popped DEF LoginOk, Taken, Svrs
  <2>2. m.s \in Sessions /\ m.u \in Uids \cup {None}
    BY <2>1, MessageType
  <2>3. Notice("online", m.s, m.u) \in Flow
    BY <2>2, NoticeType
  <2> HIDE DEF m
  <2>4. toSvr' \in Flows
    BY <1>1, <1>8, <2>3, Sent DEF LoginOk, Gained, Svrs, m
  <2>5. state' = state \/ state' = [state EXCEPT ![m.s] = "connect"]
    BY <1>8 DEF LoginOk, m
  <2> HIDE DEF m
  <2>6. state' \in [Sessions -> {"connect", "login", "online"}]
    BY <2>2, <2>5 DEF TypeOK
  <2>7. QED
    BY <1>8, <2>1, <2>4, <2>6 DEF LoginOk, TypeOK, Flows, clientVars
<1>9. CASE GameLogin
  <2> DEFINE m == Head(toGate["gs"])
  <2>1. toGate' \in Flows /\ m \in Flow
    BY <1>1, <1>9, Popped DEF GameLogin, Taken, Svrs
  <2>2. m.s \in Sessions /\ m.u \in Uids \cup {None}
    BY <2>1, MessageType
  <2>3. Notice("offline", m.s, m.u) \in Flow
    BY <2>2, NoticeType
  <2> HIDE DEF m
  <2>4. toSvr' \in Flows
    BY <1>1, <1>9, <2>3, Sent DEF GameLogin, Gained, Svrs, m
  <2>5. CASE where[m.s] = "tmp"
    <3>1. m.u \in Uids
      BY <1>1, <1>9, Popped DEF GameLogin, Taken, FlowInv, Svrs, m
    <3>2. /\ where' = [where EXCEPT ![m.s] = "player"] /\ state' = [state EXCEPT ![m.s] = "online"]
          /\ uid' = [uid EXCEPT ![m.s] = m.u] /\ byId' = [byId EXCEPT ![m.u] = m.s]
      BY <1>9, <2>5 DEF GameLogin, m
    <3>3. UNCHANGED <<gsId, tries, request, alive, link, online, breaks, untold>>
      BY <1>9 DEF GameLogin, clientVars
    <3>4. QED
      BY <2>1, <2>2, <2>4, <3>1, <3>2, <3>3 DEF TypeOK, Flows
  <2>6. CASE where[m.s] # "tmp"
    BY <1>9, <2>1, <2>4, <2>6 DEF GameLogin, TypeOK, Flows, clientVars, m
  <2>7. QED
    BY <2>5, <2>6
<1>10. CASE GameLoginRefused
  <2> DEFINE m == Head(toGate["gs"])
  <2>1. toGate' \in Flows /\ m \in Flow
    BY <1>1, <1>10, Popped DEF GameLoginRefused, Taken, Svrs
  <2>2. m.s \in Sessions /\ m.u \in Uids \cup {None}
    BY <2>1, MessageType
  <2>3. Notice("offline", m.s, m.u) \in Flow
    BY <2>2, NoticeType
  <2> HIDE DEF m
  <2>4. toSvr' \in Flows
    BY <1>1, <1>10, <2>3, Sent DEF GameLoginRefused, Gained, Svrs, m
  <2>5. state' = state \/ (where[m.s] = "tmp" /\ state' = [state EXCEPT ![m.s] = "connect"])
    BY <1>10 DEF GameLoginRefused, m
  <2>6. /\ state' \in [Sessions -> {"connect", "login", "online"}]
        /\ \A s \in Sessions : where[s] # "gone" => (state'[s] = "online" <=> where[s] = "player")
    BY <2>2, <2>5 DEF TypeOK
  <2>7. QED
    BY <1>10, <2>1, <2>4, <2>6 DEF GameLoginRefused, TypeOK, Flows, clientVars
<1>11. CASE EnterSvr
  <2>1. toGate' \in Flows
    BY <1>1, <1>11, Popped DEF EnterSvr, Taken, Svrs
  <2>2. QED
    BY <1>11, <2>1 DEF EnterSvr, TypeOK, Flows, clientVars
<1>12. CASE LoginSvr
  <2>1. Taken(toSvr, toSvr', "login", Head(toSvr["login"]))
    BY <1>1, <1>12, TakeTakes DEF LoginSvr, Take, Svrs
  <2>2. Head(toSvr["login"]).s \in Sessions
    BY <2>1, MessageType DEF Taken
  <2>3. PICK m \in Flow : Answer("login", <<m>>)
    BY <1>12, <2>2, NoticeType DEF LoginSvr
  <2>4. toGate' \in Flows
    BY <1>1, <2>3, Answered DEF Gained, Svrs
  <2>5. QED
    BY <1>12, <2>1, <2>4 DEF LoginSvr, TypeOK, Flows, Taken, playerVars, clientVars
<1>13. CASE GameSvr
  <2> DEFINE m == Head(toSvr["gs"])
  <2>1. Taken(toSvr, toSvr', "gs", m)
    BY <1>1, <1>13, TakeTakes DEF GameSvr, Take, Svrs
  <2>2. m.s \in Sessions /\ m.u \in Uids
    BY <2>1, MessageType DEF Taken, FlowInv
  <2> DEFINE a == Notice("game", m.s, m.u)
             b == Notice("push", m.s, m.u)
             d == Notice("refused", m.s, m.u)
  <2>3. a \in Flow /\ b \in Flow /\ d \in Flow
    BY <2>2, NoticeType
  <2>4. Answer("gs", <<a, b>>) \/ Answer("gs", <<d>>) \/ toGate' = toGate
    BY <1>13 DEF GameSvr
  <2> HIDE DEF m, a, b, d
  <2>5. toGate' \in Flows
    BY <1>1, <2>3, <2>4, Answered, AnsweredTwice DEF Gained, Svrs
  <2>6. QED
    BY <1>13, <2>1, <2>2, <2>5 DEF GameSvr, TypeOK, Flows, Taken, playerVars, clientVars, m
<1>14. ASSUME NEW v \in Svrs, SvrClosed(v) PROVE TypeOK'
  <2>1. Lost(toGate, toGate')
    BY <1>1, <1>14, CutLoses DEF SvrClosed
  <2>2. QED
    BY <1>14, <2>1 DEF SvrClosed, TypeOK, Flows, Lost, playerVars
<1>15. ASSUME NEW v \in Svrs, SvrRegistered(v) PROVE TypeOK'
  BY <1>15 DEF SvrRegistered, TypeOK, playerVars, clientVars
<1>16. ASSUME NEW v \in Svrs, Break(v) PROVE TypeOK'
  <2>1. Lost(toSvr, toSvr') /\ Lost(toGate, toGate')
    BY <1>1, <1>16, Broken
  <2>2. breaks' \in 0..MaxBreaks
    BY <1>16 DEF Break, TypeOK
  <2>3. QED
    BY <1>16, <2>1, <2>2 DEF Break, TypeOK, Flows, Lost, playerVars, clientVars
<1>17. CASE UNCHANGED vars
  BY <1>17 DEF vars, playerVars, clientVars, svrVars, TypeOK
<1>18. QED
  BY <1>2, <1>3, <1>4, <1>5, <1>6, <1>7, <1>8, <1>9, <1>10, <1>11, <1>12, <1>13, <1>14, <1>15,
     <1>16, <1>17 DEF Next, FromServers

\* The login server answers a request for its session.
LEMMA LoginAnswer ==
  ASSUME LoginSvr, Head(toSvr["login"]).s \in Sessions
  PROVE  \E m \in Flow : /\ Answer("login", <<m>>) /\ m.s = Head(toSvr["login"]).s
                         /\ m.type \in {"ok", "fail"} /\ (m.type = "ok" => m.u \in Uids)
<1> DEFINE s == Head(toSvr["login"]).s
<1>1. PICK m \in {Notice("ok", s, u) : u \in Uids} \cup {Notice("fail", s, None)} :
        Answer("login", <<m>>)
  BY DEF LoginSvr
<1>2. s \in Sessions
  OBVIOUS
<1> HIDE DEF s
<1>3. \A u \in Uids : LET n == Notice("ok", s, u)
                     IN  n \in Flow /\ n.s = s /\ n.type = "ok" /\ n.u \in Uids
  BY <1>2, NoticeType
<1>4. LET n == Notice("fail", s, None) IN n \in Flow /\ n.s = s /\ n.type = "fail"
  BY <1>2, NoticeType
<1>5. m \in Flow /\ m.s = s /\ m.type \in {"ok", "fail"} /\ (m.type = "ok" => m.u \in Uids)
  BY <1>1, <1>3, <1>4
<1>6. QED
  BY <1>1, <1>5 DEF s

(* ------------------- What travels on which connection ------------------ *)

\* Every handler sends only what its receiver handles.
LEMMA FlowStep == TypeOK /\ FlowInv /\ PlayerInv /\ [Next]_vars => FlowInv'
<1> SUFFICES ASSUME TypeOK, FlowInv, PlayerInv, [Next]_vars PROVE FlowInv'
  OBVIOUS
<1>1. toSvr \in Flows /\ toGate \in Flows
  BY DEF TypeOK, Flows
<1>2. ASSUME NEW s \in Sessions, Accept(s) \/ Ask(s) \/ Leave(s) PROVE FlowInv'
  BY <1>2 DEF Accept, Ask, Leave, svrVars, FlowInv
<1>3. ASSUME NEW s \in Sessions, RecvPlayerLogin(s) PROVE FlowInv'
  <2> DEFINE m == Notice("login", s, None)
  <2>1. m \in Flow /\ m.type = "login"
    BY NoticeType
  <2> HIDE DEF m
  <2>2. Gained(toSvr, toSvr', "login", m)
    BY <1>1, <1>3, <2>1, Sent, PutGains DEF RecvPlayerLogin, Svrs, m
  <2>3. toGate' = toGate
    BY <1>3 DEF RecvPlayerLogin
  <2>4. QED
    BY <2>1, <2>2, <2>3 DEF FlowInv, Gained, Svrs
<1>4. ASSUME NEW s \in Sessions, OnClose(s) PROVE FlowInv'
  <2> DEFINE m == Notice("offline", s, uid[s])
  <2>1. CASE where[s] = "player"
    <3>1. uid[s] \in Uids
      BY <2>1 DEF PlayerInv
    <3>2. m \in Flow /\ m.type = "offline" /\ m.u \in Uids
      BY <3>1, NoticeType
    <3> HIDE DEF m
    <3>3. Gained(toSvr, toSvr', "gs", m)
      BY <1>1, <1>4, <3>2, Sent, PutGains DEF OnClose, Svrs, m
    <3>4. toGate' = toGate
      BY <1>4 DEF OnClose
    <3>5. QED
      BY <3>2, <3>3, <3>4 DEF FlowInv, Gained, Svrs
  <2>2. CASE where[s] # "player"
    BY <1>4, <2>2 DEF OnClose, FlowInv
  <2>3. QED
    BY <2>1, <2>2
<1>5. CASE LoginFailed
  <2>1. Taken(toGate, toGate', "login", Head(toGate["login"])) /\ toSvr' = toSvr
    BY <1>1, <1>5, Popped DEF LoginFailed, Svrs
  <2>2. QED
    BY <2>1 DEF FlowInv, Taken, Svrs
<1>6. CASE LoginOk
  <2> DEFINE m == Head(toGate["login"])
             o == Notice("online", m.s, m.u)
  <2>1. Taken(toGate, toGate', "login", m) /\ m.type = "ok"
    BY <1>1, <1>6, Popped DEF LoginOk, Svrs
  <2>2. m \in Flow /\ m.s \in Sessions /\ m.u \in Uids
    BY <2>1, MessageType DEF Taken, FlowInv
  <2>3. o \in Flow /\ o.type = "online" /\ o.u \in Uids
    BY <2>2, NoticeType
  <2> HIDE DEF m, o
  <2>4. Gained(toSvr, toSvr', "gs", o)
    BY <1>1, <1>6, <2>3, Sent, PutGains DEF LoginOk, Svrs, m, o
  <2>5. QED
    BY <2>1, <2>3, <2>4 DEF FlowInv, Taken, Gained, Svrs
<1>7. CASE GameLogin
  <2> DEFINE m == Head(toGate["gs"])
             o == Notice("offline", m.s, m.u)
  <2>1. Taken(toGate, toGate', "gs", m)
    BY <1>1, <1>7, Popped DEF GameLogin, Svrs
  <2>2. m \in Flow /\ m.s \in Sessions /\ m.u \in Uids
    BY <2>1, MessageType DEF Taken, FlowInv
  <2>3. o \in Flow /\ o.type = "offline" /\ o.u \in Uids
    BY <2>2, NoticeType
  <2> HIDE DEF m, o
  <2>4. Gained(toSvr, toSvr', "gs", o)
    BY <1>1, <1>7, <2>3, Sent, PutGains DEF GameLogin, Svrs, m, o
  <2>5. QED
    BY <2>1, <2>3, <2>4 DEF FlowInv, Taken, Gained, Svrs
<1>8. CASE GameLoginRefused
  <2> DEFINE m == Head(toGate["gs"])
             o == Notice("offline", m.s, m.u)
  <2>1. Taken(toGate, toGate', "gs", m)
    BY <1>1, <1>8, Popped DEF GameLoginRefused, Svrs
  <2>2. m \in Flow /\ m.s \in Sessions /\ m.u \in Uids
    BY <2>1, MessageType DEF Taken, FlowInv
  <2>3. o \in Flow /\ o.type = "offline" /\ o.u \in Uids
    BY <2>2, NoticeType
  <2> HIDE DEF m, o
  <2>4. Gained(toSvr, toSvr', "gs", o)
    BY <1>1, <1>8, <2>3, Sent, PutGains DEF GameLoginRefused, Svrs, m, o
  <2>5. QED
    BY <2>1, <2>3, <2>4 DEF FlowInv, Taken, Gained, Svrs
<1>9. CASE EnterSvr
  <2>1. Taken(toGate, toGate', "gs", Head(toGate["gs"])) /\ toSvr' = toSvr
    BY <1>1, <1>9, Popped DEF EnterSvr, Svrs
  <2>2. QED
    BY <2>1 DEF FlowInv, Taken, Svrs
<1>10. CASE LoginSvr
  <2>1. Taken(toSvr, toSvr', "login", Head(toSvr["login"]))
    BY <1>1, <1>10, TakeTakes DEF LoginSvr, Take, Svrs
  <2>2. Head(toSvr["login"]).s \in Sessions
    BY <2>1, MessageType DEF Taken
  <2>3. PICK m \in Flow : /\ Answer("login", <<m>>)
                          /\ m.type \in {"ok", "fail"} /\ (m.type = "ok" => m.u \in Uids)
    BY <1>10, <2>2, LoginAnswer
  <2>4. Gained(toGate, toGate', "login", m)
    BY <1>1, <2>3, Answered DEF Svrs
  <2>5. QED
    BY <2>1, <2>3, <2>4 DEF FlowInv, Taken, Gained, Svrs
<1>11. CASE GameSvr
  <2> DEFINE m == Head(toSvr["gs"])
             a == Notice("game", m.s, m.u)
             b == Notice("push", m.s, m.u)
             d == Notice("refused", m.s, m.u)
  <2>1. Taken(toSvr, toSvr', "gs", m)
    BY <1>1, <1>11, TakeTakes DEF GameSvr, Take, Svrs
  <2>2. m.s \in Sessions /\ m.u \in Uids
    BY <2>1, MessageType DEF Taken, FlowInv
  <2>3. /\ a \in Flow /\ a.type = "game" /\ a.u \in Uids /\ b \in Flow /\ b.type = "push" /\ b.u \in Uids
        /\ d \in Flow /\ d.type = "refused" /\ d.u \in Uids
    BY <2>2, NoticeType
  <2>4. Answer("gs", <<a, b>>) \/ Answer("gs", <<d>>) \/ toGate' = toGate
    BY <1>11 DEF GameSvr
  <2> HIDE DEF m, a, b, d
  <2>5. CASE Answer("gs", <<a, b>>)
    <3>1. PICK h \in Flows : Gained(toGate, h, "gs", a) /\ Gained(h, toGate', "gs", b)
      BY <1>1, <2>3, <2>5, AnsweredTwice DEF Svrs
    <3>2. \A x \in Elems(toGate'["gs"]) : x \in Elems(toGate["gs"]) \/ x = a \/ x = b
      BY <3>1 DEF Gained, Svrs
    <3>3. \A x \in Elems(toGate'["login"]) : x \in Elems(toGate["login"])
      BY <3>1 DEF Gained, Svrs
    <3>4. QED
      BY <2>1, <2>3, <3>2, <3>3 DEF FlowInv, Taken, Svrs
  <2>6. CASE Answer("gs", <<d>>)
    <3>1. Gained(toGate, toGate', "gs", d)
      BY <1>1, <2>3, <2>6, Answered DEF Svrs
    <3>2. QED
      BY <2>1, <2>3, <3>1 DEF FlowInv, Taken, Gained, Svrs
  <2>7. CASE toGate' = toGate
    BY <2>1, <2>7 DEF FlowInv, Taken, Svrs
  <2>8. QED
    BY <2>4, <2>5, <2>6, <2>7
<1>12. ASSUME NEW v \in Svrs, SvrClosed(v) PROVE FlowInv'
  <2>1. Lost(toGate, toGate') /\ toSvr' = toSvr
    BY <1>1, <1>12, CutLoses DEF SvrClosed
  <2>2. QED
    BY <2>1 DEF FlowInv, Lost, Svrs
<1>13. ASSUME NEW v \in Svrs, SvrRegistered(v) PROVE FlowInv'
  BY <1>13 DEF SvrRegistered, FlowInv
<1>14. ASSUME NEW v \in Svrs, Break(v) PROVE FlowInv'
  <2>1. Lost(toSvr, toSvr') /\ Lost(toGate, toGate')
    BY <1>1, <1>14, Broken
  <2>2. QED
    BY <2>1 DEF FlowInv, Lost, Svrs
<1>15. CASE UNCHANGED vars
  BY <1>15 DEF vars, svrVars, FlowInv
<1>16. QED
  BY <1>2, <1>3, <1>4, <1>5, <1>6, <1>7, <1>8, <1>9, <1>10, <1>11, <1>12, <1>13, <1>14, <1>15
     DEF Next, FromServers

\* A player has an account, and nothing arrives over a connection that is gone.
LEMMA PlayerStep == TypeOK /\ FlowInv /\ PlayerInv /\ [Next]_vars => PlayerInv'
<1> SUFFICES ASSUME TypeOK, FlowInv, PlayerInv, [Next]_vars PROVE PlayerInv'
  OBVIOUS
<1>1. toSvr \in Flows /\ toGate \in Flows
  BY DEF TypeOK, Flows
<1>2. breaks \in Nat
  BY GateLoginAssumption DEF TypeOK
<1>3. ASSUME NEW s \in Sessions,
             Accept(s) \/ Ask(s) \/ Leave(s) \/ RecvPlayerLogin(s) \/ OnClose(s)
      PROVE  PlayerInv'
  BY <1>3 DEF Accept, Ask, Leave, RecvPlayerLogin, OnClose, playerVars, svrVars, PlayerInv, TypeOK
<1>4. CASE LoginFailed \/ LoginOk \/ GameLoginRefused \/ EnterSvr
  <2>1. UNCHANGED <<where, uid, link, breaks>>
    BY <1>4 DEF LoginFailed, LoginOk, GameLoginRefused, EnterSvr
  <2>2. \E v \in Svrs : toGate[v] # <<>> /\ toGate' = [toGate EXCEPT ![v] = Tail(@)]
    BY <1>4 DEF LoginFailed, LoginOk, GameLoginRefused, EnterSvr, Pop, Svrs
  <2>3. QED
    BY <2>1, <2>2 DEF PlayerInv, TypeOK
<1>5. CASE GameLogin
  <2> DEFINE m == Head(toGate["gs"])
  <2>1. m.s \in Sessions /\ m.u \in Uids
    BY <1>1, <1>5, Popped, MessageType DEF GameLogin, Taken, FlowInv, Svrs
  <2>2. toGate["gs"] # <<>> /\ toGate' = [toGate EXCEPT !["gs"] = Tail(@)]
    BY <1>5 DEF GameLogin, Pop
  <2> HIDE DEF m
  <2>3. UNCHANGED <<link, breaks>>
    BY <1>5 DEF GameLogin
  <2>4. \A s \in Sessions : where'[s] = "player" => uid'[s] \in Uids
    <3>1. CASE where[m.s] = "tmp"
      <4>1. /\ where' = [where EXCEPT ![m.s] = "player"]
            /\ uid' = [uid EXCEPT ![m.s] = m.u]
        BY <1>5, <3>1 DEF GameLogin, m
      <4>2. QED
        BY <2>1, <4>1 DEF PlayerInv, TypeOK
    <3>2. CASE where[m.s] # "tmp"
      BY <1>5, <3>2 DEF GameLogin, PlayerInv, m
    <3>3. QED
      BY <3>1, <3>2
  <2>5. QED
    BY <2>2, <2>3, <2>4 DEF PlayerInv, TypeOK
<1>6. CASE LoginSvr \/ GameSvr
  <2>1. UNCHANGED <<where, uid, link, breaks>>
    BY <1>6 DEF LoginSvr, GameSvr, playerVars
  <2>2. \A v \in Svrs : link[v] = "down" => toGate'[v] = toGate[v]
    BY <1>6 DEF LoginSvr, GameSvr, Answer, TypeOK
  <2>3. QED
    BY <2>1, <2>2 DEF PlayerInv
<1>7. ASSUME NEW v \in Svrs, SvrClosed(v) \/ SvrRegistered(v) \/ Break(v) PROVE PlayerInv'
  <2>1. UNCHANGED <<where, uid>>
    BY <1>7 DEF SvrClosed, SvrRegistered, Break, playerVars
  <2>2. breaks' = 0 => breaks = 0 /\ SvrRegistered(v)
    BY <1>2, <1>7 DEF SvrClosed, SvrRegistered, Break, PlayerInv
  <2>3. breaks' # 0
    BY <1>7, <2>2 DEF SvrRegistered, PlayerInv
  <2>4. ASSUME NEW w \in Svrs, link'[w] = "down" PROVE toGate'[w] = <<>>
    BY <1>7, <2>4 DEF SvrClosed, SvrRegistered, Break, PlayerInv, TypeOK
  <2>5. QED
    BY <2>1, <2>3, <2>4 DEF PlayerInv
<1>8. CASE UNCHANGED vars
  BY <1>8 DEF vars, playerVars, svrVars, PlayerInv
<1>9. QED
  BY <1>3, <1>4, <1>5, <1>6, <1>7, <1>8 DEF Next, FromServers

(* ------------------------- One login at a time ------------------------- *)

\* Whether a message is a login of session t.
LoginIn(m, t, T) == IF m.s = t /\ m.type \in T THEN 1 ELSE 0

\* How the number of logins under way changes with the queues.
LEMMA LoginsChange ==
  ASSUME NEW f \in Flows, NEW g, NEW v \in Svrs, NEW m \in Flow, NEW w \in Svrs,
         NEW t \in Sessions, NEW T
  PROVE  /\ Count(f[w], LoginsOf(t, T)) \in Nat
         /\ LoginIn(m, t, T) \in {0, 1}
         /\ Gained(f, g, v, m) =>
              /\ Count(g[w], LoginsOf(t, T)) \in Nat
              /\ Count(g[w], LoginsOf(t, T))
                   <= Count(f[w], LoginsOf(t, T)) + At(w, v, LoginIn(m, t, T))
         /\ Taken(f, g, v, m) =>
              /\ Count(g[w], LoginsOf(t, T)) \in Nat
              /\ Count(g[w], LoginsOf(t, T)) + At(w, v, LoginIn(m, t, T))
                   <= Count(f[w], LoginsOf(t, T))
         /\ Lost(f, g) =>
              /\ Count(g[w], LoginsOf(t, T)) \in Nat
              /\ Count(g[w], LoginsOf(t, T)) <= Count(f[w], LoginsOf(t, T))
<1>1. In(m, LoginsOf(t, T)) = LoginIn(m, t, T)
  BY InLogins DEF LoginIn
<1>2. Count(f[w], LoginsOf(t, T)) \in Nat /\ LoginIn(m, t, T) \in {0, 1}
  BY CountFlow DEF LoginIn
<1>3. ASSUME g \in Flows PROVE Count(g[w], LoginsOf(t, T)) \in Nat
  BY <1>3, CountFlow
<1>4. QED
  BY <1>1, <1>2, <1>3 DEF Gained, Taken, Lost

\* The places where a login of session t can be.
Requested(t) == Count(toSvr["login"], LoginsOf(t, {"login"}))
Checked(t) == Count(toGate["login"], LoginsOf(t, {"ok", "fail"}))
Entering(t) == Count(toSvr["gs"], LoginsOf(t, {"online"}))
Entered(t) == Count(toGate["gs"], LoginsOf(t, {"game", "refused"}))

\* What OneLogin says of one session.
OneLoginOf(t) ==
  /\ InFlight(t) <= 1
  /\ InFlight(t) > 0 /\ where[t] # "gone" => where[t] = "tmp" /\ state[t] = "login"

LEMMA InFlightSum ==
  ASSUME toSvr \in Flows, toGate \in Flows, NEW t \in Sessions
  PROVE  /\ Requested(t) \in Nat /\ Checked(t) \in Nat /\ Entering(t) \in Nat /\ Entered(t) \in Nat
         /\ InFlight(t) = Requested(t) + Checked(t) + Entering(t) + Entered(t)
BY CountFlow DEF Requested, Checked, Entering, Entered, InFlight, Svrs

\* A session that keeps its place and state gets no login from a step that
\* adds none.
LEMMA KeepsOne ==
  ASSUME toSvr \in Flows, toGate \in Flows, toSvr' \in Flows, toGate' \in Flows,
         NEW t \in Sessions, OneLoginOf(t),
         Requested(t)' + Checked(t)' + Entering(t)' + Entered(t)'
           <= Requested(t) + Checked(t) + Entering(t) + Entered(t),
         where'[t] # "gone" => where'[t] = where[t] /\ state'[t] = state[t]
  PROVE  OneLoginOf(t)'
<1>1. /\ Requested(t) \in Nat /\ Checked(t) \in Nat /\ Entering(t) \in Nat /\ Entered(t) \in Nat
      /\ InFlight(t) = Requested(t) + Checked(t) + Entering(t) + Entered(t)
  BY InFlightSum
<1>2. /\ Requested(t)' \in Nat /\ Checked(t)' \in Nat
      /\ Entering(t)' \in Nat /\ Entered(t)' \in Nat
      /\ InFlight(t)' = Requested(t)' + Checked(t)' + Entering(t)' + Entered(t)'
  BY CountFlow DEF Requested, Checked, Entering, Entered, InFlight, Svrs
<1> DEFINE n == InFlight(t)
           k == InFlight(t)'
<1>3. n \in Nat /\ k \in Nat /\ k <= n
  BY <1>1, <1>2
<1>4. /\ n <= 1
      /\ n > 0 /\ where[t] # "gone" => where[t] = "tmp" /\ state[t] = "login"
  BY DEF OneLoginOf
<1> HIDE DEF n, k
<1>5. /\ k <= 1
      /\ k > 0 /\ where'[t] # "gone" => where'[t] = "tmp" /\ state'[t] = "login"
  BY <1>3, <1>4
<1>6. QED
  BY <1>5 DEF OneLoginOf, k

\* How a step leaves a session whose logins it changes.
LEMMA LeavesOne ==
  ASSUME toSvr' \in Flows, toGate' \in Flows, NEW t \in Sessions,
         Requested(t)' + Checked(t)' + Entering(t)' + Entered(t)' <= 1,
         \/ Requested(t)' + Checked(t)' + Entering(t)' + Entered(t)' <= 0
         \/ where'[t] = "tmp" /\ state'[t] = "login"
         \/ where'[t] = "gone"
  PROVE  OneLoginOf(t)'
<1>1. /\ Requested(t)' \in Nat /\ Checked(t)' \in Nat
      /\ Entering(t)' \in Nat /\ Entered(t)' \in Nat
      /\ InFlight(t)' = Requested(t)' + Checked(t)' + Entering(t)' + Entered(t)'
  BY CountFlow DEF Requested, Checked, Entering, Entered, InFlight, Svrs
<1> DEFINE k == InFlight(t)'
<1>2. k \in Nat /\ k <= 1
  BY <1>1
<1>3. k = 0 \/ (where'[t] = "tmp" /\ state'[t] = "login") \/ where'[t] = "gone"
  BY <1>1
<1> HIDE DEF k
<1>4. k > 0 /\ where'[t] # "gone" => where'[t] = "tmp" /\ state'[t] = "login"
  BY <1>2, <1>3
<1>5. QED
  BY <1>2, <1>4 DEF OneLoginOf, k

\* A login moves from one place to the next, and is added only to a session
\* that has none.
LEMMA OneLoginStep ==
  ASSUME TypeOK, FlowInv, PlayerInv, TypeOK', [Next]_vars, NEW t \in Sessions, OneLoginOf(t)
  PROVE  OneLoginOf(t)'
<1>1. toSvr \in Flows /\ toGate \in Flows /\ toSvr' \in Flows /\ toGate' \in Flows
  BY DEF TypeOK, Flows
<1>2. /\ Requested(t) \in Nat /\ Checked(t) \in Nat /\ Entering(t) \in Nat /\ Entered(t) \in Nat
      /\ InFlight(t) = Requested(t) + Checked(t) + Entering(t) + Entered(t)
  BY <1>1, InFlightSum
<1>3. Requested(t) + Checked(t) + Entering(t) + Entered(t) <= 1
  BY <1>2 DEF OneLoginOf
<1>4. Requested(t) + Checked(t) + Entering(t) + Entered(t) > 0 /\ where[t] # "gone"
        => where[t] = "tmp" /\ state[t] = "login"
  BY <1>2 DEF OneLoginOf
<1>5. "login" \in Svrs /\ "gs" \in Svrs
  BY DEF Svrs
<1>6. ASSUME toSvr' = toSvr PROVE Requested(t)' = Requested(t) /\ Entering(t)' = Entering(t)
  BY <1>6 DEF Requested, Entering
<1>7. ASSUME toGate' = toGate PROVE Checked(t)' = Checked(t) /\ Entered(t)' = Entered(t)
  BY <1>7 DEF Checked, Entered
<1>8. ASSUME NEW s \in Sessions, Accept(s) PROVE OneLoginOf(t)'
  <2>1. /\ Requested(t)' = Requested(t) /\ Entering(t)' = Entering(t)
        /\ Checked(t)' = Checked(t) /\ Entered(t)' = Entered(t)
    BY <1>6, <1>7, <1>8 DEF Accept, svrVars
  <2>2. CASE s = t
    <3>1. Requested(t) + Checked(t) + Entering(t) + Entered(t) <= 0
      BY <1>2, <1>4, <1>8, <2>2 DEF Accept
    <3>2. QED
      BY <1>1, <1>2, <2>1, <3>1, LeavesOne
  <2>3. CASE s # t
    <3>1. where'[t] = where[t] /\ state'[t] = state[t]
      BY <1>8, <2>3 DEF Accept, TypeOK
    <3>2. QED
      BY <1>1, <1>2, <2>1, <3>1, KeepsOne
  <2>4. QED
    BY <2>2, <2>3
<1>9. ASSUME NEW s \in Sessions, Ask(s) \/ Leave(s) PROVE OneLoginOf(t)'
  <2>1. /\ Requested(t)' = Requested(t) /\ Entering(t)' = Entering(t)
        /\ Checked(t)' = Checked(t) /\ Entered(t)' = Entered(t)
    BY <1>6, <1>7, <1>9 DEF Ask, Leave, svrVars
  <2>2. where'[t] = where[t] /\ state'[t] = state[t]
    BY <1>9 DEF Ask, Leave, playerVars
  <2>3. QED
    BY <1>1, <1>2, <2>1, <2>2, KeepsOne
<1>10. ASSUME NEW s \in Sessions, RecvPlayerLogin(s) PROVE OneLoginOf(t)'
  <2> DEFINE m == Notice("login", s, None)
  <2>1. /\ Checked(t)' = Checked(t) /\ Entered(t)' = Entered(t) /\ where'[t] = where[t]
    BY <1>7, <1>10 DEF RecvPlayerLogin
  <2>2. CASE where[s] = "tmp" /\ state[s] = "connect" /\ link["login"] # "down"
    <3>1. m \in Flow /\ m.s = s /\ m.type = "login"
      BY NoticeType
    <3> HIDE DEF m
    <3>2. Gained(toSvr, toSvr', "login", m) /\ state' = [state EXCEPT ![s] = "login"]
      BY <1>1, <1>5, <1>10, <2>2, <3>1, Sent DEF RecvPlayerLogin, m
    <3>3. /\ Requested(t)' <= Requested(t) + At("login", "login", LoginIn(m, t, {"login"}))
          /\ Entering(t)' <= Entering(t) + At("gs", "login", LoginIn(m, t, {"online"}))
          /\ Requested(t)' \in Nat /\ Entering(t)' \in Nat
      BY <1>1, <1>5, <3>1, <3>2, LoginsChange DEF Requested, Entering
    <3>4. CASE s = t
      <4>1. LoginIn(m, t, {"login"}) = 1
        BY <3>1, <3>4 DEF LoginIn
      <4>2. Requested(t)' <= Requested(t) + 1 /\ Entering(t)' <= Entering(t)
        BY <1>2, <3>3, <4>1 DEF At
      <4>3. Requested(t) + Checked(t) + Entering(t) + Entered(t) <= 0
        BY <1>2, <1>4, <2>2, <3>4
      <4>4. Requested(t)' + Checked(t)' + Entering(t)' + Entered(t)' <= 1
        BY <1>2, <2>1, <3>3, <4>2, <4>3
      <4>5. where'[t] = "tmp" /\ state'[t] = "login"
        BY <2>1, <2>2, <3>2, <3>4 DEF TypeOK
      <4>6. QED
        BY <1>1, <4>4, <4>5, LeavesOne
    <3>5. CASE s # t
      <4>1. LoginIn(m, t, {"login"}) = 0
        BY <3>1, <3>5 DEF LoginIn
      <4>2. Requested(t)' <= Requested(t) /\ Entering(t)' <= Entering(t)
        BY <1>2, <3>3, <4>1 DEF At
      <4>3. state'[t] = state[t]
        BY <3>2, <3>5 DEF TypeOK
      <4>4. Requested(t)' + Checked(t)' + Entering(t)' + Entered(t)'
              <= Requested(t) + Checked(t) + Entering(t) + Entered(t)
        BY <1>2, <2>1, <3>3, <4>2
      <4>5. QED
        BY <1>1, <2>1, <4>3, <4>4, KeepsOne
    <3>6. QED
      BY <3>4, <3>5
  <2>3. CASE ~(where[s] = "tmp" /\ state[s] = "connect" /\ link["login"] # "down")
    <3>1. toSvr' = toSvr /\ state' = state
      BY <1>10, <2>3 DEF RecvPlayerLogin
    <3>2. QED
      BY <1>1, <1>2, <1>6, <2>1, <3>1, KeepsOne
  <2>4. QED
    BY <2>2, <2>3
<1>11. ASSUME NEW s \in Sessions, OnClose(s) PROVE OneLoginOf(t)'
  <2> DEFINE m == Notice("offline", s, uid[s])
  <2>1. Checked(t)' = Checked(t) /\ Entered(t)' = Entered(t)
    BY <1>7, <1>11 DEF OnClose
  <2>2. m \in Flow /\ m.type = "offline"
    <3>1. uid[s] \in Uids \cup {None}
      BY DEF TypeOK
    <3>2. QED
      BY <3>1, NoticeType
  <2> HIDE DEF m
  <2>3. Gained(toSvr, toSvr', "gs", m)
    BY <1>1, <1>5, <1>11, <2>2, Sent, PutGains DEF OnClose, m
  <2>4. LoginIn(m, t, {"online"}) = 0
    BY <2>2 DEF LoginIn
  <2>5. /\ Requested(t)' <= Requested(t) + At("login", "gs", LoginIn(m, t, {"login"}))
        /\ Entering(t)' <= Entering(t) + At("gs", "gs", LoginIn(m, t, {"online"}))
        /\ Requested(t)' \in Nat /\ Entering(t)' \in Nat
    BY <1>1, <1>5, <2>2, <2>3, LoginsChange DEF Requested, Entering
  <2>6. Requested(t)' <= Requested(t) /\ Entering(t)' <= Entering(t)
    BY <1>2, <2>4, <2>5 DEF At
  <2>7. where'[t] # "gone" => where'[t] = where[t] /\ state'[t] = state[t]
    BY <1>11 DEF OnClose, TypeOK
  <2>8. Requested(t)' + Checked(t)' + Entering(t)' + Entered(t)'
          <= Requested(t) + Checked(t) + Entering(t) + Entered(t)
    BY <1>2, <2>1, <2>5, <2>6
  <2>9. QED
    BY <1>1, <2>7, <2>8, KeepsOne
<1>12. CASE LoginFailed
  <2> DEFINE m == Head(toGate["login"])
  <2>1. Taken(toGate, toGate', "login", m) /\ m.type = "fail"
    BY <1>1, <1>5, <1>12, Popped DEF LoginFailed
  <2>2. m \in Flow
    BY <2>1 DEF Taken
  <2>3. /\ state' = (IF where[m.s] = "tmp" THEN [state EXCEPT ![m.s] = "connect"] ELSE state)
        /\ where' = where
    BY <1>12 DEF LoginFailed
  <2> HIDE DEF m
  <2>4. Requested(t)' = Requested(t) /\ Entering(t)' = Entering(t)
    BY <1>6, <1>12 DEF LoginFailed
  <2>5. /\ Checked(t)' + At("login", "login", LoginIn(m, t, {"ok", "fail"})) <= Checked(t)
        /\ Entered(t)' + At("gs", "login", LoginIn(m, t, {"game", "refused"})) <= Entered(t)
        /\ Checked(t)' \in Nat /\ Entered(t)' \in Nat
    BY <1>1, <1>5, <2>1, <2>2, LoginsChange DEF Checked, Entered
  <2>6. CASE m.s = t
    <3>1. LoginIn(m, t, {"ok", "fail"}) = 1
      BY <2>1, <2>6 DEF LoginIn
    <3>2. Checked(t)' + 1 <= Checked(t) /\ Entered(t)' <= Entered(t)
      BY <1>2, <2>5, <3>1 DEF At
    <3>3. Requested(t)' + Checked(t)' + Entering(t)' + Entered(t)' <= 0
      BY <1>2, <1>3, <2>4, <2>5, <3>2
    <3>4. QED
      BY <1>1, <1>2, <2>4, <2>5, <3>3, LeavesOne
  <2>7. CASE m.s # t
    <3>1. Checked(t)' <= Checked(t) /\ Entered(t)' <= Entered(t)
      <4>1. LoginIn(m, t, {"ok", "fail"}) = 0
        BY <2>7 DEF LoginIn
      <4>2. QED
        BY <1>2, <2>5, <4>1 DEF At
    <3>2. where'[t] = where[t] /\ state'[t] = state[t]
      BY <2>3, <2>7 DEF TypeOK
    <3>3. QED
      BY <1>1, <1>2, <2>4, <2>5, <3>1, <3>2, KeepsOne
  <2>8. QED
    BY <2>6, <2>7
<1>13. CASE LoginOk
  <2> DEFINE m == Head(toGate["login"])
             o == Notice("online", m.s, m.u)
  <2>1. Taken(toGate, toGate', "login", m) /\ m.type = "ok"
    BY <1>1, <1>5, <1>13, Popped DEF LoginOk
  <2>2. m \in Flow /\ m.s \in Sessions /\ m.u \in Uids \cup {None}
    BY <2>1, MessageType DEF Taken
  <2>3. o \in Flow /\ o.s = m.s /\ o.type = "online"
    BY <2>2, NoticeType
  <2>4. where' = where
    BY <1>13 DEF LoginOk
  <2>5. \/ where[m.s] # "tmp" /\ toSvr' = toSvr /\ state' = state
        \/ SendTo("gs", o) /\ state' = state
        \/ toSvr' = toSvr /\ state' = [state EXCEPT ![m.s] = "connect"]
    BY <1>13 DEF LoginOk
  <2> HIDE DEF m, o
  <2>6. /\ Checked(t)' + At("login", "login", LoginIn(m, t, {"ok", "fail"})) <= Checked(t)
        /\ Entered(t)' + At("gs", "login", LoginIn(m, t, {"game", "refused"})) <= Entered(t)
        /\ Checked(t)' \in Nat /\ Entered(t)' \in Nat
    BY <1>1, <1>5, <2>1, <2>2, LoginsChange DEF Checked, Entered
  <2>7. Gained(toSvr, toSvr', "gs", o)
    BY <1>1, <1>5, <2>3, <2>5, Sent, PutGains
  <2>8. /\ Requested(t)' <= Requested(t) + At("login", "gs", LoginIn(o, t, {"login"}))
        /\ Entering(t)' <= Entering(t) + At("gs", "gs", LoginIn(o, t, {"online"}))
        /\ Requested(t)' \in Nat /\ Entering(t)' \in Nat
    BY <1>1, <1>5, <2>3, <2>7, LoginsChange DEF Requested, Entering
  <2>9. CASE m.s = t
    <3>1. LoginIn(m, t, {"ok", "fail"}) = 1 /\ LoginIn(o, t, {"online"}) = 1
      BY <2>1, <2>3, <2>9 DEF LoginIn
    <3>2. /\ Checked(t)' + 1 <= Checked(t) /\ Entered(t)' <= Entered(t)
          /\ Requested(t)' <= Requested(t) /\ Entering(t)' <= Entering(t) + 1
      BY <1>2, <2>6, <2>8, <3>1 DEF At
    <3>3. CASE state' = state
      <4>1. Requested(t)' + Checked(t)' + Entering(t)' + Entered(t)'
              <= Requested(t) + Checked(t) + Entering(t) + Entered(t)
        BY <1>2, <2>6, <2>8, <3>2
      <4>2. QED
        BY <1>1, <2>4, <3>3, <4>1, KeepsOne
    <3>4. CASE toSvr' = toSvr
      <4>1. Requested(t)' + Checked(t)' + Entering(t)' + Entered(t)' <= 0
        BY <1>2, <1>3, <1>6, <2>6, <2>8, <3>2, <3>4
      <4>2. QED
        BY <1>1, <1>2, <2>6, <2>8, <4>1, LeavesOne
    <3>5. QED
      BY <2>5, <3>3, <3>4
  <2>10. CASE m.s # t
    <3>1. LoginIn(m, t, {"ok", "fail"}) = 0 /\ LoginIn(o, t, {"online"}) = 0
      BY <2>3, <2>10 DEF LoginIn
    <3>2. Requested(t)' + Checked(t)' + Entering(t)' + Entered(t)'
            <= Requested(t) + Checked(t) + Entering(t) + Entered(t)
      <4>1. /\ Checked(t)' <= Checked(t) /\ Entered(t)' <= Entered(t)
            /\ Requested(t)' <= Requested(t) /\ Entering(t)' <= Entering(t)
        BY <1>2, <2>6, <2>8, <3>1 DEF At
      <4>2. QED
        BY <1>2, <2>6, <2>8, <4>1
    <3>3. where'[t] = where[t] /\ state'[t] = state[t]
      BY <2>4, <2>5, <2>10 DEF TypeOK
    <3>4. QED
      BY <1>1, <3>2, <3>3, KeepsOne
  <2>11. QED
    BY <2>9, <2>10
<1>14. CASE GameLogin
  <2> DEFINE m == Head(toGate["gs"])
             o == Notice("offline", m.s, m.u)
  <2>1. Taken(toGate, toGate', "gs", m) /\ m.type = "game"
    BY <1>1, <1>5, <1>14, Popped DEF GameLogin
  <2>2. m \in Flow /\ m.s \in Sessions /\ m.u \in Uids \cup {None}
    BY <2>1, MessageType DEF Taken
  <2>3. o \in Flow /\ o.type = "offline"
    BY <2>2, NoticeType
  <2>4. \/ where' = where /\ state' = state
        \/ /\ where' = [where EXCEPT ![m.s] = "player"]
           /\ state' = [state EXCEPT ![m.s] = "online"]
    BY <1>14 DEF GameLogin
  <2>5. SendTo("gs", o) \/ toSvr' = toSvr
    BY <1>14 DEF GameLogin
  <2> HIDE DEF m, o
  <2>6. /\ Checked(t)' + At("login", "gs", LoginIn(m, t, {"ok", "fail"})) <= Checked(t)
        /\ Entered(t)' + At("gs", "gs", LoginIn(m, t, {"game", "refused"})) <= Entered(t)
        /\ Checked(t)' \in Nat /\ Entered(t)' \in Nat
    BY <1>1, <1>5, <2>1, <2>2, LoginsChange DEF Checked, Entered
  <2>7. Gained(toSvr, toSvr', "gs", o)
    BY <1>1, <1>5, <2>3, <2>5, Sent, PutGains
  <2>8. /\ Requested(t)' <= Requested(t) + At("login", "gs", LoginIn(o, t, {"login"}))
        /\ Entering(t)' <= Entering(t) + At("gs", "gs", LoginIn(o, t, {"online"}))
        /\ Requested(t)' \in Nat /\ Entering(t)' \in Nat
    BY <1>1, <1>5, <2>3, <2>7, LoginsChange DEF Requested, Entering
  <2>9. LoginIn(o, t, {"online"}) = 0 /\ LoginIn(m, t, {"game", "refused"}) \in {0, 1}
    BY <2>3 DEF LoginIn
  <2>10. /\ Checked(t)' <= Checked(t) /\ Entered(t)' + LoginIn(m, t, {"game", "refused"}) <= Entered(t)
         /\ Requested(t)' <= Requested(t) /\ Entering(t)' <= Entering(t)
    BY <1>2, <2>6, <2>8, <2>9 DEF At
  <2>11. CASE m.s = t
    <3>1. LoginIn(m, t, {"game", "refused"}) = 1
      BY <2>1, <2>11 DEF LoginIn
    <3>2. Requested(t)' + Checked(t)' + Entering(t)' + Entered(t)' <= 0
      BY <1>2, <1>3, <2>6, <2>8, <2>10, <3>1
    <3>3. QED
      BY <1>1, <1>2, <2>6, <2>8, <3>2, LeavesOne
  <2>12. CASE m.s # t
    <3>1. Requested(t)' + Checked(t)' + Entering(t)' + Entered(t)'
            <= Requested(t) + Checked(t) + Entering(t) + Entered(t)
      BY <1>2, <2>6, <2>8, <2>9, <2>10
    <3>2. where'[t] = where[t] /\ state'[t] = state[t]
      BY <2>4, <2>12 DEF TypeOK
    <3>3. QED
      BY <1>1, <3>1, <3>2, KeepsOne
  <2>13. QED
    BY <2>11, <2>12
<1>15. CASE GameLoginRefused
  <2> DEFINE m == Head(toGate["gs"])
             o == Notice("offline", m.s, m.u)
  <2>1. Taken(toGate, toGate', "gs", m) /\ m.type = "refused"
    BY <1>1, <1>5, <1>15, Popped DEF GameLoginRefused
  <2>2. m \in Flow /\ m.s \in Sessions /\ m.u \in Uids \cup {None}
    BY <2>1, MessageType DEF Taken
  <2>3. o \in Flow /\ o.type = "offline"
    BY <2>2, NoticeType
  <2>4. where' = where /\ (state' = state \/ state' = [state EXCEPT ![m.s] = "connect"])
    BY <1>15 DEF GameLoginRefused
  <2>5. SendTo("gs", o) \/ toSvr' = toSvr
    BY <1>15 DEF GameLoginRefused
  <2> HIDE DEF m, o
  <2>6. /\ Checked(t)' + At("login", "gs", LoginIn(m, t, {"ok", "fail"})) <= Checked(t)
        /\ Entered(t)' + At("gs", "gs", LoginIn(m, t, {"game", "refused"})) <= Entered(t)
        /\ Checked(t)' \in Nat /\ Entered(t)' \in Nat
    BY <1>1, <1>5, <2>1, <2>2, LoginsChange DEF Checked, Entered
  <2>7. Gained(toSvr, toSvr', "gs", o)
    BY <1>1, <1>5, <2>3, <2>5, Sent, PutGains
  <2>8. /\ Requested(t)' <= Requested(t) + At("login", "gs", LoginIn(o, t, {"login"}))
        /\ Entering(t)' <= Entering(t) + At("gs", "gs", LoginIn(o, t, {"online"}))
        /\ Requested(t)' \in Nat /\ Entering(t)' \in Nat
    BY <1>1, <1>5, <2>3, <2>7, LoginsChange DEF Requested, Entering
  <2>9. LoginIn(o, t, {"online"}) = 0 /\ LoginIn(m, t, {"game", "refused"}) \in {0, 1}
    BY <2>3 DEF LoginIn
  <2>10. /\ Checked(t)' <= Checked(t) /\ Entered(t)' + LoginIn(m, t, {"game", "refused"}) <= Entered(t)
         /\ Requested(t)' <= Requested(t) /\ Entering(t)' <= Entering(t)
    BY <1>2, <2>6, <2>8, <2>9 DEF At
  <2>11. CASE m.s = t
    <3>1. LoginIn(m, t, {"game", "refused"}) = 1
      BY <2>1, <2>11 DEF LoginIn
    <3>2. Requested(t)' + Checked(t)' + Entering(t)' + Entered(t)' <= 0
      BY <1>2, <1>3, <2>6, <2>8, <2>10, <3>1
    <3>3. QED
      BY <1>1, <1>2, <2>6, <2>8, <3>2, LeavesOne
  <2>12. CASE m.s # t
    <3>1. Requested(t)' + Checked(t)' + Entering(t)' + Entered(t)'
            <= Requested(t) + Checked(t) + Entering(t) + Entered(t)
      BY <1>2, <2>6, <2>8, <2>9, <2>10
    <3>2. where'[t] = where[t] /\ state'[t] = state[t]
      BY <2>4, <2>12 DEF TypeOK
    <3>3. QED
      BY <1>1, <3>1, <3>2, KeepsOne
  <2>13. QED
    BY <2>11, <2>12
<1>16. CASE EnterSvr
  <2> DEFINE m == Head(toGate["gs"])
  <2>1. Taken(toGate, toGate', "gs", m) /\ m \in Flow
    BY <1>1, <1>5, <1>16, Popped DEF EnterSvr, Taken
  <2> HIDE DEF m
  <2>2. /\ Checked(t)' + At("login", "gs", LoginIn(m, t, {"ok", "fail"})) <= Checked(t)
        /\ Entered(t)' + At("gs", "gs", LoginIn(m, t, {"game", "refused"})) <= Entered(t)
        /\ Checked(t)' \in Nat /\ Entered(t)' \in Nat
        /\ LoginIn(m, t, {"game", "refused"}) \in {0, 1}
    BY <1>1, <1>5, <2>1, LoginsChange DEF Checked, Entered
  <2>3. Checked(t)' <= Checked(t) /\ Entered(t)' <= Entered(t)
    BY <1>2, <2>2 DEF At
  <2>4. Requested(t)' = Requested(t) /\ Entering(t)' = Entering(t)
    BY <1>6, <1>16 DEF EnterSvr
  <2>5. Requested(t)' + Checked(t)' + Entering(t)' + Entered(t)'
          <= Requested(t) + Checked(t) + Entering(t) + Entered(t)
    BY <1>2, <2>2, <2>3, <2>4
  <2>6. where' = where /\ state' = state
    BY <1>16 DEF EnterSvr
  <2>7. QED
    BY <1>1, <2>5, <2>6, KeepsOne
<1>17. CASE LoginSvr
  <2> DEFINE r == Head(toSvr["login"])
  <2>1. Taken(toSvr, toSvr', "login", r)
    BY <1>1, <1>5, <1>17, TakeTakes DEF LoginSvr, Take
  <2>2. r \in Flow /\ r.s \in Sessions /\ r.type = "login"
    BY <2>1, MessageType DEF Taken, FlowInv
  <2>3. PICK m \in Flow : Answer("login", <<m>>) /\ m.s = r.s /\ m.type \in {"ok", "fail"}
    BY <1>17, <2>2, LoginAnswer
  <2> HIDE DEF r
  <2>4. Gained(toGate, toGate', "login", m)
    BY <1>1, <1>5, <2>3, Answered
  <2>5. /\ Requested(t)' + At("login", "login", LoginIn(r, t, {"login"})) <= Requested(t)
        /\ Entering(t)' + At("gs", "login", LoginIn(r, t, {"online"})) <= Entering(t)
        /\ Requested(t)' \in Nat /\ Entering(t)' \in Nat
    BY <1>1, <1>5, <2>1, <2>2, LoginsChange DEF Requested, Entering
  <2>6. /\ Checked(t)' <= Checked(t) + At("login", "login", LoginIn(m, t, {"ok", "fail"}))
        /\ Entered(t)' <= Entered(t) + At("gs", "login", LoginIn(m, t, {"game", "refused"}))
        /\ Checked(t)' \in Nat /\ Entered(t)' \in Nat
    BY <1>1, <1>5, <2>4, LoginsChange DEF Checked, Entered
  <2>7. LoginIn(m, t, {"ok", "fail"}) = LoginIn(r, t, {"login"}) /\ LoginIn(r, t, {"login"}) \in {0, 1}
    BY <2>2, <2>3 DEF LoginIn
  <2> DEFINE i == LoginIn(r, t, {"login"})
  <2>8. /\ Requested(t)' + i <= Requested(t) /\ Entering(t)' <= Entering(t)
        /\ Checked(t)' <= Checked(t) + i /\ Entered(t)' <= Entered(t) /\ i \in {0, 1}
    BY <1>2, <2>5, <2>6, <2>7 DEF At
  <2> HIDE DEF i
  <2>9. Requested(t)' + Checked(t)' + Entering(t)' + Entered(t)'
          <= Requested(t) + Checked(t) + Entering(t) + Entered(t)
    BY <1>2, <2>5, <2>6, <2>8
  <2>10. where' = where /\ state' = state
    BY <1>17 DEF LoginSvr, playerVars
  <2>11. QED
    BY <1>1, <2>9, <2>10, KeepsOne
<1>18. CASE GameSvr
  <2> DEFINE r == Head(toSvr["gs"])
             a == Notice("game", r.s, r.u)
             b == Notice("push", r.s, r.u)
             d == Notice("refused", r.s, r.u)
  <2>1. Taken(toSvr, toSvr', "gs", r)
    BY <1>1, <1>5, <1>18, TakeTakes DEF GameSvr, Take
  <2>2. r \in Flow /\ r.s \in Sessions /\ r.u \in Uids \cup {None}
    BY <2>1, MessageType DEF Taken
  <2>3. /\ a \in Flow /\ a.s = r.s /\ a.type = "game"
        /\ b \in Flow /\ b.type = "push"
        /\ d \in Flow /\ d.s = r.s /\ d.type = "refused"
    BY <2>2, NoticeType
  <2>4. \/ r.type = "online" /\ (Answer("gs", <<a, b>>) \/ Answer("gs", <<d>>))
        \/ toGate' = toGate
    BY <1>18 DEF GameSvr
  <2>5. where' = where /\ state' = state
    BY <1>18 DEF GameSvr, playerVars
  <2> HIDE DEF r, a, b, d
  <2>6. /\ Requested(t)' + At("login", "gs", LoginIn(r, t, {"login"})) <= Requested(t)
        /\ Entering(t)' + At("gs", "gs", LoginIn(r, t, {"online"})) <= Entering(t)
        /\ Requested(t)' \in Nat /\ Entering(t)' \in Nat
    BY <1>1, <1>5, <2>1, <2>2, LoginsChange DEF Requested, Entering
  <2> DEFINE i == LoginIn(r, t, {"online"})
  <2>7. i \in {0, 1} /\ (i = 0 => ~(r.s = t /\ r.type = "online"))
    BY DEF LoginIn
  <2>8. Requested(t)' <= Requested(t) /\ Entering(t)' + i <= Entering(t)
    <3>1. LoginIn(r, t, {"login"}) \in {0, 1}
      BY DEF LoginIn
    <3>2. QED
      BY <1>2, <2>6, <3>1 DEF At
  <2> HIDE DEF i
  <2>9. /\ Checked(t)' \in Nat /\ Entered(t)' \in Nat
        /\ Checked(t)' <= Checked(t) /\ Entered(t)' <= Entered(t) + i
    <3>1. CASE r.type = "online" /\ Answer("gs", <<a, b>>)
      <4>1. PICK h \in Flows : Gained(toGate, h, "gs", a) /\ Gained(h, toGate', "gs", b)
        BY <1>1, <1>5, <2>3, <3>1, AnsweredTwice
      <4> DEFINE hc == Count(h["login"], LoginsOf(t, {"ok", "fail"}))
                 he == Count(h["gs"], LoginsOf(t, {"game", "refused"}))
      <4>2. /\ hc <= Checked(t) + At("login", "gs", LoginIn(a, t, {"ok", "fail"}))
            /\ he <= Entered(t) + At("gs", "gs", LoginIn(a, t, {"game", "refused"}))
            /\ hc \in Nat /\ he \in Nat
        BY <1>1, <1>5, <2>3, <4>1, LoginsChange DEF Checked, Entered
      <4>3. /\ Checked(t)' <= hc + At("login", "gs", LoginIn(b, t, {"ok", "fail"}))
            /\ Entered(t)' <= he + At("gs", "gs", LoginIn(b, t, {"game", "refused"}))
            /\ Checked(t)' \in Nat /\ Entered(t)' \in Nat
        BY <1>1, <1>5, <2>3, <4>1, LoginsChange DEF Checked, Entered
      <4> HIDE DEF hc, he
      <4>4. LoginIn(a, t, {"game", "refused"}) = i /\ LoginIn(b, t, {"game", "refused"}) = 0
        BY <2>3, <3>1 DEF LoginIn, i
      <4>5. hc <= Checked(t) /\ he <= Entered(t) + i
        BY <1>2, <4>2, <4>4 DEF At
      <4>6. Checked(t)' <= hc /\ Entered(t)' <= he
        BY <4>2, <4>3, <4>4 DEF At
      <4>7. QED
        BY <1>2, <2>7, <4>2, <4>3, <4>5, <4>6
    <3>2. CASE r.type = "online" /\ Answer("gs", <<d>>)
      <4>1. Gained(toGate, toGate', "gs", d)
        BY <1>1, <1>5, <2>3, <3>2, Answered
      <4>2. /\ Checked(t)' <= Checked(t) + At("login", "gs", LoginIn(d, t, {"ok", "fail"}))
            /\ Entered(t)' <= Entered(t) + At("gs", "gs", LoginIn(d, t, {"game", "refused"}))
            /\ Checked(t)' \in Nat /\ Entered(t)' \in Nat
        BY <1>1, <1>5, <2>3, <4>1, LoginsChange DEF Checked, Entered
      <4>3. LoginIn(d, t, {"game", "refused"}) = i
        BY <2>3, <3>2 DEF LoginIn, i
      <4>4. QED
        BY <1>2, <4>2, <4>3 DEF At
    <3>3. CASE toGate' = toGate
      BY <1>2, <1>7, <2>7, <3>3
    <3>4. QED
      BY <2>4, <3>1, <3>2, <3>3
  <2>10. Requested(t)' + Checked(t)' + Entering(t)' + Entered(t)'
           <= Requested(t) + Checked(t) + Entering(t) + Entered(t)
    BY <1>2, <2>6, <2>7, <2>8, <2>9
  <2>11. QED
    BY <1>1, <2>5, <2>10, KeepsOne
<1>19. ASSUME NEW v \in Svrs, SvrClosed(v) \/ SvrRegistered(v) \/ Break(v) PROVE OneLoginOf(t)'
  <2>1. where' = where /\ state' = state
    BY <1>19 DEF SvrClosed, SvrRegistered, Break, playerVars
  <2>2. toSvr' = toSvr \/ Lost(toSvr, toSvr')
    BY <1>1, <1>19, Broken DEF SvrClosed, SvrRegistered
  <2>3. toGate' = toGate \/ Lost(toGate, toGate')
    BY <1>1, <1>19, Broken, CutLoses DEF SvrClosed, SvrRegistered
  <2>4. Requested(t)' <= Requested(t) /\ Entering(t)' <= Entering(t)
    <3>1. CASE toSvr' = toSvr
      BY <1>2, <1>6, <3>1
    <3>2. CASE Lost(toSvr, toSvr')
      BY <1>1, <1>5, <3>2 DEF Lost, Requested, Entering
    <3>3. QED
      BY <2>2, <3>1, <3>2
  <2>5. Checked(t)' <= Checked(t) /\ Entered(t)' <= Entered(t)
    <3>1. CASE toGate' = toGate
      BY <1>2, <1>7, <3>1
    <3>2. CASE Lost(toGate, toGate')
      BY <1>1, <1>5, <3>2 DEF Lost, Checked, Entered
    <3>3. QED
      BY <2>3, <3>1, <3>2
  <2>6. /\ Requested(t)' \in Nat /\ Checked(t)' \in Nat
        /\ Entering(t)' \in Nat /\ Entered(t)' \in Nat
    BY <1>1, <1>5, CountFlow DEF Requested, Checked, Entering, Entered
  <2>7. Requested(t)' + Checked(t)' + Entering(t)' + Entered(t)'
          <= Requested(t) + Checked(t) + Entering(t) + Entered(t)
    BY <1>2, <2>4, <2>5, <2>6
  <2>8. QED
    BY <1>1, <2>1, <2>7, KeepsOne
<1>20. CASE UNCHANGED vars
  <2>1. UNCHANGED <<where, state, toSvr, toGate>>
    BY <1>20 DEF vars, playerVars, svrVars
  <2>2. QED
    BY <1>1, <1>2, <1>6, <1>7, <2>1, KeepsOne
<1>21. QED
  BY <1>8, <1>9, <1>10, <1>11, <1>12, <1>13, <1>14, <1>15, <1>16, <1>17, <1>18, <1>19, <1>20
     DEF Next, FromServers

(* ------------------------ Players and their client --------------------- *)

\* The map of accounts follows the players.
LEMMA DanglingStep == TypeOK /\ FlowInv /\ PlayerInv /\ NoDangling /\ [Next]_vars => NoDangling'
<1> SUFFICES ASSUME TypeOK, FlowInv, PlayerInv, NoDangling, [Next]_vars PROVE NoDangling'
  OBVIOUS
<1>1. toSvr \in Flows /\ toGate \in Flows
  BY DEF TypeOK, Flows
<1>2. ASSUME UNCHANGED <<where, uid, byId>> PROVE NoDangling'
  BY <1>2 DEF NoDangling
<1>3. ASSUME NEW s \in Sessions, Accept(s) PROVE NoDangling'
  BY <1>3, GateLoginAssumption DEF Accept, NoDangling, TypeOK
<1>4. ASSUME NEW s \in Sessions, OnClose(s) PROVE NoDangling'
  <2>1. CASE where[s] = "player"
    <3>1. byId' = [byId EXCEPT ![uid[s]] = None] /\ uid' = uid /\ where' = [where EXCEPT ![s] = "gone"]
      BY <1>4, <2>1 DEF OnClose
    <3>2. ASSUME NEW u \in Uids, byId'[u] # None
          PROVE  where'[byId'[u]] = "player" /\ uid'[byId'[u]] = u
      <4>1. u # uid[s] /\ byId'[u] = byId[u]
        BY <3>1, <3>2 DEF TypeOK
      <4>2. byId[u] \in Sessions /\ where[byId[u]] = "player" /\ uid[byId[u]] = u
        BY <3>2, <4>1 DEF NoDangling, TypeOK
      <4>3. byId[u] # s
        BY <4>1, <4>2
      <4>4. QED
        BY <3>1, <4>1, <4>2, <4>3 DEF TypeOK
    <3>3. QED
      BY <3>2 DEF NoDangling
  <2>2. CASE where[s] # "player"
    BY <1>4, <2>2 DEF OnClose, NoDangling, TypeOK
  <2>3. QED
    BY <2>1, <2>2
<1>5. CASE GameLogin
  <2> DEFINE m == Head(toGate["gs"])
  <2>1. CASE where[m.s] = "tmp"
    <3>1. m.s \in Sessions /\ m.u \in Uids
      BY <1>1, <1>5, Popped, MessageType DEF GameLogin, Taken, FlowInv, Svrs
    <3>2. /\ where' = [where EXCEPT ![m.s] = "player"]
          /\ uid' = [uid EXCEPT ![m.s] = m.u] /\ byId' = [byId EXCEPT ![m.u] = m.s]
      BY <1>5, <2>1 DEF GameLogin
    <3> HIDE DEF m
    <3>3. ASSUME NEW u \in Uids, byId'[u] # None
          PROVE  where'[byId'[u]] = "player" /\ uid'[byId'[u]] = u
      <4>1. CASE u = m.u
        <5>1. byId'[u] = m.s
          BY <3>1, <3>2, <4>1 DEF TypeOK
        <5>2. QED
          BY <3>1, <3>2, <4>1, <5>1 DEF TypeOK
      <4>2. CASE u # m.u
        <5>1. byId'[u] = byId[u]
          BY <3>2, <4>2 DEF TypeOK
        <5>2. byId[u] \in Sessions /\ where[byId[u]] = "player" /\ uid[byId[u]] = u
          BY <3>3, <5>1 DEF NoDangling, TypeOK
        <5>3. byId[u] # m.s
          BY <2>1, <5>2 DEF m
        <5>4. QED
          BY <3>1, <3>2, <5>1, <5>2, <5>3 DEF TypeOK
      <4>3. QED
        BY <4>1, <4>2
    <3>4. QED
      BY <3>3 DEF NoDangling
  <2>2. CASE where[m.s] # "tmp"
    BY <1>2, <1>5, <2>2 DEF GameLogin
  <2>3. QED
    BY <2>1, <2>2
<1>6. ASSUME NEW s \in Sessions, Ask(s) \/ Leave(s) \/ RecvPlayerLogin(s) PROVE NoDangling'
  BY <1>2, <1>6 DEF Ask, Leave, RecvPlayerLogin, playerVars
<1>7. CASE LoginFailed \/ LoginOk \/ GameLoginRefused \/ EnterSvr \/ LoginSvr \/ GameSvr
  BY <1>2, <1>7 DEF LoginFailed, LoginOk, GameLoginRefused, EnterSvr, LoginSvr, GameSvr, playerVars
<1>8. ASSUME NEW v \in Svrs, SvrClosed(v) \/ SvrRegistered(v) \/ Break(v) PROVE NoDangling'
  BY <1>2, <1>8 DEF SvrClosed, SvrRegistered, Break, playerVars
<1>9. CASE UNCHANGED vars
  BY <1>2, <1>9 DEF vars, playerVars
<1>10. QED
  BY <1>3, <1>4, <1>5, <1>6, <1>7, <1>8, <1>9 DEF Next, FromServers

\* A player cannot come onto a game server that is gone: nothing arrives from
\* one.
LEMMA EvictedStep == TypeOK /\ FlowInv /\ PlayerInv /\ Evicted /\ [Next]_vars => Evicted'
<1> SUFFICES ASSUME TypeOK, FlowInv, PlayerInv, Evicted, [Next]_vars PROVE Evicted'
  OBVIOUS
<1>1. toSvr \in Flows /\ toGate \in Flows
  BY DEF TypeOK, Flows
<1>2. ASSUME UNCHANGED <<where, gsId, link>>, alive' \subseteq alive PROVE Evicted'
  BY <1>2 DEF Evicted
<1>3. ASSUME NEW s \in Sessions, Accept(s) \/ OnClose(s) PROVE Evicted'
  BY <1>3 DEF Accept, OnClose, svrVars, Evicted, TypeOK
<1>4. ASSUME NEW s \in Sessions, Ask(s) \/ Leave(s) \/ RecvPlayerLogin(s) PROVE Evicted'
  BY <1>2, <1>4 DEF Ask, Leave, RecvPlayerLogin, playerVars, svrVars
<1>5. CASE LoginFailed \/ LoginOk \/ GameLoginRefused \/ LoginSvr \/ GameSvr
  BY <1>2, <1>5 DEF LoginFailed, LoginOk, GameLoginRefused, LoginSvr, GameSvr, playerVars, clientVars
<1>6. CASE GameLogin \/ EnterSvr
  <2>1. toGate["gs"] # <<>> /\ link' = link
    BY <1>6 DEF GameLogin, EnterSvr, Pop
  <2>2. link'["gs"] # "down"
    BY <2>1 DEF PlayerInv, Svrs
  <2>3. QED
    BY <2>2 DEF Evicted
<1>7. ASSUME NEW v \in Svrs, SvrClosed(v) PROVE Evicted'
  <2>1. CASE v = "gs"
    BY <1>7, <2>1 DEF SvrClosed, playerVars, Evicted, TypeOK
  <2>2. CASE v # "gs"
    BY <1>7, <2>2 DEF SvrClosed, playerVars, Evicted, TypeOK
  <2>3. QED
    BY <2>1, <2>2
<1>8. ASSUME NEW v \in Svrs, SvrRegistered(v) \/ Break(v) PROVE Evicted'
  BY <1>8 DEF SvrRegistered, Break, playerVars, clientVars, Evicted, TypeOK, Svrs
<1>9. CASE UNCHANGED vars
  BY <1>2, <1>9 DEF vars, playerVars, clientVars, svrVars
<1>10. QED
  BY <1>3, <1>4, <1>5, <1>6, <1>7, <1>8, <1>9 DEF Next, FromServers

(* ------------------- Accounts the game server has online --------------- *)

\* The gate has a player of an account, or a message that will tell.
Told(u) ==
  \/ \E s \in Sessions : where[s] = "player" /\ uid[s] = u
  \/ \E m \in Elems(toGate["gs"]) : m.type = "game" /\ m.u = u
  \/ \E m \in Elems(toSvr["gs"]) : m.type = "offline" /\ m.u = u

\* A step that takes nothing from the players and from the game server's
\* messages keeps what is told.
LEMMA StaysTold ==
  ASSUME NEW u, Told(u),
         \A s \in Sessions : where[s] = "player" => where'[s] = "player" /\ uid'[s] = uid[s],
         Elems(toGate["gs"]) \subseteq Elems(toGate'["gs"]),
         Elems(toSvr["gs"]) \subseteq Elems(toSvr'["gs"])
  PROVE  Told(u)'
BY DEF Told

\* While no connection broke, the game server is told of every account that
\* goes offline, or the account is one of a player that left too early.
LEMMA OnlineStep ==
  TypeOK /\ FlowInv /\ PlayerInv /\ OnlineInv /\ [Next]_vars => OnlineInv'
<1> SUFFICES ASSUME TypeOK, FlowInv, PlayerInv, OnlineInv, [Next]_vars,
                    breaks' = 0, NEW u \in online' \ untold'
             PROVE  Told(u)'
  BY DEF OnlineInv, Told
<1>1. toSvr \in Flows /\ toGate \in Flows /\ "gs" \in Svrs /\ "login" \in Svrs
  BY DEF TypeOK, Flows, Svrs
<1>2. breaks \in Nat
  BY GateLoginAssumption DEF TypeOK
<1>3. ASSUME NEW v \in Svrs PROVE ~Break(v)
  BY <1>2 DEF Break
<1>4. breaks = 0
  BY <1>3 DEF Next, FromServers, Accept, Ask, Leave, RecvPlayerLogin, OnClose, LoginFailed,
     LoginOk, GameLogin, GameLoginRefused, EnterSvr, LoginSvr, GameSvr, SvrClosed, SvrRegistered,
     vars, svrVars
<1>5. \A v \in Svrs : link[v] = "up"
  BY <1>4 DEF PlayerInv
<1>6. ASSUME u \in online \ untold PROVE Told(u)
  BY <1>4, <1>6 DEF OnlineInv, Told
<1>7. ASSUME NEW s \in Sessions, Accept(s) PROVE Told(u)'
  <2>1. Told(u)
    BY <1>6, <1>7 DEF Accept, svrVars
  <2>2. QED
    BY <1>7, <2>1, StaysTold DEF Accept, svrVars, TypeOK
<1>8. ASSUME NEW s \in Sessions, Ask(s) \/ Leave(s) PROVE Told(u)'
  <2>1. Told(u)
    BY <1>6, <1>8 DEF Ask, Leave, svrVars
  <2>2. QED
    BY <1>8, <2>1, StaysTold DEF Ask, Leave, svrVars, playerVars
<1>9. ASSUME NEW s \in Sessions, RecvPlayerLogin(s) PROVE Told(u)'
  <2>1. Told(u)
    BY <1>6, <1>9 DEF RecvPlayerLogin
  <2>2. Notice("login", s, None) \in Flow
    BY NoticeType
  <2>3. Elems(toSvr["gs"]) \subseteq Elems(toSvr'["gs"])
    BY <1>1, <1>9, <2>2, Sent DEF RecvPlayerLogin, Gained
  <2>4. QED
    BY <1>9, <2>1, <2>3, StaysTold DEF RecvPlayerLogin
<1>10. ASSUME NEW s \in Sessions, OnClose(s) PROVE Told(u)'
  <2> DEFINE o == Notice("offline", s, uid[s])
  <2>1. u \in online \ untold
    BY <1>10 DEF OnClose
  <2>2. Told(u)
    BY <1>6, <2>1
  <2>3. o \in Flow /\ o.type = "offline" /\ o.u = uid[s]
    <3>1. uid[s] \in Uids \cup {None}
      BY DEF TypeOK
    <3>2. QED
      BY <3>1, NoticeType
  <2>4. UNCHANGED <<uid, toGate>> /\ where' = [where EXCEPT ![s] = "gone"]
    BY <1>10 DEF OnClose
  <2>5. Elems(toSvr["gs"]) \subseteq Elems(toSvr'["gs"])
    BY <1>1, <1>10, <2>3, Sent DEF OnClose, Gained
  <2>6. CASE where[s] = "player" /\ uid[s] = u
    <3>1. gsId[s]
      BY <1>10, <2>6 DEF OnClose
    <3>2. SendTo("gs", o)
      BY <1>10, <2>6, <3>1 DEF OnClose
    <3> HIDE DEF o
    <3>3. o \in Elems(toSvr'["gs"])
      BY <1>1, <1>5, <2>3, <3>2, Sent
    <3>4. QED
      BY <2>3, <2>6, <3>3 DEF Told
  <2>7. CASE ~(where[s] = "player" /\ uid[s] = u)
    <3>1. \A t \in Sessions : where[t] = "player" /\ uid[t] = u => where'[t] = "player" /\ uid'[t] = u
      BY <2>4, <2>7 DEF TypeOK
    <3>2. QED
      BY <2>2, <2>4, <2>5, <3>1 DEF Told
  <2>8. QED
    BY <2>6, <2>7
<1>11. CASE LoginFailed \/ LoginOk
  <2> DEFINE m == Head(toGate["login"])
             o == Notice("online", m.s, m.u)
  <2>1. Told(u)
    BY <1>6, <1>11 DEF LoginFailed, LoginOk
  <2>2. Taken(toGate, toGate', "login", m)
    BY <1>1, <1>11, Popped DEF LoginFailed, LoginOk
  <2>3. o \in Flow
    BY <2>2, MessageType, NoticeType DEF Taken
  <2>4. SendTo("gs", o) \/ toSvr' = toSvr
    BY <1>11 DEF LoginFailed, LoginOk
  <2> HIDE DEF m, o
  <2>5. Elems(toSvr["gs"]) \subseteq Elems(toSvr'["gs"])
    BY <1>1, <2>3, <2>4, Sent DEF Gained
  <2>6. Elems(toGate["gs"]) \subseteq Elems(toGate'["gs"])
    BY <1>1, <2>2 DEF Taken
  <2>7. QED
    BY <1>11, <2>1, <2>5, <2>6, StaysTold DEF LoginFailed, LoginOk
<1>12. CASE GameLogin
  <2> DEFINE m == Head(toGate["gs"])
             o == Notice("offline", m.s, m.u)
  <2>1. Told(u)
    BY <1>6, <1>12 DEF GameLogin
  <2>2. Taken(toGate, toGate', "gs", m)
    BY <1>1, <1>12, Popped DEF GameLogin
  <2>3. m.s \in Sessions /\ m.u \in Uids \cup {None}
    BY <2>2, MessageType DEF Taken
  <2>4. o \in Flow /\ o.type = "offline" /\ o.u = m.u
    BY <2>3, NoticeType
  <2>5. CASE where[m.s] = "tmp"
    <3>1. /\ where' = [where EXCEPT ![m.s] = "player"] /\ uid' = [uid EXCEPT ![m.s] = m.u]
          /\ toSvr' = toSvr
      BY <1>12, <2>5 DEF GameLogin
    <3> HIDE DEF m
    <3>2. where'[m.s] = "player" /\ uid'[m.s] = m.u
      BY <2>3, <3>1 DEF TypeOK
    <3>3. \A t \in Sessions : where[t] = "player" => where'[t] = "player" /\ uid'[t] = uid[t]
      BY <2>5, <3>1 DEF TypeOK, m
    <3>4. \A x \in Elems(toGate["gs"]) : x \in Elems(toGate'["gs"]) \/ x = m
      BY <1>1, <2>2 DEF Taken
    <3>5. QED
      BY <2>1, <2>3, <3>1, <3>2, <3>3, <3>4 DEF Told
  <2>6. CASE where[m.s] # "tmp"
    <3>1. UNCHANGED <<where, uid>> /\ SendTo("gs", o)
      BY <1>12, <2>6 DEF GameLogin
    <3> HIDE DEF m, o
    <3>2. o \in Elems(toSvr'["gs"]) /\ Elems(toSvr["gs"]) \subseteq Elems(toSvr'["gs"])
      BY <1>1, <1>5, <2>4, <3>1, Sent DEF Gained
    <3>3. \A x \in Elems(toGate["gs"]) : x \in Elems(toGate'["gs"]) \/ x = m
      BY <1>1, <2>2 DEF Taken
    <3>4. QED
      BY <2>1, <2>4, <3>1, <3>2, <3>3 DEF Told
  <2>7. QED
    BY <2>5, <2>6
<1>13. CASE GameLoginRefused
  <2> DEFINE m == Head(toGate["gs"])
             o == Notice("offline", m.s, m.u)
  <2>1. Told(u)
    BY <1>6, <1>13 DEF GameLoginRefused
  <2>2. Taken(toGate, toGate', "gs", m) /\ m.type = "refused"
    BY <1>1, <1>13, Popped DEF GameLoginRefused
  <2>3. m.s \in Sessions /\ m.u \in Uids \cup {None}
    BY <2>2, MessageType DEF Taken
  <2>4. o \in Flow
    BY <2>3, NoticeType
  <2>5. UNCHANGED <<where, uid>> /\ (SendTo("gs", o) \/ toSvr' = toSvr)
    BY <1>13 DEF GameLoginRefused
  <2> HIDE DEF m, o
  <2>6. Elems(toSvr["gs"]) \subseteq Elems(toSvr'["gs"])
    BY <1>1, <2>4, <2>5, Sent DEF Gained
  <2>7. \A x \in Elems(toGate["gs"]) : x \in Elems(toGate'["gs"]) \/ x = m
    BY <1>1, <2>2 DEF Taken
  <2>8. QED
    BY <2>1, <2>2, <2>5, <2>6, <2>7 DEF Told
<1>14. CASE EnterSvr
  <2> DEFINE m == Head(toGate["gs"])
  <2>1. Told(u)
    BY <1>6, <1>14 DEF EnterSvr
  <2>2. Taken(toGate, toGate', "gs", m) /\ m.type = "push"
    BY <1>1, <1>14, Popped DEF EnterSvr
  <2>3. UNCHANGED <<where, uid, toSvr>>
    BY <1>14 DEF EnterSvr
  <2> HIDE DEF m
  <2>4. \A x \in Elems(toGate["gs"]) : x \in Elems(toGate'["gs"]) \/ x = m
    BY <1>1, <2>2 DEF Taken
  <2>5. QED
    BY <2>1, <2>2, <2>3, <2>4 DEF Told
<1>15. CASE LoginSvr
  <2>1. Told(u)
    BY <1>6, <1>15 DEF LoginSvr
  <2>2. Taken(toSvr, toSvr', "login", Head(toSvr["login"]))
    BY <1>1, <1>15, TakeTakes DEF LoginSvr, Take
  <2>3. Head(toSvr["login"]).s \in Sessions
    BY <2>2, MessageType DEF Taken
  <2>4. PICK m \in Flow : Answer("login", <<m>>)
    BY <1>15, <2>3, LoginAnswer
  <2>5. Elems(toGate["gs"]) \subseteq Elems(toGate'["gs"])
    BY <1>1, <2>4, Answered DEF Gained
  <2>6. Elems(toSvr["gs"]) \subseteq Elems(toSvr'["gs"])
    BY <1>1, <2>2 DEF Taken
  <2>7. QED
    BY <1>15, <2>1, <2>5, <2>6, StaysTold DEF LoginSvr, playerVars
<1>16. CASE GameSvr
  <2> DEFINE m == Head(toSvr["gs"])
             a == Notice("game", m.s, m.u)
             b == Notice("push", m.s, m.u)
             d == Notice("refused", m.s, m.u)
  <2>1. Taken(toSvr, toSvr', "gs", m)
    BY <1>1, <1>16, TakeTakes DEF GameSvr, Take
  <2>2. m.s \in Sessions /\ m.u \in Uids \cup {None} /\ m.type \in {"online", "offline"}
    BY <1>1, <2>1, MessageType DEF Taken, FlowInv
  <2>3. a \in Flow /\ a.type = "game" /\ a.u = m.u /\ b \in Flow /\ d \in Flow
    BY <2>2, NoticeType
  <2>4. UNCHANGED <<where, uid, untold>>
    BY <1>16 DEF GameSvr, playerVars
  <2>5. \/ m.type = "online" /\ online' = online \cup {m.u} /\ Answer("gs", <<a, b>>)
        \/ m.type = "online" /\ online' = online /\ Answer("gs", <<d>>)
        \/ m.type = "offline" /\ online' = online \ {m.u} /\ toGate' = toGate
    BY <1>16 DEF GameSvr
  <2> HIDE DEF m, a, b, d
  <2>6. \A x \in Elems(toSvr["gs"]) : x \in Elems(toSvr'["gs"]) \/ x = m
    BY <1>1, <2>1 DEF Taken
  <2>7. CASE m.type = "online" /\ online' = online \cup {m.u} /\ Answer("gs", <<a, b>>)
    <3>1. PICK h \in Flows : /\ Gained(toGate, h, "gs", a) /\ Gained(h, toGate', "gs", b)
                             /\ a \in Elems(toGate'["gs"])
      BY <1>1, <1>5, <2>3, <2>7, AnsweredTwice
    <3>2. Elems(toGate["gs"]) \subseteq Elems(toGate'["gs"])
      BY <1>1, <3>1 DEF Gained
    <3>3. CASE u = m.u
      BY <2>3, <3>1, <3>3 DEF Told
    <3>4. CASE u # m.u
      <4>1. Told(u)
        BY <1>6, <2>4, <2>7, <3>4
      <4>2. QED
        BY <2>4, <2>6, <2>7, <3>2, <4>1 DEF Told
    <3>5. QED
      BY <3>3, <3>4
  <2>8. CASE m.type = "offline" /\ online' = online \ {m.u} /\ toGate' = toGate
    <3>1. u # m.u /\ Told(u)
      BY <1>6, <2>4, <2>8
    <3>2. QED
      BY <2>4, <2>6, <2>8, <3>1 DEF Told
  <2>9. CASE m.type = "online" /\ online' = online /\ Answer("gs", <<d>>)
    <3>1. Told(u)
      BY <1>6, <2>4, <2>9
    <3>2. Elems(toGate["gs"]) \subseteq Elems(toGate'["gs"])
      BY <1>1, <2>3, <2>9, Answered DEF Gained
    <3>3. QED
      BY <2>4, <2>6, <2>9, <3>1, <3>2 DEF Told
  <2>10. QED
    BY <2>5, <2>7, <2>8, <2>9
<1>17. ASSUME NEW v \in Svrs, SvrClosed(v) \/ SvrRegistered(v) PROVE FALSE
  BY <1>5, <1>17 DEF SvrClosed, SvrRegistered
<1>18. CASE UNCHANGED vars
  <2>1. Told(u)
    BY <1>6, <1>18 DEF vars, svrVars
  <2>2. QED
    BY <1>18, <2>1, StaysTold DEF vars, svrVars, playerVars
<1>19. QED
  BY <1>3, <1>7, <1>8, <1>9, <1>10, <1>11, <1>12, <1>13, <1>14, <1>15, <1>16, <1>17, <1>18
     DEF Next, FromServers

(* ------------------------------ The theorems --------------------------- *)

LEMMA InvariantInit == Init => IInv
<1> SUFFICES ASSUME Init PROVE IInv
  OBVIOUS
<1>1. TypeOK
  BY TypeInit
<1>2. \A v \in Svrs : Elems(toSvr[v]) = {} /\ Elems(toGate[v]) = {}
  BY ElemsEmpty DEF Init
<1>3. FlowInv
  BY <1>2 DEF FlowInv, Svrs
<1>4. PlayerInv
  BY DEF Init, PlayerInv
<1>5. ASSUME NEW s \in Sessions PROVE InFlight(s) = 0
  <2>1. \A S : Count(<<>>, S) = 0
    BY CountEmpty
  <2>2. QED
    BY <2>1 DEF Init, InFlight, Svrs
<1>6. OneLogin
  BY <1>5 DEF OneLogin
<1>7. NoDeadPlayer
  BY DEF Init, NoDeadPlayer, NoDangling, Evicted
<1>8. OnlineInv
  BY DEF Init, OnlineInv
<1>9. QED
  BY <1>1, <1>3, <1>4, <1>6, <1>7, <1>8 DEF IInv

\* Everything above holds in every reachable state.
LEMMA InductiveInvariant == Spec => []IInv
<1>1. IInv /\ [Next]_vars => IInv'
  <2> SUFFICES ASSUME IInv, [Next]_vars PROVE IInv'
    OBVIOUS
  <2>1. TypeOK /\ FlowInv /\ PlayerInv /\ OneLogin /\ NoDangling /\ Evicted /\ OnlineInv
    BY DEF IInv, NoDeadPlayer
  <2>2. TypeOK' /\ FlowInv' /\ PlayerInv' /\ NoDangling' /\ Evicted' /\ OnlineInv'
    BY <2>1, TypeStep, FlowStep, PlayerStep, DanglingStep, EvictedStep, OnlineStep
  <2>3. ASSUME NEW t \in Sessions PROVE OneLoginOf(t)'
    <3>1. OneLoginOf(t)
      BY <2>1 DEF OneLogin, OneLoginOf
    <3>2. QED
      BY <2>1, <2>2, <3>1, OneLoginStep
  <2>4. OneLogin'
    BY <2>3 DEF OneLogin, OneLoginOf
  <2>5. QED
    BY <2>2, <2>4 DEF IInv, NoDeadPlayer
<1>2. QED
  BY InvariantInit, <1>1, PTL DEF Spec

\* The types of GateLogin.tla: a player is in m_player_ exactly while its state
\* is online (mgr.go:216-224).
THEOREM TypeCorrect == Spec => []TypeOK
<1>1. IInv => TypeOK
  BY DEF IInv
<1>2. QED
  BY InductiveInvariant, <1>1, PTL

\* A session has at most one login under way, and has one only while its player
\* is logging in (mgr.go:138, 166, 180, 191, 211), for any clients, accounts,
\* tries and broken connections.  Two sessions may log in with one account.
THEOREM OneLoginAtATime == Spec => []OneLogin
<1>1. IInv => OneLogin
  BY DEF IInv
<1>2. QED
  BY InductiveInvariant, <1>1, PTL

\* The gate holds no player whose client, or whose game server, is gone
\* (mgr.go:77-111, 221, 244-274).
THEOREM NoPlayerIsLeft == Spec => []NoDeadPlayer
<1>1. IInv => NoDeadPlayer
  BY DEF IInv
<1>2. QED
  BY InductiveInvariant, <1>1, PTL

\* While no connection between the servers breaks, every account that went
\* offline is told to the game server once all is quiet, unless its player left
\* before the game server was known (mgr.go:101-111, 191-200).
THEOREM OfflineIsTold == Spec => []OfflineTold
<1>1. IInv => OfflineTold
  <2> SUFFICES ASSUME IInv, Quiet, breaks = 0, NEW u \in online \ untold
               PROVE  \E s \in Sessions : where[s] = "player" /\ uid[s] = u
    BY DEF OfflineTold
  <2>1. Elems(toGate["gs"]) = {} /\ Elems(toSvr["gs"]) = {}
    BY ElemsEmpty DEF Quiet, Svrs
  <2>2. QED
    BY <2>1 DEF IInv, OnlineInv
<1>2. QED
  BY InductiveInvariant, <1>1, PTL

(* ------------------- Selectors: the search in a ring ------------------- *)

\* The spots of a ring are in order.
Ordered(r) == \A i, j \in 1..Len(r) : i < j => r[i].spotValue <= r[j].spotValue

\* One round of sort.Search, and what holds of its bounds after k rounds.
Round(r, key, x) ==
  LET h == (x[1] + x[2]) \div 2
  IN  IF x[1] >= x[2] THEN <<x[1], x[2]>>
      ELSE IF r[h+1].spotValue >= key THEN <<x[1], h>> ELSE <<h+1, x[2]>>
Around(r, key, k, x) ==
  /\ x[1] <= x[2] /\ x[2] - x[1] <= Len(r) - k
  /\ Ordered(r) =>
       /\ \A a \in 1..x[1] : r[a].spotValue < key
       /\ \A a \in (x[2]+1)..Len(r) : r[a].spotValue >= key

\* A round leaves the bounds between 0 and the length of the ring, and the
\* spot that is looked for between them.
LEMMA RoundNarrows ==
  ASSUME NEW ns, NEW r \in Seq([nodeKey : ns, spotValue : Nat]), NEW key \in Nat,
         NEW x \in (0..Len(r)) \X (0..Len(r))
  PROVE  /\ Round(r, key, x) \in (0..Len(r)) \X (0..Len(r))
         /\ \A k \in 0..Len(r) : k < Len(r) /\ Around(r, key, k, x) => Around(r, key, k+1, Round(r, key, x))
<1> DEFINE n == Len(r)
           h == (x[1] + x[2]) \div 2
<1>1. n \in Nat /\ \A a \in 1..n : r[a].spotValue \in Nat
  <2>1. n \in Nat /\ \A a \in 1..n : r[a] \in [nodeKey : ns, spotValue : Nat]
    BY LenProperties, ElementOfSeq
  <2>2. QED
    BY <2>1
<1>2. x = <<x[1], x[2]>> /\ x[1] \in 0..n /\ x[2] \in 0..n
  OBVIOUS
<1>3. CASE x[1] >= x[2]
  <2>1. Round(r, key, x) = x
    BY <1>2, <1>3 DEF Round
  <2>2. ASSUME NEW k \in 0..n, k < n, Around(r, key, k, x) PROVE Around(r, key, k+1, x)
    <3>1. x[1] <= x[2]
      BY <2>2 DEF Around
    <3>2. x[2] - x[1] <= n - (k + 1)
      BY <1>1, <1>2, <1>3, <2>2, <3>1
    <3>3. QED
      BY <2>2, <3>2 DEF Around
  <2>3. QED
    BY <2>1, <2>2
<1>4. CASE x[1] < x[2]
  <2>1. h \in Nat /\ x[1] <= h /\ h < x[2] /\ h + 1 \in 1..n /\ h \in 0..n /\ h + 1 \in 0..n
    BY <1>1, <1>2, <1>4
  <2> HIDE DEF h
  <2>2. r[h+1].spotValue \in Nat
    BY <1>1, <2>1
  <2>3. CASE r[h+1].spotValue >= key
    <3>1. Round(r, key, x) = <<x[1], h>>
      BY <1>2, <1>4, <2>3 DEF Round, h
    <3>2. ASSUME NEW k \in 0..n, k < n, Around(r, key, k, x) PROVE Around(r, key, k+1, <<x[1], h>>)
      <4>1. x[2] - x[1] <= n - k
        BY <3>2 DEF Around
      <4>2. x[1] <= h /\ h - x[1] <= n - (k + 1)
        <5>1. \A i, j, m, l \in Nat : i <= m /\ m < j /\ j - i <= n - l => m - i <= n - (l + 1)
          BY <1>1
        <5>2. x[1] \in Nat /\ x[2] \in Nat /\ k \in Nat
          BY <1>1, <1>2
        <5>3. QED
          BY <2>1, <4>1, <5>1, <5>2
      <4>3. ASSUME Ordered(r) PROVE /\ \A a \in 1..x[1] : r[a].spotValue < key
                                    /\ \A a \in (h+1)..n : r[a].spotValue >= key
        <5>1. \A a \in 1..x[1] : r[a].spotValue < key
          BY <3>2, <4>3 DEF Around
        <5>2. ASSUME NEW a \in (h+1)..n PROVE r[a].spotValue >= key
          <6>1. a \in 1..n /\ r[a].spotValue \in Nat
            BY <1>1, <2>1, <5>2
          <6>2. a = h + 1 \/ h + 1 < a
            BY <1>1, <2>1, <5>2
          <6>3. CASE h + 1 < a
            <7>1. r[h+1].spotValue <= r[a].spotValue
              BY <2>1, <4>3, <6>1, <6>3 DEF Ordered
            <7>2. \A y, z \in Nat : y >= key /\ y <= z => z >= key
              OBVIOUS
            <7>3. QED
              BY <2>2, <2>3, <6>1, <7>1, <7>2
          <6>4. QED
            BY <2>3, <6>2, <6>3
        <5>3. QED
          BY <5>1, <5>2
      <4> DEFINE y == <<x[1], h>>
      <4>4. y[1] = x[1] /\ y[2] = h
        OBVIOUS
      <4> HIDE DEF y
      <4>5. Around(r, key, k+1, y)
        BY <4>2, <4>3, <4>4 DEF Around
      <4>6. QED
        BY <4>5 DEF y
    <3>3. <<x[1], h>> \in (0..n) \X (0..n)
      BY <1>2, <2>1
    <3>4. QED
      BY <3>1, <3>2, <3>3
  <2>4. CASE ~(r[h+1].spotValue >= key)
    <3>1. Round(r, key, x) = <<h+1, x[2]>>
      BY <1>2, <1>4, <2>4 DEF Round, h
    <3>2. ASSUME NEW k \in 0..n, k < n, Around(r, key, k, x) PROVE Around(r, key, k+1, <<h+1, x[2]>>)
      <4>1. x[2] - x[1] <= n - k
        BY <3>2 DEF Around
      <4>2. h + 1 <= x[2] /\ x[2] - (h + 1) <= n - (k + 1)
        <5>1. \A i, j, m, l \in Nat : i <= m /\ m < j /\ j - i <= n - l
                                      => m + 1 <= j /\ j - (m + 1) <= n - (l + 1)
          BY <1>1
        <5>2. x[1] \in Nat /\ x[2] \in Nat /\ k \in Nat
          BY <1>1, <1>2
        <5>3. QED
          BY <2>1, <4>1, <5>1, <5>2
      <4>3. ASSUME Ordered(r) PROVE /\ \A a \in 1..(h+1) : r[a].spotValue < key
                                    /\ \A a \in (x[2]+1)..n : r[a].spotValue >= key
        <5>1. \A a \in (x[2]+1)..n : r[a].spotValue >= key
          BY <3>2, <4>3 DEF Around
        <5>2. ASSUME NEW a \in 1..(h+1) PROVE r[a].spotValue < key
          <6>1. a \in 1..n /\ r[a].spotValue \in Nat
            BY <1>1, <2>1, <5>2
          <6>2. a = h + 1 \/ a < h + 1
            BY <1>1, <2>1, <5>2
          <6>3. CASE a < h + 1
            <7>1. r[a].spotValue <= r[h+1].spotValue
              BY <2>1, <4>3, <6>1, <6>3 DEF Ordered
            <7>2. \A y, z \in Nat : ~(y >= key) /\ z <= y => z < key
              OBVIOUS
            <7>3. QED
              BY <2>2, <2>4, <6>1, <7>1, <7>2
          <6>4. QED
            BY <2>2, <2>4, <6>2, <6>3
        <5>3. QED
          BY <5>1, <5>2
      <4> DEFINE y == <<h+1, x[2]>>
      <4>4. y[1] = h + 1 /\ y[2] = x[2]
        OBVIOUS
      <4> HIDE DEF y
      <4>5. Around(r, key, k+1, y)
        BY <4>2, <4>3, <4>4 DEF Around
      <4>6. QED
        BY <4>5 DEF y
    <3>3. <<h+1, x[2]>> \in (0..n) \X (0..n)
      BY <1>2, <2>1
    <3>4. QED
      BY <3>1, <3>2, <3>3
  <2>5. QED
    BY <2>3, <2>4
<1>5. QED
  BY <1>2, <1>3, <1>4

\* sort.Search finds the first spot that is not below the key, and always some
\* place of the ring or the one behind it.
LEMMA SearchFinds ==
  ASSUME NEW ns, NEW r \in Seq([nodeKey : ns, spotValue : Nat]), NEW key \in Nat
  PROVE  /\ Search(r, key) \in 0..Len(r)
         /\ Ordered(r) => /\ \A a \in 1..Search(r, key) : r[a].spotValue < key
                          /\ \A a \in (Search(r, key)+1)..Len(r) : r[a].spotValue >= key
<1> DEFINE n == Len(r)
           V == (0..n) \X (0..n)
           first == <<0, n>>
           step == [x \in (0..n) \X V |-> Round(r, key, x[2])]
           Loop(f) == [k \in 0..n |-> IF k = 0 THEN <<0, n>>
                        ELSE LET i == f[k-1][1]
                                 j == f[k-1][2]
                                 h == (i + j) \div 2
                             IN  IF i >= j THEN <<i, j>>
                                 ELSE IF r[h+1].spotValue >= key THEN <<i, h>> ELSE <<h+1, j>>]
           loop == CHOOSE f : f = Loop(f)
<1>1. n \in Nat
  BY LenProperties
<1>2. first \in V
  BY <1>1
<1>3. \A k \in 0..n, x \in V : step[<<k, x>>] = Round(r, key, x)
  OBVIOUS
<1>4. \A x \in V : Round(r, key, x) \in V
  BY RoundNarrows
<1> HIDE DEF step, first
<1>5. StepsIn(step, 0, n, V)
  <2> HIDE DEF V
  <2>1. QED
    BY <1>3, <1>4 DEF StepsIn
<1>6. PICK g : Recursive(g, step, 0, n, V, first)
  <2> HIDE DEF V, n
  <2>1. 0 \in Nat /\ 0 <= n
    BY <1>1
  <2>2. QED
    BY <1>1, <1>2, <1>5, <2>1, RecursionExists
<1>7. g \in [0..n -> V] /\ g[0] = first /\ \A i \in 0..n : i # 0 => g[i] = step[<<i, g[i-1]>>]
  BY <1>6 DEF Recursive
<1>8. g = Loop(g)
  <2>1. ASSUME NEW k \in 0..n PROVE g[k] = Loop(g)[k]
    <3>1. CASE k = 0
      BY <1>1, <1>7, <3>1 DEF first
    <3>2. CASE k # 0
      <4>1. k - 1 \in 0..n
        BY <1>1, <3>2
      <4>2. g[k-1] \in V
        <5> HIDE DEF V
        <5>1. QED
          BY <1>7, <4>1
      <4>3. g[k] = Round(r, key, g[k-1])
        <5>1. g[k] = step[<<k, g[k-1]>>]
          BY <1>7, <3>2
        <5> HIDE DEF V
        <5>2. QED
          BY <1>3, <4>2, <5>1
      <4>4. Loop(g)[k] = Round(r, key, g[k-1])
        BY <3>2 DEF Round
      <4>5. QED
        BY <4>3, <4>4
    <3>3. QED
      BY <3>1, <3>2
  <2>2. DOMAIN g = 0..n /\ g = [k \in 0..n |-> g[k]]
    <3> HIDE DEF V
    <3>1. QED
      BY <1>7
  <2>3. [k \in 0..n |-> g[k]] = [k \in 0..n |-> Loop(g)[k]]
    <3> HIDE DEF Loop
    <3>1. QED
      BY <2>1
  <2>4. Loop(g) = [k \in 0..n |-> Loop(g)[k]]
    OBVIOUS
  <2> HIDE DEF Loop
  <2>5. QED
    BY <2>2, <2>3, <2>4
<1>9. loop = Loop(loop)
  <2> HIDE DEF Loop
  <2>1. QED
    BY <1>8, Zenon
<1>10. Search(r, key) = loop[n][1]
  BY Zenon DEF Search
<1> HIDE DEF loop
<1>11. loop[0] = <<0, n>> /\ \A k \in 0..n : k # 0 => loop[k] = Round(r, key, loop[k-1])
  <2>1. \A k \in 0..n : loop[k] = Loop(loop)[k]
    <3> HIDE DEF Loop
    <3>1. QED
      BY <1>9, Zenon
  <2>2. ASSUME NEW k \in 0..n PROVE Loop(loop)[k] = IF k = 0 THEN <<0, n>> ELSE Round(r, key, loop[k-1])
    BY DEF Round
  <2> HIDE DEF Loop
  <2>3. QED
    BY <1>1, <2>1, <2>2
<1> HIDE DEF Loop
<1> DEFINE P == {k \in 0..n : loop[k] \in V /\ Around(r, key, k, loop[k])}
<1>12. 0 \in P
  <2>1. loop[0] \in V /\ loop[0][1] = 0 /\ loop[0][2] = n
    BY <1>1, <1>11
  <2>2. Around(r, key, 0, loop[0])
    BY <1>1, <2>1 DEF Around
  <2>3. QED
    BY <1>1, <2>1, <2>2
<1>13. ASSUME NEW k \in 0..n, k \in P, k < n PROVE k + 1 \in P
  <2>1. loop[k] \in V /\ Around(r, key, k, loop[k])
    BY <1>13
  <2>2. k + 1 \in 0..n /\ k + 1 # 0 /\ (k + 1) - 1 = k
    BY <1>1, <1>13
  <2>3. loop[k+1] = Round(r, key, loop[k])
    BY <1>11, <2>2
  <2> DEFINE x == loop[k]
  <2>4. x \in V /\ Around(r, key, k, x)
    BY <2>1
  <2> HIDE DEF x
  <2>5. Round(r, key, x) \in V /\ Around(r, key, k+1, Round(r, key, x))
    BY <1>13, <2>4, RoundNarrows
  <2> HIDE DEF V
  <2>6. QED
    BY <2>2, <2>3, <2>5 DEF x
<1>14. n \in P
  <2> HIDE DEF P
  <2>1. \A k \in 0..n : k \in P /\ k < n => k + 1 \in P
    BY <1>13
  <2>2. \A k \in 0..n : k \in P
    BY <1>1, <1>12, <2>1, IntervalInduction
  <2>3. QED
    BY <1>1, <2>2
<1>15. loop[n] \in V /\ Around(r, key, n, loop[n])
  BY <1>14
<1> DEFINE at == loop[n][1]
           up == loop[n][2]
<1>16. at \in 0..n /\ up \in 0..n
  BY <1>15
<1>17. at <= up /\ up - at <= n - n
  BY <1>15 DEF Around
<1>18. up = at
  <2> HIDE DEF at, up, n
  <2>1. QED
    BY <1>1, <1>16, <1>17
<1>19. Ordered(r) => /\ \A a \in 1..at : r[a].spotValue < key
                     /\ \A a \in (up+1)..n : r[a].spotValue >= key
  BY <1>15 DEF Around
<1> HIDE DEF at, up
<1>20. QED
  BY <1>10, <1>16, <1>18, <1>19 DEF at

(* ------------------- Selectors: the order of a ring -------------------- *)

\* A function that takes different values on as many arguments as there are
\* values takes them all.
LEMMA TakesAll ==
  ASSUME NEW S, NEW T, IsFiniteSet(S), IsFiniteSet(T), Cardinality(S) = Cardinality(T),
         NEW f \in [S -> T], \A a, b \in S : a # b => f[a] # f[b]
  PROVE  \A t \in T : \E s \in S : f[s] = t
<1>1. f \in Injection(S, T)
  BY DEF Injection, IsInjective
<1>2. f \in Surjection(S, T)
  BY <1>1, FS_Injection
<1>3. QED
  BY <1>2 DEF Surjection

\* The spots of a ring, or of a walk, that have numbers.
Spotted(w, n) == DOMAIN w = 1..n /\ \A a \in 1..n : w[a].spotValue \in Nat

\* Every spot has a rank of its own, and every rank a spot.
LEMMA Ranks ==
  ASSUME NEW n \in Nat, NEW w, Spotted(w, n)
  PROVE  /\ \A a \in 1..n : Rank(w, a) \in 0..(n - 1)
         /\ \A a, b \in 1..n : Less(w, a, b) => Rank(w, a) < Rank(w, b)
         /\ \A k \in 0..(n - 1) : \E a \in 1..n : Rank(w, a) = k
<1> DEFINE B(a) == {b \in 1..n : Less(w, b, a)}
<1>1. \A a \in 1..n : Rank(w, a) = Cardinality(B(a))
  BY DEF Rank, Spotted
<1>2. IsFiniteSet(1..n) /\ Cardinality(1..n) = n
  BY FS_Interval
<1>3. \A a \in 1..n : w[a].spotValue \in Nat
  BY DEF Spotted
<1>4. ASSUME NEW a \in 1..n
      PROVE  IsFiniteSet(B(a)) /\ Cardinality(B(a)) \in Nat /\ Cardinality(B(a)) <= n - 1
  <2>1. a \notin B(a)
    BY <1>3 DEF Less
  <2>2. B(a) \in SUBSET ((1..n) \ {a})
    BY <2>1
  <2>3. IsFiniteSet((1..n) \ {a}) /\ Cardinality((1..n) \ {a}) = n - 1
    BY <1>2, FS_RemoveElement
  <2> DEFINE C == (1..n) \ {a}
  <2>4. IsFiniteSet(C) /\ Cardinality(C) = n - 1 /\ B(a) \in SUBSET C
    BY <2>2, <2>3
  <2> HIDE DEF C, B
  <2>5. IsFiniteSet(B(a)) /\ Cardinality(B(a)) <= Cardinality(C)
    BY <2>4, FS_Subset
  <2>6. QED
    BY <2>4, <2>5, FS_CardinalityType
<1>5. ASSUME NEW a \in 1..n, NEW b \in 1..n, Less(w, a, b)
      PROVE  Cardinality(B(a)) < Cardinality(B(b))
  <2>1. a \in B(b) /\ a \notin B(a)
    BY <1>3, <1>5 DEF Less
  <2>2. ASSUME NEW c \in B(a) PROVE c \in B(b)
    <3>1. c \in 1..n /\ Less(w, c, a)
      OBVIOUS
    <3>2. Less(w, c, b)
      BY <1>3, <1>5, <3>1 DEF Less
    <3>3. QED
      BY <3>1, <3>2
  <2>3. B(a) \in SUBSET (B(b) \ {a})
    BY <2>1, <2>2
  <2> HIDE DEF B
  <2>4. IsFiniteSet(B(b) \ {a}) /\ Cardinality(B(b) \ {a}) = Cardinality(B(b)) - 1
    BY <1>4, <2>1, FS_RemoveElement
  <2>5. Cardinality(B(a)) <= Cardinality(B(b) \ {a})
    BY <2>3, <2>4, FS_Subset
  <2>6. QED
    BY <1>4, <2>4, <2>5
<1> HIDE DEF B
<1>6. \A a \in 1..n : Rank(w, a) \in 0..(n - 1)
  BY <1>1, <1>4
<1>7. \A a, b \in 1..n : Less(w, a, b) => Rank(w, a) < Rank(w, b)
  BY <1>1, <1>5
<1> DEFINE f == [a \in 1..n |-> Rank(w, a)]
           R == 0..(n - 1)
<1>8. \A k \in R : \E a \in 1..n : f[a] = k
  <2>1. f \in [1..n -> R]
    BY <1>6
  <2>2. ASSUME NEW a \in 1..n, NEW b \in 1..n, a # b PROVE f[a] # f[b]
    <3>1. Less(w, a, b) \/ Less(w, b, a)
      BY <1>3, <2>2 DEF Less
    <3>2. f[a] < f[b] \/ f[b] < f[a]
      BY <1>7, <3>1
    <3>3. f[a] \in Nat /\ f[b] \in Nat
      BY <1>6
    <3>4. QED
      BY <3>2, <3>3
  <2>3. IsFiniteSet(R) /\ Cardinality(R) = n
    <3>1. 0 \in Int /\ n - 1 \in Int
      OBVIOUS
    <3>2. IsFiniteSet(0..(n-1)) /\ Cardinality(0..(n-1)) = IF 0 > n - 1 THEN 0 ELSE n - 1 - 0 + 1
      BY <3>1, FS_Interval
    <3>3. QED
      BY <3>2
  <2> HIDE DEF f, R
  <2>4. QED
    BY <1>2, <2>1, <2>2, <2>3, TakesAll
<1>9. QED
  BY <1>6, <1>7, <1>8

\* Sorting leaves the spots as they are and puts them in order.
LEMMA SortedIs ==
  ASSUME NEW n \in Nat, NEW w, Spotted(w, n)
  PROVE  /\ DOMAIN Sorted(w) = 1..n
         /\ \A k \in 1..n : \E a \in 1..n : Sorted(w)[k] = w[a]
         /\ \A a \in 1..n : \E k \in 1..n : Sorted(w)[k] = w[a]
         /\ \A k, l \in 1..n : k < l => Sorted(w)[k].spotValue <= Sorted(w)[l].spotValue
<1> DEFINE Nth(k) == CHOOSE a \in 1..n : Rank(w, a) = k - 1
<1>1. DOMAIN w = 1..n /\ \A a \in 1..n : w[a].spotValue \in Nat
  BY DEF Spotted
<1>2. /\ \A a \in 1..n : Rank(w, a) \in 0..(n - 1)
      /\ \A a, b \in 1..n : Less(w, a, b) => Rank(w, a) < Rank(w, b)
      /\ \A k \in 0..(n - 1) : \E a \in 1..n : Rank(w, a) = k
  BY Ranks
<1>3. Sorted(w) = [k \in 1..n |-> w[Nth(k)]]
  BY <1>1 DEF Sorted
<1>4. ASSUME NEW k \in 1..n PROVE Nth(k) \in 1..n /\ Rank(w, Nth(k)) = k - 1
  <2>1. k - 1 \in 0..(n - 1)
    OBVIOUS
  <2>2. \E a \in 1..n : Rank(w, a) = k - 1
    BY <1>2, <2>1
  <2>3. QED
    BY <2>2
<1> HIDE DEF Nth
<1>5. DOMAIN Sorted(w) = 1..n /\ \A k \in 1..n : Sorted(w)[k] = w[Nth(k)]
  BY <1>3
<1>6. ASSUME NEW a \in 1..n PROVE \E k \in 1..n : Sorted(w)[k] = w[a]
  <2> DEFINE k == Rank(w, a) + 1
  <2>1. k \in 1..n /\ k - 1 = Rank(w, a)
    BY <1>2
  <2>2. Nth(k) \in 1..n /\ Rank(w, Nth(k)) = Rank(w, a)
    BY <1>4, <2>1
  <2>3. Nth(k) = a
    <3>1. ~Less(w, Nth(k), a) /\ ~Less(w, a, Nth(k))
      BY <1>2, <2>2
    <3> DEFINE c == Nth(k)
    <3>2. c \in 1..n /\ ~Less(w, c, a) /\ ~Less(w, a, c)
      BY <2>2, <3>1
    <3> HIDE DEF c
    <3>3. c = a
      BY <1>1, <3>2 DEF Less
    <3>4. QED
      BY <3>3 DEF c
  <2> HIDE DEF k
  <2>4. QED
    BY <1>5, <2>1, <2>3
<1>7. ASSUME NEW k \in 1..n, NEW l \in 1..n, k < l
      PROVE  Sorted(w)[k].spotValue <= Sorted(w)[l].spotValue
  <2>1. Nth(k) \in 1..n /\ Nth(l) \in 1..n /\ Rank(w, Nth(k)) = k - 1 /\ Rank(w, Nth(l)) = l - 1
    BY <1>4
  <2>2. ~Less(w, Nth(l), Nth(k))
    BY <1>2, <1>7, <2>1
  <2> DEFINE c == Nth(k)
             d == Nth(l)
  <2>3. c \in 1..n /\ d \in 1..n /\ ~Less(w, d, c)
    BY <2>1, <2>2
  <2> HIDE DEF c, d
  <2>4. w[c].spotValue <= w[d].spotValue
    BY <1>1, <2>3 DEF Less
  <2>5. QED
    BY <1>5, <2>4 DEF c, d
<1>8. QED
  BY <1>4, <1>5, <1>6, <1>7

(* ----------------- Selectors: the ring of a set of nodes --------------- *)

\* A walk, or a part of it: spots of the nodes only, of some of them at least.
SpotsOnly(h, ns, r) ==
  /\ r \in Seq([nodeKey : ns, spotValue : Nat]) /\ (ns # {} => r # <<>>)
  /\ \A a \in 1..Len(r) : r[a].spotValue \in Values(h, r[a].nodeKey)

\* All spots of the nodes.
AllSpots(h, ns, r) ==
  \A n \in ns : \A v \in Values(h, n) : \E a \in 1..Len(r) : r[a].nodeKey = n /\ r[a].spotValue = v

\* The spots m of the nodes q, of V spots each, have places one behind the other.
LEMMA PlaceOf ==
  ASSUME NEW V \in Nat, V >= 1, NEW c \in Nat, NEW q \in Nat, NEW m \in Nat, q < c, m < V,
         NEW k, k = V * q + m + 1
  PROVE  k \in 1..(V * c) /\ (k - 1) \div V = q /\ (k - 1) % V = m
<1> DEFINE p == V * q
           u == p + m
<1>1. p \in Nat /\ V * (q + 1) = p + V /\ u \in Nat /\ (u + 1) - 1 = u
  BY ProductNat, TimesOver
<1>2. u \div V = q /\ u % V = m
  BY <1>1, DivModIs
<1>3. V * (q + 1) <= V * c /\ V * c \in Nat
  <2> DEFINE e == c - (q + 1)
  <2>1. e \in Nat /\ c = (q + 1) + e /\ q + 1 \in Nat
    OBVIOUS
  <2> HIDE DEF e
  <2>2. V * ((q + 1) + e) = V * (q + 1) + V * e /\ V * e \in Nat /\ V * (q + 1) \in Nat
    BY <2>1, ProductNat, TimesOver
  <2> DEFINE x == V * (q + 1)
             y == V * e
             z == V * c
  <2>3. x \in Nat /\ y \in Nat /\ z = x + y
    BY <2>1, <2>2
  <2> HIDE DEF x, y, z
  <2>4. x <= z /\ z \in Nat
    BY <2>3
  <2>5. QED
    BY <2>4 DEF x, z
<1> DEFINE t == V * c
<1>4. p + V <= t /\ t \in Nat
  BY <1>1, <1>3
<1> HIDE DEF p, t
<1>5. u + 1 \in 1..t
  BY <1>1, <1>4
<1> HIDE DEF u
<1>6. ((u + 1) - 1) \div V = q /\ ((u + 1) - 1) % V = m
  BY <1>1, <1>2
<1>7. QED
  <2>1. k = u + 1
    BY DEF u, p
  <2> HIDE DEF u
  <2>2. QED
    BY <1>5, <1>6, <2>1 DEF t

\* The node and the spot at a place.
LEMMA NodeAt ==
  ASSUME NEW V \in Nat, V >= 1, NEW c \in Nat, NEW k \in 1..(V * c)
  PROVE  ((k - 1) \div V) + 1 \in 1..c /\ ((k - 1) % V) + 1 \in 1..V
<1> DEFINE q == (k - 1) \div V
           m == (k - 1) % V
           t == V * c
<1>1. t \in Nat
  BY ProductNat
<1>2. k - 1 \in Nat /\ k - 1 < t
  <2> HIDE DEF t
  <2>1. k \in 1..t
    BY DEF t
  <2>2. QED
    BY <1>1, <2>1
<1>3. q \in Nat /\ m \in Nat /\ m < V /\ k - 1 = V * q + m
  BY <1>2, Division
<1> HIDE DEF q, m
<1>4. ASSUME c <= q PROVE FALSE
  <2> DEFINE e == q - c
  <2>1. e \in Nat /\ q = c + e
    BY <1>3, <1>4
  <2> HIDE DEF e
  <2>2. V * (c + e) = V * c + V * e /\ V * e \in Nat
    BY <2>1, ProductNat, TimesOver
  <2> DEFINE p == V * q
             x == V * e
  <2>3. p = t + x /\ x \in Nat /\ k - 1 = p + m
    BY <1>3, <2>1, <2>2
  <2> HIDE DEF p, x, t
  <2>4. QED
    BY <1>1, <1>2, <1>3, <2>3
<1>5. q + 1 \in 1..c /\ m + 1 \in 1..V
  BY <1>3, <1>4
<1>6. QED
  BY <1>5 DEF q, m

\* A walk meets every node.
LEMMA OrderMeets ==
  ASSUME NEW ns, IsFiniteSet(ns), NEW o \in Orders(ns), NEW n \in ns
  PROVE  \E j \in 1..Cardinality(ns) : o[j] = n
<1> DEFINE D == 1..Cardinality(ns)
<1>1. Cardinality(ns) \in Nat
  BY FS_CardinalityType
<1>2. IsFiniteSet(D) /\ Cardinality(D) = Cardinality(ns)
  BY <1>1, FS_Interval
<1>3. o \in [D -> ns] /\ \A i, j \in D : i # j => o[i] # o[j]
  BY DEF Orders
<1> HIDE DEF D
<1>4. \A t \in ns : \E j \in D : o[j] = t
  BY <1>2, <1>3, TakesAll
<1>5. QED
  BY <1>4 DEF D

\* A walk over the nodes meets every spot of each.
LEMMA WalkIs ==
  ASSUME NEW h \in [Nodes -> [1..VirualSpots -> Nat]], NEW ns \in SUBSET Nodes, NEW o \in Orders(ns)
  PROVE  SpotsOnly(h, ns, Walk(h, o)) /\ AllSpots(h, ns, Walk(h, o))
<1> DEFINE V == VirualSpots
           C == Cardinality(ns)
           L == V * C
           W == Walk(h, o)
           Node(k) == o[((k - 1) \div V) + 1]
           Spot(k) == ((k - 1) % V) + 1
<1>1. V \in Nat /\ V >= 1 /\ IsFiniteSet(ns) /\ C \in Nat
  BY SelAssumption, FS_Subset, FS_CardinalityType
<1>2. o \in [1..C -> ns] /\ \A i, j \in 1..C : i # j => o[i] # o[j]
  BY DEF Orders
<1>3. Len(o) = C
  <2> HIDE DEF C
  <2>1. o \in Seq(ns)
    BY <1>1, <1>2
  <2>2. QED
    BY <1>1, <1>2, <2>1, LenProperties
<1>4. L \in Nat
  BY <1>1, ProductNat
<1>5. W = [k \in 1..L |-> [nodeKey |-> Node(k), spotValue |-> h[Node(k)][Spot(k)]]]
  <2> HIDE DEF C
  <2>1. QED
    BY <1>3 DEF Walk
<1>6. ASSUME NEW k \in 1..L PROVE Node(k) \in ns /\ Spot(k) \in 1..V
  <2> DEFINE q == (k - 1) \div V
             m == (k - 1) % V
  <2>1. q + 1 \in 1..C /\ m + 1 \in 1..V
    BY <1>1, NodeAt
  <2> HIDE DEF C, V, q, m
  <2>2. o[q + 1] \in ns
    BY <1>2, <2>1
  <2>3. QED
    BY <2>1, <2>2 DEF q, m
<1>7. ASSUME NEW k \in 1..L
      PROVE  /\ W[k] = [nodeKey |-> Node(k), spotValue |-> h[Node(k)][Spot(k)]]
             /\ W[k] \in [nodeKey : ns, spotValue : Nat]
             /\ W[k].spotValue \in Values(h, W[k].nodeKey)
  <2> DEFINE n == Node(k)
             i == Spot(k)
  <2>1. n \in ns /\ i \in 1..V
    BY <1>6
  <2>2. W[k] = [nodeKey |-> n, spotValue |-> h[n][i]]
    <3> HIDE DEF L, W
    <3>1. QED
      BY <1>5
  <2> HIDE DEF n, i, W, L
  <2>3. h[n][i] \in Nat /\ i \in DOMAIN h[n]
    BY <2>1
  <2>4. QED
    BY <2>1, <2>2, <2>3 DEF Values, n, i
<1>8. W \in Seq([nodeKey : ns, spotValue : Nat]) /\ Len(W) = L
  <2> DEFINE T == [nodeKey : ns, spotValue : Nat]
  <2>1. DOMAIN W = 1..L
    <3> HIDE DEF L, W
    <3>1. QED
      BY <1>5
  <2>2. W = [k \in 1..L |-> W[k]]
    <3> HIDE DEF L, W, Node, Spot
    <3>1. QED
      BY <1>5
  <2> HIDE DEF L, W, T
  <2>3. \A k \in 1..L : W[k] \in T
    BY <1>7 DEF T
  <2>4. W \in [1..L -> T]
    BY <2>2, <2>3
  <2>5. W \in Seq(T)
    BY <1>4, <2>4
  <2>6. QED
    BY <1>4, <2>1, <2>5, LenProperties DEF T
<1>9. ns # {} => W # <<>>
  <2>1. SUFFICES ASSUME ns # {} PROVE L >= 1
    <3> HIDE DEF L, W
    <3>1. QED
      BY <1>8, LenProperties
  <2>2. C # 0
    BY <1>1, <2>1, FS_EmptySet
  <2>3. QED
    BY <1>1, <2>2, ProductNat
<1>10. SpotsOnly(h, ns, W)
  <2> HIDE DEF L, W, Node, Spot
  <2>1. QED
    BY <1>7, <1>8, <1>9 DEF SpotsOnly
<1>11. ASSUME NEW n \in ns, NEW v \in Values(h, n)
       PROVE  \E a \in 1..Len(W) : W[a].nodeKey = n /\ W[a].spotValue = v
  <2>1. PICK j \in 1..C : o[j] = n
    BY <1>1, OrderMeets
  <2>2. PICK i \in 1..V : h[n][i] = v
    BY DEF Values
  <2> DEFINE q == j - 1
             m == i - 1
             k == V * q + m + 1
  <2>3. q \in Nat /\ m \in Nat /\ m < V /\ q + 1 = j /\ m + 1 = i /\ q + 1 <= C
    BY <1>1
  <2>4. k \in 1..L /\ (k - 1) \div V = q /\ (k - 1) % V = m
    <3>1. q < C
      BY <1>1, <2>3
    <3>2. k = V * q + m + 1
      OBVIOUS
    <3> HIDE DEF k, q, m, C, V
    <3>3. QED
      BY <1>1, <2>3, <3>1, <3>2, PlaceOf
  <2>5. Node(k) = n /\ Spot(k) = i
    <3> HIDE DEF k, q, m
    <3>1. QED
      BY <2>1, <2>3, <2>4
  <2>6. W[k] = [nodeKey |-> n, spotValue |-> v]
    <3>1. W[k] = [nodeKey |-> Node(k), spotValue |-> h[Node(k)][Spot(k)]]
      BY <1>7, <2>4
    <3> HIDE DEF W, Node, Spot, k
    <3>2. QED
      BY <2>2, <2>5, <3>1
  <2> HIDE DEF W, Node, Spot, k, L
  <2>7. k \in 1..Len(W) /\ W[k].nodeKey = n /\ W[k].spotValue = v
    BY <1>8, <2>4, <2>6
  <2>8. QED
    BY <2>7
<1>12. QED
  BY <1>10, <1>11 DEF AllSpots

\* The ring that generate leaves: spots of the nodes, and if no two nodes share
\* one, all of them and in order.
Made(h, ns, r) ==
  /\ SpotsOnly(h, ns, r)
  /\ ~Collide(h, ns) => Ordered(r) /\ AllSpots(h, ns, r)

\* A walk over nodes that share a spot ends after its first element.
LEMMA ImpactIs ==
  ASSUME NEW h, NEW ns, NEW w, SpotsOnly(h, ns, w), AllSpots(h, ns, w), Collide(h, ns)
  PROVE  Impact(w) \in 2..Len(w)
<1>1. w \in Seq([nodeKey : ns, spotValue : Nat])
  BY DEF SpotsOnly
<1>2. Len(w) \in Nat /\ DOMAIN w = 1..Len(w)
  BY <1>1, LenProperties
<1>3. PICK m \in ns, n \in ns : m # n /\ Values(h, m) \cap Values(h, n) # {}
  BY DEF Collide
<1>4. PICK v : v \in Values(h, m) /\ v \in Values(h, n)
  BY <1>3
<1>5. PICK a \in 1..Len(w) : w[a].nodeKey = m /\ w[a].spotValue = v
  BY <1>4 DEF AllSpots
<1>6. PICK b \in 1..Len(w) : w[b].nodeKey = n /\ w[b].spotValue = v
  BY <1>4 DEF AllSpots
<1>7. \E j \in 1..Len(w) : Clash(w, j)
  <2>1. a # b
    BY <1>3, <1>5, <1>6
  <2>2. CASE a < b
    <3>1. a \in 1..(b - 1)
      BY <1>2, <2>2
    <3>2. Clash(w, b)
      BY <1>3, <1>5, <1>6, <3>1 DEF Clash
    <3>3. QED
      BY <3>2
  <2>3. CASE b < a
    <3>1. b \in 1..(a - 1)
      BY <1>2, <2>3
    <3>2. Clash(w, a)
      BY <1>3, <1>5, <1>6, <3>1 DEF Clash
    <3>3. QED
      BY <3>2
  <2>4. QED
    BY <1>2, <2>1, <2>2, <2>3
<1> DEFINE N == {j \in Nat : j \in 1..Len(w) /\ Clash(w, j)}
<1>8. N \in SUBSET Nat /\ N # {}
  BY <1>2, <1>7
<1>9. PICK l \in N : \A k \in N : l <= k
  <2> HIDE DEF N
  <2>1. QED
    BY <1>8, LeastElement
<1>10. l \in DOMAIN w /\ Clash(w, l) /\ \A i \in 1..(l-1) : ~Clash(w, i)
  <2>1. l \in 1..Len(w) /\ Clash(w, l) /\ l \in Nat
    BY <1>9
  <2>2. ASSUME NEW i \in 1..(l-1), Clash(w, i) PROVE FALSE
    <3>1. i \in Nat /\ i \in 1..Len(w) /\ ~(l <= i)
      BY <1>2, <2>1
    <3>2. QED
      BY <1>9, <2>2, <3>1
  <2>3. QED
    BY <1>2, <2>1, <2>2
<1>11. Impact(w) \in DOMAIN w /\ Clash(w, Impact(w))
  BY <1>10 DEF Impact
<1> DEFINE j == Impact(w)
<1>12. j \in 1..Len(w) /\ Clash(w, j)
  BY <1>2, <1>11
<1> HIDE DEF j
<1>13. j - 1 >= 1
  BY <1>2, <1>12 DEF Clash
<1>14. j \in 2..Len(w)
  BY <1>2, <1>12, <1>13
<1>15. QED
  BY <1>14 DEF j

\* generate leaves such a ring, whatever the order in which it meets the nodes.
LEMMA GenerateMakes ==
  ASSUME NEW h \in [Nodes -> [1..VirualSpots -> Nat]], NEW ns \in SUBSET Nodes,
         NEW r \in Generate(h, ns)
  PROVE  Made(h, ns, r)
<1> DEFINE T == [nodeKey : ns, spotValue : Nat]
<1>1. CASE Collide(h, ns)
  <2>1. PICK o \in Orders(ns) : r = SubSeq(Walk(h, o), 1, Impact(Walk(h, o)) - 1)
    BY <1>1 DEF Generate
  <2> DEFINE w == Walk(h, o)
             j == Impact(w)
  <2>2. SpotsOnly(h, ns, w) /\ AllSpots(h, ns, w)
    BY WalkIs
  <2>3. r = SubSeq(w, 1, j - 1)
    BY <2>1
  <2> HIDE DEF w
  <2>4. j \in 2..Len(w)
    BY <1>1, <2>2, ImpactIs
  <2> HIDE DEF j
  <2>5. w \in Seq(T) /\ \A a \in 1..Len(w) : w[a].spotValue \in Values(h, w[a].nodeKey)
    BY <2>2 DEF SpotsOnly
  <2> HIDE DEF T
  <2>6. Len(w) \in Nat /\ \A a \in 1..Len(w) : w[a] \in T
    BY <2>5, LenProperties, ElementOfSeq
  <2>7. r \in Seq(T) /\ Len(r) = j - 1 /\ \A a \in 1..(j - 1) : r[a] = w[a]
    <3>1. 1 \in 1..(Len(w) + 1) /\ j - 1 \in (1 - 1)..Len(w) /\ j - 1 - 1 + 1 = j - 1
      BY <2>4, <2>6
    <3>2. /\ SubSeq(w, 1, j - 1) \in Seq(T) /\ Len(SubSeq(w, 1, j - 1)) = j - 1 - 1 + 1
          /\ \A a \in 1..(j - 1 - 1 + 1) : SubSeq(w, 1, j - 1)[a] = w[1 + a - 1]
      BY <2>5, <3>1, SubSeqProperties
    <3>3. \A a \in 1..(j - 1) : 1 + a - 1 = a
      OBVIOUS
    <3>4. QED
      BY <2>3, <3>1, <3>2, <3>3
  <2>8. r # <<>>
    <3>1. Len(r) # 0
      BY <2>4, <2>6, <2>7
    <3>2. QED
      BY <2>7, <3>1, EmptySeq
  <2>9. \A a \in 1..Len(r) : r[a].spotValue \in Values(h, r[a].nodeKey)
    <3>1. \A a \in 1..(j - 1) : a \in 1..Len(w)
      BY <2>4, <2>6
    <3>2. QED
      BY <2>5, <2>7, <3>1
  <2>10. QED
    BY <1>1, <2>7, <2>8, <2>9 DEF Made, SpotsOnly, T
<1>2. CASE ~Collide(h, ns)
  <2>1. PICK o \in Orders(ns) : r = Sorted(Walk(h, o))
    BY <1>2 DEF Generate
  <2> DEFINE w == Walk(h, o)
             n == Len(w)
  <2>2. SpotsOnly(h, ns, w) /\ AllSpots(h, ns, w)
    BY WalkIs
  <2>3. r = Sorted(w)
    BY <2>1
  <2> HIDE DEF w
  <2>4. /\ w \in Seq(T) /\ (ns # {} => w # <<>>)
        /\ \A a \in 1..n : w[a].spotValue \in Values(h, w[a].nodeKey)
    BY <2>2 DEF SpotsOnly
  <2>5. n \in Nat /\ DOMAIN w = 1..n /\ \A a \in 1..n : w[a] \in T
    <3> HIDE DEF T
    <3>1. QED
      BY <2>4, LenProperties, ElementOfSeq
  <2>6. Spotted(w, n)
    <3> HIDE DEF n
    <3>1. \A a \in 1..n : w[a].spotValue \in Nat
      BY <2>5
    <3>2. QED
      BY <2>5, <3>1 DEF Spotted
  <2>7. /\ DOMAIN r = 1..n
        /\ \A k \in 1..n : \E a \in 1..n : r[k] = w[a]
        /\ \A a \in 1..n : \E k \in 1..n : r[k] = w[a]
        /\ \A k, l \in 1..n : k < l => r[k].spotValue <= r[l].spotValue
    <3> HIDE DEF n
    <3> DEFINE s == Sorted(w)
    <3>1. /\ DOMAIN s = 1..n
          /\ \A k \in 1..n : \E a \in 1..n : s[k] = w[a]
          /\ \A a \in 1..n : \E k \in 1..n : s[k] = w[a]
          /\ \A k, l \in 1..n : k < l => s[k].spotValue <= s[l].spotValue
      BY <2>5, <2>6, SortedIs
    <3>2. r = s
      BY <2>3
    <3> HIDE DEF s
    <3>3. QED
      BY <3>1, <3>2
  <2>8. r \in Seq(T) /\ Len(r) = n
    <3>1. r = [k \in 1..n |-> r[k]]
      <4>1. r = Sorted(w) /\ Sorted(w) = [k \in DOMAIN w |-> Sorted(w)[k]]
        BY <2>3 DEF Sorted
      <4> HIDE DEF n
      <4>2. QED
        BY <2>5, <4>1
    <3> HIDE DEF n, T
    <3>2. \A k \in 1..n : r[k] \in T
      BY <2>5, <2>7
    <3>3. r \in [1..n -> T]
      BY <3>1, <3>2
    <3>4. r \in Seq(T)
      BY <2>5, <3>3
    <3>5. QED
      BY <2>5, <2>7, <3>4, LenProperties
  <2>9. Ordered(r)
    <3> HIDE DEF n
    <3>1. QED
      BY <2>7, <2>8 DEF Ordered
  <2>10. AllSpots(h, ns, r)
    <3>1. ASSUME NEW m \in ns, NEW v \in Values(h, m)
          PROVE  \E k \in 1..Len(r) : r[k].nodeKey = m /\ r[k].spotValue = v
      <4>1. PICK a \in 1..n : w[a].nodeKey = m /\ w[a].spotValue = v
        BY <2>2 DEF AllSpots
      <4> HIDE DEF n
      <4>2. PICK k \in 1..n : r[k] = w[a]
        BY <2>7
      <4>3. QED
        BY <2>8, <4>1, <4>2
    <3>2. QED
      BY <3>1 DEF AllSpots
  <2>11. ASSUME NEW k \in 1..Len(r) PROVE r[k].spotValue \in Values(h, r[k].nodeKey)
    <3> HIDE DEF n
    <3>1. PICK a \in 1..n : r[k] = w[a]
      BY <2>7, <2>8
    <3>2. QED
      BY <2>4, <3>1
  <2>12. ns # {} => r # <<>>
    <3>1. ns # {} => n # 0
      <4> HIDE DEF T
      <4>1. QED
        BY <2>4, EmptySeq
    <3> HIDE DEF n, T
    <3>2. QED
      BY <2>8, <3>1, EmptySeq
  <2>13. SpotsOnly(h, ns, r)
    <3> HIDE DEF n
    <3>1. QED
      BY <2>8, <2>11, <2>12 DEF SpotsOnly
  <2>14. QED
    BY <2>9, <2>10, <2>13 DEF Made
<1>3. QED
  BY <1>1, <1>2

(* ----------------------- Selectors: who owns a key --------------------- *)

\* The spots of the nodes, those among which the owner of a key has the first,
\* and what it is to have it.
Spots(h, ns) == UNION {Values(h, n) : n \in ns}
From(h, ns, key) ==
  LET after == {v \in Spots(h, ns) : v >= key}
  IN  IF after = {} THEN Spots(h, ns) ELSE after
Owns(h, ns, key, n) ==
  \E v \in Values(h, n) : v \in From(h, ns, key) /\ \A u \in From(h, ns, key) : v <= u

\* Every set of nodes with a spot has an owner for each key ...
LEMMA OwnerOwns ==
  ASSUME NEW h \in [Nodes -> [1..VirualSpots -> Nat]], NEW ns \in SUBSET Nodes, ns # {}, NEW key \in Nat
  PROVE  /\ Owner(h, ns, key) \in ns /\ Owns(h, ns, key, Owner(h, ns, key))
         /\ Spots(h, ns) \subseteq Nat /\ From(h, ns, key) \subseteq Spots(h, ns)
<1> DEFINE S == Spots(h, ns)
           F == From(h, ns, key)
<1>1. VirualSpots \in Nat /\ VirualSpots >= 1
  BY SelAssumption
<1>2. \A n \in ns : Values(h, n) \subseteq Nat /\ Values(h, n) # {}
  <2>1. SUFFICES ASSUME NEW n \in ns PROVE Values(h, n) \subseteq Nat /\ Values(h, n) # {}
    OBVIOUS
  <2>2. h[n] \in [1..VirualSpots -> Nat] /\ 1 \in 1..VirualSpots
    BY <1>1
  <2>3. QED
    BY <2>2 DEF Values
<1>3. S \subseteq Nat /\ S # {}
  BY <1>2 DEF Spots
<1>4. F \in SUBSET Nat /\ F # {} /\ F \subseteq S
  BY <1>3 DEF From
<1>5. PICK v \in F : \A u \in F : v <= u
  <2> HIDE DEF F
  <2>1. QED
    BY <1>4, LeastElement
<1>6. PICK n \in ns : v \in Values(h, n)
  BY <1>4, <1>5 DEF Spots
<1>7. Owner(h, ns, key) = CHOOSE m \in ns : \E x \in Values(h, m) : \A u \in F : x \in F /\ x <= u
  BY DEF Owner, From, Spots
<1> HIDE DEF F
<1>8. \E m \in ns : \E x \in Values(h, m) : \A u \in F : x \in F /\ x <= u
  BY <1>5, <1>6
<1> DEFINE m == Owner(h, ns, key)
<1>9. m \in ns /\ \E x \in Values(h, m) : \A u \in F : x \in F /\ x <= u
  BY <1>7, <1>8
<1> HIDE DEF m
<1>10. PICK x \in Values(h, m) : \A u \in F : x \in F /\ x <= u
  BY <1>9
<1>11. Owns(h, ns, key, m)
  <2>1. x \in F /\ \A u \in F : x <= u
    BY <1>4, <1>10
  <2>2. QED
    BY <2>1 DEF Owns, F
<1>12. QED
  BY <1>3, <1>4, <1>9, <1>11 DEF m, F

\* ... and only one, if no two nodes share a spot.
LEMMA OneOwner ==
  ASSUME NEW h \in [Nodes -> [1..VirualSpots -> Nat]], NEW ns \in SUBSET Nodes, NEW key \in Nat,
         ~Collide(h, ns), NEW n \in ns, Owns(h, ns, key, n)
  PROVE  Owner(h, ns, key) = n
<1> DEFINE m == Owner(h, ns, key)
           F == From(h, ns, key)
<1>1. m \in ns /\ Owns(h, ns, key, m) /\ F \subseteq Nat
  BY OwnerOwns
<1> HIDE DEF m
<1>2. PICK v \in Values(h, m) : v \in F /\ \A u \in F : v <= u
  BY <1>1 DEF Owns
<1>3. PICK x \in Values(h, n) : x \in F /\ \A u \in F : x <= u
  BY DEF Owns
<1> HIDE DEF F
<1>4. v \in Nat /\ x \in Nat /\ v <= x /\ x <= v
  BY <1>1, <1>2, <1>3
<1>5. v = x
  BY <1>4
<1>6. m = n
  BY <1>1, <1>2, <1>3, <1>5 DEF Collide
<1>7. QED
  BY <1>6 DEF m

\* The owner among some nodes stays the owner among fewer, if it is one of them.
LEMMA OwnerStays ==
  ASSUME NEW h \in [Nodes -> [1..VirualSpots -> Nat]], NEW A, NEW B \in SUBSET Nodes, A \subseteq B,
         NEW key \in Nat, ~Collide(h, B), Owner(h, B, key) \in A
  PROVE  Owner(h, A, key) = Owner(h, B, key)
<1> DEFINE n == Owner(h, B, key)
<1>1. n \in A /\ B # {} /\ A \in SUBSET Nodes
  OBVIOUS
<1>2. Owns(h, B, key, n) /\ Spots(h, B) \subseteq Nat
  BY <1>1, OwnerOwns
<1> HIDE DEF n
<1>3. ~Collide(h, A)
  BY DEF Collide
<1>4. PICK v \in Values(h, n) : v \in From(h, B, key) /\ \A u \in From(h, B, key) : v <= u
  BY <1>2 DEF Owns
<1> DEFINE S == Spots(h, A)
           L == Spots(h, B)
<1>5. S \subseteq L /\ v \in S
  BY <1>1, <1>4 DEF Spots
<1>6. v \in From(h, A, key) /\ \A u \in From(h, A, key) : v <= u
  <2> HIDE DEF S, L
  <2>1. From(h, A, key) = IF {x \in S : x >= key} = {} THEN S ELSE {x \in S : x >= key}
    BY DEF From, S
  <2>2. From(h, B, key) = IF {x \in L : x >= key} = {} THEN L ELSE {x \in L : x >= key}
    BY DEF From, L
  <2>3. QED
    BY <1>4, <1>5, <2>1, <2>2
<1>7. Owns(h, A, key, n)
  BY <1>6 DEF Owns
<1>8. Owner(h, A, key) = n
  BY <1>1, <1>3, <1>7, OneOwner
<1>9. QED
  BY <1>8 DEF n

\* A ring gives a node of its own for every key, and its owner if no two nodes
\* share a spot.
LEMMA GetNodeIs ==
  ASSUME NEW h \in [Nodes -> [1..VirualSpots -> Nat]], NEW ns \in SUBSET Nodes, ns # {},
         NEW r, Made(h, ns, r), NEW key \in Nat
  PROVE  GetNode(r, key) \in ns /\ (~Collide(h, ns) => GetNode(r, key) = Owner(h, ns, key))
<1> DEFINE T == [nodeKey : ns, spotValue : Nat]
           n == Len(r)
           at == Search(r, key)
           p == IF at = n THEN 1 ELSE at + 1
<1>1. /\ r \in Seq(T) /\ r # <<>>
      /\ \A a \in 1..Len(r) : r[a].spotValue \in Values(h, r[a].nodeKey)
  BY DEF Made, SpotsOnly
<1>2. n \in Nat /\ n >= 1 /\ \A a \in 1..n : r[a].nodeKey \in ns /\ r[a].spotValue \in Nat
  <2>1. n \in Nat /\ n # 0 /\ \A a \in 1..n : r[a] \in T
    <3> HIDE DEF T
    <3>1. QED
      BY <1>1, LenProperties, EmptySeq, ElementOfSeq
  <2> HIDE DEF n
  <2>2. QED
    BY <2>1
<1>3. /\ at \in 0..n
      /\ Ordered(r) => /\ \A a \in 1..at : r[a].spotValue < key
                       /\ \A a \in (at+1)..n : r[a].spotValue >= key
  BY <1>1, SearchFinds
<1>4. GetNode(r, key) = r[p].nodeKey
  BY <1>1 DEF GetNode
<1> HIDE DEF at, n, T
<1>5. p \in 1..n
  BY <1>2, <1>3
<1>6. ASSUME ~Collide(h, ns) PROVE Owner(h, ns, key) = r[p].nodeKey
  <2>1. Ordered(r) /\ AllSpots(h, ns, r)
    BY <1>6 DEF Made
  <2> DEFINE S == Spots(h, ns)
             v == r[p].spotValue
  <2>2. ASSUME NEW u \in S PROVE u \in Nat /\ \E a \in 1..n : r[a].spotValue = u
    <3>1. PICK m \in ns : u \in Values(h, m)
      BY DEF Spots
    <3>2. PICK a \in 1..n : r[a].nodeKey = m /\ r[a].spotValue = u
      BY <2>1, <3>1 DEF AllSpots, n
    <3>3. QED
      BY <1>2, <3>2
  <2>3. v \in Values(h, r[p].nodeKey) /\ r[p].nodeKey \in ns /\ v \in Nat
    BY <1>1, <1>2, <1>5 DEF n
  <2>4. v \in S
    BY <2>3 DEF Spots
  <2> HIDE DEF S, v
  <2>5. From(h, ns, key) = IF {x \in S : x >= key} = {} THEN S ELSE {x \in S : x >= key}
    BY DEF From, S
  <2>6. CASE at = n
    <3>1. \A u \in S : ~(u >= key)
      <4>1. SUFFICES ASSUME NEW u \in S PROVE ~(u >= key)
        OBVIOUS
      <4>2. PICK a \in 1..n : r[a].spotValue = u
        BY <2>2
      <4>3. u \in Nat /\ u < key
        BY <1>3, <2>1, <2>2, <2>6, <4>2
      <4>4. QED
        BY <4>3
    <3>2. From(h, ns, key) = S
      BY <2>5, <3>1
    <3>3. ASSUME NEW u \in S PROVE v <= u
      <4>1. PICK a \in 1..n : r[a].spotValue = u
        BY <2>2
      <4>2. p = 1 /\ (a = 1 \/ 1 < a) /\ 1 \in 1..n
        BY <1>2, <2>6
      <4>3. CASE a = 1
        BY <2>3, <4>1, <4>2, <4>3 DEF v
      <4>4. CASE 1 < a
        BY <2>1, <4>1, <4>2, <4>4 DEF Ordered, v, n
      <4>5. QED
        BY <4>2, <4>3, <4>4
    <3>4. Owns(h, ns, key, r[p].nodeKey)
      BY <2>3, <2>4, <3>2, <3>3 DEF Owns
    <3>5. QED
      BY <1>6, <2>3, <3>4, OneOwner
  <2>7. CASE at # n
    <3>1. p = at + 1 /\ at \in Nat /\ at < n /\ p \in (at+1)..n
      BY <1>2, <1>3, <2>7
    <3>2. v >= key
      BY <1>3, <2>1, <3>1 DEF v
    <3>3. From(h, ns, key) = {x \in S : x >= key} /\ v \in From(h, ns, key)
      BY <2>4, <2>5, <3>2
    <3>4. ASSUME NEW u \in S, u >= key PROVE v <= u
      <4>1. PICK a \in 1..n : r[a].spotValue = u
        BY <2>2
      <4>2. ~(a \in 1..at)
        <5>1. SUFFICES ASSUME a \in 1..at PROVE FALSE
          OBVIOUS
        <5>2. u < key /\ u \in Nat
          BY <1>3, <2>1, <2>2, <4>1, <5>1
        <5>3. QED
          BY <3>4, <5>2
      <4>3. a = p \/ p < a
        BY <3>1, <4>2
      <4>4. CASE a = p
        BY <2>3, <4>1, <4>4 DEF v
      <4>5. CASE p < a
        BY <1>5, <2>1, <4>1, <4>5 DEF Ordered, v, n
      <4>6. QED
        BY <4>3, <4>4, <4>5
    <3>5. Owns(h, ns, key, r[p].nodeKey)
      BY <2>3, <3>3, <3>4 DEF Owns
    <3>6. QED
      BY <1>6, <2>3, <3>5, OneOwner
  <2>8. QED
    BY <2>6, <2>7
<1>7. QED
  BY <1>2, <1>4, <1>5, <1>6

(* -------------------- Selectors: the inductive invariant --------------- *)

\* A goroutine that has set its id finds it, unless another one came between.
AskedInv ==
  \A g \in Goroutines : asked[g] # Idle =>
    /\ serving /\ asked[g].key \in Keys /\ curId \in Keys
    /\ ~asked[g].disturbed => curId = asked[g].key

\* The ring is that of the nodes as they are now; the pools are asked only when
\* all of them are there and their ring is whole.
RingInv ==
  /\ use # "plain" => Made(hash, objs, ring)
  /\ serving => use = "pools" /\ ~Collide(hash, objs)

SelInv == SelTypeOK /\ RingInv /\ AskedInv /\ SelectsOwner

LEMMA SelInitInv == SelInit => SelInv
<1> SUFFICES ASSUME SelInit PROVE SelInv
  OBVIOUS
<1> USE DEF SelInit
<1>1. SelTypeOK
  <2>1. asked \in [Goroutines -> [key : Keys \cup {NoKey}, disturbed : BOOLEAN]]
    BY DEF Idle
  <2>2. picked \in [key : Keys \cup {NoKey}, id : Keys \cup {NoKey},
                   obj : Nodes \cup {NoNode}, alone : BOOLEAN]
    BY DEF Nothing
  <2>3. ring \in Seq([nodeKey : Nodes, spotValue : Nat])
    OBVIOUS
  <2>4. QED
    BY <2>1, <2>2, <2>3 DEF SelTypeOK
<1>2. Made(hash, objs, ring)
  <2>1. <<>> \in Seq([nodeKey : {}, spotValue : Nat]) /\ Len(<<>>) = 0
    OBVIOUS
  <2>2. SpotsOnly(hash, {}, <<>>)
    BY <2>1 DEF SpotsOnly
  <2>3. Ordered(<<>>) /\ AllSpots(hash, {}, <<>>)
    BY <2>1 DEF Ordered, AllSpots
  <2>4. QED
    BY <2>2, <2>3 DEF Made
<1>3. RingInv /\ AskedInv
  BY <1>2 DEF RingInv, AskedInv
<1>4. SelectsOwner
  BY DEF SelectsOwner
<1>5. QED
  BY <1>1, <1>3, <1>4 DEF SelInv

\* What a consistent selector answers.
LEMMA ConsSelectIs ==
  ASSUME SelInv, use # "plain", NEW id \in Keys
  PROVE  \E n \in Nodes \cup {NoNode} :
           /\ ConsSelect(id) = n
           /\ n \in objs \/ (objs = {} /\ n = NoNode)
           /\ objs # {} /\ ~Collide(hash, objs) => n = Owner(hash, objs, id)
<1>1. hash \in [Nodes -> [1..VirualSpots -> Nat]] /\ objs \in SUBSET Nodes /\ id \in Nat
  BY SelAssumption DEF SelInv, SelTypeOK
<1>2. Made(hash, objs, ring)
  BY DEF SelInv, RingInv
<1> DEFINE n == GetNode(ring, id)
<1>3. ConsSelect(id) = IF n \in objs THEN n ELSE NoNode
  BY DEF ConsSelect
<1>4. objs # {} => n \in objs /\ (~Collide(hash, objs) => n = Owner(hash, objs, id))
  BY <1>1, <1>2, GetNodeIs
<1> HIDE DEF n
<1>5. CASE objs = {}
  BY <1>3, <1>5
<1>6. CASE objs # {}
  BY <1>1, <1>3, <1>4, <1>6
<1>7. QED
  BY <1>5, <1>6

\* A member comes or goes: the ring is made again.
LEMMA MembersInv ==
  ASSUME SelInv, NEW ns \in SUBSET Nodes, objs' = ns, ~serving,
         IF use = "plain" THEN UNCHANGED ring ELSE ring' \in Generate(hash, ns),
         picked' = Nothing, UNCHANGED <<use, hash, serving, curId, asked>>
  PROVE  SelInv'
<1>1. hash \in SpotHashes /\ hash \in [Nodes -> [1..VirualSpots -> Nat]]
  BY SelAssumption DEF SelInv, SelTypeOK
<1>2. use # "plain" => Made(hash, ns, ring')
  BY <1>1, GenerateMakes
<1>3. ring' \in Seq([nodeKey : Nodes, spotValue : Nat])
  <2>1. CASE use = "plain"
    BY <2>1 DEF SelInv, SelTypeOK
  <2>2. CASE use # "plain"
    <3> DEFINE S == [nodeKey : ns, spotValue : Nat]
               T == [nodeKey : Nodes, spotValue : Nat]
    <3>1. ring' \in Seq(S)
      BY <1>2, <2>2 DEF Made, SpotsOnly
    <3>2. S \subseteq T
      OBVIOUS
    <3> HIDE DEF S, T
    <3>3. ring' \in Seq(T)
      BY <3>1, <3>2, LenProperties, ElementOfSeq
    <3>4. QED
      BY <3>3 DEF T
  <2>3. QED
    BY <2>1, <2>2
<1>4. SelTypeOK'
  BY <1>1, <1>3 DEF SelInv, SelTypeOK, Nothing
<1>5. RingInv'
  BY <1>2 DEF RingInv, SelInv
<1>6. AskedInv'
  BY DEF SelInv, AskedInv
<1>7. SelectsOwner'
  BY DEF SelectsOwner
<1>8. QED
  BY <1>4, <1>5, <1>6, <1>7 DEF SelInv

\* An answer.
LEMMA AnswerInv ==
  ASSUME SelInv, NEW key \in Keys, NEW id \in Keys, NEW obj \in Nodes \cup {NoNode}, NEW alone \in BOOLEAN,
         picked' = [key |-> key, id |-> id, obj |-> obj, alone |-> alone],
         UNCHANGED <<use, hash, objs, ring, serving>>,
         obj \in objs \/ (objs = {} /\ obj = NoNode),
         use # "plain" /\ objs # {} /\ ~Collide(hash, objs) => obj = Owner(hash, objs, id),
         alone => id = key
  PROVE  SelectsOwner' /\ RingInv'
         /\ picked' \in [key : Keys \cup {NoKey}, id : Keys \cup {NoKey},
                         obj : Nodes \cup {NoNode}, alone : BOOLEAN]
<1>1. /\ picked'.obj = obj /\ picked'.id = id /\ picked'.key = key /\ picked'.alone = alone
      /\ picked' \in [key : Keys \cup {NoKey}, id : Keys \cup {NoKey},
                      obj : Nodes \cup {NoNode}, alone : BOOLEAN]
  OBVIOUS
<1>2. SelectsOwner'
  BY <1>1 DEF SelectsOwner
<1>3. RingInv'
  BY DEF SelInv, RingInv
<1>4. QED
  BY <1>1, <1>2, <1>3

LEMMA SelStep == SelInv /\ [SelNext]_selVars => SelInv'
<1> SUFFICES ASSUME SelInv, [SelNext]_selVars PROVE SelInv'
  OBVIOUS
<1>1. ASSUME NEW n \in Nodes, AddElement(n) PROVE SelInv'
  <2> DEFINE ns == objs \cup {n}
  <2>1. ns \in SUBSET Nodes
    BY DEF SelInv, SelTypeOK
  <2>2. /\ objs' = ns /\ ~serving /\ picked' = Nothing /\ UNCHANGED <<use, hash, serving, curId, asked>>
        /\ IF use = "plain" THEN UNCHANGED ring ELSE ring' \in Generate(hash, ns)
    BY <1>1 DEF AddElement
  <2> HIDE DEF ns
  <2>3. QED
    BY <2>1, <2>2, MembersInv
<1>2. ASSUME NEW n \in Nodes, RemoveElement(n) PROVE SelInv'
  <2> DEFINE ns == objs \ {n}
  <2>1. ns \in SUBSET Nodes
    BY DEF SelInv, SelTypeOK
  <2>2. /\ objs' = ns /\ picked' = Nothing /\ UNCHANGED <<use, hash, serving, curId, asked>>
        /\ IF use = "plain" THEN UNCHANGED ring ELSE ring' \in Generate(hash, ns)
    BY <1>2 DEF RemoveElement
  <2>3. ~serving
    BY <1>2 DEF RemoveElement, SelInv, RingInv
  <2> HIDE DEF ns
  <2>4. QED
    BY <2>1, <2>2, <2>3, MembersInv
<1>3. ASSUME NEW key \in Keys, Send(key) PROVE SelInv'
  <2>1. PICK obj \in (IF use = "group" THEN {ConsSelect(key)} ELSE IF objs = {} THEN {NoNode} ELSE objs) :
          picked' = [key |-> key, id |-> key, obj |-> obj, alone |-> TRUE]
    BY <1>3 DEF Send
  <2>2. use \in {"group", "plain"} /\ curId' = key /\ UNCHANGED <<use, hash, objs, ring, serving, asked>>
    BY <1>3 DEF Send, SelInv, SelTypeOK
  <2>3. /\ obj \in Nodes \cup {NoNode}
        /\ obj \in objs \/ (objs = {} /\ obj = NoNode)
        /\ use # "plain" /\ objs # {} /\ ~Collide(hash, objs) => obj = Owner(hash, objs, key)
    <3>1. CASE use = "group"
      <4>1. use # "plain" /\ obj = ConsSelect(key)
        BY <2>1, <3>1
      <4>2. PICK n \in Nodes \cup {NoNode} :
              /\ ConsSelect(key) = n
              /\ n \in objs \/ (objs = {} /\ n = NoNode)
              /\ objs # {} /\ ~Collide(hash, objs) => n = Owner(hash, objs, key)
        BY <4>1, ConsSelectIs
      <4>3. QED
        BY <4>1, <4>2
    <3>2. CASE use = "plain"
      <4>1. obj \in objs \/ (objs = {} /\ obj = NoNode)
        BY <2>1, <3>2
      <4>2. QED
        BY <3>2, <4>1 DEF SelInv, SelTypeOK
    <3>3. QED
      BY <2>2, <3>1, <3>2
  <2>4. PICK yes \in BOOLEAN : yes
    OBVIOUS
  <2>5. picked' = [key |-> key, id |-> key, obj |-> obj, alone |-> yes]
    BY <2>1, <2>4
  <2>6. /\ SelectsOwner' /\ RingInv'
        /\ picked' \in [key : Keys \cup {NoKey}, id : Keys \cup {NoKey},
                        obj : Nodes \cup {NoNode}, alone : BOOLEAN]
    BY <2>2, <2>3, <2>5, AnswerInv
  <2>7. SelTypeOK'
    BY <2>2, <2>6 DEF SelInv, SelTypeOK
  <2>8. AskedInv'
    <3>1. ~serving
      BY <2>2 DEF SelInv, RingInv
    <3>2. QED
      BY <2>2, <3>1 DEF SelInv, AskedInv
  <2>9. QED
    BY <2>6, <2>7, <2>8 DEF SelInv
<1>4. CASE Serve
  <2> USE <1>4 DEF Serve
  <2>1. SelTypeOK'
    BY DEF SelInv, SelTypeOK
  <2>2. RingInv'
    BY DEF SelInv, RingInv
  <2>3. AskedInv'
    BY DEF SelInv, AskedInv
  <2>4. SelectsOwner'
    BY DEF SelInv, SelectsOwner
  <2>5. QED
    BY <2>1, <2>2, <2>3, <2>4 DEF SelInv
<1>5. ASSUME NEW g \in Goroutines, NEW key \in Keys, SetElementId(g, key) PROVE SelInv'
  <2>1. /\ serving /\ asked[g] = Idle /\ curId' = key
        /\ UNCHANGED <<use, hash, objs, ring, serving, picked>>
    BY <1>5 DEF SetElementId
  <2>2. asked' = [f \in Goroutines |->
          IF f = g THEN [key |-> key, disturbed |-> FALSE]
          ELSE IF asked[f] = Idle THEN Idle ELSE [asked[f] EXCEPT !.disturbed = TRUE]]
    BY <1>5 DEF SetElementId
  <2>3. asked \in [Goroutines -> [key : Keys \cup {NoKey}, disturbed : BOOLEAN]]
    BY DEF SelInv, SelTypeOK
  <2>4. ASSUME NEW f \in Goroutines
        PROVE  /\ asked'[f] \in [key : Keys \cup {NoKey}, disturbed : BOOLEAN]
               /\ asked'[f] # Idle =>
                    asked'[f].key \in Keys /\ (~asked'[f].disturbed => key = asked'[f].key)
    <3>1. CASE f = g
      <4>1. asked'[f] = [key |-> key, disturbed |-> FALSE]
        BY <2>2, <3>1
      <4>2. QED
        BY <4>1
    <3>2. CASE f # g /\ asked[f] = Idle
      <4>1. asked'[f] = Idle
        BY <2>2, <3>2
      <4>2. QED
        BY <4>1 DEF Idle
    <3>3. CASE f # g /\ asked[f] # Idle
      <4>1. asked'[f] = [asked[f] EXCEPT !.disturbed = TRUE]
        BY <2>2, <3>3
      <4>2. asked[f].key \in Keys /\ asked[f] \in [key : Keys \cup {NoKey}, disturbed : BOOLEAN]
        BY <2>3, <3>3 DEF SelInv, AskedInv
      <4>3. asked'[f].key = asked[f].key /\ asked'[f].disturbed
            /\ asked'[f] \in [key : Keys \cup {NoKey}, disturbed : BOOLEAN]
        BY <4>1, <4>2
      <4>4. QED
        BY <4>2, <4>3
    <3>4. QED
      BY <3>1, <3>2, <3>3
  <2>5. DOMAIN asked' = Goroutines /\ asked' = [f \in Goroutines |-> asked'[f]]
    BY <2>2
  <2>6. asked' \in [Goroutines -> [key : Keys \cup {NoKey}, disturbed : BOOLEAN]]
    BY <2>4, <2>5
  <2>7. SelTypeOK'
    BY <2>1, <2>6 DEF SelInv, SelTypeOK
  <2>8. RingInv'
    BY <2>1 DEF SelInv, RingInv
  <2>9. AskedInv'
    BY <2>1, <2>4 DEF AskedInv
  <2>10. SelectsOwner'
    BY <2>1 DEF SelInv, SelectsOwner
  <2>11. QED
    BY <2>7, <2>8, <2>9, <2>10 DEF SelInv
<1>6. ASSUME NEW g \in Goroutines, Select(g) PROVE SelInv'
  <2>1. /\ asked[g] # Idle /\ asked' = [asked EXCEPT ![g] = Idle]
        /\ UNCHANGED <<use, hash, objs, ring, serving, curId>>
    BY <1>6 DEF Select
  <2>2. PICK key, id : key = asked[g].key /\ id = curId
    OBVIOUS
  <2>3. PICK alone \in BOOLEAN : alone = ~asked[g].disturbed
    OBVIOUS
  <2>4. /\ key \in Keys /\ id \in Keys /\ (alone => id = key) /\ use # "plain"
    BY <2>1, <2>2, <2>3 DEF SelInv, AskedInv, RingInv
  <2>5. PICK obj \in Nodes \cup {NoNode} :
          /\ ConsSelect(id) = obj
          /\ obj \in objs \/ (objs = {} /\ obj = NoNode)
          /\ objs # {} /\ ~Collide(hash, objs) => obj = Owner(hash, objs, id)
    BY <2>4, ConsSelectIs
  <2>6. picked' = [key |-> key, id |-> id, obj |-> obj, alone |-> alone]
    <3>1. ConsSelect(curId) = obj
      BY <2>2, <2>5 DEF ConsSelect
    <3>2. picked' = [key |-> asked[g].key, id |-> curId, obj |-> ConsSelect(curId),
                     alone |-> ~asked[g].disturbed]
      BY <1>6 DEF Select
    <3>3. QED
      BY <2>2, <2>3, <3>1, <3>2
  <2>7. /\ SelectsOwner' /\ RingInv'
        /\ picked' \in [key : Keys \cup {NoKey}, id : Keys \cup {NoKey},
                        obj : Nodes \cup {NoNode}, alone : BOOLEAN]
    BY <2>1, <2>4, <2>5, <2>6, AnswerInv
  <2>8. asked' \in [Goroutines -> [key : Keys \cup {NoKey}, disturbed : BOOLEAN]]
    BY <2>1 DEF SelInv, SelTypeOK, Idle
  <2>9. SelTypeOK'
    BY <2>1, <2>7, <2>8 DEF SelInv, SelTypeOK
  <2>10. AskedInv'
    <3>1. \A f \in Goroutines : asked'[f] = IF f = g THEN Idle ELSE asked[f]
      BY <2>1 DEF SelInv, SelTypeOK
    <3>2. QED
      BY <2>1, <3>1 DEF SelInv, AskedInv
  <2>11. QED
    BY <2>7, <2>9, <2>10 DEF SelInv
<1>7. CASE UNCHANGED selVars
  <2> USE <1>7 DEF selVars
  <2>1. SelTypeOK'
    BY DEF SelInv, SelTypeOK
  <2>2. RingInv'
    BY DEF SelInv, RingInv
  <2>3. AskedInv'
    BY DEF SelInv, AskedInv
  <2>4. SelectsOwner'
    BY DEF SelInv, SelectsOwner
  <2>5. QED
    BY <2>1, <2>2, <2>3, <2>4 DEF SelInv
<1>8. QED
  BY <1>1, <1>2, <1>3, <1>4, <1>5, <1>6, <1>7 DEF SelNext

\* The types of the selectors, for any nodes, any hash values and any keys.
THEOREM SelTypeCorrect == SelSpec => []SelTypeOK
<1>1. SelInv => SelTypeOK
  BY DEF SelInv
<1>2. QED
  BY SelInitInv, SelStep, <1>1, PTL DEF SelSpec

\* Keys that move, move to a server that comes or from one that goes.
LEMMA MovesOnly ==
  ASSUME SelInv, SelInv', SelNext PROVE KeysStay
<1> SUFFICES ASSUME use # "plain", objs' # objs, objs # {}, objs' # {},
                    ~Collide(hash, objs \cup objs'), NEW key \in Keys,
                    GetNode(ring, key) \in objs', GetNode(ring', key) \in objs
             PROVE  GetNode(ring, key) = GetNode(ring', key)
  BY DEF KeysStay
<1>1. PICK A, B : A = objs /\ B = objs'
  OBVIOUS
<1>2. use' = use /\ hash' = hash /\ (B \subseteq A \/ A \subseteq B)
  BY <1>1 DEF SelNext, AddElement, RemoveElement, Send, Serve, SetElementId, Select
<1>3. /\ hash \in [Nodes -> [1..VirualSpots -> Nat]] /\ key \in Nat
      /\ A \in SUBSET Nodes /\ B \in SUBSET Nodes /\ A # {} /\ B # {}
  BY <1>1, SelAssumption DEF SelInv, SelTypeOK
<1>4. Made(hash, A, ring) /\ Made(hash, B, ring')
  BY <1>1, <1>2 DEF SelInv, RingInv
<1>5. ~Collide(hash, A) /\ ~Collide(hash, B)
  BY <1>1 DEF Collide
<1>6. GetNode(ring, key) = Owner(hash, A, key)
  BY <1>3, <1>4, <1>5, GetNodeIs
<1>7. GetNode(ring', key) = Owner(hash, B, key)
  BY <1>3, <1>4, <1>5, GetNodeIs
<1>8. CASE A \subseteq B
  <2>1. Owner(hash, B, key) \in A
    BY <1>1, <1>7
  <2>2. Owner(hash, A, key) = Owner(hash, B, key)
    BY <1>3, <1>5, <1>8, <2>1, OwnerStays
  <2>3. QED
    BY <1>6, <1>7, <2>2
<1>9. CASE B \subseteq A
  <2>1. Owner(hash, A, key) \in B
    BY <1>1, <1>6
  <2>2. Owner(hash, B, key) = Owner(hash, A, key)
    BY <1>3, <1>5, <1>9, <2>1, OwnerStays
  <2>3. QED
    BY <1>6, <1>7, <2>2
<1>10. QED
  BY <1>2, <1>8, <1>9

\* Every answer is the owner of its id among the members as they are now, and
\* no key moves between two servers that stay: sort.Search on the ring that
\* generate leaves gives the first spot at or after the key, in whatever order
\* the map was walked (consisten_hash.go:74-124).
THEOREM SelectsCorrectly == SelSpec => SelectsRight
<1>1. SelInv /\ SelInv' /\ [SelNext]_selVars => [SelectsOwner' /\ KeysStay]_selVars
  <2> SUFFICES ASSUME SelInv, SelInv', [SelNext]_selVars
               PROVE  UNCHANGED selVars \/ (SelectsOwner' /\ KeysStay)
    OBVIOUS
  <2>1. CASE SelNext
    <3>1. SelectsOwner'
      BY DEF SelInv
    <3>2. KeysStay
      BY <2>1, MovesOnly
    <3>3. QED
      BY <3>1, <3>2
  <2>2. CASE UNCHANGED selVars
    BY <2>2
  <2>3. QED
    BY <2>1, <2>2
<1>2. QED
  BY SelInitInv, SelStep, <1>1, PTL DEF SelSpec, SelectsRight
===============================================================================
