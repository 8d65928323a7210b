----------------------------- MODULE SvrLinkProof -----------------------------
(***************************************************************************)
(* What holds of SvrLink.tla for any number of connections and notices.    *)
(***************************************************************************)
EXTENDS SvrLink, SeqLemmas

(* ------------------------ The inductive invariant ---------------------- *)

\* A session in a group has the attribute that its close looks for.
EntryInv(s) == \A e \in Ends : entry[e] = s => attr[e][s]

\* The request to register is sent first, once, and is under way only until
\* the acceptor has handled it.
RequestInv(s) ==
  /\ logic["dialler"][s] = "none" => stream["acceptor"][s] = <<>> /\ ~attr["acceptor"][s]
  /\ Count(stream["acceptor"][s], {"register"}) <= 1
  /\ "register" \in Elems(stream["acceptor"][s]) => ~attr["acceptor"][s]

\* What follows from an answer comes after the registration at the acceptor,
\* which lasts until the session's close.
AnswerInv(s) ==
  \/ "answer" \in Elems(stream["dialler"][s])
  \/ attr["dialler"][s]
  \/ "notice" \in Elems(stream["acceptor"][s])
  => attr["acceptor"][s] \/ logic["acceptor"][s] = "closed"

\* Only a connection that was made has a logic session.
DialInv(s) == logic["dialler"][s] # "none" => s <= dialled

\* While a connection lives, its registration is under way, or in place.
LiveInv(s) ==
  ~Shared /\ live[s] /\ logic["dialler"][s] = "open" =>
    \/ "register" \in Elems(stream["acceptor"][s])
    \/ /\ entry["acceptor"] = s
       /\ "answer" \in Elems(stream["dialler"][s]) \/ entry["dialler"] = s

SessionInv(s) == DialInv(s) /\ EntryInv(s) /\ RequestInv(s) /\ AnswerInv(s) /\ LiveInv(s)

IInv == TypeOK /\ \A s \in Ids : SessionInv(s)

(* -------------------------------- Streams ------------------------------ *)

Word == {"register", "answer", "notice"}
Streams == [Ends -> [Ids -> Seq(Word)]]

\* What is left of a stream.
Shrinks(q, r) ==
  /\ Elems(q) \subseteq Elems(r)
  /\ Count(q, {"register"}) <= Count(r, {"register"})
  /\ r = <<>> => q = <<>>

\* From st to su, the session s lost messages, and no other one did.
Cut(st, su, s) ==
  /\ su \in Streams
  /\ \A e \in Ends : Shrinks(su[e][s], st[e][s])
  /\ \A e \in Ends, t \in Ids : t # s => su[e][t] = st[e][t]

LEMMA NoneIsNoId == None \notin Ids /\ Ids \subseteq Nat
BY SvrLinkAssumption DEF Ids

LEMMA StreamType ==
  ASSUME NEW st \in Streams, NEW e \in Ends, NEW s \in Ids
  PROVE  /\ st[e][s] \in Seq(Word)
         /\ Count(st[e][s], {"register"}) \in Nat
         /\ Count(st[e][s], {"register"}) = 0 <=> "register" \notin Elems(st[e][s])
<1>1. st[e][s] \in Seq(Word)
  BY DEF Streams
<1>2. QED
  BY <1>1, CountType

\* Messages sent and received are those of one stream.
LEMMA SentAt ==
  ASSUME NEW st \in Streams, NEW e \in Ends, NEW s \in Ids, NEW m \in Word
  PROVE  /\ Sent(st, e, s, m) \in Streams
         /\ \A d \in Ends, t \in Ids :
              Sent(st, e, s, m)[d][t] = IF live[s] /\ d = e /\ t = s THEN Append(st[e][s], m)
                                        ELSE st[d][t]
<1>1. Append(st[e][s], m) \in Seq(Word)
  BY StreamType, AppendProperties
<1>2. CASE live[s]
  <2>1. Sent(st, e, s, m) = [st EXCEPT ![e][s] = Append(st[e][s], m)]
    BY <1>2 DEF Sent
  <2>2. QED
    BY <1>1, <1>2, <2>1 DEF Streams
<1>3. CASE ~live[s]
  BY <1>3 DEF Sent
<1>4. QED
  BY <1>2, <1>3

LEMMA ReceivedAt ==
  ASSUME stream \in Streams, NEW e \in Ends, NEW s \in Ids, stream[e][s] # <<>>
  PROVE  /\ Received(e, s) \in Streams
         /\ \A d \in Ends, t \in Ids :
              Received(e, s)[d][t] = IF d = e /\ t = s THEN Tail(stream[e][s]) ELSE stream[d][t]
<1>1. Tail(stream[e][s]) \in Seq(Word)
  BY StreamType, HeadTailProperties
<1>2. QED
  BY <1>1 DEF Streams, Received

\* A stream that ends is cut.
LEMMA TruncatedCuts ==
  ASSUME NEW st \in Streams, NEW s \in Ids, NEW su \in Truncated(st, s)
  PROVE  Cut(st, su, s)
<1>1. PICK i \in 0..Len(st["dialler"][s]), j \in 0..Len(st["acceptor"][s]) :
        su = [e \in Ends |-> [st[e] EXCEPT ![s] = SubSeq(@, 1, IF e = "dialler" THEN i ELSE j)]]
  BY DEF Truncated
<1> DEFINE k(e) == IF e = "dialler" THEN i ELSE j
<1>2. ASSUME NEW e \in Ends
      PROVE  /\ SubSeq(st[e][s], 1, k(e)) \in Seq(Word)
             /\ Shrinks(SubSeq(st[e][s], 1, k(e)), st[e][s])
  <2>1. k(e) \in 0..Len(st[e][s])
    BY DEF Ends
  <2> HIDE DEF k
  <2>2. st[e][s] \in Seq(Word)
    BY StreamType
  <2>3. /\ SubSeq(st[e][s], 1, k(e)) \in Seq(Word)
        /\ Elems(SubSeq(st[e][s], 1, k(e))) \subseteq Elems(st[e][s])
        /\ Count(SubSeq(st[e][s], 1, k(e)), {"register"}) <= Count(st[e][s], {"register"})
    BY <2>1, <2>2, CutQueue
  <2>4. st[e][s] = <<>> => SubSeq(st[e][s], 1, k(e)) = <<>>
    BY <2>1
  <2>5. QED
    BY <2>3, <2>4 DEF Shrinks
<1>3. ASSUME NEW e \in Ends, NEW t \in Ids
      PROVE  su[e][t] = IF t = s THEN SubSeq(st[e][s], 1, k(e)) ELSE st[e][t]
  BY <1>1 DEF Streams
<1>4. su \in Streams
  <2>1. \A e \in Ends : SubSeq(st[e][s], 1, k(e)) \in Seq(Word)
    BY <1>2
  <2>2. QED
    BY <1>1, <2>1 DEF Streams
<1> HIDE DEF k
<1>5. QED
  BY <1>2, <1>3, <1>4 DEF Cut

LEMMA ShrinksNot ==
  ASSUME NEW st \in Streams, NEW e \in Ends, NEW s \in Ids
  PROVE  Shrinks(st[e][s], st[e][s])
BY StreamType DEF Shrinks

(* ------------------- What the handlers do to sessions ------------------ *)

\* A step that works on another session: it may at most close this one.
Undisturbed(t) ==
  /\ dialled' = dialled
  /\ \A e \in Ends : /\ logic'[e][t] = logic[e][t] /\ attr'[e][t] = attr[e][t]
                     /\ Shrinks(stream'[e][t], stream[e][t])
                     /\ entry'[e] = t => entry[e] = t
  /\ live'[t] => /\ live[t]
                 /\ \A e \in Ends : /\ stream'[e][t] = stream[e][t]
                                    /\ entry[e] = t => entry'[e] = t

LEMMA UndisturbedKeeps ==
  ASSUME NEW t \in Ids, SessionInv(t), Undisturbed(t), stream \in Streams, stream' \in Streams
  PROVE  SessionInv(t)'
<1>1. "dialler" \in Ends /\ "acceptor" \in Ends
  BY DEF Ends
<1>2. EntryInv(t)'
  BY DEF SessionInv, EntryInv, Undisturbed
<1>3. RequestInv(t)'
  <2>1. /\ Count(stream["acceptor"][t], {"register"}) \in Nat
        /\ Count(stream'["acceptor"][t], {"register"}) \in Nat
    BY <1>1, StreamType
  <2> DEFINE q == stream["acceptor"][t]
             r == stream'["acceptor"][t]
  <2>2. Shrinks(r, q) /\ logic'["dialler"][t] = logic["dialler"][t]
        /\ attr'["acceptor"][t] = attr["acceptor"][t]
    BY <1>1 DEF Undisturbed
  <2>3. /\ logic["dialler"][t] = "none" => q = <<>> /\ ~attr["acceptor"][t]
        /\ Count(q, {"register"}) <= 1
        /\ "register" \in Elems(q) => ~attr["acceptor"][t]
    BY DEF SessionInv, RequestInv
  <2> HIDE DEF q, r
  <2>4. Count(r, {"register"}) <= 1
    BY <2>1, <2>2, <2>3 DEF Shrinks, q, r
  <2>5. /\ logic'["dialler"][t] = "none" => r = <<>> /\ ~attr'["acceptor"][t]
        /\ "register" \in Elems(r) => ~attr'["acceptor"][t]
    BY <2>2, <2>3 DEF Shrinks
  <2>6. QED
    BY <2>4, <2>5 DEF RequestInv, r
<1>4. AnswerInv(t)'
  BY <1>1 DEF SessionInv, AnswerInv, Undisturbed, Shrinks
<1>5. LiveInv(t)'
  BY <1>1 DEF SessionInv, LiveInv, Undisturbed
<1>6. DialInv(t)'
  BY <1>1 DEF SessionInv, DialInv, Undisturbed
<1>7. QED
  BY <1>2, <1>3, <1>4, <1>5, <1>6 DEF SessionInv

\* AddSession closes no session but the one it replaces.
LEMMA Added ==
  ASSUME TypeOK, NEW e \in Ends, NEW s \in Ids, NEW st \in Streams, entry[e] # s,
         AddSession(e, s, st)
  PROVE  /\ attr' = [attr EXCEPT ![e][s] = TRUE] /\ entry' = [entry EXCEPT ![e] = s]
         /\ stream' \in Streams /\ live' \in [Ids -> BOOLEAN]
         /\ live'[s] = live[s] /\ \A d \in Ends : stream'[d][s] = st[d][s]
         /\ \A t \in Ids \ {s} :
              /\ \A d \in Ends : Shrinks(stream'[d][t], st[d][t])
              /\ live'[t] => /\ live[t] /\ entry[e] # t
                             /\ \A d \in Ends : stream'[d][t] = st[d][t]
<1>1. attr' = [attr EXCEPT ![e][s] = TRUE] /\ entry' = [entry EXCEPT ![e] = s]
  BY DEF AddSession
<1>2. CASE entry[e] # None /\ live[entry[e]]
  <2> DEFINE old == entry[e]
  <2>1. old \in Ids /\ old # s
    BY <1>2 DEF TypeOK
  <2>2. live' = [live EXCEPT ![old] = FALSE] /\ stream' \in Truncated(st, old)
    BY <1>2 DEF AddSession
  <2>3. Cut(st, stream', old)
    BY <2>1, <2>2, TruncatedCuts
  <2> HIDE DEF old
  <2>4. live' \in [Ids -> BOOLEAN] /\ live'[s] = live[s]
    BY <2>1, <2>2 DEF TypeOK
  <2>5. ASSUME NEW t \in Ids \ {s}, NEW d \in Ends PROVE Shrinks(stream'[d][t], st[d][t])
    BY <2>3, ShrinksNot DEF Cut
  <2>6. ASSUME NEW t \in Ids \ {s}, live'[t]
        PROVE  live[t] /\ entry[e] # t /\ \A d \in Ends : stream'[d][t] = st[d][t]
    BY <2>1, <2>2, <2>3, <2>6 DEF Cut, TypeOK, old
  <2>7. QED
    BY <1>1, <2>1, <2>3, <2>4, <2>5, <2>6 DEF Cut
<1>3. CASE ~(entry[e] # None /\ live[entry[e]])
  <2>1. live' = live /\ stream' = st
    BY <1>3 DEF AddSession
  <2>2. ASSUME NEW t \in Ids, live[t] PROVE entry[e] # t
    BY <1>3, <2>2, NoneIsNoId
  <2>3. QED
    BY <1>1, <2>1, <2>2, ShrinksNot DEF TypeOK
<1>4. QED
  BY <1>2, <1>3

\* SvrGroup.Send takes the session of the group.
LEMMA SentToGroup ==
  ASSUME TypeOK, NEW m, SendToGroup("dialler", "acceptor", m)
  PROVE  IF entry["dialler"] = None THEN stream' = stream
         ELSE stream' = Sent(stream, "acceptor", entry["dialler"], m)
<1>1. CASE entry["dialler"] = None
  <2>1. Select("dialler") = {}
    BY <1>1, NoneIsNoId DEF Select
  <2>2. QED
    BY <1>1, <2>1 DEF SendToGroup
<1>2. CASE entry["dialler"] # None
  <2>1. entry["dialler"] \in Ids
    BY <1>2 DEF TypeOK, Ends
  <2>2. Select("dialler") = {entry["dialler"]}
    BY <2>1 DEF Select
  <2>3. (CHOOSE s \in Select("dialler") : TRUE) = entry["dialler"]
    BY <2>2
  <2>4. QED
    BY <1>2, <2>2, <2>3 DEF SendToGroup
<1>3. QED
  BY <1>1, <1>2

(* ------------------------------- Each step ----------------------------- *)

LEMMA InvariantInit == Init => IInv
<1> SUFFICES ASSUME Init PROVE IInv
  OBVIOUS
<1>1. <<>> \in Seq(Word)
  BY EmptySeq
<1>2. TypeOK
  BY <1>1, SvrLinkAssumption DEF Init, TypeOK, Word
<1>3. ASSUME NEW s \in Ids PROVE SessionInv(s)
  <2>1. stream["dialler"][s] = <<>> /\ stream["acceptor"][s] = <<>>
    BY DEF Init, Ends
  <2>2. EntryInv(s)
    BY NoneIsNoId DEF Init, EntryInv
  <2>3. RequestInv(s)
    BY <2>1, CountEmpty, ElemsEmpty DEF Init, RequestInv, Ends
  <2>4. AnswerInv(s) /\ LiveInv(s) /\ DialInv(s)
    BY <2>1, ElemsEmpty DEF Init, AnswerInv, LiveInv, DialInv, Ends
  <2>5. QED
    BY <2>2, <2>3, <2>4 DEF SessionInv
<1>4. QED
  BY <1>2, <1>3 DEF IInv

\* The tcp layer makes and ends connections.
LEMMA TcpStep ==
  ASSUME IInv, Dial \/ \E s \in Ids : Lost(s)
  PROVE  IInv'
<1>1. TypeOK /\ stream \in Streams /\ \A t \in Ids : SessionInv(t)
  BY DEF IInv, TypeOK, Streams, Word
<1>2. CASE Dial
  <2>1. dialled + 1 \in Ids /\ stream' = stream /\ live' = [live EXCEPT ![dialled + 1] = TRUE]
    BY <1>1, <1>2, SvrLinkAssumption DEF Dial, TypeOK, Ids
  <2>2. TypeOK'
    BY <1>1, <1>2, <2>1, SvrLinkAssumption DEF Dial, TypeOK
  <2>3. ASSUME NEW t \in Ids PROVE SessionInv(t)'
    <3>1. dialled \in Nat /\ t \in Nat /\ dialled' = dialled + 1 /\ UNCHANGED <<logic, attr, entry>>
      BY <1>1, <1>2, NoneIsNoId DEF Dial, TypeOK
    <3>2. t = dialled + 1 => logic["dialler"][t] = "none"
      BY <1>1, <1>2, <3>1 DEF SessionInv, DialInv, TypeOK, Ends
    <3>3. DialInv(t)'
      BY <1>1, <3>1 DEF SessionInv, DialInv
    <3>4. EntryInv(t)' /\ RequestInv(t)' /\ AnswerInv(t)'
      BY <1>1, <2>1, <3>1 DEF SessionInv, EntryInv, RequestInv, AnswerInv
    <3>5. LiveInv(t)'
      BY <1>1, <2>1, <3>1, <3>2 DEF SessionInv, LiveInv, TypeOK
    <3>6. QED
      BY <3>3, <3>4, <3>5 DEF SessionInv
  <2>4. QED
    BY <2>2, <2>3 DEF IInv
<1>3. ASSUME NEW s \in Ids, Lost(s) PROVE IInv'
  <2>1. Cut(stream, stream', s) /\ live' = [live EXCEPT ![s] = FALSE]
    BY <1>1, <1>3, TruncatedCuts DEF Lost
  <2>2. TypeOK'
    BY <1>1, <1>3, <2>1 DEF Lost, TypeOK, Cut, Streams, Word
  <2>3. ASSUME NEW t \in Ids PROVE SessionInv(t)'
    <3>1. Undisturbed(t)
      BY <1>1, <1>3, <2>1, ShrinksNot DEF Lost, TypeOK, Cut, Undisturbed
    <3>2. QED
      BY <1>1, <2>1, <3>1, UndisturbedKeeps DEF Cut
  <2>4. QED
    BY <2>2, <2>3 DEF IInv
<1>4. QED
  BY <1>2, <1>3

\* A message more, or less, in a stream.
LEMMA AppendWord ==
  ASSUME NEW q \in Seq(Word), NEW m \in Word
  PROVE  /\ Elems(Append(q, m)) = Elems(q) \cup {m}
         /\ Count(Append(q, m), {"register"}) = Count(q, {"register"}) + In(m, {"register"})
BY ElemsAppend, CountAppend

LEMMA TailWord ==
  ASSUME NEW q \in Seq(Word), q # <<>>
  PROVE  /\ Elems(q) = Elems(Tail(q)) \cup {Head(q)}
         /\ Elems(Tail(q)) \subseteq Elems(q)
         /\ Count(Tail(q), {"register"}) = Count(q, {"register"}) - In(Head(q), {"register"})
         /\ Shrinks(Tail(q), q)
<1>1. Elems(q) = Elems(Tail(q)) \cup {Head(q)}
  BY ElemsTail
<1>2. /\ Count(Tail(q), {"register"}) = Count(q, {"register"}) - In(Head(q), {"register"})
      /\ Count(q, {"register"}) \in Nat /\ In(Head(q), {"register"}) \in {0, 1}
  BY CountTail, CountType DEF In
<1>3. Count(Tail(q), {"register"}) <= Count(q, {"register"})
  BY <1>2
<1>4. QED
  BY <1>1, <1>2, <1>3 DEF Shrinks

\* A logic session begins at the dialler, with the request to register.
LEMMA ConnectStep ==
  ASSUME IInv, NEW s \in Ids, OnConnect(s)
  PROVE  IInv'
<1>1. TypeOK /\ stream \in Streams /\ \A t \in Ids : SessionInv(t)
  BY DEF IInv, TypeOK, Streams, Word
<1>2. "dialler" \in Ends /\ "acceptor" \in Ends
  BY DEF Ends
<1>3. /\ logic["dialler"][s] = "none" /\ logic' = [logic EXCEPT !["dialler"][s] = "open"]
      /\ stream' = Sent(stream, "acceptor", s, "register")
      /\ UNCHANGED <<dialled, live, attr, entry>> /\ s <= dialled
  BY <1>1, NoneIsNoId DEF OnConnect, Turn, Create, RegSvr, TypeOK
<1>4. /\ stream' \in Streams
      /\ \A d \in Ends, t \in Ids :
           stream'[d][t] = IF live[s] /\ d = "acceptor" /\ t = s
                           THEN Append(stream["acceptor"][s], "register") ELSE stream[d][t]
  <2> DEFINE su == Sent(stream, "acceptor", s, "register")
  <2>1. "register" \in Word
    BY DEF Word
  <2>2. /\ su \in Streams
        /\ \A d \in Ends, t \in Ids :
             su[d][t] = IF live[s] /\ d = "acceptor" /\ t = s
                        THEN Append(stream["acceptor"][s], "register") ELSE stream[d][t]
    BY <1>1, <1>2, <2>1, SentAt
  <2>3. stream' = su
    BY <1>3
  <2> HIDE DEF su
  <2>4. QED
    BY <2>2, <2>3
<1>5. TypeOK'
  BY <1>1, <1>2, <1>4, SvrLinkAssumption DEF OnConnect, Create, TypeOK, Streams, Word
<1>6. ASSUME NEW t \in Ids, t # s PROVE SessionInv(t)'
  <2>1. Undisturbed(t)
    BY <1>1, <1>3, <1>4, <1>6, ShrinksNot DEF Undisturbed, TypeOK
  <2>2. QED
    BY <1>1, <1>4, <2>1, UndisturbedKeeps
<1>7. SessionInv(s)'
  <2> DEFINE q == stream["acceptor"][s]
             r == stream'["acceptor"][s]
  <2>1. q = <<>> /\ r = (IF live[s] THEN Append(q, "register") ELSE q) /\ ~attr["acceptor"][s]
    BY <1>1, <1>2, <1>3, <1>4 DEF SessionInv, RequestInv
  <2>2. q \in Seq(Word) /\ Elems(q) = {} /\ Count(q, {"register"}) = 0
    BY <2>1, ElemsEmpty, CountEmpty, EmptySeq
  <2>3. /\ logic'["dialler"][s] = "open" /\ logic'["acceptor"][s] = logic["acceptor"][s]
        /\ stream'["dialler"][s] = stream["dialler"][s]
    BY <1>1, <1>2, <1>3, <1>4 DEF TypeOK
  <2> HIDE DEF q, r
  <2>4. Elems(r) = (IF live[s] THEN {"register"} ELSE {}) /\ Count(r, {"register"}) <= 1
    <3>1. Elems(Append(q, "register")) = Elems(q) \cup {"register"}
          /\ Count(Append(q, "register"), {"register"})
               = Count(q, {"register"}) + In("register", {"register"})
      BY <2>2, AppendWord DEF Word
    <3>2. In("register", {"register"}) = 1
      BY DEF In
    <3>3. CASE live[s]
      <4>1. r = Append(q, "register") /\ Count(q, {"register"}) + In("register", {"register"}) = 1
        BY <2>1, <2>2, <3>2, <3>3
      <4>2. QED
        BY <2>2, <3>1, <3>3, <4>1
    <3>4. CASE ~live[s]
      BY <2>1, <2>2, <3>4
    <3>5. QED
      BY <3>3, <3>4
  <2>5. DialInv(s)' /\ EntryInv(s)'
    BY <1>1, <1>3 DEF SessionInv, DialInv, EntryInv
  <2>6. RequestInv(s)'
    BY <1>3, <2>1, <2>3, <2>4 DEF RequestInv, r
  <2>7. AnswerInv(s)'
    BY <1>1, <1>3, <2>2, <2>3, <2>4 DEF SessionInv, AnswerInv, q, r
  <2>8. LiveInv(s)'
    BY <1>3, <2>3, <2>4 DEF OnConnect, LiveInv, r
  <2>9. QED
    BY <2>5, <2>6, <2>7, <2>8 DEF SessionInv
<1>8. QED
  BY <1>5, <1>6, <1>7 DEF IInv

\* A logic session begins at the acceptor.
LEMMA AcceptStep ==
  ASSUME IInv, NEW s \in Ids, OnAccept(s)
  PROVE  IInv'
<1>1. TypeOK /\ \A t \in Ids : SessionInv(t)
  BY DEF IInv
<1>2. /\ logic["acceptor"][s] = "none" /\ logic' = [logic EXCEPT !["acceptor"][s] = "open"]
      /\ UNCHANGED <<dialled, live, stream, attr, entry, answered, notices>>
  BY DEF OnAccept, Create
<1>3. TypeOK'
  BY <1>1, <1>2, SvrLinkAssumption DEF TypeOK, Ends
<1>4. ASSUME NEW t \in Ids
      PROVE  /\ logic'["dialler"][t] = logic["dialler"][t]
             /\ logic["acceptor"][t] = "closed" => logic'["acceptor"][t] = "closed"
  BY <1>1, <1>2 DEF TypeOK, Ends
<1>5. ASSUME NEW t \in Ids PROVE SessionInv(t)'
  BY <1>1, <1>2, <1>4 DEF SessionInv, DialInv, EntryInv, RequestInv, AnswerInv, LiveInv
<1>6. QED
  BY <1>3, <1>5 DEF IInv

\* The acceptor registers a session, and answers.
LEMMA RegisterStep ==
  ASSUME IInv, NEW s \in Ids, OnReqRegister(s)
  PROVE  IInv'
<1>1. TypeOK /\ stream \in Streams /\ \A t \in Ids : SessionInv(t)
  BY DEF IInv, TypeOK, Streams, Word
<1>2. "dialler" \in Ends /\ "acceptor" \in Ends /\ "dialler" # "acceptor"
  BY DEF Ends
<1> DEFINE q == stream["acceptor"][s]
           R == Received("acceptor", s)
           su == Sent(R, "dialler", s, "answer")
<1>3. /\ logic["acceptor"][s] = "open" /\ q # <<>> /\ Head(q) = "register" /\ q \in Seq(Word)
      /\ UNCHANGED <<dialled, logic, answered, notices>>
  BY <1>1, <1>2, StreamType DEF OnReqRegister, Receives
<1>4. /\ Elems(q) = Elems(Tail(q)) \cup {"register"} /\ Count(q, {"register"}) <= 1
      /\ Count(q, {"register"}) \in Nat
      /\ Count(Tail(q), {"register"}) = Count(q, {"register"}) - In("register", {"register"})
      /\ Tail(q) \in Seq(Word)
  BY <1>1, <1>2, <1>3, TailWord, StreamType, HeadTailProperties DEF SessionInv, RequestInv
<1>5. "register" \in Elems(q) /\ ~attr["acceptor"][s] /\ entry["acceptor"] # s
  BY <1>1, <1>2, <1>4 DEF SessionInv, RequestInv, EntryInv
<1>6. logic["dialler"][s] # "none" /\ s <= dialled
  BY <1>1, <1>3 DEF SessionInv, RequestInv, DialInv
<1>7. R \in Streams /\ \A d \in Ends, t \in Ids :
        R[d][t] = IF d = "acceptor" /\ t = s THEN Tail(q) ELSE stream[d][t]
  BY <1>1, <1>2, <1>3, ReceivedAt
<1>8. "register" \notin Elems(Tail(q)) /\ Count(Tail(q), {"register"}) <= 1
  <2>1. In("register", {"register"}) = 1
    BY DEF In
  <2>2. Count(Tail(q), {"register"}) = 0
    <3>1. Count(Tail(q), {"register"}) \in Nat
      BY <1>4, CountType
    <3>2. QED
      BY <1>4, <2>1, <3>1
  <2>3. \A x \in Elems(Tail(q)) : x \notin {"register"}
    BY <1>4, <2>2, CountType
  <2>4. QED
    BY <2>2, <2>3
<1>9. AddSession("acceptor", s, su)
  BY <1>5 DEF OnReqRegister
<1> HIDE DEF R, q
<1>10. su \in Streams /\ \A d \in Ends, t \in Ids :
         su[d][t] = IF live[s] /\ d = "dialler" /\ t = s THEN Append(R["dialler"][s], "answer")
                    ELSE R[d][t]
  <2>1. "answer" \in Word
    BY DEF Word
  <2>2. QED
    BY <1>2, <1>7, <2>1, SentAt
<1> HIDE DEF su
<1>11. /\ attr' = [attr EXCEPT !["acceptor"][s] = TRUE] /\ entry' = [entry EXCEPT !["acceptor"] = s]
       /\ stream' \in Streams /\ live' \in [Ids -> BOOLEAN]
       /\ live'[s] = live[s] /\ \A d \in Ends : stream'[d][s] = su[d][s]
       /\ \A t \in Ids \ {s} :
            /\ \A d \in Ends : Shrinks(stream'[d][t], su[d][t])
            /\ live'[t] => /\ live[t] /\ entry["acceptor"] # t
                           /\ \A d \in Ends : stream'[d][t] = su[d][t]
  BY <1>1, <1>2, <1>5, <1>9, <1>10, Added
<1>12. TypeOK'
  BY <1>1, <1>3, <1>11, SvrLinkAssumption DEF TypeOK, Streams, Word, Ends
<1>13. ASSUME NEW t \in Ids, t # s PROVE SessionInv(t)'
  <2>1. \A d \in Ends : su[d][t] = stream[d][t]
    BY <1>7, <1>10, <1>13
  <2>2. \A d \in Ends : attr'[d][t] = attr[d][t] /\ (entry'[d] = t => entry[d] = t)
    BY <1>1, <1>11, <1>13 DEF TypeOK, Ends
  <2>3. live'[t] => \A d \in Ends : entry[d] = t => entry'[d] = t
    BY <1>1, <1>11, <1>13 DEF TypeOK, Ends
  <2>4. Undisturbed(t)
    BY <1>3, <1>11, <1>13, <2>1, <2>2, <2>3 DEF Undisturbed
  <2>5. QED
    BY <1>1, <1>11, <2>4, UndisturbedKeeps
<1>14. SessionInv(s)'
  <2>1. /\ stream'["acceptor"][s] = Tail(q)
        /\ stream'["dialler"][s] = IF live[s] THEN Append(stream["dialler"][s], "answer")
                                   ELSE stream["dialler"][s]
    <3>1. R["acceptor"][s] = Tail(q) /\ R["dialler"][s] = stream["dialler"][s]
      BY <1>2, <1>7
    <3>2. /\ su["acceptor"][s] = R["acceptor"][s]
          /\ su["dialler"][s] = IF live[s] THEN Append(R["dialler"][s], "answer")
                                ELSE R["dialler"][s]
      BY <1>2, <1>10
    <3>3. stream'["acceptor"][s] = su["acceptor"][s] /\ stream'["dialler"][s] = su["dialler"][s]
      BY <1>2, <1>11
    <3>4. QED
      BY <3>1, <3>2, <3>3
  <2>2. /\ attr'["acceptor"][s] = TRUE /\ attr'["dialler"][s] = attr["dialler"][s]
        /\ entry'["acceptor"] = s /\ entry'["dialler"] = entry["dialler"]
    BY <1>1, <1>2, <1>11 DEF TypeOK
  <2>3. DialInv(s)' /\ EntryInv(s)'
    BY <1>1, <1>3, <1>6, <2>2 DEF SessionInv, DialInv, EntryInv, Ends
  <2>4. RequestInv(s)'
    BY <1>3, <1>6, <1>8, <2>1 DEF RequestInv
  <2>5. AnswerInv(s)'
    BY <2>2 DEF AnswerInv
  <2>6. live[s] => "answer" \in Elems(stream'["dialler"][s])
    <3>1. stream["dialler"][s] \in Seq(Word) /\ "answer" \in Word
      BY <1>1, <1>2, StreamType DEF Word
    <3>2. QED
      BY <2>1, <3>1, AppendWord
  <2>7. LiveInv(s)'
    BY <1>11, <2>2, <2>6 DEF LiveInv
  <2>8. QED
    BY <2>3, <2>4, <2>5, <2>7 DEF SessionInv
<1>15. QED
  BY <1>12, <1>13, <1>14 DEF IInv

\* The dialler takes the answer for a registration, or cannot dispatch it.
LEMMA AnswerStep ==
  ASSUME IInv, NEW s \in Ids, OnResRegister(s)
  PROVE  IInv'
<1>1. TypeOK /\ stream \in Streams /\ \A t \in Ids : SessionInv(t)
  BY DEF IInv, TypeOK, Streams, Word
<1>2. "dialler" \in Ends /\ "acceptor" \in Ends /\ "dialler" # "acceptor"
  BY DEF Ends
<1> DEFINE q == stream["dialler"][s]
           R == Received("dialler", s)
<1>3. /\ logic["dialler"][s] = "open" /\ q # <<>> /\ Head(q) = "answer" /\ q \in Seq(Word)
      /\ UNCHANGED <<dialled, logic, notices>> /\ answered' = answered \cup {s}
  BY <1>1, <1>2, StreamType DEF OnResRegister, Receives
<1>4. Elems(q) = Elems(Tail(q)) \cup {"answer"} /\ Shrinks(Tail(q), q)
  BY <1>3, TailWord
<1>5. attr["acceptor"][s] \/ logic["acceptor"][s] = "closed"
  BY <1>1, <1>4 DEF SessionInv, AnswerInv
<1>6. R \in Streams /\ \A d \in Ends, t \in Ids :
        R[d][t] = IF d = "dialler" /\ t = s THEN Tail(q) ELSE stream[d][t]
  BY <1>1, <1>2, <1>3, ReceivedAt
<1> HIDE DEF R, q
<1>7. CASE AnswerDispatched /\ entry["dialler"] # s
  <2>1. AddSession("dialler", s, R)
    BY <1>7 DEF OnResRegister, R
  <2>2. /\ attr' = [attr EXCEPT !["dialler"][s] = TRUE] /\ entry' = [entry EXCEPT !["dialler"] = s]
        /\ stream' \in Streams /\ live' \in [Ids -> BOOLEAN]
        /\ live'[s] = live[s] /\ \A d \in Ends : stream'[d][s] = R[d][s]
        /\ \A t \in Ids \ {s} :
             /\ \A d \in Ends : Shrinks(stream'[d][t], R[d][t])
             /\ live'[t] => /\ live[t] /\ entry["dialler"] # t
                            /\ \A d \in Ends : stream'[d][t] = R[d][t]
    BY <1>1, <1>2, <1>6, <1>7, <2>1, Added
  <2>3. TypeOK'
    <3>1. /\ dialled' \in 0..MaxSessions /\ notices' \in 0..MaxNotices
          /\ logic' \in [Ends -> [Ids -> {"none", "open", "closed"}]] /\ answered' \subseteq Ids
      BY <1>1, <1>3 DEF TypeOK
    <3>2. live' \in [Ids -> BOOLEAN] /\ stream' \in [Ends -> [Ids -> Seq({"register", "answer", "notice"})]]
      BY <2>2 DEF Streams, Word
    <3>3. attr' \in [Ends -> [Ids -> BOOLEAN]] /\ entry' \in [Ends -> Ids \cup {None}]
      BY <1>1, <1>2, <2>2 DEF TypeOK
    <3>4. ASSUME NEW d \in Ends, NEW t \in Ids, attr'[d][t] PROVE logic'[d][t] = "open"
      BY <1>1, <1>2, <1>3, <2>2, <3>4 DEF TypeOK
    <3>5. QED
      BY <3>1, <3>2, <3>3, <3>4 DEF TypeOK
  <2>4. ASSUME NEW t \in Ids, t # s PROVE SessionInv(t)'
    <3>1. \A d \in Ends : R[d][t] = stream[d][t]
      BY <1>6, <2>4
    <3>2. \A d \in Ends : attr'[d][t] = attr[d][t] /\ (entry'[d] = t => entry[d] = t)
      BY <1>1, <2>2, <2>4 DEF TypeOK, Ends
    <3>3. live'[t] => \A d \in Ends : entry[d] = t => entry'[d] = t
      BY <1>1, <2>2, <2>4 DEF TypeOK, Ends
    <3>4. Undisturbed(t)
      BY <1>3, <2>2, <2>4, <3>1, <3>2, <3>3 DEF Undisturbed
    <3>5. QED
      BY <1>1, <2>2, <3>4, UndisturbedKeeps
  <2>5. SessionInv(s)'
    <3>1. stream'["acceptor"][s] = stream["acceptor"][s]
      BY <1>2, <1>6, <2>2
    <3>2. /\ attr'["dialler"][s] = TRUE /\ attr'["acceptor"][s] = attr["acceptor"][s]
          /\ entry'["dialler"] = s /\ entry'["acceptor"] = entry["acceptor"]
      BY <1>1, <1>2, <2>2 DEF TypeOK
    <3>3. DialInv(s)' /\ EntryInv(s)'
      BY <1>1, <1>3, <3>2 DEF SessionInv, DialInv, EntryInv, Ends
    <3>4. RequestInv(s)'
      BY <1>1, <1>3, <3>1, <3>2 DEF SessionInv, RequestInv
    <3>5. AnswerInv(s)'
      BY <1>3, <1>5, <3>2 DEF AnswerInv
    <3>6. LiveInv(s)'
      BY <1>1, <1>3, <2>2, <3>1, <3>2 DEF SessionInv, LiveInv
    <3>7. QED
      BY <3>3, <3>4, <3>5, <3>6 DEF SessionInv
  <2>6. QED
    BY <2>3, <2>4, <2>5 DEF IInv
<1>8. CASE ~(AnswerDispatched /\ entry["dialler"] # s)
  <2>1. stream' = R /\ UNCHANGED <<live, attr, entry>>
    BY <1>8 DEF OnResRegister, R
  <2>2. TypeOK'
    BY <1>1, <1>3, <1>6, <2>1, SvrLinkAssumption DEF TypeOK, Streams, Word
  <2>3. ASSUME NEW t \in Ids, t # s PROVE SessionInv(t)'
    <3>1. Undisturbed(t)
      BY <1>1, <1>3, <1>6, <2>1, <2>3, ShrinksNot DEF Undisturbed
    <3>2. QED
      BY <1>1, <1>6, <2>1, <3>1, UndisturbedKeeps
  <2>4. SessionInv(s)'
    <3>1. stream'["acceptor"][s] = stream["acceptor"][s] /\ stream'["dialler"][s] = Tail(q)
      BY <1>2, <1>6, <2>1
    <3>2. DialInv(s)' /\ EntryInv(s)' /\ RequestInv(s)'
      BY <1>1, <1>3, <2>1, <3>1 DEF SessionInv, DialInv, EntryInv, RequestInv
    <3>3. AnswerInv(s)'
      BY <1>3, <1>5, <2>1 DEF AnswerInv
    <3>4. LiveInv(s)'
      BY <1>1, <1>3, <1>8, <2>1, <3>1 DEF SessionInv, LiveInv, AnswerDispatched
    <3>5. QED
      BY <3>2, <3>3, <3>4 DEF SessionInv
  <2>5. QED
    BY <2>2, <2>3, <2>4 DEF IInv
<1>9. QED
  BY <1>7, <1>8

\* The dialler sends through its group.
LEMMA NotifyStep ==
  ASSUME IInv, Notify
  PROVE  IInv'
<1>1. TypeOK /\ stream \in Streams /\ \A t \in Ids : SessionInv(t)
  BY DEF IInv, TypeOK, Streams, Word
<1>2. "dialler" \in Ends /\ "acceptor" \in Ends /\ "dialler" # "acceptor" /\ "notice" \in Word
  BY DEF Ends, Word
<1>3. /\ notices' \in 0..MaxNotices /\ UNCHANGED <<dialled, live, logic, attr, entry, answered>>
      /\ SendToGroup("dialler", "acceptor", "notice")
  BY <1>1, SvrLinkAssumption DEF Notify, TypeOK
<1>4. ASSUME stream' = stream PROVE IInv'
  <2>1. TypeOK'
    BY <1>1, <1>3, <1>4 DEF TypeOK
  <2>2. ASSUME NEW t \in Ids PROVE SessionInv(t)'
    BY <1>1, <1>3, <1>4 DEF SessionInv, DialInv, EntryInv, RequestInv, AnswerInv, LiveInv
  <2>3. QED
    BY <2>1, <2>2 DEF IInv
<1>5. CASE entry["dialler"] = None
  BY <1>1, <1>3, <1>4, <1>5, SentToGroup
<1>6. ASSUME NEW s \in Ids, entry["dialler"] = s PROVE IInv'
  <2> DEFINE su == Sent(stream, "acceptor", s, "notice")
  <2>1. stream' = su
    BY <1>1, <1>3, <1>6, NoneIsNoId, SentToGroup
  <2>2. attr["dialler"][s] /\ logic["dialler"][s] = "open"
    BY <1>1, <1>2, <1>6 DEF SessionInv, EntryInv, TypeOK
  <2>3. attr["acceptor"][s] \/ logic["acceptor"][s] = "closed"
    BY <1>1, <2>1, <2>2 DEF SessionInv, AnswerInv
  <2>4. su \in Streams /\ \A d \in Ends, t \in Ids :
          su[d][t] = IF live[s] /\ d = "acceptor" /\ t = s
                     THEN Append(stream["acceptor"][s], "notice") ELSE stream[d][t]
    BY <1>1, <1>2, <2>1, SentAt
  <2> HIDE DEF su
  <2>5. TypeOK'
    BY <1>1, <1>3, <2>1, <2>4 DEF TypeOK, Streams, Word
  <2>6. ASSUME NEW t \in Ids, t # s PROVE SessionInv(t)'
    <3>1. \A d \in Ends : stream'[d][t] = stream[d][t]
      BY <2>1, <2>4, <2>6
    <3>2. Undisturbed(t)
      BY <1>1, <1>3, <3>1, ShrinksNot DEF Undisturbed
    <3>3. QED
      BY <1>1, <2>1, <2>4, <3>2, UndisturbedKeeps
  <2>7. SessionInv(s)'
    <3> DEFINE q == stream["acceptor"][s]
               r == stream'["acceptor"][s]
    <3>1. stream'["dialler"][s] = stream["dialler"][s]
      BY <1>2, <2>1, <2>4
    <3>2. r = IF live[s] THEN Append(q, "notice") ELSE q
      BY <1>2, <2>1, <2>4
    <3>3. q \in Seq(Word) /\ Count(q, {"register"}) \in Nat
      BY <1>1, <1>2, <2>1, StreamType
    <3>4. /\ Elems(Append(q, "notice")) = Elems(q) \cup {"notice"}
          /\ Count(Append(q, "notice"), {"register"}) = Count(q, {"register"})
      <4>1. In("notice", {"register"}) = 0
        BY DEF In
      <4>2. QED
        BY <1>2, <3>3, <4>1, AppendWord
    <3>5. /\ Count(q, {"register"}) <= 1 /\ ("register" \in Elems(q) => ~attr["acceptor"][s])
      BY <1>1, <2>1 DEF SessionInv, RequestInv
    <3> HIDE DEF q, r
    <3>6. /\ Elems(q) \subseteq Elems(r) /\ Elems(r) \subseteq Elems(q) \cup {"notice"}
          /\ Count(r, {"register"}) = Count(q, {"register"})
      <4>1. CASE live[s]
        BY <3>2, <3>4, <4>1
      <4>2. CASE ~live[s]
        BY <3>2, <4>2
      <4>3. QED
        BY <4>1, <4>2
    <3>7. DialInv(s)' /\ EntryInv(s)'
      BY <1>1, <1>3, <2>1 DEF SessionInv, DialInv, EntryInv
    <3>8. RequestInv(s)'
      <4>1. logic'["dialler"][s] = "open" /\ attr'["acceptor"][s] = attr["acceptor"][s]
        BY <1>3, <2>2
      <4>2. Count(r, {"register"}) <= 1 /\ ("register" \in Elems(r) => ~attr["acceptor"][s])
        BY <3>5, <3>6
      <4>3. QED
        BY <4>1, <4>2 DEF RequestInv, r
    <3>9. AnswerInv(s)'
      BY <1>3, <2>3 DEF AnswerInv
    <3>10. LiveInv(s)'
      BY <1>1, <1>3, <2>1, <3>1, <3>6 DEF SessionInv, LiveInv, q, r
    <3>11. QED
      BY <3>7, <3>8, <3>9, <3>10 DEF SessionInv
  <2>8. QED
    BY <2>5, <2>6, <2>7 DEF IInv
<1>7. QED
  BY <1>1, <1>2, <1>5, <1>6 DEF TypeOK

\* The acceptor drops a message it has no handler for.
LEMMA NoticeStep ==
  ASSUME IInv, NEW s \in Ids, OnNotice(s)
  PROVE  IInv'
<1>1. TypeOK /\ stream \in Streams /\ \A t \in Ids : SessionInv(t)
  BY DEF IInv, TypeOK, Streams, Word
<1>2. "dialler" \in Ends /\ "acceptor" \in Ends /\ "dialler" # "acceptor"
  BY DEF Ends
<1> DEFINE q == stream["acceptor"][s]
           R == Received("acceptor", s)
<1>3. /\ q # <<>> /\ Head(q) = "notice" /\ q \in Seq(Word) /\ stream' = R
      /\ UNCHANGED <<dialled, live, logic, attr, entry, answered, notices>>
  BY <1>1, <1>2, StreamType DEF OnNotice, Receives
<1>4. Elems(q) = Elems(Tail(q)) \cup {"notice"} /\ Shrinks(Tail(q), q)
  BY <1>3, TailWord
<1>5. R \in Streams /\ \A d \in Ends, t \in Ids :
        R[d][t] = IF d = "acceptor" /\ t = s THEN Tail(q) ELSE stream[d][t]
  BY <1>1, <1>2, <1>3, ReceivedAt
<1>6. attr["acceptor"][s] \/ logic["acceptor"][s] = "closed"
  BY <1>1, <1>4 DEF SessionInv, AnswerInv
<1>7. logic["dialler"][s] # "none"
  BY <1>1, <1>3 DEF SessionInv, RequestInv
<1> HIDE DEF R
<1>8. TypeOK'
  BY <1>1, <1>3, <1>5 DEF TypeOK, Streams, Word
<1>9. ASSUME NEW t \in Ids, t # s PROVE SessionInv(t)'
  <2>1. \A d \in Ends : stream'[d][t] = stream[d][t]
    BY <1>3, <1>5, <1>9
  <2>2. Undisturbed(t)
    BY <1>1, <1>3, <2>1, ShrinksNot DEF Undisturbed
  <2>3. QED
    BY <1>1, <1>3, <1>5, <2>2, UndisturbedKeeps
<1>10. SessionInv(s)'
  <2> DEFINE r == stream'["acceptor"][s]
  <2>1. r = Tail(q) /\ stream'["dialler"][s] = stream["dialler"][s]
    BY <1>2, <1>3, <1>5
  <2>2. /\ Count(q, {"register"}) \in Nat /\ Count(r, {"register"}) \in Nat
        /\ Count(q, {"register"}) <= 1 /\ ("register" \in Elems(q) => ~attr["acceptor"][s])
    BY <1>1, <1>2, <1>3, <1>5, StreamType DEF SessionInv, RequestInv
  <2>3. "register" \in Elems(q) => "register" \in Elems(r)
    BY <1>4, <2>1
  <2> HIDE DEF q, r
  <2>4. Count(r, {"register"}) <= 1 /\ Elems(r) \subseteq Elems(q)
    <3>1. Count(r, {"register"}) <= Count(q, {"register"}) /\ Elems(r) \subseteq Elems(q)
      BY <1>4, <2>1 DEF Shrinks
    <3>2. QED
      BY <2>2, <3>1
  <2>5. DialInv(s)' /\ EntryInv(s)'
    BY <1>1, <1>3 DEF SessionInv, DialInv, EntryInv
  <2>6. RequestInv(s)'
    BY <1>3, <1>7, <2>2, <2>4 DEF RequestInv, r
  <2>7. AnswerInv(s)'
    BY <1>3, <1>6 DEF AnswerInv
  <2>8. LiveInv(s)'
    BY <1>1, <1>3, <2>1, <2>3 DEF SessionInv, LiveInv, q, r
  <2>9. QED
    BY <2>5, <2>6, <2>7, <2>8 DEF SessionInv
<1>11. QED
  BY <1>8, <1>9, <1>10 DEF IInv

\* The close of a logic session takes it out of the group.
LEMMA CloseStep ==
  ASSUME IInv, NEW e \in Ends, NEW s \in Ids, OnClose(e, s)
  PROVE  IInv'
<1>1. TypeOK /\ stream \in Streams /\ \A t \in Ids : SessionInv(t)
  BY DEF IInv, TypeOK, Streams, Word
<1>2. "dialler" \in Ends /\ "acceptor" \in Ends
  BY DEF Ends
<1>3. /\ logic[e][s] = "open" /\ ~live[s] /\ stream[e][s] = <<>>
      /\ logic' = [logic EXCEPT ![e][s] = "closed"] /\ attr' = [attr EXCEPT ![e][s] = FALSE]
      /\ UNCHANGED <<dialled, live, stream, answered, notices>>
  BY DEF OnClose, Ended
<1>4. ASSUME NEW d \in Ends
      PROVE  entry'[d] = IF d = e /\ entry[e] = s THEN None ELSE entry[d]
  <2>1. entry[e] = s => attr[e][s]
    BY <1>1 DEF SessionInv, EntryInv
  <2>2. CASE entry[e] = s
    BY <1>1, <2>1, <2>2 DEF OnClose, OnSvrOffline, RemoveSession, TypeOK
  <2>3. CASE entry[e] # s
    BY <2>3 DEF OnClose, OnSvrOffline, RemoveSession
  <2>4. QED
    BY <2>2, <2>3
<1>5. ASSUME NEW d \in Ends, NEW t \in Ids
      PROVE  /\ logic'[d][t] = IF d = e /\ t = s THEN "closed" ELSE logic[d][t]
             /\ attr'[d][t] = IF d = e /\ t = s THEN FALSE ELSE attr[d][t]
  BY <1>1, <1>3 DEF TypeOK
<1>6. TypeOK'
  <2>1. entry' \in [Ends -> Ids \cup {None}]
    BY <1>1 DEF OnClose, OnSvrOffline, RemoveSession, TypeOK
  <2>2. ASSUME NEW d \in Ends, NEW t \in Ids, attr'[d][t] PROVE logic'[d][t] = "open"
    <3>1. ~(d = e /\ t = s)
      <4>1. (d = e /\ t = s) => attr'[d][t] = FALSE
        BY <1>5
      <4>2. QED
        BY <2>2, <4>1
    <3>2. attr'[d][t] = attr[d][t] /\ logic'[d][t] = logic[d][t]
      BY <1>5, <3>1
    <3>3. QED
      BY <1>1, <2>2, <3>2 DEF TypeOK
  <2>3. QED
    BY <1>1, <1>3, <2>1, <2>2 DEF TypeOK
<1>7. ASSUME NEW t \in Ids, t # s PROVE SessionInv(t)'
  <2>1. \A d \in Ends : /\ logic'[d][t] = logic[d][t] /\ attr'[d][t] = attr[d][t]
                        /\ stream'[d][t] = stream[d][t]
                        /\ entry'[d] = t <=> entry[d] = t
    BY <1>3, <1>4, <1>5, <1>7, NoneIsNoId
  <2>2. Undisturbed(t)
    BY <1>1, <1>3, <2>1, ShrinksNot DEF Undisturbed
  <2>3. QED
    BY <1>1, <1>3, <2>2, UndisturbedKeeps
<1>8. SessionInv(s)'
  <2>1. DialInv(s)'
    BY <1>1, <1>2, <1>3, <1>5 DEF SessionInv, DialInv
  <2>2. EntryInv(s)'
    <3>1. ASSUME NEW d \in Ends, entry'[d] = s PROVE attr'[d][s]
      <4>1. d # e /\ entry[d] = s
        BY <1>4, <3>1, NoneIsNoId
      <4>2. QED
        BY <1>1, <1>5, <4>1 DEF SessionInv, EntryInv
    <3>2. QED
      BY <3>1 DEF EntryInv
  <2>3. RequestInv(s)'
    BY <1>1, <1>2, <1>3, <1>5 DEF SessionInv, RequestInv
  <2>4. AnswerInv(s)'
    <3>1. CASE e = "acceptor"
      BY <1>5, <3>1 DEF AnswerInv
    <3>2. CASE e = "dialler"
      BY <1>1, <1>2, <1>3, <1>5, <3>2 DEF SessionInv, AnswerInv
    <3>3. QED
      BY <3>1, <3>2 DEF Ends
  <2>5. LiveInv(s)'
    BY <1>3 DEF LiveInv
  <2>6. QED
    BY <2>1, <2>2, <2>3, <2>4, <2>5 DEF SessionInv
<1>9. QED
  BY <1>6, <1>7, <1>8 DEF IInv

\* The inductive invariant.
LEMMA InductiveInvariant == Spec => []IInv
<1>1. IInv /\ [Next]_vars => IInv'
  <2> SUFFICES ASSUME IInv, [Next]_vars PROVE IInv'
    OBVIOUS
  <2>1. CASE Dial \/ \E s \in Ids : Lost(s)
    BY <2>1, TcpStep
  <2>2. CASE Notify
    BY <2>2, NotifyStep
  <2>3. ASSUME NEW s \in Ids, DiallerLoop(s) PROVE IInv'
    BY <2>3, ConnectStep, AnswerStep, CloseStep DEF DiallerLoop, Ends
  <2>4. ASSUME NEW s \in Ids, AcceptorLoop(s) PROVE IInv'
    BY <2>4, AcceptStep, RegisterStep, NoticeStep, CloseStep DEF AcceptorLoop, Ends
  <2>5. CASE UNCHANGED vars
    BY <2>5 DEF IInv, TypeOK, SessionInv, DialInv, EntryInv, RequestInv, AnswerInv, LiveInv, vars
  <2>6. QED
    BY <2>1, <2>2, <2>3, <2>4, <2>5 DEF Next
<1>2. QED
  BY <1>1, InvariantInit, PTL DEF Spec

(* ------------------------------- Theorems ------------------------------ *)

\* The variables keep their types, and only an open logic session has the
\* attribute of a registered one.
THEOREM TypeCorrect == Spec => []TypeOK
<1>1. IInv => TypeOK
  BY DEF IInv
<1>2. QED
  BY <1>1, InductiveInvariant, PTL

\* The session in a group is never one that was closed, and what is sent
\* through it arrives after its registration, however the dispatchers of the
\* dialler are set up (svr_info.go:64-113, server_mgr.go:155, 266).
THEOREM EntriesCanBeUsed == Spec => []EntryUsable
<1>1. IInv => EntryUsable
  <2> SUFFICES ASSUME IInv PROVE EntryUsable
    OBVIOUS
  <2>1. TypeOK /\ stream \in Streams /\ \A t \in Ids : SessionInv(t)
    BY DEF IInv, TypeOK, Streams, Word
  <2>2. ASSUME NEW e \in Ends, entry[e] # None PROVE logic[e][entry[e]] = "open"
    <3>1. entry[e] \in Ids
      BY <2>1, <2>2 DEF TypeOK
    <3>2. QED
      BY <2>1, <3>1 DEF SessionInv, EntryInv, TypeOK
  <2>3. ASSUME NEW s \in Ids, logic["acceptor"][s] = "open",
               NEW i \in DOMAIN stream["acceptor"][s], stream["acceptor"][s][i] = "notice"
        PROVE  attr["acceptor"][s]
    <3>1. "notice" \in Elems(stream["acceptor"][s])
      BY <2>3 DEF Elems
    <3>2. QED
      BY <2>1, <2>3, <3>1 DEF SessionInv, AnswerInv
  <2>4. QED
    BY <2>2, <2>3 DEF EntryUsable, EntryOpen, RegisteredFirst
<1>2. QED
  BY <1>1, InductiveInvariant, PTL

\* With a dispatcher for each kind of session, a connection that lives and has
\* nothing under way is the one both ends hold in their groups, whatever
\* happened to the connections before it (svr_info.go:64-91, 99-113).
THEOREM BothEndsHoldTheLink == ASSUME ~Shared PROVE Spec => []LinkHolds
<1>1. IInv => Agreed
  <2> SUFFICES ASSUME IInv, NEW s \in Ids, live[s], Settled(s), NEW e \in Ends
               PROVE  entry[e] = s
    BY DEF Agreed
  <2>1. "dialler" \in Ends /\ "acceptor" \in Ends
    BY DEF Ends
  <2>2. /\ logic["dialler"][s] = "open"
        /\ stream["dialler"][s] = <<>> /\ stream["acceptor"][s] = <<>>
    BY <2>1 DEF Settled
  <2>3. LiveInv(s)
    BY DEF IInv, SessionInv
  <2>4. entry["acceptor"] = s /\ entry["dialler"] = s
    BY <2>2, <2>3, ElemsEmpty DEF LiveInv
  <2>5. QED
    BY <2>4 DEF Ends
<1>2. Spec => []Agreed
  BY <1>1, InductiveInvariant, PTL
<1>3. QED
  BY <1>2, EntriesCanBeUsed, PTL DEF LinkHolds
===============================================================================
