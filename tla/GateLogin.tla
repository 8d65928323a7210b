------------------------------ MODULE GateLogin ------------------------------
(***************************************************************************)
(* Login of a player through the gate: playerMgr of the gate server (apps/ *)
(* gatesvr/src/player/mgr.go) between the clients, a login server and a    *)
(* game server (loginMgr, and playerMgr of gamesvr).  Every handler runs   *)
(* on its server's main loop; messages of one connection stay in order.    *)
(* Connections between the servers can break: the gate goes on sending     *)
(* into a broken connection until it handles the close event, and the      *)
(* game server reconnects later.                                           *)
(***************************************************************************)
EXTENDS Naturals, Sequences, Fifo

CONSTANTS
  Sessions,   \* client connections
  Uids,       \* accounts: the answer of the login server (loginsvr: one fixed uid)
  None,       \* no account, no session
  MaxBreaks,  \* bound: broken connections between servers
  MaxTries,   \* bound: login requests per client
  Refuses     \* the game server may refuse a login; this repository's never does

ASSUME GateLoginAssumption ==
  /\ None \notin Sessions \cup Uids
  /\ MaxBreaks \in Nat /\ MaxTries \in Nat /\ Refuses \in BOOLEAN

Svrs == {"login", "gs"}

VARIABLES
  where,     \* map of the gate that holds the session's player: "new", "tmp", "player", "gone"
  state,     \* player.state_
  uid,       \* player.uid_
  gsId,      \* svr_type_in_ has the game server
  byId,      \* m_player_by_id_
  tries,     \* login requests sent by each client
  request,   \* a login request of the client is in flight to the gate
  alive,     \* client connections that work
  link,      \* connection to each server: "up", "broken", "down"
  toSvr,     \* messages in flight to each server
  toGate,    \* messages in flight from each server
  online,    \* history: accounts the game server was last told are online
  untold,    \* history: accounts of players that left before their game server was known
  breaks

playerVars == <<where, state, uid, gsId, byId>>
clientVars == <<tries, request, alive>>
svrVars == <<link, toSvr, toGate, online, breaks>>
vars == <<playerVars, clientVars, svrVars, untold>>

Init ==
  /\ where = [s \in Sessions |-> "new"]
  /\ state = [s \in Sessions |-> "connect"]
  /\ uid = [s \in Sessions |-> None]
  /\ gsId = [s \in Sessions |-> FALSE]
  /\ byId = [u \in Uids |-> None]
  /\ tries = [s \in Sessions |-> 0]
  /\ request = [s \in Sessions |-> FALSE]
  /\ alive = {}
  /\ link = [v \in Svrs |-> "up"]
  /\ toSvr = [v \in Svrs |-> <<>>] /\ toGate = [v \in Svrs |-> <<>>]
  /\ online = {} /\ untold = {} /\ breaks = 0

\* Session.Send to a server, and a server's answer: lost when the connection
\* no longer works.
Answer(v, ms) == toGate' = IF link[v] = "up" THEN [toGate EXCEPT ![v] = @ \o ms] ELSE toGate
SendTo(v, m) == toSvr' = IF link[v] = "up" THEN [toSvr EXCEPT ![v] = Append(@, m)] ELSE toSvr
Notice(type, s, u) == [type |-> type, s |-> s, u |-> u]

(* -------------------------------- Clients ------------------------------ *)

\* OnAccept.
Accept(s) ==
  /\ where[s] = "new"
  /\ where' = [where EXCEPT ![s] = "tmp"]
  /\ alive' = alive \cup {s}
  /\ UNCHANGED <<state, uid, gsId, byId, tries, request, svrVars, untold>>

\* A client asks to log in, perhaps again before the answer.
Ask(s) ==
  /\ s \in alive /\ ~request[s] /\ tries[s] < MaxTries
  /\ request' = [request EXCEPT ![s] = TRUE]
  /\ tries' = [tries EXCEPT ![s] = @ + 1]
  /\ UNCHANGED <<playerVars, alive, svrVars, untold>>

\* The client's connection ends; a request already received stays.
Leave(s) ==
  /\ s \in alive
  /\ alive' = alive \ {s}
  /\ UNCHANGED <<playerVars, tries, request, svrVars, untold>>

(* ------------------------- The gate, from clients ---------------------- *)

\* Mutant: player.state_ is not tested.
RecvPlayerLoginAgain(s) ==
  /\ request[s] /\ where[s] # "gone"
  /\ request' = [request EXCEPT ![s] = FALSE]
  /\ IF where[s] = "tmp" /\ link["login"] # "down"
     THEN /\ SendTo("login", Notice("login", s, None))
          /\ state' = [state EXCEPT ![s] = "login"]
     ELSE UNCHANGED <<toSvr, state>>
  /\ alive' = IF where[s] = "tmp" THEN alive ELSE alive \ {s}
  /\ UNCHANGED <<where, uid, gsId, byId, tries, link, toGate, online, breaks, untold>>

\* onRecvPlayerLogin: a player that is logged in is disconnected, one that is
\* logging in ignored, and without a login server nothing happens.
RecvPlayerLogin(s) ==
  /\ request[s] /\ where[s] # "gone"
  /\ request' = [request EXCEPT ![s] = FALSE]
  /\ IF where[s] = "tmp" /\ state[s] = "connect" /\ link["login"] # "down"
     THEN /\ SendTo("login", Notice("login", s, None))
          /\ state' = [state EXCEPT ![s] = "login"]
     ELSE UNCHANGED <<toSvr, state>>
  /\ alive' = IF where[s] = "tmp" THEN alive ELSE alive \ {s}
  /\ UNCHANGED <<where, uid, gsId, byId, tries, link, toGate, online, breaks, untold>>

\* Mutant: the account is left in m_player_by_id_.
OnCloseKeepsId(s) ==
  /\ s \notin alive /\ where[s] \in {"tmp", "player"}
  /\ IF where[s] = "player" /\ gsId[s]
     THEN SendTo("gs", Notice("offline", s, uid[s]))
     ELSE UNCHANGED toSvr
  /\ untold' = IF where[s] = "player" /\ ~gsId[s] THEN untold \cup {uid[s]} ELSE untold
  /\ where' = [where EXCEPT ![s] = "gone"]
  /\ request' = [request EXCEPT ![s] = FALSE]
  /\ UNCHANGED <<state, uid, gsId, byId, tries, alive, link, toGate, online, breaks>>

\* OnClose and OnPlayerOffline: a logged in player leaves both maps, and its
\* game server is told if it is known.
OnClose(s) ==
  /\ s \notin alive /\ where[s] \in {"tmp", "player"}
  /\ IF where[s] = "player" /\ gsId[s]
     THEN SendTo("gs", Notice("offline", s, uid[s]))
     ELSE UNCHANGED toSvr
  /\ untold' = IF where[s] = "player" /\ ~gsId[s] THEN untold \cup {uid[s]} ELSE untold
  /\ byId' = IF where[s] = "player" THEN [byId EXCEPT ![uid[s]] = None] ELSE byId
  /\ where' = [where EXCEPT ![s] = "gone"]
  /\ request' = [request EXCEPT ![s] = FALSE]
  /\ UNCHANGED <<state, uid, gsId, tries, alive, link, toGate, online, breaks>>

(* ------------------------- The gate, from servers ---------------------- *)

Pop(v, type) == /\ toGate[v] # <<>> /\ Head(toGate[v]).type = type
                /\ toGate' = [toGate EXCEPT ![v] = Tail(@)]

\* onRecvLoginRet with an error.
LoginFailed ==
  LET m == Head(toGate["login"])
  IN  /\ Pop("login", "fail")
      /\ state' = IF where[m.s] = "tmp" THEN [state EXCEPT ![m.s] = "connect"] ELSE state
      /\ UNCHANGED <<where, uid, gsId, byId, clientVars, link, toSvr, online, breaks, untold>>

\* onRecvLoginRet: on to the game server, or back if there is none.
LoginOk ==
  LET m == Head(toGate["login"])
  IN  /\ Pop("login", "ok")
      /\ IF where[m.s] # "tmp" THEN UNCHANGED <<toSvr, state>>
         ELSE IF link["gs"] # "down"
         THEN SendTo("gs", Notice("online", m.s, m.u)) /\ UNCHANGED state
         ELSE state' = [state EXCEPT ![m.s] = "connect"] /\ UNCHANGED toSvr
      /\ UNCHANGED <<where, uid, gsId, byId, clientVars, link, online, breaks, untold>>

\* Mutant: a player that is gone is ignored.
GameLoginIgnored ==
  LET m == Head(toGate["gs"])
  IN  /\ Pop("gs", "game")
      /\ IF where[m.s] = "tmp"
         THEN /\ where' = [where EXCEPT ![m.s] = "player"]
              /\ state' = [state EXCEPT ![m.s] = "online"]
              /\ uid' = [uid EXCEPT ![m.s] = m.u]
              /\ byId' = [byId EXCEPT ![m.u] = m.s]
         ELSE UNCHANGED <<where, state, uid, byId>>
      /\ UNCHANGED <<gsId, clientVars, link, toSvr, online, breaks, untold>>

\* Mutant: player.state_ is left as it is.
GameLoginNoState ==
  LET m == Head(toGate["gs"])
  IN  /\ Pop("gs", "game")
      /\ IF where[m.s] = "tmp"
         THEN /\ where' = [where EXCEPT ![m.s] = "player"]
              /\ uid' = [uid EXCEPT ![m.s] = m.u]
              /\ byId' = [byId EXCEPT ![m.u] = m.s]
              /\ UNCHANGED toSvr
         ELSE /\ SendTo("gs", Notice("offline", m.s, m.u))
              /\ UNCHANGED <<where, uid, byId>>
      /\ UNCHANGED <<state, gsId, clientVars, link, online, breaks, untold>>

\* onRecvGameLoginRet: the player moves to m_player_, or, when its client is
\* gone, the game server is told that it is offline.
GameLogin ==
  LET m == Head(toGate["gs"])
  IN  /\ Pop("gs", "game")
      /\ IF where[m.s] = "tmp"
         THEN /\ where' = [where EXCEPT ![m.s] = "player"]
              /\ state' = [state EXCEPT ![m.s] = "online"]
              /\ uid' = [uid EXCEPT ![m.s] = m.u]
              /\ byId' = [byId EXCEPT ![m.u] = m.s]
              /\ UNCHANGED toSvr
         ELSE /\ SendTo("gs", Notice("offline", m.s, m.u))
              /\ UNCHANGED <<where, state, uid, byId>>
      /\ UNCHANGED <<gsId, clientVars, link, online, breaks, untold>>

\* Mutant: a refusal does not reset player.state_.
GameLoginRefusedStays ==
  LET m == Head(toGate["gs"])
  IN  /\ Pop("gs", "refused")
      /\ IF where[m.s] = "tmp" THEN UNCHANGED toSvr
         ELSE SendTo("gs", Notice("offline", m.s, m.u))
      /\ UNCHANGED <<playerVars, clientVars, link, online, breaks, untold>>

\* onRecvGameLoginRet with an error: the player may ask again.  Whether its
\* client is gone is tested first, as above.
GameLoginRefused ==
  LET m == Head(toGate["gs"])
  IN  /\ Pop("gs", "refused")
      /\ IF where[m.s] = "tmp"
         THEN state' = [state EXCEPT ![m.s] = "connect"] /\ UNCHANGED toSvr
         ELSE SendTo("gs", Notice("offline", m.s, m.u)) /\ UNCHANGED state
      /\ UNCHANGED <<where, uid, gsId, byId, clientVars, link, online, breaks, untold>>

\* onPlayerEnterSvr.
EnterSvr ==
  LET s == byId[Head(toGate["gs"]).u]
  IN  /\ Pop("gs", "push")
      /\ gsId' = IF s = None THEN gsId ELSE [gsId EXCEPT ![s] = TRUE]
      /\ UNCHANGED <<where, state, uid, byId, clientVars, link, toSvr, online, breaks, untold>>

\* Mutant: OnSvrClosed walks the players that are still logging in.
SvrClosedTmp(v) ==
  /\ link[v] = "broken"
  /\ link' = [link EXCEPT ![v] = "down"]
  /\ toGate' = [toGate EXCEPT ![v] = <<>>]
  /\ alive' = IF v = "gs" THEN alive \ {s \in Sessions : where[s] = "tmp" /\ gsId[s]} ELSE alive
  /\ UNCHANGED <<playerVars, tries, request, toSvr, online, breaks, untold>>

\* The close event of a server's connection: OnSvrOffline, and OnSvrClosed,
\* which disconnects the players of a game server.
SvrClosed(v) ==
  /\ link[v] = "broken"
  /\ link' = [link EXCEPT ![v] = "down"]
  /\ toGate' = [toGate EXCEPT ![v] = <<>>]
  /\ alive' = IF v = "gs" THEN alive \ {s \in Sessions : where[s] = "player" /\ gsId[s]} ELSE alive
  /\ UNCHANGED <<playerVars, tries, request, toSvr, online, breaks, untold>>

\* onResRegister, after a reconnect: by then the server has handled what it
\* received before.
SvrRegistered(v) ==
  /\ link[v] = "down" /\ toSvr[v] = <<>>
  /\ link' = [link EXCEPT ![v] = "up"]
  /\ UNCHANGED <<playerVars, clientVars, toSvr, toGate, online, breaks, untold>>

(* ---------------------------- The servers ------------------------------ *)

\* What either side has not received yet is lost.
Break(v) ==
  /\ link[v] = "up" /\ breaks < MaxBreaks
  /\ breaks' = breaks + 1
  /\ link' = [link EXCEPT ![v] = "broken"]
  /\ \E k \in 0..Len(toSvr[v]) : toSvr' = [toSvr EXCEPT ![v] = SubSeq(@, 1, k)]
  /\ \E k \in 0..Len(toGate[v]) : toGate' = [toGate EXCEPT ![v] = SubSeq(@, 1, k)]
  /\ UNCHANGED <<playerVars, clientVars, online, untold>>

\* loginMgr.onRecvPlayerLogin.
LoginSvr ==
  /\ toSvr["login"] # <<>>
  /\ toSvr' = [toSvr EXCEPT !["login"] = Tail(@)]
  /\ \E m \in {Notice("ok", Head(toSvr["login"]).s, u) : u \in Uids}
             \cup {Notice("fail", Head(toSvr["login"]).s, None)} :
       Answer("login", <<m>>)
  /\ UNCHANGED <<playerVars, clientVars, link, online, breaks, untold>>

\* playerMgr.onRecvPlayerLogin of the game server: the answer, then the push
\* of its id, when a player comes online.  The answer has an error code, which
\* the gate tests; one that refuses changes nothing at the game server.
GameSvr ==
  LET m == Head(toSvr["gs"])
  IN  /\ toSvr["gs"] # <<>>
      /\ toSvr' = [toSvr EXCEPT !["gs"] = Tail(@)]
      /\ \/ /\ m.type = "online" /\ online' = online \cup {m.u}
            /\ Answer("gs", <<Notice("game", m.s, m.u), Notice("push", m.s, m.u)>>)
         \/ /\ m.type = "online" /\ Refuses /\ UNCHANGED online
            /\ Answer("gs", <<Notice("refused", m.s, m.u)>>)
         \/ /\ m.type = "offline" /\ online' = online \ {m.u} /\ UNCHANGED toGate
      /\ UNCHANGED <<playerVars, clientVars, link, breaks, untold>>

FromServers == LoginFailed \/ LoginOk \/ GameLogin \/ GameLoginRefused \/ EnterSvr

Next ==
  \/ \E s \in Sessions : Accept(s) \/ Ask(s) \/ Leave(s) \/ RecvPlayerLogin(s) \/ OnClose(s)
  \/ FromServers \/ LoginSvr \/ GameSvr
  \/ \E v \in Svrs : SvrClosed(v) \/ SvrRegistered(v) \/ Break(v)

\* The servers handle what they receive, and notice a broken connection.
Spec == Init /\ [][Next]_vars
             /\ WF_vars(LoginFailed \/ LoginOk)
             /\ WF_vars(GameLogin \/ GameLoginRefused \/ EnterSvr)
             /\ WF_vars(LoginSvr) /\ WF_vars(GameSvr)
             /\ \A s \in Sessions : WF_vars(RecvPlayerLogin(s)) /\ WF_vars(OnClose(s))
             /\ \A v \in Svrs : WF_vars(SvrClosed(v)) /\ WF_vars(SvrRegistered(v))

-------------------------------------------------------------------------------
Flow == [type : {"login", "ok", "fail", "online", "offline", "game", "refused", "push"},
         s : Sessions, u : Uids \cup {None}]

\* Types of the variables.  A player is in m_player_ exactly while its state is
\* online (mgr.go:216-224).
TypeOK ==
  /\ where \in [Sessions -> {"new", "tmp", "player", "gone"}]
  /\ state \in [Sessions -> {"connect", "login", "online"}]
  /\ \A s \in Sessions : where[s] # "gone" => (state[s] = "online" <=> where[s] = "player")
  /\ uid \in [Sessions -> Uids \cup {None}]
  /\ gsId \in [Sessions -> BOOLEAN]
  /\ byId \in [Uids -> Sessions \cup {None}]
  /\ tries \in [Sessions -> 0..MaxTries]
  /\ request \in [Sessions -> BOOLEAN]
  /\ alive \subseteq Sessions
  /\ link \in [Svrs -> {"up", "broken", "down"}]
  /\ toSvr \in [Svrs -> Seq(Flow)]
  /\ toGate \in [Svrs -> Seq(Flow)]
  /\ online \subseteq Uids /\ untold \subseteq Uids /\ breaks \in 0..MaxBreaks

\* How many logins of a session are under way, between the gate, the login
\* server and the game server.
LoginsOf(s, types) == [type : types, s : {s}, u : Uids \cup {None}]
InFlight(s) ==
  Count(toSvr["login"], LoginsOf(s, {"login"})) + Count(toGate["login"], LoginsOf(s, {"ok", "fail"}))
    + Count(toSvr["gs"], LoginsOf(s, {"online"})) + Count(toGate["gs"], LoginsOf(s, {"game", "refused"}))

\* A session (not an account: two sessions may log in with one) has at most one
\* login under way, only while its player's state says so, and none once it is
\* logged in, whatever its client sends and whichever answers fail or are lost:
\* a late answer would be taken for a client that has left, and put a player
\* offline that is playing (mgr.go:138, 166, 180, 191, 211).
OneLogin ==
  \A s \in Sessions :
    /\ InFlight(s) <= 1
    /\ InFlight(s) > 0 /\ where[s] # "gone" => where[s] = "tmp" /\ state[s] = "login"

\* The gate never holds a player under its account whose connection is gone,
\* although two clients may log in with one account and either may leave
\* first: BroadClientMsg sends to each of them (mgr.go:88-91, 119-126, 221).
NoDangling ==
  \A u \in Uids : byId[u] # None => where[byId[u]] = "player" /\ uid[byId[u]] = u

\* Nothing about a login or logout is under way.
Quiet == /\ \A v \in Svrs : toSvr[v] = <<>> /\ toGate[v] = <<>>
         /\ \A s \in Sessions : where[s] \in {"tmp", "player"} => s \in alive

\* When all is quiet, an account the game server takes for online has a player
\* at the gate: logins abandoned half-way are undone (mgr.go:191-200), and
\* logouts are told, unless the player left before its game server was known
\* to the gate, or a connection between the servers broke.
OfflineTold ==
  Quiet /\ breaks = 0 =>
    \A u \in online \ untold : \E s \in Sessions : where[s] = "player" /\ uid[s] = u

\* The game server is told when a player goes offline, as the comment at
\* mgr.go:101 says.  It does not hold for a player that leaves between the
\* answer to its login and the push of its game server's id.
AlwaysTold ==
  Quiet /\ breaks = 0 =>
    \A u \in online : \E s \in Sessions : where[s] = "player" /\ uid[s] = u

\* While the game server is gone, no player that was on it stays connected,
\* with ids arriving right up to the close event (mgr.go:228-267).
Evicted ==
  link["gs"] = "down" => \A s \in alive : ~(where[s] = "player" /\ gsId[s])

\* The gate holds no player without a client or without a server: whichever of
\* the two connections of a player ends first (mgr.go:77-111, 221, 244-274).
NoDeadPlayer == NoDangling /\ Evicted

\* A login under way comes to an end, success or failure, or the client
\* leaves, as long as the connections between the servers hold: the state is
\* reset when the login server refuses (mgr.go:166-170), when there is no game
\* server (179-182), and when the game server refuses (209-213).
LoginCompletes ==
  \A s \in Sessions : (where[s] = "tmp" /\ state[s] = "login")
                      ~> (where[s] # "tmp" \/ state[s] # "login" \/ breaks > 0)
===============================================================================
