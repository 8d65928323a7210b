-------------------------------- MODULE Selector --------------------------------
(***************************************************************************)
(* The selectors that choose a server, or a pool of redis connections, for *)
(* a key (apps/common/net/strategy) and the consistent hash ring below     *)
(* them (libs/utils/consisten_hash.go).                                    *)
(*                                                                         *)
(* They have three uses: groups of game, world and database servers hash   *)
(* consistently, groups of gates and login servers do not, and the main    *)
(* loop alone works on both (svr_info.go); the pools of the database       *)
(* server hash consistently, are filled at its start, and then asked by    *)
(* goroutines of GoServer, without a lock (dbsvr/src/db/mgr.go).           *)
(*                                                                         *)
(* The crc of a key is the key itself, that of the spots of a node is any. *)
(* All weights are 1, so that every node has virualSpots spots (the share  *)
(* that generate computes with floats is exact for the 40 spots in use as  *)
(* long as there are less than 249 nodes).                                 *)
(***************************************************************************)
EXTENDS Naturals, Sequences, FiniteSets

CONSTANTS
  Nodes,      \* ids of servers or pools
  NoNode,     \* nil
  Keys,       \* hash values of keys
  NoKey,      \* no key
  VirualSpots, \* virualSpots
  SpotHashes, \* functions from nodes to the hash values of their spots
  Goroutines  \* of the database server

ASSUME SelAssumption ==
  /\ VirualSpots \in Nat \ {0} /\ IsFiniteSet(Nodes) /\ NoNode \notin Nodes
  /\ Keys \subseteq Nat /\ NoKey \notin Keys
  /\ SpotHashes \subseteq [Nodes -> [1..VirualSpots -> Nat]]

VARIABLES
  use,     \* "group", "plain" or "pools"
  hash,    \* the hash values of the spots of each node
  objs,    \* m_objs_, and with it weightNodes
  ring,    \* nodes of the ring, each with its node key and spot value
  serving, \* the pools are filled
  curId,   \* cur_id_
  asked,   \* GetRedisPool of each goroutine: its key, and whether another one
           \* has set an id since
  picked   \* history: the last answer, with its key and the id it is for

selVars == <<use, hash, objs, ring, serving, curId, asked, picked>>

Idle == [key |-> NoKey, disturbed |-> FALSE]
Nothing == [key |-> NoKey, id |-> NoKey, obj |-> NoNode, alone |-> TRUE]

SelInit ==
  /\ use \in {"group", "plain", "pools"}
  /\ hash \in SpotHashes
  /\ objs = {} /\ ring = <<>> /\ serving = FALSE /\ curId = NoKey
  /\ asked = [g \in Goroutines |-> Idle]
  /\ picked = Nothing

(* ---------------------------- ConsistentHashRing ----------------------- *)

\* The spots of a node, by the hash h, and nodes of which two share a spot.
Values(h, n) == {h[n][i] : i \in DOMAIN h[n]}
Collide(h, ns) == \E m, n \in ns : m # n /\ Values(h, m) \cap Values(h, n) # {}

\* The orders in which a range over the map weightNodes meets its nodes.
Orders(ns) == {o \in [1..Cardinality(ns) -> ns] : \A i, j \in DOMAIN o : i # j => o[i] # o[j]}

\* The spots of the nodes, in the order of a walk over them.
Walk(h, order) ==
  [k \in 1..(VirualSpots * Len(order)) |->
     LET n == order[((k - 1) \div VirualSpots) + 1]
     IN  [nodeKey |-> n, spotValue |-> h[n][((k - 1) % VirualSpots) + 1]]]

\* nodesArray.Sort: each spot goes behind those that are less than it, and of
\* two spots of one value, which are of one node, behind that met before it.
Less(w, a, b) ==
  w[a].spotValue < w[b].spotValue \/ (w[a].spotValue = w[b].spotValue /\ a < b)
Rank(w, a) == Cardinality({b \in DOMAIN w : Less(w, b, a)})
Sorted(w) == [k \in DOMAIN w |-> w[CHOOSE a \in DOMAIN w : Rank(w, a) = k - 1]]

\* Mutant: the spots are left in the order of the walk.
GenerateUnsorted(h, ns) == {Walk(h, order) : order \in Orders(ns)}

\* generate: the spots in order; or, as the walk panics at the first spot
\* that another node has, those before it, as they were appended.
Clash(w, j) == \E i \in 1..(j-1) : w[i].spotValue = w[j].spotValue /\ w[i].nodeKey # w[j].nodeKey
Impact(w) == CHOOSE j \in DOMAIN w : Clash(w, j) /\ \A i \in 1..(j-1) : ~Clash(w, i)
Generate(h, ns) ==
  LET walks == {Walk(h, order) : order \in Orders(ns)}
  IN  IF Collide(h, ns) THEN {SubSeq(w, 1, Impact(w) - 1) : w \in walks}
      ELSE {Sorted(w) : w \in walks}

\* sort.Search for the first spot that is not below the key: i and j of its
\* loop after k rounds, of which it takes at most as many as there are spots.
Search(r, key) ==
  LET loop[k \in 0..Len(r)] ==
        IF k = 0 THEN <<0, Len(r)>>
        ELSE LET i == loop[k-1][1]
                 j == loop[k-1][2]
                 h == (i + j) \div 2
             IN  IF i >= j THEN <<i, j>>
                 ELSE IF r[h+1].spotValue >= key THEN <<i, h>> ELSE <<h+1, j>>
  IN  loop[Len(r)][1]

\* GetNode: from the last spot on to the first.
GetNode(r, key) ==
  LET at == Search(r, key)
  IN  IF r = <<>> THEN NoNode ELSE r[IF at = Len(r) THEN 1 ELSE at + 1].nodeKey

(* -------------------------------- Selectors ---------------------------- *)

\* AddElement of a selector; a ring panics after m_objs_ and weightNodes have
\* changed, which the main loop survives.
AddElement(n) ==
  /\ n \notin objs /\ ~serving /\ objs' = objs \cup {n}
  /\ IF use = "plain" THEN UNCHANGED ring ELSE ring' \in Generate(hash, objs')
  /\ picked' = Nothing
  /\ UNCHANGED <<use, hash, serving, curId, asked>>

RemoveElement(n) ==
  /\ n \in objs /\ use # "pools" /\ objs' = objs \ {n}
  /\ IF use = "plain" THEN UNCHANGED ring ELSE ring' \in Generate(hash, objs')
  /\ picked' = Nothing
  /\ UNCHANGED <<use, hash, serving, curId, asked>>

\* Select of a consHashSelector, with the id it reads.
ConsSelect(id) == LET n == GetNode(ring, id) IN IF n \in objs THEN n ELSE NoNode

\* Send of a SvrGroup: SetElementId and Select by the main loop.  Without
\* consistent hashing the remainder of the hash counts through the map, whose
\* order is any; the remainder panics when the group is empty.
Send(key) ==
  /\ use # "pools" /\ curId' = key
  /\ \E obj \in IF use = "group" THEN {ConsSelect(key)} ELSE IF objs = {} THEN {NoNode} ELSE objs :
       picked' = [key |-> key, id |-> key, obj |-> obj, alone |-> TRUE]
  /\ UNCHANGED <<use, hash, objs, ring, serving, asked>>

\* Start of dbMgr has returned, without a panic, which would have ended it.
Serve ==
  /\ use = "pools" /\ ~serving /\ ~Collide(hash, objs) /\ serving' = TRUE
  /\ UNCHANGED <<use, hash, objs, ring, curId, asked, picked>>

\* GetRedisPool, called by opr_test_recv, sets its key.
SetElementId(g, key) ==
  /\ serving /\ asked[g] = Idle /\ curId' = key
  /\ asked' = [f \in Goroutines |->
       IF f = g THEN [key |-> key, disturbed |-> FALSE]
       ELSE IF asked[f] = Idle THEN Idle ELSE [asked[f] EXCEPT !.disturbed = TRUE]]
  /\ UNCHANGED <<use, hash, objs, ring, serving, picked>>

\* Select reads what the last one has set.
Select(g) ==
  /\ asked[g] # Idle
  /\ picked' = [key |-> asked[g].key, id |-> curId, obj |-> ConsSelect(curId),
                alone |-> ~asked[g].disturbed]
  /\ asked' = [asked EXCEPT ![g] = Idle]
  /\ UNCHANGED <<use, hash, objs, ring, serving, curId>>

SelNext ==
  \/ \E n \in Nodes : AddElement(n) \/ RemoveElement(n)
  \/ \E key \in Keys : Send(key)
  \/ Serve
  \/ \E g \in Goroutines : Select(g) \/ \E key \in Keys : SetElementId(g, key)

SelSpec == SelInit /\ [][SelNext]_selVars

-------------------------------------------------------------------------------
\* Types of the variables.
SelTypeOK ==
  /\ use \in {"group", "plain", "pools"} /\ hash \in SpotHashes
  /\ objs \subseteq Nodes /\ ring \in Seq([nodeKey : Nodes, spotValue : Nat])
  /\ serving \in BOOLEAN /\ curId \in Keys \cup {NoKey}
  /\ asked \in [Goroutines -> [key : Keys \cup {NoKey}, disturbed : BOOLEAN]]
  /\ picked \in [key : Keys \cup {NoKey}, id : Keys \cup {NoKey},
                 obj : Nodes \cup {NoNode}, alone : BOOLEAN]

\* What consistent hashing means: the node with the first spot at or after
\* the key, or with the first spot of all if there is none.
Owner(h, ns, key) ==
  LET spots == UNION {Values(h, n) : n \in ns}
      after == {v \in spots : v >= key}
      from == IF after = {} THEN spots ELSE after
  IN  CHOOSE n \in ns : \E v \in Values(h, n) : \A u \in from : v \in from /\ v <= u

\* Every answer is a member of the group as it is now, and a group that has
\* members answers, also with a ring that a collision has left half built and
\* without order.  Consistent hashing gives the owner of the id, by sort.Search
\* as by definition; the id is the caller's own, but in the database server,
\* where another goroutine may have set its own in between
\* (consisten_hash.go:74-124, db/mgr.go:59-65, hash_selector.go:11-22).
SelectsOwner ==
  picked # Nothing =>
    /\ picked.obj \in objs \/ (objs = {} /\ picked.obj = NoNode)
    /\ use # "plain" /\ objs # {} /\ ~Collide(hash, objs) => picked.obj = Owner(hash, objs, picked.id)
    /\ picked.alone => picked.id = picked.key

\* A server that comes takes keys from the others, and one that goes leaves
\* its keys to the others; no key moves between two servers that stay, unless
\* the spots of two servers collide (consisten_hash.go:57-104).
KeysStay ==
  use # "plain" /\ objs' # objs /\ objs # {} /\ objs' # {} /\ ~Collide(hash, objs \cup objs') =>
    \A key \in Keys :
      LET before == GetNode(ring, key)
          after == GetNode(ring', key)
      IN  before # after => before \notin objs' \/ after \notin objs

\* What the selectors promise of keys and servers at every step: answers are
\* the owners, and keys stay where they can.
SelectsRight == [][SelectsOwner' /\ KeysStay]_selVars
===============================================================================
