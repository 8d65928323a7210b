-------------------------------- MODULE MCLibs --------------------------------
(* The libraries side by side: lib says which of them runs.  They share no  *)
(* state and stay as they are initially while another one runs, so that one *)
(* run asks each of them its own questions.                                 *)
EXTENDS WheelTimer, Log, EtcdRegistry, Selector, Framing, Cron, DbService

VARIABLE lib

libVars == <<wheelVars, logVars, rpcVars, selVars, frameVars, cronVars, dbVars>>
MCVars == <<lib, libVars>>

\* Where a library has several initial states, one of them while it does not run.
MCSome(x, S) == IF lib = x THEN S ELSE {CHOOSE v \in S : TRUE}
MCInit ==
  /\ lib \in {"wheel", "log", "balancer", "registry", "select", "frame", "cron", "db"}
  /\ use \in MCSome("select", {"group", "plain", "pools"}) /\ hash \in MCSome("select", SpotHashes)
  /\ parser \in MCSome("frame", Parsers) /\ expr \in MCSome("cron", Allowed)
  /\ WheelInit /\ LogInit /\ RegInit /\ SelInit /\ FrameInit /\ CronInit /\ DbInit

Runs(x, step) == lib = x /\ step /\ UNCHANGED lib

MCNext ==
  \/ Runs("wheel", WheelNext) /\ UNCHANGED <<logVars, rpcVars, selVars, frameVars, cronVars, dbVars>>
  \/ Runs("log", LogNext) /\ UNCHANGED <<wheelVars, rpcVars, selVars, frameVars, cronVars, dbVars>>
  \/ Runs("balancer", BalNext) /\ UNCHANGED <<wheelVars, logVars, regVars, selVars, frameVars, cronVars, dbVars>>
  \/ Runs("registry", RpcNext) /\ UNCHANGED <<wheelVars, logVars, selVars, frameVars, cronVars, dbVars>>
  \/ Runs("select", SelNext) /\ UNCHANGED <<wheelVars, logVars, rpcVars, frameVars, cronVars, dbVars>>
  \/ Runs("frame", FrameNext) /\ UNCHANGED <<wheelVars, logVars, rpcVars, selVars, cronVars, dbVars>>
  \/ Runs("cron", CronNext) /\ UNCHANGED <<wheelVars, logVars, rpcVars, selVars, frameVars, dbVars>>
  \/ Runs("db", DbNext) /\ UNCHANGED <<wheelVars, logVars, rpcVars, selVars, frameVars, cronVars>>

MCSpec == MCInit /\ [][MCNext]_MCVars /\ (lib = "registry" => RpcFairness)

MCTypeOK ==
  /\ WheelTypeOK /\ LogTypeOK /\ RegTypeOK /\ SelTypeOK /\ FrameTypeOK /\ CronTypeOK /\ DbTypeOK

MCListConverges == lib = "registry" => ListConverges

(* ------------------------------ The instances -------------------------- *)

\* Three wheels of four, two and four slots, and every interval they hold.
MCSize == <<4, 2, 4>>
MCIntervals == 1..31

\* Every three servers of two spots each, up to their names, on a ring of
\* three places: with collisions, and keys before, at and after the spots.
CONSTANTS n1, n2, n3
MCKeys == 0..2
MCSpotHashes ==
  {h \in [Nodes -> (0..2) \X (0..2)] :
     /\ \A n \in Nodes : h[n][1] <= h[n][2]
     /\ h[n1][1] < h[n2][1] /\ h[n2][1] <= h[n3][1]}

\* Messages around the lengths at which a limit or a width is passed.
MCMessage(id, uids, n) ==
  [id |-> id, seq |-> 2, uids |-> uids, body |-> [i \in 1..n |-> (i + n) % FrameBase]]
MCUserMessages ==
  {MCMessage(1, <<3>>, n) : n \in {0, 1, 10, 11, 248, 249}} \cup {MCMessage(0, <<0>>, 0)}
MCInnerMessages ==
  {MCMessage(1, <<>>, n) : n \in {0, 2}} \cup {MCMessage(1, <<3, 1>>, n) : n \in {1, 8, 247}}
    \cup {MCMessage(0, <<>>, 0)}
MCCuts == 0..5

\* Days of eight seconds, weeks of four days, four years of two months, the
\* second month with three days in the third year only.
MCMonths == <<3, 2, 3, 2, 3, 3, 3, 2>>
MCStart[m \in 0..8] == IF m = 0 THEN 0 ELSE MCStart[m-1] + MCMonths[m]
MCCalendar ==
  [d \in 1..MCStart[8] |->
     LET m == CHOOSE i \in 1..8 : MCStart[i-1] < d /\ d <= MCStart[i]
     IN  [year |-> (m - 1) \div 2, month |-> ((m - 1) % 2) + 1, dom |-> d - MCStart[m-1],
          dow |-> d % 4]]

MCAll == [form |-> "*", slash |-> FALSE]
MCNum(n) == [form |-> "num", start |-> n, slash |-> FALSE]
MCRange(a, b) == [form |-> "range", start |-> a, end |-> b, slash |-> FALSE]
MCFrom(n, i) == [form |-> "num", start |-> n, slash |-> TRUE, incr |-> i]
MCExprs ==
  [sec : {<<MCAll>>, <<MCNum(1)>>}, min : {<<MCNum(0)>>}, hour : {<<MCAll>>, <<MCNum(2)>>},
   dom : {<<MCNum(3)>>, <<MCFrom(1, 2)>>, <<MCNum(1), MCRange(2, 3)>>},
   month : {<<MCAll>>, <<MCNum(2)>>, <<MCFrom(1, 0)>>},
   dow : {<<MCAll>>, <<MCNum(1)>>, <<MCRange(2, 1)>>}]
===============================================================================
