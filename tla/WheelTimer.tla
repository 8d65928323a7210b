------------------------------ MODULE WheelTimer ------------------------------
(***************************************************************************)
(* The hierarchical timing wheels of libs/timer/wheel.go, which run the    *)
(* heartbeats.  Wheel 1 advances on every Step, wheel b+1 when wheel b has *)
(* come round to slot 0.  A timer waits in a slot of the wheel its         *)
(* interval needs; when the pointer reaches it, it fires or is placed      *)
(* again for the Left steps that remain.                                   *)
(*                                                                         *)
(* The code has five wheels of 256, 64, 64, 64 and 64 slots, numbered from *)
(* 0; Size gives their number and sizes here, from 1.  A slot is a linked  *)
(* list in the code; the order of the timers of one slot is left out.      *)
(* Handlers do not set or delete timers: those of the repository close a   *)
(* session or send on it.                                                  *)
(***************************************************************************)
EXTENDS Integers, Sequences

CONSTANTS
  Size,       \* element_cnt_per_wheel
  Ids,        \* timer ids
  Intervals,  \* intervals timers are set with
  NoTimer     \* no node: the id is in no slot

Wheels == 1..Len(Size)

\* base_per_wheel: how many steps one slot of a wheel stands for, and after
\* the last wheel the range of them all.
Base[b \in 1..(Len(Size)+1)] == IF b = 1 THEN 1 ELSE Base[b-1] * Size[b-1]

ASSUME WheelTimerAssumption ==
  /\ Size \in Seq(Nat \ {0, 1}) /\ Size # <<>>
  /\ Intervals \subseteq 1..(Base[Len(Size)+1] - 1)
  /\ NoTimer \notin [interval : Nat, keep : BOOLEAN, left : Nat, wheel : Nat, slot : Nat]

VARIABLES
  newest,  \* the pointer of each wheel
  timer,   \* the node of each id: Inteval, Keep, Left, its wheel and its slot
  due,     \* history: steps until each timer should fire
  fired    \* history: how often each timer fired in the last step

wheelVars == <<newest, timer, due, fired>>

Node(interval, keep, left, b, slot) ==
  [interval |-> interval, keep |-> keep, left |-> left, wheel |-> b, slot |-> slot]

WheelInit ==
  /\ newest = [b \in Wheels |-> 0]
  /\ timer = [i \in Ids |-> NoTimer]
  /\ due = [i \in Ids |-> 0]
  /\ fired = [i \in Ids |-> 0]

\* Mutant: the pointer's own slot is counted in every wheel.
TurnNoCarry(nw) ==
  LET turn[w \in Wheels] ==
        IF w = 1 THEN 0 ELSE turn[w-1] + Base[w-1] * (Size[w-1] - nw[w-1])
  IN  turn

\* The steps until the wheels below a wheel have come round, as SetTimer adds
\* them up: those above wheel 1 stand one slot further by then.
Turn(nw) ==
  LET turn[w \in Wheels] ==
        IF w = 1 THEN 0
        ELSE turn[w-1] + Base[w-1] * (Size[w-1] - nw[w-1] - IF w = 2 THEN 0 ELSE 1)
  IN  turn

\* The first wheel whose range holds n (the loop shifts the offset by a
\* wheel's bits while it is too large).
WheelOf(n) == CHOOSE b \in Wheels : Base[b] <= n /\ n < Base[b+1]

\* The placement of SetTimer, n steps ahead with the pointers at nw: the
\* slot, and what is left when it is reached.
Place(nw, n, interval, keep) ==
  LET b == WheelOf(n)
      offset == n \div Base[b]
  IN  Node(interval, keep, n - Turn(nw)[b] - Base[b] * (offset - 1), b, (nw[b] + offset) % Size[b])

\* SetTimer with id 0: a new timer.
SetTimer(i) ==
  /\ timer[i] = NoTimer
  /\ \E n \in Intervals, keep \in BOOLEAN :
       /\ timer' = [timer EXCEPT ![i] = Place(newest, n, n, keep)]
       /\ due' = [due EXCEPT ![i] = n]
  /\ fired' = [j \in Ids |-> 0]
  /\ UNCHANGED newest

DelTimer(i) ==
  /\ timer[i] # NoTimer
  /\ timer' = [timer EXCEPT ![i] = NoTimer]
  /\ due' = [due EXCEPT ![i] = 0]
  /\ fired' = [j \in Ids |-> 0]
  /\ UNCHANGED newest

\* Mutant: only wheel 1 fires timers, also when nothing is left.
ReachAlwaysMoves(t, nw) ==
  IF t.wheel = 1
  THEN [node |-> IF t.keep THEN Place(nw, t.interval, t.interval, TRUE) ELSE NoTimer, fires |-> 1]
  ELSE [node |-> IF t.left = 0 THEN NoTimer ELSE Place(nw, t.left, t.interval, t.keep), fires |-> 0]

\* A timer the pointer has reached: it fires, and is set again if it is kept,
\* or it is placed again for what is left, in a lower wheel or one slot on.
Reach(t, nw) ==
  IF t.wheel = 1 \/ t.left = 0
  THEN [node |-> IF t.keep THEN Place(nw, t.interval, t.interval, TRUE) ELSE NoTimer, fires |-> 1]
  ELSE [node |-> Place(nw, t.left, t.interval, t.keep), fires |-> 0]

\* Step walks the wheels upwards as long as they come round to slot 0, each
\* pointer moving just before its slot is emptied.
NextSlot(b) == (newest[b] + 1) % Size[b]
LastWheel ==
  CHOOSE b \in Wheels : (\A w \in 1..(b-1) : NextSlot(w) = 0) /\ (NextSlot(b) # 0 \/ b = Len(Size))
UpTo(b) == [w \in Wheels |-> IF w <= b THEN NextSlot(w) ELSE newest[w]]

\* What becomes of a timer when the pointer of wheel b has moved, and on the
\* whole walk.
Meet(seen, b) ==
  IF seen.node # NoTimer /\ seen.node.wheel = b /\ seen.node.slot = NextSlot(b)
  THEN [node |-> Reach(seen.node, UpTo(b)).node,
        fires |-> Reach(seen.node, UpTo(b)).fires + seen.fires]
  ELSE seen
StepTimer(i) ==
  LET at[b \in 0..LastWheel] == IF b = 0 THEN [node |-> timer[i], fires |-> 0] ELSE Meet(at[b-1], b)
  IN  at[LastWheel]

Step ==
  /\ newest' = UpTo(LastWheel)
  /\ timer' = [i \in Ids |-> StepTimer(i).node]
  /\ fired' = [i \in Ids |-> StepTimer(i).fires]
  /\ due' = [i \in Ids |-> IF timer[i] = NoTimer THEN 0
                           ELSE IF due[i] > 1 THEN due[i] - 1
                           ELSE IF timer[i].keep THEN timer[i].interval ELSE 0]

WheelNext == Step \/ \E i \in Ids : SetTimer(i) \/ DelTimer(i)

WheelSpec == WheelInit /\ [][WheelNext]_wheelVars

-------------------------------------------------------------------------------
\* Types of the variables.  Left is computed by subtractions of uint32 values
\* that never wrap, and no timer waits in a slot that its wheel's pointer has
\* just left, where it would wait for a whole turn (wheel.go:106-125).
WheelTypeOK ==
  /\ newest \in [Wheels -> Nat] /\ \A b \in Wheels : newest[b] < Size[b]
  /\ \A i \in Ids : timer[i] # NoTimer =>
       /\ timer[i].interval \in Intervals /\ timer[i].keep \in BOOLEAN
       /\ timer[i].wheel \in Wheels
       /\ timer[i].slot \in 0..(Size[timer[i].wheel] - 1)
       /\ timer[i].left \in 0..(2 * Base[timer[i].wheel] - 1)
       /\ timer[i].slot # newest[timer[i].wheel]
  /\ due \in [Ids -> Nat] /\ fired \in [Ids -> Nat]

\* A timer fires exactly when its interval has passed, once, and again after
\* every further interval if it is kept: however the pointers stood when it
\* was set, through every move between wheels, and although Step sets kept
\* timers again while only some of the pointers have moved (wheel.go:155-189).
OnTime ==
  [][newest' # newest =>
       \A i \in Ids : fired'[i] = IF timer[i] # NoTimer /\ due[i] = 1 THEN 1 ELSE 0]_wheelVars
===============================================================================
