---------------------------------- MODULE Cron ----------------------------------
(***************************************************************************)
(* Cron expressions (libs/timer/cronexpr.go) and the timers set by them    *)
(* (CronFunc of libs/timer/timer.go).  Time is a number of seconds; the    *)
(* calendar tells the year, month, day of the month and day of the week of *)
(* each day, numbered as in the code.  A day always has the same length.   *)
(***************************************************************************)
EXTENDS Naturals, Sequences, FiniteSets

CONSTANTS
  Calendar,  \* the days: [year, month, dom, dow]
  MinSecs,   \* seconds of a minute, 60
  HourMins,  \* minutes of an hour, 60
  DayHours,  \* hours of a day, 24
  MonthMax,  \* months of a year, 12
  DomMax,    \* days of the longest month, 31
  WeekDays,  \* days of a week, 7
  Exprs,     \* expressions: for each field its items, of parseCronField
  Never,     \* the zero time
  MaxTime,   \* bound: the clock
  MaxLate    \* bound: seconds between the end of a timer and its callback

Fields == {"sec", "min", "hour", "dom", "month", "dow"}

VARIABLES
  expr,      \* the expression: for each field the values it allows
  clock,
  cronState, \* "new", "set", "over" (nothing to wait for) or "stopped"
  cronTimer, \* end of the cron's timer
  ranAt      \* history: when it was last computed

cronVars == <<expr, clock, cronState, cronTimer, ranAt>>

(* -------------------------------- Expressions -------------------------- *)

Lowest == [sec |-> 0, min |-> 0, hour |-> 0, dom |-> 1, month |-> 1, dow |-> 0]
Highest == [sec |-> MinSecs - 1, min |-> HourMins - 1, hour |-> DayHours - 1,
            dom |-> DomMax, month |-> MonthMax, dow |-> WeekDays - 1]

\* The range of an item: all, a number, a number and an increment, a range.
From(item, low) == IF item.form = "*" THEN low ELSE item.start
To(item, high) ==
  IF item.form = "*" \/ (item.form = "num" /\ item.slash) THEN high
  ELSE IF item.form = "num" THEN item.start ELSE item.end

ItemOK(item, low, high) ==
  /\ low <= From(item, low) /\ From(item, low) <= To(item, high) /\ To(item, high) <= high
  /\ item.slash => item.incr > 0
ItemValues(item, low, high) ==
  {v \in From(item, low)..To(item, high) :
     item.slash => (v - From(item, low)) % item.incr = 0}

\* NewCronExpr: the values of each field; the bits of a uint64 in the code.
ExprOK(e) == \A f \in Fields : \A i \in DOMAIN e[f] : ItemOK(e[f][i], Lowest[f], Highest[f])
NewCronExpr(e) ==
  [f \in Fields |-> UNION {ItemValues(e[f][i], Lowest[f], Highest[f]) : i \in DOMAIN e[f]}]

Allowed == {NewCronExpr(e) : e \in {x \in Exprs : ExprOK(x)}}

CronInit ==
  /\ expr \in Allowed
  /\ clock = 0 /\ cronState = "new" /\ cronTimer = Never /\ ranAt = 0

(* ----------------------------------- Times ----------------------------- *)

HourSecs == MinSecs * HourMins
DaySecs == HourSecs * DayHours
Times == 0..(Len(Calendar) * DaySecs - 1)
Day(t) == Calendar[t \div DaySecs + 1]
Year(t) == Day(t).year

Value(f, t) ==
  CASE f = "sec" -> t % MinSecs
    [] f = "min" -> (t \div MinSecs) % HourMins
    [] f = "hour" -> (t \div HourSecs) % DayHours
    [] f = "dom" -> Day(t).dom
    [] f = "month" -> Day(t).month
    [] f = "dow" -> Day(t).dow

\* matchDay: a field with all its values is blank, and only the other counts.
MatchDay(e, t) ==
  LET dow == Value("dow", t) \in e["dow"]
      dom == Value("dom", t) \in e["dom"]
  IN  IF e["dom"] = 1..DomMax THEN dow
      ELSE IF e["dow"] = 0..(WeekDays - 1) THEN dom
      ELSE dow \/ dom

MonthLen(t) ==
  Cardinality({i \in DOMAIN Calendar : Calendar[i].year = Year(t) /\ Calendar[i].month = Day(t).month})

\* The loops of Next, one after the other: what they look at, how long one
\* round is, to what they truncate first, and the value at which they retry.
Loop == <<"month", "dom", "hour", "min", "sec">>
Matches(e, f, t) == IF f = "dom" THEN MatchDay(e, t) ELSE Value(f, t) \in e[f]
Round(f, t) ==
  CASE f = "month" -> MonthLen(t) * DaySecs [] f = "dom" -> DaySecs [] f = "hour" -> HourSecs
    [] f = "min" -> MinSecs [] f = "sec" -> 1

\* Mutant: never truncates.
NoTruncate(f, t) == t
Truncate(f, t) ==
  IF f = "month" THEN t - (t % DaySecs) - (Day(t).dom - 1) * DaySecs ELSE t - (t % Round(f, t))

\* Next from the loop s[1] on, 0 the label retry, with the time s[2]: the year
\* is checked at every retry; the first round of any loop truncates, and no
\* later one (initFlag), which is one behind the upcoming second.  The end of
\* the calendar is never met (CronAssumption).
NextTime(e, now) ==
  LET next[s \in (0..6) \X Nat] ==
        LET k == s[1]
            t == s[2]
            from == IF t = now + 1 THEN Truncate(Loop[k], t) ELSE t
            u == from + Round(Loop[k], from)
        IN  IF t \notin Times THEN Never
            ELSE IF k = 0 THEN IF Year(t) > Year(now + 1) + 1 THEN Never ELSE next[<<1, t>>]
            ELSE IF k = 6 THEN t
            ELSE IF Matches(e, Loop[k], t) THEN next[<<k + 1, t>>]
            ELSE next[<<IF Value(Loop[k], u) = Lowest[Loop[k]] THEN 0 ELSE k, u>>]
  IN  next[<<0, now + 1>>]

\* A day is followed by the next one of the month, by the first of the next
\* month, or by the first of the next year.
Consecutive(a, b) ==
  \/ b.year = a.year /\ b.month = a.month /\ b.dom = a.dom + 1
  \/ b.year = a.year /\ b.month = a.month + 1 /\ b.dom = 1
  \/ b.year = a.year + 1 /\ a.month = MonthMax /\ b.month = 1 /\ b.dom = 1

\* The calendar begins with a month and goes on for two years behind the last
\* reading of the clock; the numbers of an expression are natural (parseCronField
\* takes the sign for a range).
ASSUME CronAssumption ==
  /\ {MinSecs, HourMins, DayHours, MonthMax, DomMax, WeekDays} \subseteq Nat \ {0}
  /\ Calendar \in Seq([year : Nat, month : 1..MonthMax, dom : 1..DomMax, dow : 0..(WeekDays - 1)])
  /\ Calendar[1].dom = 1
  /\ \A i \in 1..(Len(Calendar) - 1) : Consecutive(Calendar[i], Calendar[i+1])
  /\ MaxTime \in Nat /\ MaxTime + 1 \in Times
  /\ Year(MaxTime + 1) + 1 < Calendar[Len(Calendar)].year
  /\ Never \notin Nat
  /\ \A e \in Exprs, f \in Fields : \A i \in DOMAIN e[f] :
       From(e[f][i], Lowest[f]) \in Nat /\ To(e[f][i], Highest[f]) \in Nat

(* ----------------------------------- Timers ---------------------------- *)

\* A timer until the next time, if there is one.
SetNext ==
  /\ cronTimer' = NextTime(expr, clock) /\ ranAt' = clock
  /\ cronState' = IF cronTimer' = Never THEN "over" ELSE "set"
  /\ UNCHANGED <<expr, clock>>

CronFunc == cronState = "new" /\ SetNext

\* The callback: however late it comes, it goes on from the time it is called.
CronCb == cronState = "set" /\ clock >= cronTimer /\ SetNext

CronStop ==
  /\ cronState \in {"set", "over"} /\ cronState' = "stopped" /\ cronTimer' = Never
  /\ ranAt' = 0
  /\ UNCHANGED <<expr, clock>>

Second ==
  /\ clock < MaxTime /\ (cronState = "set" => clock < cronTimer + MaxLate)
  /\ clock' = clock + 1
  /\ UNCHANGED <<expr, cronState, cronTimer, ranAt>>

CronNext == CronFunc \/ CronCb \/ CronStop \/ Second

CronSpec == CronInit /\ [][CronNext]_cronVars

-------------------------------------------------------------------------------
\* Types of the variables.
CronTypeOK ==
  /\ expr \in [Fields -> SUBSET Nat] /\ clock \in 0..MaxTime /\ ranAt \in 0..MaxTime
  /\ cronState \in {"new", "set", "over", "stopped"}
  /\ cronTimer \in Nat \cup {Never} /\ (cronState = "set" <=> cronTimer # Never)

\* What an expression says of a time: a blank day of the month or of the week
\* says nothing, and of two that are not blank one is enough.
Says(e, t) ==
  LET blank(f) == e[f] = Lowest[f]..Highest[f]
      day == {f \in {"dom", "dow"} : ~blank(f)}
  IN  /\ \A f \in Fields \ {"dom", "dow"} : Value(f, t) \in e[f]
      /\ day = {} \/ \E f \in day : Value(f, t) \in e[f]

\* The cron waits for the first second after it was last run that the
\* expression allows (as seen when its timer is set), over the ends of minutes,
\* days, months and years of any length; it gives up only if this year and the next have none.  No second is
\* served twice, and none is left out but while a callback was late
\* (cronexpr.go:190-267, timer.go:66-91).
CronFollows ==
  cronState \in {"set", "over"} /\ clock = ranAt =>
    LET said == {t \in Times : t > ranAt /\ Year(t) <= Year(ranAt + 1) + 1 /\ Says(expr, t)}
    IN  IF said = {} THEN cronTimer = Never
        ELSE cronTimer \in said /\ \A t \in said : cronTimer <= t
===============================================================================
