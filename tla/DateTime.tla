------------------------------- MODULE DateTime -------------------------------
(***************************************************************************)
(* The date and time helpers of db/: toTime, fromTime, toDate and fromDate *)
(* turn what an application writes, <<hour, min, sec, micros>> and         *)
(* <<year, month, day>>, into the numbers DuckDB stores and back.  They    *)
(* are functions of their argument, so the state is the last call and its  *)
(* answer, and the actions are calls with any argument of a given set.     *)
(*                                                                         *)
(* The tests of the two guards are chains of dyadic functions without      *)
(* parentheses: APL evaluates them from the right, and its \/ of numbers   *)
(* that are not Booleans is their greatest common divisor.  They are       *)
(* translated as evaluated, not as they read.                              *)
(***************************************************************************)
EXTENDS Integers, Sequences, FiniteSets

CONSTANTS
  MICROS,   \* the microseconds of a second, 1000000 in the code
  Years,    \* the years the interpreter's calendar is written out for
  Times,    \* the arguments of toTime
  Ticks,    \* the arguments of fromTime
  Dates,    \* the arguments of toDate
  Days,     \* the arguments of fromDate
  Raised    \* the call ends in a DOMAIN ERROR of the interpreter

ASSUME MicrosAssumption == MICROS \in Nat \ {0}

(* The calendar is written out for years that follow one another, and they *)
(* include the one that days are counted from.                             *)
ASSUME YearsAssumption ==
  /\ Years \subseteq Int /\ 1970 \in Years
  /\ \A y, z \in Years : y .. z \subseteq Years

VARIABLES asked, reply

vars == <<asked, reply>>
-------------------------------------------------------------------------------
(* The interpreter's calendar, behind the system function of dates.        *)

Leap(y) == y % 4 = 0 /\ (y % 100 # 0 \/ y % 400 = 0)

MonthDays(y, m) ==
  IF m = 2 THEN (IF Leap(y) THEN 29 ELSE 28)
           ELSE IF m \in {4, 6, 9, 11} THEN 30 ELSE 31

Calendar == {<<y, m, d>> : y \in Years, m \in 1 .. 12, d \in 1 .. 31}

IsDate(v) == v \in Calendar /\ v[3] <= MonthDays(v[1], v[2])

(* The days before a month, in a year that starts with March.              *)
BeforeMonth == <<306, 337, 0, 31, 61, 92, 122, 153, 184, 214, 245, 275>>

(* The number of a day, counted from the interpreter's own day 0, which is *)
(* 2000-01-01 for the type the helpers use; January and February belong to *)
(* the year before, so that the leap day comes last.                       *)
DT(v) ==
  LET y == v[1] - (IF v[2] <= 2 THEN 1 ELSE 0)
  IN 365 * y + (y \div 4) - (y \div 100) + (y \div 400)
       + BeforeMonth[v[2]] + v[3] - 730426

UnDT(n) == CHOOSE v \in Calendar : IsDate(v) /\ DT(v) = n

(* Plausible slips come before the definitions they could stand in for.    *)
BaseFaulty == DT(<<2000, 1, 1>>)

Base == DT(<<1970, 1, 1>>)

(* Times and ticks are whole numbers, and the numbers given to fromDate    *)
(* are of dates the calendar is written out for.                           *)
ASSUME ArgumentsAssumption ==
  /\ Times \subseteq Seq(Int) /\ Ticks \subseteq Int
  /\ \A n \in Days :
       \E v \in Calendar : IsDate(v) /\ DT(v) = DT(<<1970, 1, 1>>) + n
-------------------------------------------------------------------------------
Bit(b) == IF b THEN 1 ELSE 0

(* a \/ b of the interpreter, the greatest common divisor, for a bit b.    *)
Or(a, b) == IF b = 0 THEN a ELSE 1

TimeRefusedFaulty(h, m, s, u) == h < 0 \/ h > Or(22, Bit(m < 0))

(* The guard of toTime: each test is the right argument of the one before. *)
TimeRefused(h, m, s, u) ==
  LET s1 == Bit(s > Or(59, Bit(u < 0)))
      s2 == Bit(s < Or(0, s1))
      m1 == Bit(m > Or(59, s2))
      m2 == Bit(m < Or(0, m1))
  IN h < 0 \/ h > Or(23, m2)

toTimeFaulty(v) ==
  IF Len(v) # 4 \/ TimeRefused(v[1], v[2], v[3], v[4])
    THEN 0
    ELSE (v[1] * 3600 + v[2] * 60 + v[3] + v[4]) * MICROS

toTime(v) ==
  IF Len(v) # 4 \/ TimeRefused(v[1], v[2], v[3], v[4])
    THEN 0
    ELSE (v[1] * 3600 + v[2] * 60 + v[3]) * MICROS + v[4]

fromTimeFaulty(total) ==
  LET hour == total \div (3600 * MICROS)
      rest == total - hour * (3600 * MICROS)
      min  == rest \div (60 * MICROS)
      sec  == rest \div MICROS
  IN IF total < 0 THEN <<0, 0, 0, 0>>
                  ELSE <<hour, min, sec, rest - sec * MICROS>>

fromTime(total) ==
  IF total < 0
    THEN <<0, 0, 0, 0>>
    ELSE LET hour == total \div (3600 * MICROS)
             rest == total - hour * (3600 * MICROS)
             min  == rest \div (60 * MICROS)
             rem  == rest - min * (60 * MICROS)
             sec  == rem \div MICROS
         IN <<hour, min, sec, rem - sec * MICROS>>

(* The guard of toDate, evaluated likewise.                                *)
DateRefused(m, d) ==
  LET d1 == Or(1, Bit(d > 31))
  IN m < 1 \/ m > Or(12, Bit(d < d1))

(* What the guard lets through and is not a date is the interpreter's to   *)
(* refuse.                                                                 *)
toDate(v) ==
  IF Len(v) # 3 \/ DateRefused(v[2], v[3])
    THEN 0
    ELSE IF IsDate(v) THEN DT(v) - Base ELSE Raised

fromDate(days) == UnDT(Base + days)
-------------------------------------------------------------------------------
Ask(op, arg, answer) == /\ asked' = [op |-> op, arg |-> arg]
                        /\ reply' = answer

Init == asked = [op |-> "none", arg |-> <<>>] /\ reply = 0

ToTime   == \E v \in Times : Ask("toTime", v, toTime(v))
FromTime == \E n \in Ticks : Ask("fromTime", n, fromTime(n))
ToDate   == \E v \in Dates : Ask("toDate", v, toDate(v))
FromDate == \E n \in Days  : Ask("fromDate", n, fromDate(n))

Next == ToTime \/ FromTime \/ ToDate \/ FromDate

Spec == Init /\ [][Next]_vars
-------------------------------------------------------------------------------
TimeOfDay == (0 .. 23) \X (0 .. 59) \X (0 .. 59) \X (0 .. MICROS - 1)

Day == 24 * 3600 * MICROS

(* Of two dates, or two times of day: the first place they differ in.      *)
Earlier(v, w) == \E i \in DOMAIN v : /\ v[i] < w[i]
                                     /\ \A j \in 1 .. i - 1 : v[j] = w[j]

(* The answer has the shape of the call's: a number from toTime, four      *)
(* numbers from fromTime, a date from fromDate, and a number from toDate   *)
(* unless the interpreter raises.                                          *)
TypeOK ==
  CASE asked.op = "fromTime" -> /\ Len(reply) = 4
                                /\ \A i \in 1 .. 4 : reply[i] \in Nat
    [] asked.op = "fromDate" -> IsDate(reply)
    [] asked.op = "toDate"   -> reply \in Int \cup {Raised}
    [] OTHER                 -> reply \in Int

(* No time of day is refused or changed: what toTime makes of it fromTime  *)
(* takes apart into the same hour, minute, second and microseconds         *)
(* (toTime.aplf:12-21, fromTime.aplf:10-16).                               *)
TimeKept ==
  asked.op = "toTime" /\ asked.arg \in TimeOfDay => fromTime(reply) = asked.arg

(* And the other way: every number of microseconds of a day is read as a   *)
(* time of day, and as one that toTime turns into that number.             *)
TicksKept ==
  asked.op = "fromTime" /\ asked.arg \in 0 .. Day - 1
    => reply \in TimeOfDay /\ toTime(reply) = asked.arg

(* A date's number is the number of days between it and 1970-01-01,        *)
(* negative before, and fromDate takes it back to the date                 *)
(* (toDate.aplf:17-19, fromDate.aplf:5-7).  No date is refused.            *)
DateCounted ==
  LET Between(v, w) ==
        Cardinality({e \in Calendar : IsDate(e) /\ ~Earlier(e, v) /\ Earlier(e, w)})
      Epoch == <<1970, 1, 1>>
  IN asked.op = "toDate" /\ IsDate(asked.arg)
       => /\ reply = Between(Epoch, asked.arg) - Between(asked.arg, Epoch)
          /\ fromDate(reply) = asked.arg

(* Of two times of day handed over one after the other the later one gets  *)
(* the larger number: DuckDB compares and sorts TIME values by it.         *)
TimesInOrder ==
  [][ (/\ asked.op = "toTime" /\ asked'.op = "toTime"
       /\ asked.arg \in TimeOfDay /\ asked'.arg \in TimeOfDay
       /\ Earlier(asked.arg, asked'.arg))
      => reply < reply' ]_vars
===============================================================================
