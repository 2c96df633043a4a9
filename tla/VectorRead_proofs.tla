-------------------------- MODULE VectorRead_proofs --------------------------
(***************************************************************************)
(* The conversions of times of day lose nothing, for any number of         *)
(* microseconds to the second and any arguments; dates are counted in      *)
(* days, for any years of the calendar; and a vector is read as what it    *)
(* means, whatever its mask, its rows and its nesting.  All of them are    *)
(* lemmas about the operators; the invariants follow because a reply is    *)
(* always the operator's value.                                            *)
(***************************************************************************)
EXTENDS VectorRead, Induction, FiniteSetTheorems, FunctionTheorems,
        SequenceTheorems, TLAPS

-------------------------------------------------------------------------------
\* Times of day
(* Quotients are determined by their remainder.                            *)
LEMMA DivUnique ==
  ASSUME NEW b \in Nat \ {0}, NEW q \in Int, NEW r \in 0 .. b - 1
  PROVE  (q * b + r) \div b = q
  BY SMTT(30)

(* Of n units of b and a rest smaller than b no more than the units count: *)
(* below k units, the whole is below k * b.                                *)
LEMMA UnitsBound ==
  ASSUME NEW b \in Nat \ {0}, NEW k \in Nat, NEW n \in 0 .. k - 1,
         NEW r \in 0 .. b - 1
  PROVE  n * b + r \in 0 .. k * b - 1
<1>1. n * b \in Nat /\ k * b \in Nat
  BY SMTT(30)
<1>2. (k - 1 - n) * b \in Nat
  BY SMTT(30)
<1>3. k * b = n * b + (k - 1 - n) * b + b
  BY SMTT(30)
<1> QED
  BY <1>1, <1>2, <1>3

(* The other way: below k * b there are fewer than k units of b, and what  *)
(* is left is smaller than b.                                              *)
LEMMA Rest ==
  ASSUME NEW b \in Nat \ {0}, NEW k \in Nat, NEW a \in 0 .. k * b - 1
  PROVE  /\ a \div b \in 0 .. k - 1
         /\ a - (a \div b) * b \in 0 .. b - 1
<1> DEFINE q == a \div b
<1>1. k * b \in Nat /\ a \in Nat /\ a < k * b
  BY SMTT(30)
<1>2. q \in Nat /\ a - q * b \in 0 .. b - 1
  BY <1>1, SMTT(30)
<1>3. q < k
  <2> SUFFICES ASSUME q >= k PROVE FALSE
    BY <1>2
  <2>1. (q - k) * b \in Nat
    BY <1>2, SMTT(30)
  <2>2. q * b = k * b + (q - k) * b
    BY <1>2, SMTT(30)
  <2> QED
    BY <1>1, <1>2, <2>1, <2>2
<1> QED
  BY <1>2, <1>3

(* The units of the clock.  Their definitions are expanded in UnitFacts    *)
(* only: elsewhere they are numbers of which those facts are known.        *)
Minute == 60 * MICROS
Hour == 3600 * MICROS

LEMMA UnitFacts ==
  /\ MICROS \in Nat \ {0} /\ Minute \in Nat \ {0} /\ Hour \in Nat \ {0}
  /\ Minute = 60 * MICROS /\ Hour = 60 * Minute /\ Day = 24 * Hour
  BY MicrosAssumption DEF Day, Minute, Hour

(* Taking one unit off: how often it goes in, and what is left.            *)
Quot(n, b) == n \div b
Left(n, b) == n - Quot(n, b) * b

(* fromTime takes the hours off, then the minutes, then the seconds.       *)
LEMMA FromTimeSteps ==
  ASSUME NEW total \in Nat
  PROVE  LET r == Left(total, Hour)
             q == Left(r, Minute)
         IN fromTime(total)
              = <<Quot(total, Hour), Quot(r, Minute), Quot(q, MICROS), Left(q, MICROS)>>
  BY DEF fromTime, Quot, Left, Minute, Hour

LEMMA ToTimeSum ==
  ASSUME NEW h \in 0 .. 23, NEW m \in 0 .. 59, NEW s \in 0 .. 59,
         NEW u \in 0 .. MICROS - 1
  PROVE  toTime(<<h, m, s, u>>) = h * Hour + (m * Minute + (s * MICROS + u))
<1>1. toTime(<<h, m, s, u>>) = (h * 3600 + m * 60 + s) * MICROS + u
  BY MicrosAssumption DEF toTime, TimeRefused, Or, Bit
<1>2. (h * 3600 + m * 60 + s) * MICROS + u
        = h * (3600 * MICROS) + (m * (60 * MICROS) + (s * MICROS + u))
  BY MicrosAssumption, SMTT(30)
<1> QED
  BY <1>1, <1>2 DEF Hour, Minute

LEMMA TimeOfDayIs ==
  ASSUME NEW v \in TimeOfDay
  PROVE  \E h \in 0 .. 23, m \in 0 .. 59, s \in 0 .. 59, u \in 0 .. MICROS - 1 :
           v = <<h, m, s, u>>
<1>1. /\ v = <<v[1], v[2], v[3], v[4]>>
      /\ v[1] \in 0 .. 23 /\ v[2] \in 0 .. 59 /\ v[3] \in 0 .. 59
      /\ v[4] \in 0 .. MICROS - 1
  BY DEF TimeOfDay
<1> QED
  BY <1>1, Zenon

(* Every time of day survives the way to DuckDB's number and back.         *)
LEMMA ToFrom ==
  ASSUME NEW v \in TimeOfDay
  PROVE  fromTime(toTime(v)) = v
<1>1. PICK h \in 0 .. 23, m \in 0 .. 59, s \in 0 .. 59, u \in 0 .. MICROS - 1 :
        v = <<h, m, s, u>>
  BY TimeOfDayIs, Zenon
<1> DEFINE q == s * MICROS + u
           r == m * Minute + q
           total == h * Hour + r
<1>2. toTime(v) = total
  BY <1>1, ToTimeSum, Zenon
<1>3. q \in 0 .. 60 * MICROS - 1 /\ q \div MICROS = s
  BY UnitFacts, UnitsBound, DivUnique
<1>4. q \in 0 .. Minute - 1 /\ q \in Nat /\ q - s * MICROS = u
  BY <1>3, UnitFacts
<1> HIDE DEF q
<1>5. r \in 0 .. 60 * Minute - 1 /\ r \div Minute = m
  BY <1>4, UnitFacts, UnitsBound, DivUnique
<1>6. r \in 0 .. Hour - 1 /\ r \in Nat /\ r - m * Minute = q
  BY <1>4, <1>5, UnitFacts
<1> HIDE DEF r
<1>7. total \in 0 .. 24 * Hour - 1 /\ total \div Hour = h
  BY <1>6, UnitFacts, UnitsBound, DivUnique
<1>8. total \in Nat /\ total - h * Hour = r
  BY <1>6, <1>7, UnitFacts
<1> HIDE DEF total
<1>9. /\ Quot(total, Hour) = h /\ Left(total, Hour) = r
      /\ Quot(r, Minute) = m /\ Left(r, Minute) = q
      /\ Quot(q, MICROS) = s /\ Left(q, MICROS) = u
  BY <1>3, <1>4, <1>5, <1>6, <1>7, <1>8 DEF Quot, Left
<1>10. fromTime(total) = <<h, m, s, u>>
  BY <1>8, <1>9, FromTimeSteps
<1> QED
  BY <1>1, <1>2, <1>10

(* Every number of a day survives the way to a time of day and back.       *)
LEMMA FromTo ==
  ASSUME NEW total \in 0 .. Day - 1
  PROVE  fromTime(total) \in TimeOfDay /\ toTime(fromTime(total)) = total
<1> DEFINE h == total \div Hour
           r == total - h * Hour
           m == r \div Minute
           q == r - m * Minute
           s == q \div MICROS
           u == q - s * MICROS
<1>0. 24 \in Nat /\ 60 \in Nat
  OBVIOUS
<1>1. total \in 0 .. 24 * Hour - 1 /\ total \in Nat
  BY UnitFacts
<1>2. h \in 0 .. 24 - 1 /\ r \in 0 .. Hour - 1
  BY <1>0, <1>1, UnitFacts, Rest, Zenon
<1>3. h \in 0 .. 23 /\ r \in Nat /\ total = h * Hour + r
  BY <1>1, <1>2, UnitFacts
<1>4. total \div Hour = h /\ total - h * Hour = r
  OBVIOUS
<1> HIDE DEF h, r
<1>5. r \in 0 .. 60 * Minute - 1
  BY <1>2, UnitFacts
<1>6. m \in 0 .. 60 - 1 /\ q \in 0 .. Minute - 1
  BY <1>0, <1>5, UnitFacts, Rest, Zenon
<1>7. m \in 0 .. 59 /\ q \in Nat /\ r = m * Minute + q
  BY <1>3, <1>6, UnitFacts
<1>8. r \div Minute = m /\ r - m * Minute = q
  OBVIOUS
<1> HIDE DEF m, q
<1>9. q \in 0 .. 60 * MICROS - 1
  BY <1>6, UnitFacts
<1>10. s \in 0 .. 60 - 1 /\ u \in 0 .. MICROS - 1
  BY <1>0, <1>9, UnitFacts, Rest, Zenon
<1>11. s \in 0 .. 59 /\ u \in Nat /\ q = s * MICROS + u
  BY <1>7, <1>10, UnitFacts
<1>12. q \div MICROS = s /\ q - s * MICROS = u
  OBVIOUS
<1> HIDE DEF s, u
<1>13. /\ Quot(total, Hour) = h /\ Left(total, Hour) = r
       /\ Quot(r, Minute) = m /\ Left(r, Minute) = q
       /\ Quot(q, MICROS) = s /\ Left(q, MICROS) = u
  BY <1>4, <1>8, <1>12 DEF Quot, Left
<1>14. fromTime(total) = <<h, m, s, u>>
  BY <1>1, <1>13, FromTimeSteps
<1>15. toTime(<<h, m, s, u>>) = h * Hour + (m * Minute + (s * MICROS + u))
  BY <1>3, <1>7, <1>10, <1>11, ToTimeSum, Zenon
<1>16. <<h, m, s, u>> \in TimeOfDay
  BY <1>3, <1>7, <1>10, <1>11 DEF TimeOfDay
<1> QED
  BY <1>3, <1>7, <1>11, <1>14, <1>15, <1>16

(* Of numbers written in units of b and a rest, the units decide, then the *)
(* rest.                                                                   *)
LEMMA UnitsDecide ==
  ASSUME NEW b \in Nat \ {0}, NEW n \in Int, NEW n2 \in Int,
         NEW r \in 0 .. b - 1, NEW r2 \in 0 .. b - 1,
         n < n2 \/ (n = n2 /\ r < r2)
  PROVE  n * b + r < n2 * b + r2
<1>1. CASE n = n2
  BY <1>1, SMTT(30)
<1>2. CASE n < n2
  <2>1. (n2 - n - 1) * b \in Nat
    BY <1>2, SMTT(30)
  <2>2. n2 * b = n * b + (n2 - n - 1) * b + b /\ n * b \in Int
    BY SMTT(30)
  <2> QED
    BY <2>1, <2>2
<1> QED
  BY <1>1, <1>2

(* The earlier of two times of day has the smaller number.                 *)
LEMMA InOrder ==
  ASSUME NEW v \in TimeOfDay, NEW w \in TimeOfDay, Earlier(v, w)
  PROVE  toTime(v) < toTime(w)
<1>1. PICK h \in 0 .. 23, m \in 0 .. 59, s \in 0 .. 59, u \in 0 .. MICROS - 1 :
        v = <<h, m, s, u>>
  BY TimeOfDayIs, Zenon
<1>2. PICK h2 \in 0 .. 23, m2 \in 0 .. 59, s2 \in 0 .. 59, u2 \in 0 .. MICROS - 1 :
        w = <<h2, m2, s2, u2>>
  BY TimeOfDayIs, Zenon
<1> DEFINE q == s * MICROS + u    q2 == s2 * MICROS + u2
           r == m * Minute + q    r2 == m2 * Minute + q2
<1>3. \/ h < h2
      \/ h = h2 /\ (m < m2 \/ (m = m2 /\ (s < s2 \/ (s = s2 /\ u < u2))))
  BY <1>1, <1>2 DEF Earlier
<1>4. /\ q \in 0 .. Minute - 1 /\ q2 \in 0 .. Minute - 1
      /\ s < s2 \/ (s = s2 /\ u < u2) => q < q2
  <2>1. q \in 0 .. Minute - 1 /\ q2 \in 0 .. Minute - 1
    BY UnitFacts, UnitsBound
  <2>2. ASSUME s < s2 \/ (s = s2 /\ u < u2) PROVE q < q2
    BY <2>2, UnitFacts, UnitsDecide
  <2> QED
    BY <2>1, <2>2
<1> HIDE DEF q, q2
<1>5. /\ r \in 0 .. Hour - 1 /\ r2 \in 0 .. Hour - 1
      /\ m < m2 \/ (m = m2 /\ q < q2) => r < r2
  <2>1. r \in 0 .. Hour - 1 /\ r2 \in 0 .. Hour - 1
    BY <1>4, UnitFacts, UnitsBound
  <2>2. ASSUME m < m2 \/ (m = m2 /\ q < q2) PROVE r < r2
    BY <2>2, <1>4, UnitFacts, UnitsDecide
  <2> QED
    BY <2>1, <2>2
<1> HIDE DEF r, r2
<1>6. h * Hour + r < h2 * Hour + r2
  BY <1>3, <1>4, <1>5, UnitFacts, UnitsDecide
<1>7. toTime(<<h, m, s, u>>) = h * Hour + (m * Minute + (s * MICROS + u))
  BY ToTimeSum
<1>8. toTime(<<h2, m2, s2, u2>>) = h2 * Hour + (m2 * Minute + (s2 * MICROS + u2))
  BY ToTimeSum
<1> QED
  BY <1>1, <1>2, <1>6, <1>7, <1>8 DEF q, q2, r, r2

-------------------------------------------------------------------------------
\* Dates

(* The days before March of a year.                                        *)
March(y) == 365 * y + (y \div 4) - (y \div 100) + (y \div 400)

Before(m) == IF m = 1 THEN 306 ELSE IF m = 2 THEN 337 ELSE IF m = 3 THEN 0
             ELSE IF m = 4 THEN 31 ELSE IF m = 5 THEN 61 ELSE IF m = 6 THEN 92
             ELSE IF m = 7 THEN 122 ELSE IF m = 8 THEN 153 ELSE IF m = 9 THEN 184
             ELSE IF m = 10 THEN 214 ELSE IF m = 11 THEN 245 ELSE 275

LEMMA MonthTable == \A m \in 1 .. 12 : BeforeMonth[m] = Before(m)
  BY DEF BeforeMonth, Before

LEMMA MarchType == ASSUME NEW y \in Int PROVE March(y) \in Int
  BY DEF March

(* The day that a leap year has more is the last before its March.         *)
LEMMA LeapStep ==
  ASSUME NEW y \in Int
  PROVE  March(y) = March(y - 1) + (IF Leap(y) THEN 366 ELSE 365)
<1>1. (y \div 4) - ((y - 1) \div 4) = IF y % 4 = 0 THEN 1 ELSE 0
  BY SMTT(30)
<1>2. (y \div 100) - ((y - 1) \div 100) = IF y % 100 = 0 THEN 1 ELSE 0
  BY SMTT(30)
<1>3. (y \div 400) - ((y - 1) \div 400) = IF y % 400 = 0 THEN 1 ELSE 0
  BY SMTT(30)
<1>4. /\ y % 400 = 0 => y % 100 = 0
      /\ y % 100 = 0 => y % 4 = 0
  BY SMTT(30)
<1>5. /\ y \div 4 \in Int /\ (y - 1) \div 4 \in Int
      /\ y \div 100 \in Int /\ (y - 1) \div 100 \in Int
      /\ y \div 400 \in Int /\ (y - 1) \div 400 \in Int
  OBVIOUS
<1> QED
  BY <1>1, <1>2, <1>3, <1>4, <1>5 DEF March, Leap

LEMMA LaterYear ==
  ASSUME NEW y \in Int, NEW z \in Int, y <= z
  PROVE  March(y) <= March(z)
<1>1. CASE y = z
  BY <1>1, MarchType
<1>2. CASE y < z
  <2>1. ASSUME NEW x \in Int, NEW b \in Nat \ {0}
        PROVE  /\ x \div b \in Int
               /\ b * (x \div b) <= x /\ x <= b * (x \div b) + b - 1
    BY <2>1, SMTT(30)
  <2>2. /\ y \div 4 \in Int /\ y \div 100 \in Int /\ y \div 400 \in Int
        /\ z \div 4 \in Int /\ z \div 100 \in Int /\ z \div 400 \in Int
        /\ 4 * (y \div 4) <= y /\ z <= 4 * (z \div 4) + 3
        /\ y <= 100 * (y \div 100) + 99 /\ 100 * (z \div 100) <= z
        /\ 400 * (y \div 400) <= y /\ z <= 400 * (z \div 400) + 399
    BY <2>1
  <2> QED
    BY <1>2, <2>2 DEF March
<1> QED
  BY <1>1, <1>2

(* What a date is made of, and its number.                                 *)
IsDay(y, m, d) == y \in Years /\ m \in 1 .. 12 /\ d \in 1 .. 31 /\ d <= MonthDays(y, m)

Number(y, m, d) == March(IF m <= 2 THEN y - 1 ELSE y) + Before(m) + d - 730426

LEMMA DateIs ==
  ASSUME NEW v, IsDate(v)
  PROVE  \E y \in Years, m \in 1 .. 12, d \in 1 .. 31 : v = <<y, m, d>> /\ IsDay(y, m, d)
<1>1. PICK y \in Years, m \in 1 .. 12, d \in 1 .. 31 : v = <<y, m, d>>
  BY DEF IsDate, Calendar
<1>2. d <= MonthDays(y, m)
  BY <1>1 DEF IsDate
<1> QED
  BY <1>1, <1>2 DEF IsDay

LEMMA DayIsDate ==
  ASSUME NEW y, NEW m, NEW d, IsDay(y, m, d)
  PROVE  IsDate(<<y, m, d>>)
  BY DEF IsDay, IsDate, Calendar

LEMMA NumberIs ==
  ASSUME NEW y, NEW m, NEW d, IsDay(y, m, d)
  PROVE  DT(<<y, m, d>>) = Number(y, m, d) /\ Number(y, m, d) \in Int
<1>1. y \in Int /\ m \in 1 .. 12 /\ d \in 1 .. 31
  BY YearsAssumption DEF IsDay
<1> DEFINE x == IF m <= 2 THEN y - 1 ELSE y
<1>2. DT(<<y, m, d>>) = March(y - (IF m <= 2 THEN 1 ELSE 0)) + BeforeMonth[m] + d - 730426
  BY DEF DT, March
<1>3. x = y - (IF m <= 2 THEN 1 ELSE 0) /\ x \in Int
  BY <1>1
<1>4. BeforeMonth[m] = Before(m) /\ Before(m) \in Int
  BY <1>1, MonthTable DEF Before
<1>5. March(x) \in Int
  BY <1>3, MarchType
<1> QED
  BY <1>1, <1>2, <1>3, <1>4, <1>5 DEF Number

(* The earlier of two dates has the smaller number: the years decide, then *)
(* the months, then the days.                                              *)
LEMMA NumbersInOrder ==
  ASSUME NEW y, NEW m, NEW d, IsDay(y, m, d), NEW y2, NEW m2, NEW d2, IsDay(y2, m2, d2),
         y < y2 \/ (y = y2 /\ (m < m2 \/ (m = m2 /\ d < d2)))
  PROVE  Number(y, m, d) < Number(y2, m2, d2)
<1>1. /\ y \in Int /\ y - 1 \in Int /\ m \in 1 .. 12 /\ d \in 1 .. 31 /\ d <= MonthDays(y, m)
      /\ y2 \in Int /\ y2 - 1 \in Int /\ m2 \in 1 .. 12 /\ d2 \in 1 .. 31
  BY YearsAssumption DEF IsDay
<1>2. /\ March(y) \in Int /\ March(y - 1) \in Int /\ March(y2) \in Int /\ March(y2 - 1) \in Int
      /\ March(y) = March(y - 1) + (IF Leap(y) THEN 366 ELSE 365)
      /\ March(y2) = March(y2 - 1) + (IF Leap(y2) THEN 366 ELSE 365)
  BY <1>1, MarchType, LeapStep
<1>3. CASE y < y2
  <2>1. March(y) <= March(y2 - 1)
    BY <1>1, <1>3, LaterYear
  <2>2. Number(y, m, d) <= March(y) + 306 - 730426
    BY <1>1, <1>2 DEF Number, Before, MonthDays
  <2>3. Number(y2, m2, d2) >= March(y2 - 1) + 307 - 730426
    BY <1>1, <1>2 DEF Number, Before, MonthDays
  <2>4. Number(y, m, d) \in Int /\ Number(y2, m2, d2) \in Int
    BY NumberIs
  <2> QED
    BY <1>2, <2>1, <2>2, <2>3, <2>4
<1>4. CASE y = y2 /\ m < m2
  BY <1>1, <1>2, <1>4 DEF Number, Before, MonthDays
<1>5. CASE y = y2 /\ m = m2 /\ d < d2
  <2>1. Before(m) \in Int /\ March(IF m <= 2 THEN y - 1 ELSE y) \in Int
    BY <1>1, <1>2 DEF Before
  <2> QED
    BY <1>1, <1>5, <2>1 DEF Number
<1> QED
  BY <1>3, <1>4, <1>5

LEMMA DatesInOrder ==
  ASSUME NEW v, NEW w, IsDate(v), IsDate(w)
  PROVE  /\ DT(v) \in Int /\ DT(w) \in Int
         /\ Earlier(v, w) <=> DT(v) < DT(w)
         /\ v = w <=> DT(v) = DT(w)
<1>1. PICK y \in Years, m \in 1 .. 12, d \in 1 .. 31 : v = <<y, m, d>> /\ IsDay(y, m, d)
  BY DateIs
<1>2. PICK y2 \in Years, m2 \in 1 .. 12, d2 \in 1 .. 31 :
        w = <<y2, m2, d2>> /\ IsDay(y2, m2, d2)
  BY DateIs
<1>3. /\ DT(v) = Number(y, m, d) /\ DT(w) = Number(y2, m2, d2)
      /\ DT(v) \in Int /\ DT(w) \in Int
  BY <1>1, <1>2, NumberIs
<1>4. /\ Earlier(v, w) <=> y < y2 \/ (y = y2 /\ (m < m2 \/ (m = m2 /\ d < d2)))
      /\ v = w <=> y = y2 /\ m = m2 /\ d = d2
  BY <1>1, <1>2 DEF Earlier
<1>5. /\ y < y2 \/ (y = y2 /\ (m < m2 \/ (m = m2 /\ d < d2))) => DT(v) < DT(w)
      /\ y2 < y \/ (y2 = y /\ (m2 < m \/ (m2 = m /\ d2 < d))) => DT(w) < DT(v)
  BY <1>1, <1>2, <1>3, NumbersInOrder
<1>6. y \in Int /\ y2 \in Int
  BY YearsAssumption
<1> QED
  BY <1>3, <1>4, <1>5, <1>6

(* No number is left out: before a later date comes the day after.         *)
LEMMA DayAfter ==
  ASSUME NEW v, NEW w, IsDate(v), IsDate(w), DT(v) < DT(w)
  PROVE  \E u \in Calendar : IsDate(u) /\ DT(u) = DT(v) + 1
<1>1. PICK y \in Years, m \in 1 .. 12, d \in 1 .. 31 : v = <<y, m, d>> /\ IsDay(y, m, d)
  BY DateIs
<1>2. PICK y2 \in Years, m2 \in 1 .. 12, d2 \in 1 .. 31 :
        w = <<y2, m2, d2>> /\ IsDay(y2, m2, d2)
  BY DateIs
<1>3. /\ y \in Int /\ y2 \in Int /\ d <= MonthDays(y, m) /\ d2 <= MonthDays(y2, m2)
      /\ March(y) \in Int /\ March(y - 1) \in Int
      /\ March(y) = March(y - 1) + (IF Leap(y) THEN 366 ELSE 365)
  BY <1>1, <1>2, YearsAssumption, MarchType, LeapStep DEF IsDay
<1>4. DT(v) = Number(y, m, d)
  BY <1>1, NumberIs
<1>5. Earlier(v, w)
  BY DatesInOrder
<1>6. y < y2 \/ (y = y2 /\ (m < m2 \/ (m = m2 /\ d < d2)))
  BY <1>1, <1>2, <1>5 DEF Earlier
<1>7. SUFFICES \E y3, m3, d3 : IsDay(y3, m3, d3) /\ Number(y3, m3, d3) = Number(y, m, d) + 1
  <2>1. PICK y3, m3, d3 : IsDay(y3, m3, d3) /\ Number(y3, m3, d3) = Number(y, m, d) + 1
    BY <1>7
  <2>2. IsDate(<<y3, m3, d3>>) /\ DT(<<y3, m3, d3>>) = DT(v) + 1
    BY <1>4, <2>1, DayIsDate, NumberIs
  <2> QED
    BY <2>2 DEF IsDate
<1>8. CASE d < MonthDays(y, m)
  <2>1. d + 1 \in 1 .. 31 /\ d + 1 <= MonthDays(y, m)
    BY <1>8 DEF MonthDays
  <2>2. IsDay(y, m, d + 1)
    BY <2>1 DEF IsDay
  <2>3. Before(m) \in Int /\ March(IF m <= 2 THEN y - 1 ELSE y) \in Int
    BY <1>3 DEF Before
  <2>4. Number(y, m, d + 1) = Number(y, m, d) + 1
    BY <2>3 DEF Number
  <2> QED
    BY <2>2, <2>4
<1>9. CASE d = MonthDays(y, m) /\ m < 12
  <2>1. IsDay(y, m + 1, 1)
    BY <1>9 DEF IsDay, MonthDays
  <2>2. Number(y, m + 1, 1) = Number(y, m, d) + 1
    BY <1>3, <1>9 DEF Number, Before, MonthDays
  <2> QED
    BY <2>1, <2>2
<1>10. CASE d = MonthDays(y, m) /\ m = 12
  <2>1. y < y2 /\ d = 31
    BY <1>2, <1>3, <1>6, <1>10 DEF MonthDays
  <2>2. y + 1 \in Years
    BY <1>3, <2>1, YearsAssumption
  <2>3. IsDay(y + 1, 1, 1)
    BY <2>2 DEF IsDay, MonthDays
  <2>4. y + 1 - 1 = y
    BY <1>3
  <2>5. Number(y + 1, 1, 1) = Number(y, m, d) + 1
    BY <1>3, <1>10, <2>1, <2>4 DEF Number, Before
  <2> QED
    BY <2>3, <2>5
<1> QED
  BY <1>3, <1>8, <1>9, <1>10 DEF MonthDays

LEMMA EveryNumber ==
  ASSUME NEW v, NEW w, IsDate(v), IsDate(w), NEW n \in DT(v) .. DT(w)
  PROVE  \E u \in Calendar : IsDate(u) /\ DT(u) = n
<1>0. DT(v) \in Int /\ DT(w) \in Int
  BY DatesInOrder
<1> DEFINE S == {k \in Nat : DT(v) + k <= DT(w) =>
                   \E u \in Calendar : IsDate(u) /\ DT(u) = DT(v) + k}
<1>1. 0 \in S
  BY <1>0 DEF IsDate
<1>2. ASSUME NEW k \in Nat, k \in S PROVE k + 1 \in S
  <2>1. SUFFICES ASSUME DT(v) + (k + 1) <= DT(w)
                 PROVE  \E u \in Calendar : IsDate(u) /\ DT(u) = DT(v) + (k + 1)
    OBVIOUS
  <2>2. PICK u \in Calendar : IsDate(u) /\ DT(u) = DT(v) + k
    BY <1>0, <1>2, <2>1
  <2>3. DT(u) < DT(w)
    BY <1>0, <2>1, <2>2
  <2>4. PICK u2 \in Calendar : IsDate(u2) /\ DT(u2) = DT(u) + 1
    BY <2>2, <2>3, DayAfter
  <2>5. DT(u) + 1 = DT(v) + (k + 1)
    BY <1>0, <2>2
  <2> QED
    BY <2>4, <2>5
<1> HIDE DEF S
<1>3. \A k \in Nat : k \in S
  BY <1>1, <1>2, SetInduction
<1>4. n - DT(v) \in Nat /\ DT(v) + (n - DT(v)) = n /\ n <= DT(w)
  BY <1>0
<1> QED
  BY <1>3, <1>4 DEF S

(* Numbering the days from one date to another leaves none out and none    *)
(* twice.                                                                  *)
LEMMA DaysBetween ==
  ASSUME NEW v, NEW w, IsDate(v), IsDate(w)
  PROVE  Cardinality({e \in Calendar : IsDate(e) /\ ~Earlier(e, v) /\ Earlier(e, w)})
           = IF DT(v) <= DT(w) THEN DT(w) - DT(v) ELSE 0
<1> DEFINE S == {e \in Calendar : IsDate(e) /\ ~Earlier(e, v) /\ Earlier(e, w)}
           T == DT(v) .. DT(w) - 1
           f == [e \in S |-> DT(e)]
<1>1. DT(v) \in Int /\ DT(w) \in Int
  BY DatesInOrder
<1>2. \A e \in S : IsDate(e) /\ DT(e) \in T
  <2>1. SUFFICES ASSUME NEW e \in S PROVE DT(e) \in T
    OBVIOUS
  <2>2. /\ DT(e) \in Int
        /\ Earlier(e, v) <=> DT(e) < DT(v)
        /\ Earlier(e, w) <=> DT(e) < DT(w)
    BY DatesInOrder
  <2> QED
    BY <1>1, <2>2
<1>3. f \in [S -> T]
  BY <1>2
<1>4. \A a, b \in S : f[a] = f[b] => a = b
  BY <1>2, DatesInOrder
<1>5. ASSUME NEW n \in T PROVE \E e \in S : f[e] = n
  <2>1. n \in DT(v) .. DT(w)
    BY <1>1
  <2>2. PICK e \in Calendar : IsDate(e) /\ DT(e) = n
    BY <2>1, EveryNumber
  <2>3. /\ Earlier(e, v) <=> DT(e) < DT(v)
        /\ Earlier(e, w) <=> DT(e) < DT(w)
    BY <2>2, DatesInOrder
  <2>4. e \in S
    BY <1>1, <2>2, <2>3
  <2> QED
    BY <2>2, <2>4
<1> HIDE DEF S, T, f
<1>6. f \in Bijection(S, T)
  BY <1>3, <1>4, <1>5, Fun_IsBij
<1>7. ExistsBijection(T, S)
  BY <1>6, Fun_ExistsBij, Fun_ExistsBijSymmetric
<1>8. IsFiniteSet(T) /\ Cardinality(T) = IF DT(v) > DT(w) - 1 THEN 0 ELSE DT(w) - 1 - DT(v) + 1
  BY <1>1, FS_Interval DEF T
<1>9. Cardinality(S) = Cardinality(T)
  BY <1>7, <1>8, FS_Bijection
<1>10. Cardinality(S) = IF DT(v) <= DT(w) THEN DT(w) - DT(v) ELSE 0
  BY <1>1, <1>8, <1>9
<1> QED
  BY <1>10 DEF S

(* No date is refused.                                                     *)
LEMMA ToDateIs == ASSUME NEW v, IsDate(v) PROVE toDate(v) = DT(v) - Base
<1>1. PICK y \in Years, m \in 1 .. 12, d \in 1 .. 31 : v = <<y, m, d>> /\ IsDay(y, m, d)
  BY DateIs
<1>2. Len(v) = 3 /\ ~DateRefused(v[2], v[3])
  BY <1>1 DEF DateRefused, Or, Bit
<1> QED
  BY <1>2 DEF toDate

LEMMA EpochIsDate == IsDate(<<1970, 1, 1>>)
<1>1. IsDay(1970, 1, 1)
  BY YearsAssumption DEF IsDay, MonthDays
<1> QED
  BY <1>1, DayIsDate

(* Every date survives the way to DuckDB's number and back.                *)
LEMMA FromToDate == ASSUME NEW v, IsDate(v) PROVE fromDate(toDate(v)) = v
<1>1. Base \in Int /\ DT(v) \in Int
  BY EpochIsDate, DatesInOrder DEF Base
<1>2. fromDate(toDate(v)) = UnDT(DT(v))
  <2>1. Base + (DT(v) - Base) = DT(v)
    BY <1>1
  <2> QED
    BY <2>1, ToDateIs DEF fromDate
<1> DEFINE u == UnDT(DT(v))
<1>3. v \in Calendar
  BY DEF IsDate
<1>4. IsDate(u) /\ DT(u) = DT(v)
  BY <1>3 DEF UnDT
<1> HIDE DEF u
<1>5. u = v
  BY <1>4, DatesInOrder
<1> QED
  BY <1>2, <1>5 DEF u

LEMMA Counted ==
  ASSUME NEW v, IsDate(v)
  PROVE  LET Between(a, b) ==
               Cardinality({e \in Calendar : IsDate(e) /\ ~Earlier(e, a) /\ Earlier(e, b)})
             Epoch == <<1970, 1, 1>>
         IN  toDate(v) = Between(Epoch, v) - Between(v, Epoch)
<1> DEFINE Between(a, b) ==
             Cardinality({e \in Calendar : IsDate(e) /\ ~Earlier(e, a) /\ Earlier(e, b)})
           Epoch == <<1970, 1, 1>>
<1>1. Base = DT(Epoch) /\ Base \in Int /\ DT(v) \in Int /\ IsDate(Epoch)
  BY EpochIsDate, DatesInOrder DEF Base
<1>2. /\ Between(Epoch, v) = IF Base <= DT(v) THEN DT(v) - Base ELSE 0
      /\ Between(v, Epoch) = IF DT(v) <= Base THEN Base - DT(v) ELSE 0
  BY <1>1, DaysBetween
<1> HIDE DEF Between, Epoch
<1>3. toDate(v) = Between(Epoch, v) - Between(v, Epoch)
  BY <1>1, <1>2, ToDateIs
<1> QED
  BY <1>3 DEF Between, Epoch
-------------------------------------------------------------------------------
\* The validity mask

LEMMA ModUnique ==
  ASSUME NEW b \in Nat \ {0}, NEW q \in Int, NEW r \in 0 .. b - 1
  PROVE  (q * b + r) % b = r
  BY SMTT(30)

(* The places of a row of k blocks, b to the block: the block, and the     *)
(* place in it.                                                            *)
Block(i, b) == ((i - 1) \div b) + 1
Place(i, b) == ((i - 1) % b) + 1

LEMMA BlockPlace ==
  ASSUME NEW b \in Nat \ {0}, NEW k \in Nat, NEW i \in 1 .. k * b
  PROVE  /\ Block(i, b) \in 1 .. k /\ Place(i, b) \in 1 .. b
         /\ i = (Block(i, b) - 1) * b + Place(i, b)
<1> DEFINE q == (i - 1) \div b
           r == (i - 1) % b
<1>1. k * b \in Nat /\ i - 1 \in Nat /\ i - 1 < k * b /\ i \in Nat
  BY SMTT(30)
<1>2. q \in Nat /\ r \in 0 .. b - 1 /\ i - 1 = q * b + r
  BY <1>1, SMTT(30)
<1>3. q < k
  <2> SUFFICES ASSUME q >= k PROVE FALSE
    BY <1>2
  <2>1. (q - k) * b \in Nat
    BY <1>2, SMTT(30)
  <2>2. q * b = k * b + (q - k) * b
    BY <1>2, SMTT(30)
  <2> QED
    BY <1>1, <1>2, <2>1, <2>2
<1> HIDE DEF q, r
<1>4. q + 1 \in 1 .. k /\ r + 1 \in 1 .. b /\ q + 1 - 1 = q
  BY <1>2, <1>3
<1>5. i = q * b + (r + 1)
  <2>1. q * b \in Int
    BY <1>2, SMTT(30)
  <2> QED
    BY <1>1, <1>2, <2>1
<1> QED
  BY <1>4, <1>5 DEF q, r, Block, Place

LEMMA PlaceOf ==
  ASSUME NEW b \in Nat \ {0}, NEW q \in Nat, NEW t \in 1 .. b
  PROVE  Block(q * b + t, b) = q + 1 /\ Place(q * b + t, b) = t
<1>1. q * b \in Nat /\ t - 1 \in 0 .. b - 1
  BY SMTT(30)
<1>2. q * b + t - 1 = q * b + (t - 1)
  BY <1>1
<1>3. (q * b + (t - 1)) \div b = q /\ (q * b + (t - 1)) % b = t - 1
  BY <1>1, DivUnique, ModUnique
<1> QED
  BY <1>1, <1>2, <1>3 DEF Block, Place

(* Blocks of the same length, one after the other.                         *)
Blocks(seqs, k, b, V) ==
  k \in Nat \ {0} /\ b \in Nat \ {0} /\ seqs \in [1 .. k -> [1 .. b -> V]]

Row(seqs, n, b) == [i \in 1 .. n * b |-> seqs[Block(i, b)][Place(i, b)]]

LEMMA IsSeq ==
  ASSUME NEW n \in Nat, NEW V, NEW f \in [1 .. n -> V]
  PROVE  f \in Seq(V) /\ Len(f) = n
  OBVIOUS

(* Two sequences side by side are a third when it goes through the one and *)
(* then through the other.                                                 *)
Adjoins(s, t, w, c, b, V) ==
  /\ c \in Nat /\ b \in Nat
  /\ s \in [1 .. c -> V] /\ t \in [1 .. b -> V] /\ w \in [1 .. c + b -> V]
  /\ \A i \in 1 .. c : w[i] = s[i]
  /\ \A i \in 1 .. b : w[c + i] = t[i]

LEMMA SideBySide ==
  ASSUME NEW s, NEW t, NEW w, NEW c, NEW b, NEW V, Adjoins(s, t, w, c, b, V)
  PROVE  s \o t = w
<1> USE DEF Adjoins
<1>1. c + b \in Nat
  OBVIOUS
<1>2. s \in Seq(V) /\ Len(s) = c /\ t \in Seq(V) /\ Len(t) = b /\ w \in Seq(V) /\ Len(w) = c + b
  BY <1>1, IsSeq
<1>3. s \o t \in Seq(V) /\ Len(s \o t) = c + b
  BY <1>2, ConcatProperties
<1>31. ASSUME NEW i \in 1 .. c + b
      PROVE  (s \o t)[i] = IF i <= c THEN s[i] ELSE t[i - c]
  BY <1>2, ConcatProperties
<1>4. ASSUME NEW i \in 1 .. c + b PROVE (s \o t)[i] = w[i]
  <2>1. CASE i <= c
    <3>1. i \in 1 .. c
      BY <2>1
    <3>2. (s \o t)[i] = s[i]
      BY <1>31, <2>1
    <3> QED
      BY <3>1, <3>2
  <2>2. CASE i > c
    <3>1. i - c \in 1 .. b /\ c + (i - c) = i
      BY <2>2
    <3>2. (s \o t)[i] = t[i - c]
      BY <1>31, <2>2
    <3> QED
      BY <3>1, <3>2
  <2> QED
    BY <2>1, <2>2
<1> DEFINE u == s \o t
<1> HIDE DEF u
<1>5. u \in Seq(V) /\ w \in Seq(V) /\ Len(u) = Len(w) /\ \A i \in 1 .. Len(u) : u[i] = w[i]
  BY <1>2, <1>3, <1>4 DEF u
<1>6. u = w
  BY <1>5, SeqEqual
<1> QED
  BY <1>6 DEF u

LEMMA RowType ==
  ASSUME NEW seqs, NEW k, NEW b, NEW V, Blocks(seqs, k, b, V), NEW n \in 1 .. k
  PROVE  Row(seqs, n, b) \in [1 .. n * b -> V]
<1>1. k \in Nat /\ b \in Nat \ {0} /\ seqs \in [1 .. k -> [1 .. b -> V]]
  BY DEF Blocks
<1>2. ASSUME NEW i \in 1 .. n * b PROVE seqs[Block(i, b)][Place(i, b)] \in V
  <2>1. n \in Nat
    BY <1>1
  <2>2. Block(i, b) \in 1 .. n /\ Place(i, b) \in 1 .. b
    BY <1>1, <2>1, BlockPlace
  <2>3. Block(i, b) \in 1 .. k
    BY <1>1, <2>2
  <2> QED
    BY <1>1, <2>2, <2>3
<1> QED
  BY <1>2 DEF Row

LEMMA RowGrows ==
  ASSUME NEW seqs, NEW k, NEW b, NEW V, Blocks(seqs, k, b, V), NEW n \in 2 .. k
  PROVE  Row(seqs, n - 1, b) \o seqs[n] = Row(seqs, n, b)
<1>0. k \in Nat /\ b \in Nat \ {0} /\ seqs \in [1 .. k -> [1 .. b -> V]]
  BY DEF Blocks
<1> DEFINE m == n - 1
           c == m * b
           head == Row(seqs, m, b)
           whole == Row(seqs, n, b)
<1>1. m \in 1 .. k /\ n \in 1 .. k /\ m \in Nat /\ m + 1 = n
  BY <1>0
<1>2. c \in Nat /\ n * b = c + b
  BY <1>0, <1>1, SMTT(30)
<1>3. head \in [1 .. c -> V] /\ whole \in [1 .. n * b -> V] /\ seqs[n] \in [1 .. b -> V]
  BY <1>0, <1>1, RowType
<1>4. ASSUME NEW i \in 1 .. c PROVE whole[i] = head[i]
  <2>1. i \in 1 .. n * b
    BY <1>0, <1>2
  <2> QED
    BY <2>1 DEF Row
<1>5. ASSUME NEW t \in 1 .. b PROVE whole[c + t] = seqs[n][t]
  <2>1. c + t \in 1 .. n * b
    BY <1>0, <1>2
  <2>2. Block(c + t, b) = n /\ Place(c + t, b) = t
    BY <1>0, <1>1, PlaceOf
  <2> QED
    BY <2>1, <2>2 DEF Row
<1>6. whole \in [1 .. c + b -> V]
  BY <1>2, <1>3
<1> DEFINE tail == seqs[n]
<1> HIDE DEF head, whole, tail, c
<1>7. Adjoins(head, tail, whole, c, b, V)
  BY <1>0, <1>2, <1>3, <1>4, <1>5, <1>6 DEF Adjoins, tail
<1>8. head \o tail = whole
  BY <1>7, SideBySide
<1> QED
  BY <1>8 DEF head, whole, tail

LEMMA Flattened ==
  ASSUME NEW seqs, NEW k, NEW b, NEW V, Blocks(seqs, k, b, V)
  PROVE  FlattenSeq(seqs) = Row(seqs, k, b)
<1>0. k \in Nat \ {0} /\ b \in Nat \ {0} /\ seqs \in [1 .. k -> [1 .. b -> V]]
  BY DEF Blocks
<1>1. Len(seqs) = k /\ k # 0 /\ 1 .. Len(seqs) = 1 .. k
  BY <1>0
<1> DEFINE Ok(f) == f = [i \in 1 .. Len(seqs) |-> IF i = 1 THEN seqs[i] ELSE f[i - 1] \o seqs[i]]
           w == [i \in 1 .. k |-> Row(seqs, i, b)]
           flatten == CHOOSE f : Ok(f)
<1>2. Row(seqs, 1, b) = seqs[1]
  <2>1. 1 * b = b
    BY <1>0
  <2>2. ASSUME NEW t \in 1 .. b PROVE Block(t, b) = 1 /\ Place(t, b) = t
    <3>1. 0 * b + t = t /\ 0 \in Nat /\ 0 + 1 = 1
      BY <1>0
    <3>2. Block(0 * b + t, b) = 0 + 1 /\ Place(0 * b + t, b) = t
      BY <1>0, <3>1, PlaceOf
    <3> QED
      BY <3>1, <3>2
  <2>3. seqs[1] \in [1 .. b -> V]
    BY <1>0
  <2> QED
    BY <2>1, <2>2, <2>3 DEF Row
<1>3. Ok(w)
  <2>1. ASSUME NEW i \in 1 .. k
        PROVE  w[i] = IF i = 1 THEN seqs[i] ELSE w[i - 1] \o seqs[i]
    <3>1. CASE i = 1
      BY <1>2, <3>1
    <3>2. CASE i # 1
      <4>1. i \in 2 .. k /\ i - 1 \in 1 .. k
        BY <1>0, <3>2
      <4> QED
        BY <3>2, <4>1, RowGrows
    <3> QED
      BY <3>1, <3>2
  <2> DEFINE h == [i \in 1 .. Len(seqs) |-> IF i = 1 THEN seqs[i] ELSE w[i - 1] \o seqs[i]]
  <2>2. w = h
    BY <1>1, <2>1
  <2> QED
    BY <2>2
<1>4. Ok(flatten)
  BY <1>3
<1> HIDE DEF flatten, w
<1> DEFINE S == {j \in Nat : j + 1 <= k => flatten[j + 1] = Row(seqs, j + 1, b)}
<1>5. 0 \in S
  BY <1>0, <1>1, <1>2, <1>4
<1>6. ASSUME NEW j \in Nat, j \in S PROVE j + 1 \in S
  <2> SUFFICES ASSUME j + 2 <= k PROVE flatten[j + 2] = Row(seqs, j + 2, b)
    BY <1>0, <1>6
  <2> DEFINE i == j + 2
  <2>1. i \in 2 .. k /\ i - 1 = j + 1 /\ i # 1 /\ i \in 1 .. Len(seqs) /\ j + 1 <= k
    BY <1>0, <1>1
  <2>2. flatten[j + 1] = Row(seqs, j + 1, b)
    BY <1>6, <2>1
  <2> HIDE DEF i, S
  <2>3. flatten[i] = flatten[i - 1] \o seqs[i]
    BY <1>4, <2>1
  <2>4. flatten[i] = Row(seqs, i, b)
    BY <2>1, <2>2, <2>3, RowGrows
  <2> QED
    BY <2>4 DEF i
<1> HIDE DEF S
<1>7. \A j \in Nat : j \in S
  BY <1>5, <1>6, SetInduction
<1>8. flatten[k] = Row(seqs, k, b)
  <2>1. k - 1 \in S /\ k - 1 + 1 = k
    BY <1>0, <1>7
  <2> QED
    BY <2>1 DEF S
<1>9. FlattenSeq(seqs) = flatten[Len(seqs)]
  BY <1>1 DEF FlattenSeq, flatten
<1> QED
  BY <1>1, <1>8, <1>9

(* The bit of a row: the byte it falls in, the place in the byte.          *)
RowBit(valid, i) == (valid[((i - 1) \div BITS) + 1] \div 2^((i - 1) % BITS)) % 2

LEMMA MaskBits ==
  ASSUME NEW valid, NEW n \in Nat, NEW A, valid \in Seq(A), n <= BITS * Len(valid),
         NEW i \in 1 .. n
  PROVE  NullMask(valid, n)[i] = RowBit(valid, i)
<1> USE VectorAssumption
<1> DEFINE k == (n + BITS - 1) \div BITS
           seqs == [b \in 1 .. k |-> Reverse(BitsOf(valid[b]))]
           V == {BitsOf(valid[b])[j] : b \in 1 .. k, j \in 1 .. BITS}
           flat == FlattenSeq(seqs)
<1>1. k \in Nat \ {0} /\ n <= k * BITS /\ k * BITS \in Nat
  <2>1. n + BITS - 1 \in Nat /\ n >= 1
    BY SMT
  <2>2. k \in Nat /\ (n + BITS - 1) - k * BITS \in 0 .. BITS - 1
    BY <2>1, SMTT(30)
  <2>3. k * BITS \in Nat
    BY <2>2, SMTT(30)
  <2> HIDE DEF k
  <2>4. n <= k * BITS
    BY <2>2, <2>3
  <2>5. k # 0
    <3> SUFFICES ASSUME k = 0 PROVE FALSE
      OBVIOUS
    <3>1. k * BITS = 0
      BY SMT
    <3> QED
      BY <2>4, <3>1
  <2> QED
    BY <2>2, <2>3, <2>4, <2>5
<1>2. ASSUME NEW b \in 1 .. k, NEW j \in 1 .. BITS
      PROVE  seqs[b][j] = (valid[b] \div 2^(j - 1)) % 2 /\ seqs[b][j] \in V
  <2> DEFINE s == BitsOf(valid[b])
  <2>1. s = [m \in 1 .. BITS |-> (valid[b] \div 2^(BITS - m)) % 2]
    BY DEF BitsOf
  <2>2. Len(s) = BITS
    BY <2>1
  <2>3. BITS - j + 1 \in 1 .. BITS /\ BITS - (BITS - j + 1) = j - 1
    OBVIOUS
  <2>4. seqs[b] = [m \in 1 .. BITS |-> s[BITS - m + 1]]
    BY <2>2 DEF Reverse
  <2>5. seqs[b][j] = s[BITS - j + 1]
    BY <2>4
  <2>6. s[BITS - j + 1] \in V
    BY <2>3
  <2> QED
    BY <2>1, <2>3, <2>5, <2>6
<1>3. seqs \in [1 .. k -> [1 .. BITS -> V]]
  <2>1. ASSUME NEW b \in 1 .. k PROVE seqs[b] \in [1 .. BITS -> V]
    <3>1. Len(BitsOf(valid[b])) = BITS
      BY DEF BitsOf
    <3>2. DOMAIN seqs[b] = 1 .. BITS /\ seqs[b] = [m \in 1 .. BITS |-> seqs[b][m]]
      BY <3>1 DEF Reverse
    <3> HIDE DEF seqs, V
    <3> QED
      BY <1>2, <3>2
  <2> HIDE DEF V, k
  <2> QED
    BY <2>1
<1> HIDE DEF k, seqs, V
<1>4. Blocks(seqs, k, BITS, V)
  BY <1>1, <1>3 DEF Blocks
<1>5. NullMask(valid, n) = SubSeq(flat, 1, n)
  BY DEF NullMask, k, seqs
<1> HIDE DEF flat
<1>6. flat = Row(seqs, k, BITS)
  BY <1>4, Flattened DEF flat
<1>7. i \in 1 .. k * BITS
  BY <1>1
<1>8. SubSeq(flat, 1, n)[i] = flat[i]
  <2>1. SubSeq(flat, 1, n) = [j \in 1 .. n |-> flat[j]]
    OBVIOUS
  <2> QED
    BY <2>1
<1>9. flat[i] = seqs[Block(i, BITS)][Place(i, BITS)]
  BY <1>6, <1>7 DEF Row
<1>10. Block(i, BITS) \in 1 .. k /\ Place(i, BITS) \in 1 .. BITS
  BY <1>1, <1>7, BlockPlace
<1>11. Place(i, BITS) - 1 = (i - 1) % BITS
  BY DEF Place
<1> QED
  BY <1>2, <1>5, <1>8, <1>9, <1>10, <1>11 DEF RowBit, Block

(* The mask of a vector's rows is 0 where the row is not valid.            *)
LEMMA MaskIsValid ==
  ASSUME NEW v \in Vectors, NEW i \in 1 .. v.rows
  PROVE  RowMask(v, v.rows)[i] = 0 <=> ~Valid(v, i)
<1>1. v.rows \in Nat /\ MaskCovers(v)
  BY VectorsAssumption DEF WellFormed
<1>2. CASE v.valid = NoMask
  BY <1>2 DEF RowMask, Valid
<1>3. CASE v.valid # NoMask
  <2> DEFINE valid == v.valid
  <2> DEFINE A == 0 .. 2^BITS - 1
  <2>1. valid \in Seq(A) /\ v.rows <= BITS * Len(valid)
    BY <1>1, <1>3 DEF MaskCovers
  <2> HIDE DEF valid, A
  <2>3. NullMask(valid, v.rows)[i] = RowBit(valid, i)
    BY <1>1, <2>1, MaskBits
  <2> QED
    BY <1>3, <2>3 DEF RowMask, Valid, RowBit, valid
<1> QED
  BY <1>2, <1>3
-------------------------------------------------------------------------------
\* The functions that recur

ByReads == INSTANCE DeepRecursion
             WITH Things <- Reads, Parts <- ChildReads,
                  Depth <- [x \in Reads |-> x[1].depth], Body <- Read

ByMeaning == INSTANCE DeepRecursion
               WITH Things <- Vectors, Parts <- Children,
                    Depth <- [v \in Vectors |-> v.depth], Body <- Meanings

ByDepth == INSTANCE DeepRecursion
             WITH Things <- Vectors, Parts <- Children,
                  Depth <- [v \in Vectors |-> v.depth], Body <- Down

LEMMA ChildrenAreVectors ==
  ASSUME NEW v \in Vectors, NEW c \in Children(v)
  PROVE  c \in Vectors /\ c.depth \in Nat /\ c.rows \in Nat /\ c.depth < v.depth
  BY VectorsAssumption DEF WellFormed

LEMMA ReadsDescend == ByReads!Descends
<1>1. ASSUME NEW x \in Reads, NEW y \in ChildReads(x)
      PROVE  y \in Reads /\ y[1].depth < x[1].depth
  <2> DEFINE v == x[1]
             n == x[2]
  <2>1. v \in Vectors /\ n \in Nat /\ x = <<v, n>>
    BY DEF Reads
  <2>2. WellFormed(v)
    BY <2>1, VectorsAssumption
  <2> HIDE DEF v, n
  <2>3. CASE v.kind \in {"list", "map"}
    <3>1. v.child \in Children(v)
      BY <2>3 DEF Children
    <3>2. v.child \in Vectors /\ v.child.rows \in Nat /\ v.child.depth < v.depth
      BY <2>1, <3>1, ChildrenAreVectors
    <3>3. y = <<v.child, v.child.rows>>
      BY <2>3 DEF ChildReads, v
    <3> QED
      BY <3>2, <3>3 DEF Reads, v
  <2>4. CASE v.kind = "array"
    <3>1. v.child \in Children(v) /\ v.size \in Nat
      BY <2>2, <2>4 DEF Children, WellFormed
    <3>2. v.child \in Vectors /\ v.child.depth < v.depth
      BY <2>1, <3>1, ChildrenAreVectors
    <3>3. y = <<v.child, n * v.size>>
      BY <2>4 DEF ChildReads, v, n
    <3>4. n * v.size \in Nat
      BY <2>1, <3>1
    <3> QED
      BY <3>2, <3>3, <3>4 DEF Reads, v
  <2>5. CASE v.kind = "struct"
    <3>1. PICK name \in DOMAIN v.fields : y = <<v.fields[name], n>>
      BY <2>5 DEF ChildReads, v, n
    <3>2. v.fields[name] \in Children(v)
      BY <2>5 DEF Children
    <3>3. v.fields[name] \in Vectors /\ v.fields[name].depth < v.depth
      BY <2>1, <3>2, ChildrenAreVectors
    <3> QED
      BY <2>1, <3>1, <3>3 DEF Reads, v
  <2>6. CASE v.kind \notin {"list", "map", "array", "struct"}
    BY <2>6 DEF ChildReads, v
  <2> QED
    BY <2>3, <2>4, <2>5, <2>6
<1>2. \A x \in Reads : x[1].depth \in Nat
  BY VectorsAssumption DEF Reads, WellFormed
<1> QED
  BY <1>1, <1>2 DEF ByReads!Descends

LEMMA VectorsDescend == ByMeaning!Descends /\ ByDepth!Descends
<1>1. \A v \in Vectors : v.depth \in Nat
  BY VectorsAssumption DEF WellFormed
<1> QED
  BY <1>1, ChildrenAreVectors DEF ByMeaning!Descends, ByDepth!Descends

LEMMA ReadVectorIs ==
  ASSUME NEW x \in Reads
  PROVE  ReadVector[x] = Read(x, [y \in ChildReads(x) |-> ReadVector[y]])
<1>1. PICK f : ByReads!Recurs(f)
  BY ReadsDescend, ByReads!RecursionExists
<1>2. f = [z \in Reads |-> Read(z, [y \in ChildReads(z) |-> f[y]])]
  BY <1>1 DEF ByReads!Recurs, ByReads!OfParts
<1>3. ReadVector = [z \in Reads |-> Read(z, [y \in ChildReads(z) |-> ReadVector[y]])]
  BY <1>2 DEF ReadVector
<1> HIDE DEF ReadVector
<1> QED
  BY <1>3

LEMMA MeansIs ==
  ASSUME NEW v \in Vectors
  PROVE  Means[v] = Meanings(v, [c \in Children(v) |-> Means[c]])
<1>1. PICK f : ByMeaning!Recurs(f)
  BY VectorsDescend, ByMeaning!RecursionExists
<1>2. f = [w \in Vectors |-> Meanings(w, [c \in Children(w) |-> f[c]])]
  BY <1>1 DEF ByMeaning!Recurs, ByMeaning!OfParts
<1>3. Means = [w \in Vectors |-> Meanings(w, [c \in Children(w) |-> Means[c]])]
  BY <1>2 DEF Means
<1> QED
  BY <1>3

LEMMA WithinIs ==
  ASSUME NEW v \in Vectors
  PROVE  Within[v] = Down(v, [c \in Children(v) |-> Within[c]])
<1>1. PICK f : ByDepth!Recurs(f)
  BY VectorsDescend, ByDepth!RecursionExists
<1>2. f = [w \in Vectors |-> Down(w, [c \in Children(w) |-> f[c]])]
  BY <1>1 DEF ByDepth!Recurs, ByDepth!OfParts
<1>3. Within = [w \in Vectors |-> Down(w, [c \in Children(w) |-> Within[c]])]
  BY <1>2 DEF Within
<1> QED
  BY <1>3

(* What holds below a vector holds of it, and below its children.          *)
LEMMA WithinFacts ==
  ASSUME NEW v \in Vectors
  PROVE  v \in Within[v] /\ \A c \in Children(v) : Within[c] \subseteq Within[v]
<1> DEFINE below == [c \in Children(v) |-> Within[c]]
<1>1. Within[v] = {v} \cup UNION {below[c] : c \in Children(v)}
  BY WithinIs DEF Down
<1>2. \A c \in Children(v) : below[c] = Within[c]
  OBVIOUS
<1> HIDE DEF below
<1>3. \A c \in Children(v) : below[c] \subseteq Within[v]
  BY <1>1
<1> QED
  BY <1>1, <1>2, <1>3

LEMMA NormalBelow ==
  ASSUME NEW v \in Vectors, Normal(v)
  PROVE  NormalFloats(v) /\ \A c \in Children(v) : Normal(c)
<1>1. \A w \in Within[v] : NormalFloats(w)
  BY DEF Normal
<1>2. v \in Within[v] /\ \A c \in Children(v) : \A w \in Within[c] : w \in Within[v]
  BY WithinFacts
<1>3. ASSUME NEW c \in Children(v) PROVE Normal(c)
  BY <1>1, <1>2 DEF Normal
<1> QED
  BY <1>1, <1>2, <1>3

LEMMA ReadableBelow ==
  ASSUME NEW v \in Vectors, Readable(v)
  PROVE  DatesRead(v) /\ \A c \in Children(v) : Readable(c)
<1>1. \A w \in Within[v] : DatesRead(w)
  BY DEF Readable
<1>2. v \in Within[v] /\ \A c \in Children(v) : \A w \in Within[c] : w \in Within[v]
  BY WithinFacts
<1>3. ASSUME NEW c \in Children(v) PROVE Readable(c)
  BY <1>1, <1>2 DEF Readable
<1> QED
  BY <1>1, <1>2, <1>3
-------------------------------------------------------------------------------
\* Every kind of column

(* A column with a value for every row, and in the valid rows with what    *)
(* they mean.                                                              *)
Shaped(col, n) == col.raised = FALSE /\ DOMAIN col.rows = 1 .. n

Agrees(v, col, meant) ==
  \A i \in 1 .. v.rows : Valid(v, i) => col.rows[i] = Meaning(v, i, meant)

(* What is to be shown of a vector, from the same of its children: it is   *)
(* read, and as what it means, or some slot of dates is of no date.        *)
Got(v) == ReadVector[<<v, v.rows>>]

Right(v) ==
  \/ Got(v) = Error /\ ~Readable(v)
  \/ Shaped(Got(v), v.rows) /\ (Normal(v) => Got(v) = Col(Means[v]))

Calm(v) == Got(v).raised = FALSE

MeantBelow(v) == [c \in Children(v) |-> Means[c]]
ReadBelow(v)  == [y \in ChildReads(<<v, v.rows>>) |-> ReadVector[y]]

LEMMA CalmRight ==
  ASSUME NEW v, Right(v), Calm(v)
  PROVE  Shaped(Got(v), v.rows) /\ (Normal(v) => Got(v) = Col(Means[v]))
<1>1. Got(v) # Error
  BY DEF Calm, Error
<1> QED
  BY <1>1 DEF Right

LEMMA NotCalm ==
  ASSUME NEW v, Right(v), ~Calm(v)
  PROVE  Got(v) = Error /\ ~Readable(v)
  BY DEF Right, Calm, Shaped

LEMMA FlatDecoded ==
  ASSUME NEW v \in Vectors, v.kind \in {"plain", "text"}, NEW children, NEW meant
  PROVE  LET col == Decoded(v, v.rows, RowMask(v, v.rows), children)
         IN  Shaped(col, v.rows) /\ Agrees(v, col, meant)
<1> DEFINE n == v.rows
           mask == RowMask(v, n)
           col == Decoded(v, n, mask, children)
<1>1. \A i \in 1 .. n : Valid(v, i) => mask[i] # 0
  BY MaskIsValid
<1> HIDE DEF mask
<1>2. CASE v.kind = "plain"
  BY <1>2 DEF Decoded, Col, Plain, Shaped, Agrees, Meaning
<1>3. CASE v.kind = "text"
  <2> DEFINE texts == Texts(v, n, mask)
             Text(i) == Characters(IF v.data[i].len <= INLINE
                                     THEN SubSeq(v.data[i].bytes, 1, v.data[i].len)
                                     ELSE v.data[i].at)
  <2>1. col = Col(texts) /\ DOMAIN texts = 1 .. n
    BY <1>3 DEF Decoded, Texts
  <2>2. ASSUME NEW i \in 1 .. n, Valid(v, i) PROVE texts[i] = Text(i)
    BY <1>1, <2>2 DEF Texts
  <2>3. ASSUME NEW i \in 1 .. n, Valid(v, i) PROVE Meaning(v, i, meant) = Text(i)
    BY <1>3, <2>3 DEF Meaning
  <2> HIDE DEF texts, Text, col
  <2> QED
    BY <2>1, <2>2, <2>3 DEF Col, Shaped, Agrees, col, mask
<1> QED
  BY <1>2, <1>3 DEF mask

(* The dates of all rows, or an error because of one that is of no date.   *)
LEMMA DatesDecoded ==
  ASSUME NEW v \in Vectors, v.kind = "date", NEW children, NEW meant
  PROVE  LET col == Decoded(v, v.rows, RowMask(v, v.rows), children)
         IN  \/ col = Error /\ ~Readable(v)
             \/ Shaped(col, v.rows) /\ Agrees(v, col, meant)
<1> DEFINE n == v.rows
           col == Decoded(v, n, RowMask(v, n), children)
<1>1. col = DatesOf(v, n)
  BY DEF Decoded
<1> HIDE DEF col
<1>2. CASE DatesRead(v)
  <2>1. col = Col([i \in 1 .. n |-> fromDate(v.data[i])])
    BY <1>1, <1>2 DEF DatesRead, DatesOf
  <2> QED
    BY <2>1 DEF Col, Shaped, Agrees, Meaning, col
<1>3. CASE ~DatesRead(v)
  BY <1>1, <1>3, ReadableBelow DEF DatesRead, DatesOf, col
<1> QED
  BY <1>2, <1>3

LEMMA FloatDecoded ==
  ASSUME NEW v \in Vectors, v.kind = "float", NEW children, NEW meant
  PROVE  LET col == Decoded(v, v.rows, RowMask(v, v.rows), children)
         IN  Shaped(col, v.rows) /\ (NormalFloats(v) => Agrees(v, col, meant))
<1> DEFINE n == v.rows
           mask == RowMask(v, n)
           col == Decoded(v, n, mask, children)
<1>1. \A i \in 1 .. n : Valid(v, i) => mask[i] # 0
  BY MaskIsValid
<1> HIDE DEF mask
<1>2. col = Col(Floats(v, n, mask))
  BY DEF Decoded
<1>3. Shaped(col, n)
  BY <1>2 DEF Col, Floats, Shaped
<1>4. ASSUME NormalFloats(v), NEW i \in 1 .. n, Valid(v, i)
      PROVE  col.rows[i] = Held(v, IEEE(v.data[i]))
  <2>1. CASE v.valid = NoMask
    BY <1>2, <2>1 DEF Col, Floats
  <2>2. CASE v.valid # NoMask
    <3>1. v.data[i].exp # 0
      BY <1>4, <2>2 DEF NormalFloats
    <3>2. col.rows[i] =
            Held(v, Sign(v.data[i]) * ((2^FRACTION + v.data[i].frac) * 2^v.data[i].exp))
      BY <1>1, <1>2, <1>4, <2>2 DEF Col, Floats
    <3> QED
      BY <3>1, <3>2 DEF IEEE
  <2> QED
    BY <2>1, <2>2
<1> HIDE DEF col
<1>5. NormalFloats(v) => Agrees(v, col, meant)
  BY <1>4 DEF Agrees, Meaning
<1> QED
  BY <1>3, <1>5 DEF col, mask

(* The elements that a slot of a list or a map tells of.                   *)
Told(slot, rows) == [k \in 1 .. slot.len |-> rows[slot.at + k]]

LEMMA ListsRead ==
  ASSUME NEW v \in Vectors, v.kind \in {"list", "map"}, NEW child, child.raised = FALSE
  PROVE  LET col == Lists(v, v.rows, RowMask(v, v.rows), child)
         IN  /\ Shaped(col, v.rows)
             /\ \A i \in 1 .. v.rows : Valid(v, i) => col.rows[i] = Told(v.data[i], child.rows)
<1> DEFINE n == v.rows
           mask == RowMask(v, n)
           entries == Entries(v, n, mask)
           col == Lists(v, n, mask, child)
<1>1. \A i \in 1 .. n : mask[i] = 0 <=> ~Valid(v, i)
  BY MaskIsValid
<1>2. ElementsInChild(v)
  BY VectorsAssumption DEF WellFormed
<1>21. v.child.rows \in Nat
  BY ChildrenAreVectors DEF Children
<1> HIDE DEF mask
<1>3. ASSUME NEW i \in 1 .. n
      PROVE  entries[i] = IF Valid(v, i) THEN v.data[i] ELSE [at |-> 0, len |-> 0]
  BY <1>1 DEF Entries
<1> HIDE DEF entries
<1>4. ASSUME NEW i \in 1 .. n
      PROVE  ~(entries[i].len > 0 /\ entries[i].at + entries[i].len > v.child.rows)
  <2>1. CASE Valid(v, i)
    <3>1. /\ v.data[i].at \in Nat /\ v.data[i].len \in Nat
          /\ v.data[i].at + v.data[i].len <= v.child.rows
      BY <1>2, <2>1 DEF ElementsInChild
    <3> QED
      BY <1>21, <1>3, <2>1, <3>1
  <2>2. CASE ~Valid(v, i)
    BY <1>3, <2>2
  <2> QED
    BY <2>1, <2>2
<1>5. col = Col([i \in 1 .. n |-> [k \in 1 .. entries[i].len |-> child.rows[entries[i].at + k]]])
  BY <1>4 DEF Lists, entries
<1> HIDE DEF col
<1>6. Shaped(col, n)
  BY <1>5 DEF Col, Shaped
<1>7. ASSUME NEW i \in 1 .. n, Valid(v, i) PROVE col.rows[i] = Told(v.data[i], child.rows)
  <2>1. col.rows[i] = Told(entries[i], child.rows)
    BY <1>5 DEF Col, Told
  <2> QED
    BY <1>3, <1>7, <2>1
<1> QED
  BY <1>6, <1>7 DEF col, mask

LEMMA ListDecoded ==
  ASSUME NEW v \in Vectors, v.kind \in {"list", "map"}, Right(v.child), Calm(v.child)
  PROVE  LET col == Decoded(v, v.rows, RowMask(v, v.rows), ReadBelow(v))
         IN  /\ Shaped(col, v.rows)
             /\ Normal(v.child) => Agrees(v, col, MeantBelow(v))
<1> DEFINE n == v.rows
           mask == RowMask(v, n)
           child == ReadVector[<<v.child, v.child.rows>>]
           lists == Lists(v, n, mask, child)
           col == Decoded(v, n, mask, ReadBelow(v))
           meant == MeantBelow(v)
<1>1. ReadBelow(v)[<<v.child, v.child.rows>>] = child
  BY DEF ReadBelow, ChildReads
<1>2. child.raised = FALSE
  BY DEF Calm, Got
<1>3. /\ Shaped(lists, n)
      /\ \A i \in 1 .. n : Valid(v, i) => lists.rows[i] = Told(v.data[i], child.rows)
  BY <1>2, ListsRead
<1>4. meant[v.child] = Means[v.child]
  BY DEF MeantBelow, Children
<1>5. ASSUME Normal(v.child) PROVE child.rows = Means[v.child]
  <2>1. Got(v.child) = Col(Means[v.child])
    BY <1>5, CalmRight
  <2> QED
    BY <2>1 DEF Got, Col
<1> HIDE DEF mask, child, lists, meant
<1>6. ASSUME Normal(v.child), NEW i \in 1 .. n, Valid(v, i)
      PROVE  lists.rows[i] = [k \in 1 .. v.data[i].len |-> meant[v.child][v.data[i].at + k]]
  BY <1>3, <1>4, <1>5, <1>6 DEF Told
<1>7. CASE v.kind = "list"
  <2>1. col = lists
    BY <1>1, <1>7 DEF Decoded, lists
  <2> HIDE DEF col
  <2>2. ASSUME Normal(v.child), NEW i \in 1 .. n, Valid(v, i)
        PROVE  col.rows[i] = Meaning(v, i, meant)
    BY <1>6, <1>7, <2>1, <2>2 DEF Meaning
  <2> QED
    BY <1>3, <2>1, <2>2 DEF Agrees, col, mask, meant
<1>8. CASE v.kind = "map"
  <2>1. col = Col([i \in 1 .. n |-> [keys   |-> Side(lists.rows[i], "key"),
                                     values |-> Side(lists.rows[i], "value")]])
    BY <1>1, <1>3, <1>8 DEF Decoded, Maps, lists, Shaped
  <2> HIDE DEF col
  <2>2. ASSUME Normal(v.child), NEW i \in 1 .. n, Valid(v, i)
        PROVE  col.rows[i] = Meaning(v, i, meant)
    <3> DEFINE told == [k \in 1 .. v.data[i].len |-> meant[v.child][v.data[i].at + k]]
    <3>1. lists.rows[i] = told
      BY <1>6, <2>2
    <3>2. col.rows[i] = [keys |-> Side(told, "key"), values |-> Side(told, "value")]
      BY <2>1, <3>1 DEF Col
    <3>3. Meaning(v, i, meant) = [keys |-> Side(told, "key"), values |-> Side(told, "value")]
      BY <1>8, <2>2 DEF Meaning
    <3> QED
      BY <3>2, <3>3
  <2>3. Shaped(col, n)
    BY <2>1 DEF Shaped, Col
  <2> QED
    BY <2>2, <2>3 DEF Agrees, col, mask, meant
<1> QED
  BY <1>7, <1>8

LEMMA ArrayDecoded ==
  ASSUME NEW v \in Vectors, v.kind = "array", Right(v.child), Calm(v.child)
  PROVE  LET col == Decoded(v, v.rows, RowMask(v, v.rows), ReadBelow(v))
         IN  /\ Shaped(col, v.rows)
             /\ Normal(v.child) => Agrees(v, col, MeantBelow(v))
<1> DEFINE n == v.rows
           mask == RowMask(v, n)
           child == ReadVector[<<v.child, v.child.rows>>]
           col == Decoded(v, n, mask, ReadBelow(v))
           meant == MeantBelow(v)
<1>1. v.child.rows = n * v.size
  BY VectorsAssumption DEF WellFormed
<1>2. ReadBelow(v)[<<v.child, n * v.size>>] = child
  BY <1>1 DEF ReadBelow, ChildReads
<1>3. child.raised = FALSE
  BY DEF Calm, Got
<1>4. meant[v.child] = Means[v.child]
  BY DEF MeantBelow, Children
<1>5. ASSUME Normal(v.child) PROVE child.rows = Means[v.child]
  <2>1. Got(v.child) = Col(Means[v.child])
    BY <1>5, CalmRight
  <2> QED
    BY <2>1 DEF Got, Col
<1> HIDE DEF mask, child, meant
<1>6. col = Col([i \in 1 .. n |-> [k \in 1 .. v.size |-> child.rows[(i - 1) * v.size + k]]])
  BY <1>2, <1>3 DEF Decoded, Arrays
<1> HIDE DEF col
<1>7. Shaped(col, n)
  BY <1>6 DEF Shaped, Col
<1>8. ASSUME Normal(v.child), NEW i \in 1 .. n, Valid(v, i)
      PROVE  col.rows[i] = Meaning(v, i, meant)
  <2>1. col.rows[i] = [k \in 1 .. v.size |-> meant[v.child][(i - 1) * v.size + k]]
    BY <1>4, <1>5, <1>6, <1>8 DEF Col
  <2>2. Meaning(v, i, meant) = [k \in 1 .. v.size |-> meant[v.child][(i - 1) * v.size + k]]
    BY <1>8 DEF Meaning
  <2> QED
    BY <2>1, <2>2
<1> QED
  BY <1>7, <1>8 DEF Agrees, col, mask, meant

LEMMA StructDecoded ==
  ASSUME NEW v \in Vectors, v.kind = "struct",
         \A c \in Children(v) : Right(c) /\ Calm(c)
  PROVE  LET col == Decoded(v, v.rows, RowMask(v, v.rows), ReadBelow(v))
         IN  /\ Shaped(col, v.rows)
             /\ (\A c \in Children(v) : Normal(c)) => Agrees(v, col, MeantBelow(v))
<1> DEFINE n == v.rows
           mask == RowMask(v, n)
           cols == [name \in DOMAIN v.fields |-> ReadBelow(v)[<<v.fields[name], n>>]]
           col == Decoded(v, n, mask, ReadBelow(v))
           meant == MeantBelow(v)
<1>1. \A name \in DOMAIN v.fields : v.fields[name] \in Children(v) /\ v.fields[name].rows = n
  BY VectorsAssumption DEF WellFormed, Children
<1>2. ASSUME NEW name \in DOMAIN v.fields
      PROVE  /\ cols[name] = ReadVector[<<v.fields[name], v.fields[name].rows>>]
             /\ meant[v.fields[name]] = Means[v.fields[name]]
  BY <1>1 DEF ReadBelow, ChildReads, MeantBelow
<1>3. ASSUME NEW name \in DOMAIN v.fields
      PROVE  /\ cols[name].raised = FALSE
             /\ Normal(v.fields[name]) => cols[name].rows = Means[v.fields[name]]
  <2> DEFINE child == v.fields[name]
             got == ReadVector[<<child, child.rows>>]
  <2>1. Right(child) /\ Calm(child)
    BY <1>1
  <2> HIDE DEF child
  <2>2. Shaped(Got(child), child.rows) /\ (Normal(child) => Got(child) = Col(Means[child]))
    BY <2>1, CalmRight
  <2>3. got.raised = FALSE /\ (Normal(child) => got.rows = Means[child])
    BY <2>2 DEF Got, Shaped, Col
  <2> QED
    BY <1>2, <2>3 DEF child
<1>4. DOMAIN cols = DOMAIN v.fields
  OBVIOUS
<1>5. col = Structs(n, cols)
  BY DEF Decoded
<1> HIDE DEF cols, mask, meant, col
<1>6. col = Col([i \in 1 .. n |-> [name \in DOMAIN v.fields |-> cols[name].rows[i]]])
  BY <1>3, <1>4, <1>5 DEF Structs
<1>7. Shaped(col, n)
  BY <1>6 DEF Shaped, Col
<1>8. ASSUME \A c \in Children(v) : Normal(c), NEW i \in 1 .. n, Valid(v, i)
      PROVE  col.rows[i] = Meaning(v, i, meant)
  <2>1. \A name \in DOMAIN v.fields : cols[name].rows = meant[v.fields[name]]
    BY <1>1, <1>2, <1>3, <1>8
  <2>2. col.rows[i] = [name \in DOMAIN v.fields |-> meant[v.fields[name]][i]]
    BY <1>6, <2>1 DEF Col
  <2>3. Meaning(v, i, meant) = [name \in DOMAIN v.fields |-> meant[v.fields[name]][i]]
    BY <1>8 DEF Meaning
  <2> QED
    BY <2>2, <2>3
<1> QED
  BY <1>7, <1>8 DEF Agrees, col, mask, meant

(* A child that is not read keeps its parent from being read.              *)
LEMMA ChildRaises ==
  ASSUME NEW v \in Vectors, \A c \in Children(v) : Right(c),
         NEW c \in Children(v), ~Calm(c)
  PROVE  /\ Decoded(v, v.rows, RowMask(v, v.rows), ReadBelow(v)) = Error
         /\ ~Readable(v)
<1> DEFINE n == v.rows
           mask == RowMask(v, n)
           col == Decoded(v, n, mask, ReadBelow(v))
<1>1. Got(c) = Error /\ ~Readable(c)
  BY NotCalm
<1>2. Got(c).raised
  BY <1>1 DEF Error
<1>3. ~Readable(v)
  BY <1>1, ReadableBelow
<1>4. v.kind \in {"list", "map", "array", "struct"}
  BY DEF Children
<1> HIDE DEF mask
<1>5. CASE v.kind \in {"list", "map"}
  <2>1. c = v.child
    BY <1>5 DEF Children
  <2>2. ReadBelow(v)[<<v.child, v.child.rows>>] = Got(c)
    BY <1>5, <2>1 DEF ReadBelow, ChildReads, Got
  <2>3. Lists(v, n, mask, Got(c)) = Error
    BY <1>2 DEF Lists
  <2>4. Maps(v, n, mask, Got(c)) = Error
    BY <2>3 DEF Maps, Error
  <2>5. col = Error
    BY <1>5, <2>2, <2>3, <2>4 DEF Decoded
  <2> QED
    BY <1>3, <2>5 DEF mask
<1>6. CASE v.kind = "array"
  <2>1. c = v.child /\ v.child.rows = n * v.size
    BY <1>6, VectorsAssumption DEF Children, WellFormed
  <2>2. ReadBelow(v)[<<v.child, n * v.size>>] = Got(c)
    BY <1>6, <2>1 DEF ReadBelow, ChildReads, Got
  <2>3. col = Error
    BY <1>2, <1>6, <2>2 DEF Decoded, Arrays
  <2> QED
    BY <1>3, <2>3 DEF mask
<1>7. CASE v.kind = "struct"
  <2> DEFINE cols == [name \in DOMAIN v.fields |-> ReadBelow(v)[<<v.fields[name], n>>]]
  <2>1. PICK name \in DOMAIN v.fields : c = v.fields[name]
    BY <1>7 DEF Children
  <2>2. c.rows = n
    BY <1>7, VectorsAssumption DEF WellFormed
  <2>3. cols[name] = Got(c)
    BY <1>7, <2>1, <2>2 DEF ReadBelow, ChildReads, Got
  <2>4. col = Structs(n, cols)
    BY <1>7 DEF Decoded
  <2>5. name \in DOMAIN cols
    OBVIOUS
  <2> HIDE DEF cols
  <2>6. col = Error
    BY <1>2, <2>3, <2>4, <2>5 DEF Structs
  <2> QED
    BY <1>3, <2>6 DEF mask
<1> QED
  BY <1>4, <1>5, <1>6, <1>7

LEMMA VectorDecoded ==
  ASSUME NEW v \in Vectors, \A c \in Children(v) : Right(c)
  PROVE  LET col == Decoded(v, v.rows, RowMask(v, v.rows), ReadBelow(v))
         IN  \/ col = Error /\ ~Readable(v)
             \/ Shaped(col, v.rows) /\ (Normal(v) => Agrees(v, col, MeantBelow(v)))
<1>0. CASE \E c \in Children(v) : ~Calm(c)
  BY <1>0, ChildRaises
<1> SUFFICES ASSUME \A c \in Children(v) : Calm(c)
             PROVE  LET col == Decoded(v, v.rows, RowMask(v, v.rows), ReadBelow(v))
                    IN  \/ col = Error /\ ~Readable(v)
                        \/ /\ Shaped(col, v.rows)
                           /\ Normal(v) => Agrees(v, col, MeantBelow(v))
  BY <1>0
<1>1. v.kind \in {"plain", "date", "text", "float", "list", "struct", "map", "array"}
  BY VectorsAssumption DEF WellFormed
<1>2. Normal(v) => NormalFloats(v) /\ \A c \in Children(v) : Normal(c)
  BY NormalBelow
<1>3. v.kind \in {"list", "map", "array"} => v.child \in Children(v)
  BY DEF Children
<1>4. CASE v.kind \in {"plain", "text"}
  BY <1>4, FlatDecoded
<1>5. CASE v.kind = "float"
  BY <1>2, <1>5, FloatDecoded
<1>6. CASE v.kind \in {"list", "map"}
  BY <1>2, <1>3, <1>6, ListDecoded
<1>7. CASE v.kind = "array"
  BY <1>2, <1>3, <1>7, ArrayDecoded
<1>8. CASE v.kind = "struct"
  BY <1>2, <1>8, StructDecoded
<1>9. CASE v.kind = "date"
  BY <1>9, DatesDecoded
<1> QED
  BY <1>1, <1>4, <1>5, <1>6, <1>7, <1>8, <1>9

(* The NULLs are put in last, and they are where the mask says.            *)
LEMMA VectorRight ==
  ASSUME NEW v \in Vectors, \A c \in Children(v) : Right(c)
  PROVE  Right(v)
<1> DEFINE n == v.rows
           x == <<v, n>>
           mask == RowMask(v, n)
           col == Decoded(v, n, mask, ReadBelow(v))
           got == ReadVector[x]
           meant == MeantBelow(v)
<1>1. n \in Nat /\ x \in Reads /\ x[1] = v /\ x[2] = n
  BY VectorsAssumption DEF WellFormed, Reads
<1>2. \/ col = Error /\ ~Readable(v)
      \/ Shaped(col, n) /\ (Normal(v) => Agrees(v, col, meant))
  BY VectorDecoded
<1>3. got = Read(x, ReadBelow(v))
  BY <1>1, ReadVectorIs DEF ReadBelow
<1>4. \A i \in 1 .. n : mask[i] = 0 <=> ~Valid(v, i)
  BY MaskIsValid
<1>5. Means[v] = [i \in 1 .. n |-> Meaning(v, i, meant)]
  BY MeansIs DEF Meanings, MeantBelow
<1>6. got = IF \A i \in 1 .. n : mask[i] = 0 THEN Col([i \in 1 .. n |-> NULL])
            ELSE IF col.raised THEN Error
            ELSE Col([i \in 1 .. n |-> IF mask[i] = 0 THEN NULL ELSE col.rows[i]])
  BY <1>3 DEF Read
<1>7. Got(v) = got
  BY DEF Got
<1> HIDE DEF mask, col, got, meant, x
<1>8. \A i \in 1 .. n : ~Valid(v, i) => Meaning(v, i, meant) = NULL
  BY DEF Meaning
<1>9. CASE \A i \in 1 .. n : mask[i] = 0
  <2>1. \A i \in 1 .. n : Meaning(v, i, meant) = NULL
    BY <1>4, <1>8, <1>9
  <2>2. Means[v] = [i \in 1 .. n |-> NULL]
    BY <1>5, <2>1
  <2>3. got = Col(Means[v]) /\ Shaped(got, n)
    BY <1>6, <1>9, <2>2 DEF Shaped, Col
  <2> QED
    BY <1>7, <2>3 DEF Right
<1>10. CASE ~(\A i \in 1 .. n : mask[i] = 0) /\ col = Error /\ ~Readable(v)
  <2>1. got = Error
    BY <1>6, <1>10 DEF Error
  <2> QED
    BY <1>7, <1>10, <2>1 DEF Right
<1>11. CASE /\ ~(\A i \in 1 .. n : mask[i] = 0)
            /\ Shaped(col, n) /\ (Normal(v) => Agrees(v, col, meant))
  <2>1. got = Col([i \in 1 .. n |-> IF mask[i] = 0 THEN NULL ELSE col.rows[i]])
    BY <1>6, <1>11 DEF Shaped
  <2>2. Shaped(got, n)
    BY <2>1 DEF Shaped, Col
  <2>3. ASSUME Normal(v) PROVE got = Col(Means[v])
    <3>1. \A i \in 1 .. n : (IF mask[i] = 0 THEN NULL ELSE col.rows[i]) = Meaning(v, i, meant)
      BY <1>4, <1>8, <1>11, <2>3 DEF Agrees
    <3>2. Means[v] = [i \in 1 .. n |-> IF mask[i] = 0 THEN NULL ELSE col.rows[i]]
      BY <1>5, <3>1
    <3> QED
      BY <2>1, <3>2
  <2> QED
    BY <1>7, <2>2, <2>3 DEF Right
<1> QED
  BY <1>2, <1>9, <1>10, <1>11

LEMMA AllRight == \A v \in Vectors : Right(v)
<1> DEFINE S == {v \in Vectors : Right(v)}
<1>1. ByMeaning!Inherited(S)
  BY VectorRight DEF ByMeaning!Inherited
<1> HIDE DEF S
<1>2. \A v \in Vectors : v \in S
  BY <1>1, VectorsDescend, ByMeaning!DeepInduction
<1> QED
  BY <1>2 DEF S
-------------------------------------------------------------------------------
\* The invariants

(* A reply is the value of the operator that was asked for.                *)
Answered ==
  /\ asked.op \in {"none", "toTime", "fromTime", "toDate", "fromDate", "readVector"}
  /\ asked.op = "none" => reply = 0
  /\ asked.op = "toTime" => asked.arg \in Times /\ reply = toTime(asked.arg)
  /\ asked.op = "fromTime" => asked.arg \in Ticks /\ reply = fromTime(asked.arg)
  /\ asked.op = "toDate" => reply = toDate(asked.arg)
  /\ asked.op = "fromDate" => asked.arg \in Days /\ reply = fromDate(asked.arg)
  /\ asked.op = "readVector" =>
       asked.arg \in Vectors /\ reply = ReadVector[<<asked.arg, asked.arg.rows>>]

LEMMA Answering == ReadSpec => []Answered
<1>1. Init => Answered
  BY DEF Init, Answered
<1>2. ASSUME Answered, [ReadNext]_vars PROVE Answered'
  <2>1. CASE ToTime
    BY <2>1 DEF ToTime, Ask, Answered
  <2>2. CASE FromTime
    BY <2>2 DEF FromTime, Ask, Answered
  <2>3. CASE ToDate
    BY <2>3 DEF ToDate, Ask, Answered
  <2>4. CASE FromDate
    BY <2>4 DEF FromDate, Ask, Answered
  <2>5. CASE ReadColumn
    BY <2>5 DEF ReadColumn, Ask, Answered
  <2>6. CASE UNCHANGED vars
    BY <1>2, <2>6 DEF vars, Answered
  <2> QED
    BY <1>2, <2>1, <2>2, <2>3, <2>4, <2>5, <2>6 DEF ReadNext, Next
<1> QED
  BY <1>1, <1>2, PTL DEF ReadSpec

(* In every reachable state: no time of day handed to toTime is refused or *)
(* changed, whatever the number of microseconds to the second.             *)
THEOREM TimesAreKept == ReadSpec => []TimeKept
<1>1. Answered => TimeKept
  BY ToFrom DEF Answered, TimeKept
<1> QED
  BY <1>1, Answering, PTL

(* In every reachable state: every number of a day handed to fromTime is   *)
(* answered with a time of day that toTime turns into that number.         *)
THEOREM TicksAreKept == ReadSpec => []TicksKept
<1>1. Answered => TicksKept
  BY FromTo DEF Answered, TicksKept
<1> QED
  BY <1>1, Answering, PTL

(* Of two times of day handed over one after the other, the later one has  *)
(* the larger number in every execution, whatever MICROS is.               *)
THEOREM TimesAreInOrder == ReadSpec => TimesInOrder
<1> DEFINE Ordered == (/\ asked.op = "toTime" /\ asked'.op = "toTime"
                       /\ asked.arg \in TimeOfDay /\ asked'.arg \in TimeOfDay
                       /\ Earlier(asked.arg, asked'.arg))
                      => reply < reply'
<1>1. Answered /\ Answered' => Ordered
  BY InOrder DEF Answered
<1>2. Answered /\ Answered' => [Ordered]_vars
  BY <1>1
<1> QED
  BY <1>2, Answering, PTL DEF TimesInOrder

(* In every reachable state: the number that a date was turned into is the *)
(* number of days between it and 1970-01-01, and turns into it again,      *)
(* whatever years the calendar is written out for.                         *)
THEOREM DatesAreCounted == ReadSpec => []DateCounted
<1>1. Answered => DateCounted
  BY Counted, FromToDate DEF Answered, DateCounted
<1> QED
  BY <1>1, Answering, PTL

(* In every reachable state: a vector that is read is read as what its     *)
(* rows mean, and as NULL exactly where its mask says so, whatever the     *)
(* masks, the rubbish in the slots of NULL rows and the nesting            *)
(* (readVector.aplf:1-191).                                                *)
THEOREM ValuesAreRead == ReadSpec => []ReadsValues
<1>1. Answered => ReadsValues
  BY AllRight DEF Answered, ReadsValues, Right, Got, Error
<1> QED
  BY <1>1, Answering, PTL

LEMMA ToTimeNumber == ASSUME NEW v \in Times PROVE toTime(v) \in Int
<1>1. v \in Seq(Int) /\ MICROS \in Int
  BY ArgumentsAssumption, MicrosAssumption
<1>2. CASE Len(v) # 4 \/ TimeRefused(v[1], v[2], v[3], v[4])
  BY <1>2 DEF toTime
<1>3. CASE ~(Len(v) # 4 \/ TimeRefused(v[1], v[2], v[3], v[4]))
  <2>1. v[1] \in Int /\ v[2] \in Int /\ v[3] \in Int /\ v[4] \in Int
    BY <1>1, <1>3
  <2> DEFINE k == v[1] * 3600 + v[2] * 60 + v[3]
  <2>2. k \in Int
    BY <2>1
  <2>3. toTime(v) = k * MICROS + v[4]
    BY <1>3 DEF toTime
  <2> HIDE DEF k
  <2>4. k * MICROS \in Int
    BY <1>1, <2>2
  <2> QED
    BY <2>1, <2>3, <2>4
<1> QED
  BY <1>2, <1>3

LEMMA FromTimeNumbers ==
  ASSUME NEW n \in Ticks
  PROVE  Len(fromTime(n)) = 4 /\ \A i \in 1 .. 4 : fromTime(n)[i] \in Nat
<1>0. n \in Int
  BY ArgumentsAssumption
<1>1. CASE n < 0
  BY <1>1 DEF fromTime
<1>2. CASE n >= 0
  <2> DEFINE hour == Quot(n, Hour)
             rest == Left(n, Hour)
             min  == Quot(rest, Minute)
             rem  == Left(rest, Minute)
             sec  == Quot(rem, MICROS)
             u    == Left(rem, MICROS)
  <2>0. n \in Nat
    BY <1>0, <1>2
  <2>1. ASSUME NEW m \in Nat, NEW b \in Nat \ {0} PROVE Quot(m, b) \in Nat /\ Left(m, b) \in Nat
    BY SMTT(30) DEF Quot, Left
  <2>2. Hour \in Nat \ {0} /\ Minute \in Nat \ {0} /\ MICROS \in Nat \ {0}
    BY UnitFacts, MicrosAssumption DEF Hour, Minute
  <2>3. hour \in Nat /\ rest \in Nat
    BY <2>0, <2>1, <2>2
  <2>4. min \in Nat /\ rem \in Nat
    BY <2>1, <2>2, <2>3
  <2>5. sec \in Nat /\ u \in Nat
    BY <2>1, <2>2, <2>4
  <2>6. fromTime(n) = <<hour, min, sec, u>>
    BY <2>0, <1>2 DEF fromTime, Quot, Left, Hour, Minute
  <2> HIDE DEF hour, rest, min, rem, sec, u
  <2> QED
    BY <2>3, <2>4, <2>5, <2>6
<1> QED
  BY <1>0, <1>1, <1>2

LEMMA ToDateNumber == ASSUME NEW v PROVE toDate(v) \in Int \cup {Raised}
<1>1. CASE IsDate(v)
  <2>1. DT(v) \in Int /\ Base \in Int
    BY <1>1, EpochIsDate, DatesInOrder DEF Base
  <2> QED
    BY <1>1, <2>1, ToDateIs
<1>2. CASE ~IsDate(v)
  BY <1>2 DEF toDate
<1> QED
  BY <1>1, <1>2

LEMMA FromDateDate == ASSUME NEW n \in Days PROVE IsDate(fromDate(n))
<1>1. \E v \in Calendar : IsDate(v) /\ DT(v) = Base + n
  BY ArgumentsAssumption DEF Base
<1> QED
  BY <1>1 DEF fromDate, UnDT

(* In every reachable state: a read has a value for every row, unless it   *)
(* raised an error for a slot of dates that is of none, and the other      *)
(* calls answer in the shape of their question.                            *)
THEOREM AnswersAreShaped == ReadSpec => []AnswerShaped
<1>1. Answered => AnswerShaped
  <2> SUFFICES ASSUME Answered PROVE AnswerShaped
    OBVIOUS
  <2>1. CASE asked.op = "readVector"
    BY <2>1, AllRight DEF Answered, AnswerShaped, Right, Got, Error, Shaped
  <2>2. CASE asked.op = "fromTime"
    BY <2>2, FromTimeNumbers DEF Answered, AnswerShaped, TypeOK
  <2>3. CASE asked.op = "fromDate"
    BY <2>3, FromDateDate DEF Answered, AnswerShaped, TypeOK
  <2>4. CASE asked.op = "toDate"
    BY <2>4, ToDateNumber DEF Answered, AnswerShaped, TypeOK
  <2>5. CASE asked.op \in {"none", "toTime"}
    BY <2>5, ToTimeNumber DEF Answered, AnswerShaped, TypeOK
  <2> QED
    BY <2>1, <2>2, <2>3, <2>4, <2>5 DEF Answered
<1> QED
  BY <1>1, Answering, PTL
===============================================================================
