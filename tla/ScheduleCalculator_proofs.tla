------------------------ MODULE ScheduleCalculator_proofs ------------------------
(***************************************************************************)
(* Proofs about ScheduleCalculator, for minutes, hours, days, weeks,       *)
(* months and years of any length and clocks that change at any minutes.   *)
(***************************************************************************)
EXTENDS ScheduleCalculator, Counting

--------------------------------------------------------------------------------
(* Whole numbers *)

(* Division leaves a rest that is less than the divisor. *)
LEMMA Division ==
  ASSUME NEW a \in Int, NEW c \in Nat \ {0}
  PROVE  /\ a \div c \in Int /\ a % c \in Int
         /\ a = c * (a \div c) + (a % c)
         /\ 0 <= a % c /\ a % c < c
  OBVIOUS

(* A larger multiple is larger by the divisor at least. *)
LEMMA Multiples ==
  ASSUME NEW c \in Nat \ {0}, NEW p \in Int, NEW q \in Int, p < q
  PROVE  c * p + c <= c * q /\ c * p \in Int /\ c * q \in Int
<1>1. q - p - 1 \in Nat
  OBVIOUS
<1>2. c * (q - p - 1) >= 0
  BY <1>1
<1> QED
  BY <1>2

(* Quotient and rest are unique. *)
LEMMA Quotient ==
  ASSUME NEW a \in Int, NEW c \in Nat \ {0}, NEW q \in Int, NEW r \in Int,
         a = c * q + r, 0 <= r, r < c
  PROVE  a \div c = q /\ a % c = r
<1>1. a \div c \in Int /\ a % c \in Int /\ a = c * (a \div c) + (a % c) /\ 0 <= a % c /\ a % c < c
  BY Division
<1>2. ~(q < a \div c)
  BY <1>1, Multiples
<1>3. ~(a \div c < q)
  BY <1>1, Multiples
<1>4. a \div c = q
  BY <1>1, <1>2, <1>3
<1> QED
  BY <1>1, <1>4

(* A larger number has no smaller quotient. *)
LEMMA QuotientOrder ==
  ASSUME NEW a \in Int, NEW b \in Int, NEW c \in Nat \ {0}, a <= b
  PROVE  a \div c <= b \div c
<1>1. a \div c \in Int /\ a % c \in Int /\ a = c * (a \div c) + (a % c) /\ 0 <= a % c /\ a % c < c
  BY Division
<1>2. b \div c \in Int /\ b % c \in Int /\ b = c * (b \div c) + (b % c) /\ 0 <= b % c /\ b % c < c
  BY Division
<1>3. ~(b \div c < a \div c)
  BY <1>1, <1>2, Multiples
<1> QED
  BY <1>1, <1>2, <1>3


--------------------------------------------------------------------------------
(* The calendar *)

(* How long the searches are, and where a moon spec's numbers lie. *)
LEMMA Bounds ==
  /\ SummerStart \in Nat /\ SummerEnd \in Nat
  /\ SearchMinutes \in Nat /\ SunSearchDays \in Nat /\ MoonSearchMinutes \in Nat
  /\ Circle \in Nat \ {0} /\ MaxTolerance \in Nat
  BY CalendarAssumption

(* The lengths of an hour and of a day, in minutes and hours. *)
LEMMA Lengths ==
  /\ MinuteLen \in Nat \ {0} /\ HourMinutes \in Nat \ {0} /\ DayHours \in Nat \ {0}
  /\ HourLen \in Nat \ {0} /\ DayLen \in Nat \ {0} /\ HourLen <= DayLen
  /\ HourLen = MinuteLen * HourMinutes /\ DayLen = HourLen * DayHours
<1>1. MinuteLen \in Nat \ {0} /\ HourMinutes \in Nat \ {0} /\ DayHours \in Nat \ {0}
  BY CalendarAssumption
<1>2. HourLen \in Nat \ {0} /\ HourLen = MinuteLen * HourMinutes
  BY <1>1 DEF HourLen
<1>3. DayLen = HourLen * DayHours
  BY DEF DayLen
<1>4. HourLen * DayHours \in Nat \ {0} /\ HourLen <= HourLen * DayHours
  <2>1. HourLen * (DayHours - 1) \in Nat
    BY <1>1, <1>2
  <2> QED
    BY <1>1, <1>2, <2>1
<1> QED
  BY <1>1, <1>2, <1>3, <1>4

(* Local time is ahead of UTC by an hour or not at all. *)
LEMMA Clocks ==
  ASSUME NEW t \in Int
  PROVE  /\ Offset(t) \in {0, HourLen} /\ LocalClock(t) = t + Offset(t)
         /\ LocalClock(t) \in Int /\ LocalDay(t) \in Int
         /\ LocalDay(t) = LocalClock(t) \div DayLen
         /\ LocalClock(t) = DayLen * LocalDay(t) + (LocalClock(t) % DayLen)
         /\ LocalClock(t) % DayLen \in 0..(DayLen - 1)
         /\ DayLen * LocalDay(t) \in Int
         /\ SummerStart \in Int /\ SummerEnd \in Int
<1>1. Offset(t) \in {0, HourLen} /\ LocalClock(t) = t + Offset(t) /\ LocalClock(t) \in Int
  BY Lengths DEF Offset, LocalClock
<1>2. LocalDay(t) = LocalClock(t) \div DayLen
  BY DEF LocalDay
<1>3. DayLen * LocalDay(t) \in Int
  BY <1>1, <1>2, Lengths, Division
<1>4. /\ LocalDay(t) \in Int
      /\ LocalClock(t) = DayLen * LocalDay(t) + (LocalClock(t) % DayLen)
      /\ LocalClock(t) % DayLen \in 0..(DayLen - 1)
  <2>1. DayLen \in Nat \ {0}
    BY Lengths
  <2>2. /\ LocalClock(t) \div DayLen \in Int /\ LocalClock(t) % DayLen \in Int
        /\ LocalClock(t) = DayLen * (LocalClock(t) \div DayLen) + (LocalClock(t) % DayLen)
        /\ 0 <= LocalClock(t) % DayLen /\ LocalClock(t) % DayLen < DayLen
    BY <1>1, <2>1, Division
  <2> QED
    BY <1>2, <2>1, <2>2
<1>5. SummerStart \in Int /\ SummerEnd \in Int
  BY Bounds
<1> QED
  BY <1>1, <1>2, <1>3, <1>4, <1>5

(* The day of t by its local clock. *)
LEMMA DayBounds ==
  ASSUME NEW t \in Int
  PROVE  /\ Offset(t) \in Int /\ LocalClock(t) = t + Offset(t) /\ LocalDay(t) \in Int
         /\ DayLen * LocalDay(t) \in Int
         /\ DayLen * LocalDay(t) <= LocalClock(t) /\ LocalClock(t) < DayLen * LocalDay(t) + DayLen
<1>1. /\ Offset(t) \in {0, HourLen} /\ LocalClock(t) = t + Offset(t) /\ LocalDay(t) \in Int
      /\ LocalClock(t) \in Int /\ DayLen * LocalDay(t) \in Int
  BY Clocks
<1>2. /\ LocalClock(t) = DayLen * LocalDay(t) + (LocalClock(t) % DayLen)
      /\ LocalClock(t) % DayLen \in 0..(DayLen - 1)
  BY Clocks
<1>3. DayLen \in Nat /\ HourLen \in Nat
  BY Lengths
<1> QED
  BY <1>1, <1>2, <1>3

(* A local time in the day d. *)
LEMMA DayOf ==
  ASSUME NEW t \in Int, NEW d \in Int, DayLen * d <= LocalClock(t), LocalClock(t) < DayLen * d + DayLen
  PROVE  LocalDay(t) = d
<1>1. LocalClock(t) \in Int /\ LocalDay(t) = LocalClock(t) \div DayLen
  BY Clocks
<1>2. DayLen * d \in Int
  BY Lengths
<1>3. PICK r \in Int : LocalClock(t) = DayLen * d + r /\ 0 <= r /\ r < DayLen
  BY <1>1, <1>2, Lengths
<1>4. LocalClock(t) \div DayLen = d
  BY <1>1, <1>3, Lengths, Quotient
<1> QED
  BY <1>1, <1>4

(* A later local day starts after this one has ended. *)
LEMMA DayBefore ==
  ASSUME NEW t \in Int, NEW u \in Int, LocalDay(t) < LocalDay(u)
  PROVE  /\ LocalClock(t) < DayLen * LocalDay(u) /\ DayLen * LocalDay(u) <= LocalClock(u)
         /\ DayLen * LocalDay(t) + DayLen <= LocalClock(u)
<1>1. LocalClock(t) \in Int /\ LocalClock(u) \in Int /\ LocalDay(t) \in Int /\ LocalDay(u) \in Int
  BY Clocks
<1>2. /\ LocalClock(t) = DayLen * LocalDay(t) + (LocalClock(t) % DayLen)
      /\ LocalClock(t) % DayLen \in 0..(DayLen - 1)
  BY Clocks
<1>3. /\ LocalClock(u) = DayLen * LocalDay(u) + (LocalClock(u) % DayLen)
      /\ LocalClock(u) % DayLen \in 0..(DayLen - 1)
  BY Clocks
<1>4. DayLen * LocalDay(t) + DayLen <= DayLen * LocalDay(u) /\ DayLen * LocalDay(t) \in Int /\ DayLen * LocalDay(u) \in Int
  BY <1>1, Lengths, Multiples
<1> QED
  BY <1>1, <1>2, <1>3, <1>4, Lengths

(* A local clock that shows no earlier time shows no earlier day. *)
LEMMA DayOrder ==
  ASSUME NEW t \in Int, NEW u \in Int, LocalClock(t) <= LocalClock(u)
  PROVE  LocalDay(t) <= LocalDay(u)
<1>1. LocalClock(t) \in Int /\ LocalClock(u) \in Int /\ DayLen \in Nat \ {0}
  BY Clocks, Lengths
<1> QED
  BY <1>1, QuotientOrder DEF LocalDay

--------------------------------------------------------------------------------
(* Days without a change *)

Changes == {SummerStart, SummerEnd}

Steady(d) == \A c \in Changes : LocalDay(c) # d /\ LocalDay(c - 1) # d

(* Clocks differ by an hour only when they are changed in between. *)
LEMMA SameOffset ==
  ASSUME NEW t \in Int, NEW u \in Int, t <= u, \A c \in Changes : ~(t < c /\ c <= u)
  PROVE  Offset(t) = Offset(u)
<1>1. SummerStart \in Int /\ SummerEnd \in Int
  BY Clocks
<1>2. ~(t < SummerStart /\ SummerStart <= u) /\ ~(t < SummerEnd /\ SummerEnd <= u)
  BY DEF Changes
<1> QED
  BY <1>1, <1>2 DEF Offset

(* If clocks are changed between t and u there is a first and a last change. *)
LEMMA FirstAndLast ==
  ASSUME NEW t \in Int, NEW u \in Int, NEW c \in Changes, t < c, c <= u
  PROVE  /\ \E a \in Changes : t < a /\ a <= c /\ Offset(a - 1) = Offset(t)
         /\ \E b \in Changes : c <= b /\ b <= u /\ Offset(b) = Offset(u)
<1>1. SummerStart \in Int /\ SummerEnd \in Int
  BY Clocks
<1>2. \A a \in Changes : a \in Int
  BY <1>1 DEF Changes
<1>3. \E a \in Changes : t < a /\ a <= c /\ \A e \in Changes : ~(t < e /\ e <= a - 1)
  BY <1>1, <1>2 DEF Changes
<1>4. \E b \in Changes : c <= b /\ b <= u /\ \A e \in Changes : ~(b < e /\ e <= u)
  BY <1>1, <1>2 DEF Changes
<1>5. PICK a \in Changes : t < a /\ a <= c /\ \A e \in Changes : ~(t < e /\ e <= a - 1)
  BY <1>3
<1>6. PICK b \in Changes : c <= b /\ b <= u /\ \A e \in Changes : ~(b < e /\ e <= u)
  BY <1>4
<1>7. a - 1 \in Int /\ t <= a - 1 /\ b \in Int
  BY <1>2, <1>5
<1>8. Offset(t) = Offset(a - 1)
  BY <1>5, <1>7, SameOffset
<1>9. Offset(b) = Offset(u)
  BY <1>6, <1>7, SameOffset
<1> QED
  BY <1>5, <1>6, <1>8, <1>9

(* All through a day without a change the offset is the same. *)
LEMMA SteadyOffset ==
  ASSUME NEW t \in Int, NEW u \in Int, Steady(LocalDay(t)),
         DayLen * LocalDay(t) <= u + Offset(t), u + Offset(t) < DayLen * LocalDay(t) + DayLen
  PROVE  Offset(u) = Offset(t)
<1> DEFINE d == LocalDay(t)
<1>0. /\ Offset(t) \in Int /\ LocalClock(t) = t + Offset(t) /\ d \in Int /\ DayLen * d \in Int
      /\ DayLen * d <= LocalClock(t) /\ LocalClock(t) < DayLen * d + DayLen
  BY DayBounds
<1>1. \A c \in Changes : c \in Int /\ c - 1 \in Int /\ LocalDay(c) # d /\ LocalDay(c - 1) # d
  BY Clocks DEF Steady, Changes
<1> HIDE DEF d
<1>2. CASE u <= t
  <2>1. ASSUME NEW c \in Changes, u < c, c <= t PROVE FALSE
    <3>1. PICK b \in Changes : c <= b /\ b <= t /\ Offset(b) = Offset(t)
      BY <1>1, <2>1, FirstAndLast
    <3>2. b \in Int /\ LocalClock(b) = b + Offset(t)
      BY <1>1, <3>1, Clocks
    <3>3. DayLen * d <= LocalClock(b) /\ LocalClock(b) < DayLen * d + DayLen
      BY <1>0, <1>1, <2>1, <3>1, <3>2, Lengths DEF d
    <3> QED
      BY <1>0, <1>1, <3>2, <3>3, DayOf
  <2> QED
    BY <1>2, <2>1, SameOffset
<1>3. CASE t <= u
  <2>1. ASSUME NEW c \in Changes, t < c, c <= u PROVE FALSE
    <3>1. PICK a \in Changes : t < a /\ a <= c /\ Offset(a - 1) = Offset(t)
      BY <1>1, <2>1, FirstAndLast
    <3>2. a \in Int /\ a - 1 \in Int /\ LocalClock(a - 1) = a - 1 + Offset(t)
      BY <1>1, <3>1, Clocks
    <3>3. DayLen * d <= LocalClock(a - 1) /\ LocalClock(a - 1) < DayLen * d + DayLen
      BY <1>0, <1>1, <2>1, <3>1, <3>2, Lengths DEF d
    <3> QED
      BY <1>0, <1>1, <3>2, <3>3, DayOf
  <2> QED
    BY <1>3, <2>1, SameOffset
<1> QED
  BY <1>2, <1>3


(* On a day without a change every time the local clock can show is a time  *)
(* of that day.                                                             *)
LEMMA SteadyLocal ==
  ASSUME NEW t \in Int, NEW l \in Int, Steady(LocalDay(t)),
         DayLen * LocalDay(t) <= l, l < DayLen * LocalDay(t) + DayLen
  PROVE  TimeOfLocal(l) = l - Offset(t)
<1> DEFINE d == LocalDay(t)
           o == Offset(t)
<1>0. /\ o \in {0, HourLen} /\ d \in Int /\ DayLen * d \in Int /\ DayLen * d <= l /\ l < DayLen * d + DayLen
      /\ HourLen \in Nat \ {0} /\ DayLen \in Nat /\ HourLen <= DayLen
  BY Clocks, Lengths
<1>1. l - o \in Int /\ l - HourLen \in Int /\ (l - o) + o = l
  BY <1>0
<1>2. Offset(l - o) = o
  BY <1>0, <1>1, SteadyOffset
<1>3. CASE o = HourLen
  <2>1. LocalClock(l - HourLen) = l
    BY <1>0, <1>1, <1>2, <1>3, Clocks
  <2> QED
    BY <1>3, <2>1 DEF TimeOfLocal
<1>4. CASE o = 0
  <2>1. Offset(l) = 0
    BY <1>1, <1>2, <1>4
  <2>2. ASSUME LocalClock(l - HourLen) = l PROVE FALSE
    <3>1. Offset(l - HourLen) = HourLen
      BY <1>0, <1>1, <2>2, Clocks
    <3>2. SummerStart \in Int /\ SummerEnd \in Int
      BY Clocks
    <3>3. SummerStart <= l - HourLen /\ l - HourLen < SummerEnd /\ SummerEnd <= l
      BY <1>0, <2>1, <3>1, <3>2 DEF Offset
    <3>4. LocalClock(SummerEnd) = SummerEnd
      BY <3>2 DEF LocalClock, Offset
    <3>5. LocalClock(SummerEnd - 1) = SummerEnd - 1 + HourLen
      BY <1>0, <3>2, <3>3 DEF LocalClock, Offset
    <3>6. LocalDay(SummerEnd) # d /\ LocalDay(SummerEnd - 1) # d
      BY DEF Steady, Changes
    <3>7. SummerEnd < DayLen * d
      BY <1>0, <3>2, <3>3, <3>4, <3>6, DayOf
    <3>8. SummerEnd - 1 \in Int /\ l <= SummerEnd - 1 + HourLen
      BY <1>0, <3>2, <3>3
    <3>9. ~(SummerEnd - 1 + HourLen < DayLen * d + DayLen)
      BY <1>0, <3>5, <3>6, <3>8, DayOf
    <3> QED
      BY <1>0, <3>2, <3>7, <3>9
  <2> QED
    BY <1>1, <1>4, <2>2 DEF TimeOfLocal
<1> QED
  BY <1>0, <1>3, <1>4

(* A whole number of minutes. *)
Whole(x) == \E m \in Int : x = MinuteLen * m

(* Sums and differences of whole minutes are whole. *)
LEMMA WholeSums ==
  ASSUME NEW x \in Int, NEW y \in Int, Whole(x), Whole(y)
  PROVE  Whole(x + y) /\ Whole(x - y)
<1>1. PICK m \in Int : x = MinuteLen * m
  BY DEF Whole
<1>2. PICK n \in Int : y = MinuteLen * n
  BY DEF Whole
<1>3. MinuteLen \in Nat
  BY Lengths
<1>4. x + y = MinuteLen * (m + n) /\ x - y = MinuteLen * (m - n) /\ m + n \in Int /\ m - n \in Int
  BY <1>1, <1>2, <1>3
<1> QED
  BY <1>4 DEF Whole

(* Hours and days are whole minutes. *)
LEMMA WholeHours ==
  ASSUME NEW k \in Int
  PROVE  Whole(HourLen * k) /\ Whole(DayLen * k) /\ Whole(0) /\ Whole(HourLen)
<1>1. /\ MinuteLen \in Nat /\ HourMinutes \in Nat /\ DayHours \in Nat
      /\ HourLen = MinuteLen * HourMinutes /\ DayLen = HourLen * DayHours
  BY Lengths
<1>2. /\ HourMinutes * k \in Int /\ HourLen * k = MinuteLen * (HourMinutes * k)
      /\ HourMinutes * DayHours * k \in Int /\ DayLen * k = MinuteLen * (HourMinutes * DayHours * k)
      /\ 0 = MinuteLen * 0 /\ 0 \in Int /\ HourMinutes \in Int
  BY <1>1
<1> QED
  BY <1>1, <1>2 DEF Whole

(* What the calendar says of a whole minute is what local midnight says:    *)
(* MinutesIntoDay counts the minutes the local clock shows.                 *)
LEMMA SteadyMinute ==
  ASSUME NEW t \in Int, Whole(t), Steady(LocalDay(t))
  PROVE  LET m == MinutesIntoDay(t) IN
         /\ m \in Nat
         /\ m \div HourMinutes = (LocalClock(t) % DayLen) \div HourLen
         /\ m % HourMinutes = (LocalClock(t) % HourLen) \div MinuteLen
         /\ SetTimeOfDayLocal(t, m \div HourMinutes, m % HourMinutes) = t
<1> DEFINE d == LocalDay(t)
           l == LocalClock(t)
           r == l % DayLen
<1>0. /\ d \in Int /\ l \in Int /\ DayLen * d \in Int /\ r \in 0..(DayLen - 1) /\ l = DayLen * d + r
      /\ Offset(t) \in {0, HourLen} /\ l = t + Offset(t)
  BY Clocks
<1>1. /\ MinuteLen \in Nat \ {0} /\ HourMinutes \in Nat \ {0} /\ DayHours \in Nat \ {0}
      /\ HourLen \in Nat \ {0} /\ DayLen \in Nat \ {0}
      /\ HourLen = MinuteLen * HourMinutes /\ DayLen = HourLen * DayHours
  BY Lengths
<1> HIDE DEF d, l, r
<1>2. Whole(r)
  <2>1. Whole(Offset(t)) /\ Whole(DayLen * d)
    BY <1>0, WholeHours
  <2>2. Offset(t) \in Int
    BY <1>0, <1>1
  <2>3. Whole(l)
    BY <1>0, <2>1, <2>2, WholeSums
  <2>4. r = l - DayLen * d
    BY <1>0, <1>1
  <2> QED
    BY <1>0, <2>1, <2>3, <2>4, WholeSums
<1>3. PICK m \in Int : r = MinuteLen * m
  BY <1>2 DEF Whole
<1>4. m \in Nat
  <2>1. ~(m < 0)
    BY <1>0, <1>1, <1>3, Multiples
  <2> QED
    BY <2>1
<1>5. StartOfDayLocal(t) = DayLen * d - Offset(t)
  <2>1. d * DayLen = DayLen * d
    BY <1>0, <1>1
  <2> QED
    BY <1>0, <1>1, <2>1, SteadyLocal DEF StartOfDayLocal, d
<1>6. MinutesIntoDay(t) = m
  <2>1. t - StartOfDayLocal(t) = MinuteLen * m + 0
    BY <1>0, <1>1, <1>3, <1>5
  <2>2. MinuteLen * m + 0 \in Int
    BY <1>1, <1>3
  <2>3. (MinuteLen * m + 0) \div MinuteLen = m
    BY <1>1, <2>2, Quotient
  <2> QED
    BY <2>1, <2>3 DEF MinutesIntoDay
<1> DEFINE h == m \div HourMinutes
           n == m % HourMinutes
<1>7. h \in Int /\ n \in Int /\ m = HourMinutes * h + n /\ 0 <= n /\ n < HourMinutes
  BY <1>1, <1>4, Division
<1> HIDE DEF h, n
<1>8. /\ r = HourLen * h + MinuteLen * n /\ MinuteLen * n \in Int /\ HourLen * h \in Int
      /\ 0 <= MinuteLen * n /\ MinuteLen * n < HourLen
  <2>1. MinuteLen * n + MinuteLen <= MinuteLen * HourMinutes /\ MinuteLen * n \in Int
    BY <1>1, <1>7, Multiples
  <2>2. 0 <= MinuteLen * n
    BY <1>1, <1>7
  <2>3. HourLen * h \in Int
    BY <1>1, <1>7
  <2>4. MinuteLen * (HourMinutes * h + n) = (MinuteLen * HourMinutes) * h + MinuteLen * n
    BY <1>1, <1>7
  <2> QED
    BY <1>1, <1>3, <1>7, <2>1, <2>2, <2>3, <2>4
<1>9. r \div HourLen = h
  BY <1>0, <1>1, <1>7, <1>8, Quotient
<1>10. (l % HourLen) \div MinuteLen = n
  <2>1. DayHours * d + h \in Int
    BY <1>0, <1>1, <1>7
  <2>2. HourLen * (DayHours * d + h) = (HourLen * DayHours) * d + HourLen * h
    BY <1>0, <1>1, <1>7
  <2>3. l = HourLen * (DayHours * d + h) + MinuteLen * n
    BY <1>0, <1>1, <1>8, <2>2
  <2>4. l % HourLen = MinuteLen * n
    BY <1>0, <1>1, <1>8, <2>1, <2>3, Quotient
  <2>5. MinuteLen * n = MinuteLen * n + 0 /\ 0 \in Int /\ 0 < MinuteLen
    BY <1>1, <1>8
  <2>6. (MinuteLen * n) \div MinuteLen = n
    BY <1>1, <1>7, <1>8, <2>5, Quotient
  <2> QED
    BY <2>4, <2>6
<1>11. SetTimeOfDayLocal(t, h, n) = t
  <2>1. d * DayLen + h * HourLen + n * MinuteLen = l
    BY <1>0, <1>1, <1>7, <1>8
  <2>2. TimeOfLocal(l) = l - Offset(t)
    BY <1>0, <1>1, SteadyLocal DEF d
  <2> QED
    BY <1>0, <1>1, <2>1, <2>2 DEF SetTimeOfDayLocal, d
<1> QED
  BY <1>4, <1>6, <1>9, <1>10, <1>11 DEF h, n, l, r


--------------------------------------------------------------------------------
(* Cron *)

(* A day matches if either restricted day field does. *)
LEMMA DayFields ==
  ASSUME NEW s, NEW t
  PROVE  DayMatches(s, t) <=>
           LET restricted == {d \in {"dom", "dow"} :
                                ~(IF d = "dom" THEN s.dayOfMonth ELSE s.dayOfWeek).any}
               ok(d) == IF d = "dom" THEN DayLocal(t) \in s.dayOfMonth.mask
                                     ELSE WeekdayLocal(t) \in s.dayOfWeek.mask
           IN restricted = {} \/ \E d \in restricted : ok(d)
<1> DEFINE restricted == {d \in {"dom", "dow"} :
                            ~(IF d = "dom" THEN s.dayOfMonth ELSE s.dayOfWeek).any}
           ok(d) == IF d = "dom" THEN DayLocal(t) \in s.dayOfMonth.mask
                                 ELSE WeekdayLocal(t) \in s.dayOfWeek.mask
<1>1. ("dom" \in restricted <=> ~s.dayOfMonth.any) /\ ("dow" \in restricted <=> ~s.dayOfWeek.any)
  OBVIOUS
<1>2. \A d \in restricted : d = "dom" \/ d = "dow"
  OBVIOUS
<1>3. (ok("dom") <=> DayLocal(t) \in s.dayOfMonth.mask) /\ (ok("dow") <=> WeekdayLocal(t) \in s.dayOfWeek.mask)
  OBVIOUS
<1> HIDE DEF restricted, ok
<1>4. (restricted = {} \/ \E d \in restricted : ok(d)) <=>
        \/ s.dayOfMonth.any /\ s.dayOfWeek.any
        \/ ~s.dayOfMonth.any /\ DayLocal(t) \in s.dayOfMonth.mask
        \/ ~s.dayOfWeek.any /\ WeekdayLocal(t) \in s.dayOfWeek.mask
  BY <1>1, <1>2, <1>3
<1>5. DayMatches(s, t) <=>
        \/ s.dayOfMonth.any /\ s.dayOfWeek.any
        \/ ~s.dayOfMonth.any /\ DayLocal(t) \in s.dayOfMonth.mask
        \/ ~s.dayOfWeek.any /\ WeekdayLocal(t) \in s.dayOfWeek.mask
  BY DEF DayMatches, Matches
<1> QED
  BY <1>4, <1>5 DEF restricted, ok

(* On a day without a change the search goes by the local clock. *)
LEMMA SteadyMatches ==
  ASSUME NEW s, NEW t \in Int, Whole(t), Steady(LocalDay(t))
  PROVE  CronMatches(s, t) <=> ClockMatches(s, t)
<1>1. /\ MinutesIntoDay(t) >= 0
      /\ MinutesIntoDay(t) \div HourMinutes = (LocalClock(t) % DayLen) \div HourLen
      /\ MinutesIntoDay(t) % HourMinutes = (LocalClock(t) % HourLen) \div MinuteLen
  BY SteadyMinute
<1> QED
  BY <1>1, DayFields DEF CronMatches, ClockMatches


(* Numbers from b on have a least one. *)
LEMMA LeastFrom ==
  ASSUME NEW b \in Int, NEW S, S \subseteq Int, \A x \in S : b <= x, S # {}
  PROVE  Min(S) \in S /\ \A y \in S : Min(S) <= y
<1> DEFINE N == {x - b : x \in S}
<1>1. N \subseteq Nat /\ N # {}
  <2>1. ASSUME NEW x \in S PROVE x - b \in Nat
    <3>1. x \in Int /\ b <= x
      OBVIOUS
    <3> QED
      BY ONLY <3>1, b \in Int
  <2>2. PICK x \in S : TRUE
    OBVIOUS
  <2> QED
    BY <2>1, <2>2
<1>2. PICK n \in N : \A m \in N : n <= m
  BY <1>1, LeastOf
<1>3. PICK x \in S : n = x - b
  OBVIOUS
<1>4. ASSUME NEW y \in S PROVE x <= y
  <2>1. n \in Nat /\ y - b \in Nat /\ y - b \in N
    BY <1>1
  <2>2. n <= y - b
    BY <1>2, <2>1
  <2>3. x \in Int /\ y \in Int
    OBVIOUS
  <2> QED
    BY ONLY <1>3, <2>1, <2>2, <2>3, b \in Int
<1> QED
  BY <1>4 DEF Min

(* The minute a search starts with. *)
LEMMA Rounded ==
  ASSUME NEW f \in Int
  PROVE  /\ RoundToNextMinute(f) \in Int /\ Whole(RoundToNextMinute(f))
         /\ f <= RoundToNextMinute(f) /\ RoundToNextMinute(f) < f + MinuteLen
<1> DEFINE q == (f + MinuteLen - 1) \div MinuteLen
<1>1. MinuteLen \in Nat \ {0} /\ f + MinuteLen - 1 \in Int
  BY Lengths
<1>2. /\ q \in Int /\ f + MinuteLen - 1 = MinuteLen * q + ((f + MinuteLen - 1) % MinuteLen)
      /\ (f + MinuteLen - 1) % MinuteLen \in Int /\ (f + MinuteLen - 1) % MinuteLen < MinuteLen
      /\ 0 <= (f + MinuteLen - 1) % MinuteLen
  BY <1>1, Division
<1> HIDE DEF q
<1>3. q * MinuteLen = MinuteLen * q /\ MinuteLen * q \in Int
  BY <1>1, <1>2
<1>4. f <= MinuteLen * q /\ MinuteLen * q < f + MinuteLen
  BY <1>1, <1>2, <1>3
<1> QED
  BY <1>2, <1>3, <1>4 DEF RoundToNextMinute, Whole, q

(* The first N minutes of a search from f. *)
First(f, N) == MinutesOf(f, RoundToNextMinute(f) + (N - 1) * MinuteLen)

(* The first N minutes from f on are whole, and each is a step of a search. *)
LEMMA MinutesAre ==
  ASSUME NEW f \in Int, NEW N \in Nat
  PROVE  /\ \A t \in First(f, N) :
              /\ t \in Int /\ Whole(t) /\ f <= t /\ RoundToNextMinute(f) <= t
              /\ \E k \in 0..(N - 1) : t = RoundToNextMinute(f) + k * MinuteLen
         /\ \A k \in 0..(N - 1) : RoundToNextMinute(f) + k * MinuteLen \in First(f, N)
<1> DEFINE R == RoundToNextMinute(f)
           last == (N - 1) * MinuteLen
<1>0. MinuteLen \in Nat \ {0} /\ N \in Nat
  BY Lengths
<1>1. R \in Int /\ Whole(R) /\ f <= R
  BY Rounded
<1>2. last \in Int /\ last = MinuteLen * (N - 1)
  BY <1>0
<1>3. PICK p \in Int : R = MinuteLen * p
  BY <1>1 DEF Whole
<1>4. ASSUME NEW t PROVE t \in First(f, N) <=> t \in R..(R + last) /\ t % MinuteLen = 0
  BY DEF First, MinutesOf
<1> HIDE DEF R, last
<1>5. ASSUME NEW t \in First(f, N)
      PROVE  /\ t \in Int /\ Whole(t) /\ f <= t /\ R <= t
             /\ \E k \in 0..(N - 1) : t = R + k * MinuteLen
  <2>1. t \in Int /\ R <= t /\ t <= R + last /\ t % MinuteLen = 0
    BY <1>1, <1>2, <1>4, <1>5
  <2>2. t \div MinuteLen \in Int /\ t = MinuteLen * (t \div MinuteLen) + (t % MinuteLen)
    BY <1>0, <2>1, Division
  <2>3. PICK q \in Int : t = MinuteLen * q
    <3>1. MinuteLen * (t \div MinuteLen) \in Int
      BY <1>0, <2>2
    <3>2. t = MinuteLen * (t \div MinuteLen)
      BY <2>1, <2>2, <3>1
    <3> QED
      BY <2>2, <3>2
  <2>4. ~(q < p)
    BY <1>0, <1>3, <2>1, <2>3, Multiples
  <2>5. ~(p + N - 1 < q)
    <3>1. p + N - 1 \in Int
      BY <1>0
    <3>2. MinuteLen * (p + N - 1) = R + last
      BY <1>0, <1>2, <1>3
    <3> QED
      BY <1>0, <1>1, <1>2, <2>1, <2>3, <3>1, <3>2, Multiples
  <2>6. q - p \in 0..(N - 1)
    BY <1>0, <2>4, <2>5
  <2>7. t = R + (q - p) * MinuteLen
    BY <1>0, <1>3, <2>3
  <2>8. Whole(t)
    BY <2>3 DEF Whole
  <2> QED
    BY <1>1, <2>1, <2>6, <2>7, <2>8
<1>6. ASSUME NEW k \in 0..(N - 1) PROVE R + k * MinuteLen \in First(f, N)
  <2>1. k \in Nat /\ p + k \in Int /\ R + k * MinuteLen = MinuteLen * (p + k) + 0
    BY <1>0, <1>3
  <2>2. R + k * MinuteLen \in Int
    BY <1>0, <1>1
  <2>3. (R + k * MinuteLen) % MinuteLen = 0
    <3> DEFINE x == R + k * MinuteLen
               m == p + k
    <3>1. x \in Int /\ m \in Int /\ x = MinuteLen * m + 0 /\ 0 \in Int /\ 0 < MinuteLen
      BY <1>0, <2>1, <2>2
    <3> HIDE DEF x, m
    <3>2. x % MinuteLen = 0
      BY <1>0, <3>1, Quotient
    <3> QED
      BY <3>2 DEF x
  <2>4. R <= R + k * MinuteLen
    BY <1>0, <1>1, <2>1
  <2>5. R + k * MinuteLen <= R + last
    <3>1. k <= N - 1 /\ MinuteLen * (N - 1 - k) >= 0
      BY <1>0
    <3> QED
      BY <1>0, <1>1, <1>2, <2>1, <3>1
  <2> QED
    BY <1>1, <1>2, <1>4, <2>2, <2>3, <2>4, <2>5
<1> QED
  BY <1>5, <1>6 DEF R

(* The minutes a cron search looks at. *)
Window(f) == First(f, SearchMinutes)

(* They are the steps of the search. *)
LEMMA WindowIs ==
  ASSUME NEW f \in Int
  PROVE  /\ \A t \in Window(f) :
              /\ t \in Int /\ Whole(t) /\ f <= t /\ RoundToNextMinute(f) <= t
              /\ \E k \in 0..(SearchMinutes - 1) : t = RoundToNextMinute(f) + k * MinuteLen
         /\ \A k \in 0..(SearchMinutes - 1) : RoundToNextMinute(f) + k * MinuteLen \in Window(f)
  BY MinutesAre, Bounds DEF Window

(* The time a cron search answers with when it hits on t. *)
Answer(t) ==
  SetTimeOfDayLocal(t, MinutesIntoDay(t) \div HourMinutes, MinutesIntoDay(t) % HourMinutes)

(* A cron search finds the first minute that matches, if there is one. *)
LEMMA CronFinds ==
  ASSUME NEW s, NEW f \in Int
  PROVE  \/ NextCron(s, f) = {} /\ \A t \in Window(f) : ~CronMatches(s, t)
         \/ \E c \in Window(f) : /\ CronMatches(s, c) /\ NextCron(s, f) = {Answer(c)}
                                 /\ \A t \in Window(f) : CronMatches(s, t) => c <= t
<1> DEFINE R == RoundToNextMinute(f)
           cursor(k) == R + k * MinuteLen
           hits == {k \in 0..(SearchMinutes - 1) : CronMatches(s, cursor(k))}
           least == Min(hits)
<1>1. NextCron(s, f) = IF hits = {} THEN {} ELSE {Answer(cursor(least))}
  BY DEF NextCron, Answer
<1>2. \A t \in Window(f) : CronMatches(s, t) => \E k \in hits : t = cursor(k)
  BY WindowIs
<1>3. CASE hits = {}
  BY <1>1, <1>2, <1>3
<1>4. CASE hits # {}
  <2>0. SearchMinutes \in Nat /\ MinuteLen \in Nat /\ R \in Int
    BY Bounds, Lengths, Rounded
  <2>1. least \in hits /\ \A k \in hits : least <= k
    <3>1. hits \subseteq Int /\ \A k \in hits : 0 <= k
      BY <2>0
    <3> HIDE DEF hits
    <3> QED
      BY <1>4, <3>1, LeastFrom, 0 \in Int
  <2> HIDE DEF least
  <2>2. cursor(least) \in Window(f) /\ CronMatches(s, cursor(least))
    BY <2>1, WindowIs
  <2>3. ASSUME NEW t \in Window(f), CronMatches(s, t) PROVE cursor(least) <= t
    <3>1. PICK k \in hits : t = cursor(k)
      BY <1>2, <2>3
    <3>2. least <= k /\ k \in Int /\ least \in Int
      BY <2>0, <2>1
    <3>3. least * MinuteLen <= k * MinuteLen /\ least * MinuteLen \in Int /\ k * MinuteLen \in Int
      <4>1. (k - least) * MinuteLen >= 0
        BY <2>0, <3>2
      <4> QED
        BY <2>0, <3>2, <4>1
    <3> QED
      BY <2>0, <3>1, <3>3
  <2> QED
    BY <1>1, <1>4, <2>2, <2>3
<1> QED
  BY <1>3, <1>4


(* NoChange says that every day from the one to the other is steady. *)
LEMMA NoChangeIs ==
  ASSUME NEW f \in Int, NEW t \in Int, NoChange(f, t)
  PROVE  \A d \in Int : \/ LocalDay(f) <= d /\ d <= LocalDay(t)
                        \/ LocalDay(t) <= d /\ d <= LocalDay(f)
                        => Steady(d)
<1>1. LocalDay(f) \in Int /\ LocalDay(t) \in Int
  BY Clocks
<1> DEFINE a == LocalDay(f)
           b == LocalDay(t)
<1> HIDE DEF a, b
<1>2. Min({a, b}) = IF a <= b THEN a ELSE b
  BY <1>1 DEF Min, a, b
<1>3. Max({a, b}) = IF a <= b THEN b ELSE a
  BY <1>1 DEF Max, a, b
<1>4. \A d \in Min({a, b})..Max({a, b}) : Steady(d)
  BY DEF NoChange, Steady, Changes, a, b
<1> QED
  BY <1>1, <1>2, <1>3, <1>4 DEF a, b

(* If no day from that of f to that of t has a change, then neither have    *)
(* the clocks one between f and t.                                          *)
LEMMA SteadySpan ==
  ASSUME NEW f \in Int, NEW t \in Int, f <= t, NoChange(f, t), NEW c \in Changes, f < c, c <= t
  PROVE  FALSE
<1>1. PICK a \in Changes : f < a /\ a <= c /\ Offset(a - 1) = Offset(f)
  BY FirstAndLast
<1>2. PICK b \in Changes : c <= b /\ b <= t /\ Offset(b) = Offset(t)
  BY FirstAndLast
<1>3. \A x \in Changes : x \in Int
  BY Clocks DEF Changes
<1>4. a - 1 \in Int /\ b \in Int /\ a \in Int /\ c \in Int
  BY <1>3
<1>5. LocalDay(f) \in Int /\ LocalDay(t) \in Int /\ LocalDay(a - 1) \in Int /\ LocalDay(b) \in Int
  BY <1>4, Clocks
<1>6. LocalDay(f) <= LocalDay(a - 1)
  <2>1. LocalClock(f) <= LocalClock(a - 1)
    BY <1>1, <1>4, DayBounds
  <2> QED
    BY <1>4, <2>1, DayOrder
<1>7. LocalDay(b) <= LocalDay(t)
  <2>1. LocalClock(b) <= LocalClock(t)
    BY <1>2, <1>4, DayBounds
  <2> QED
    BY <1>4, <2>1, DayOrder
<1>8. ~Steady(LocalDay(a - 1)) /\ ~Steady(LocalDay(b))
  BY <1>1, <1>2 DEF Steady
<1>9. LocalDay(t) < LocalDay(a - 1) /\ LocalDay(b) < LocalDay(f)
  BY <1>5, <1>6, <1>7, <1>8, NoChangeIs
<1>10. LocalDay(b) < LocalDay(f) /\ LocalDay(f) < LocalDay(a - 1)
  BY <1>5, <1>6, <1>8, <1>9, NoChangeIs
<1>11. LocalClock(b) < DayLen * LocalDay(f)
  BY <1>4, <1>10, DayBefore
<1>12. DayLen * LocalDay(f) + DayLen <= LocalClock(a - 1)
  BY <1>4, <1>10, DayBefore
<1>13. DayLen * LocalDay(f) \in Int
  BY Clocks
<1>14. Offset(a - 1) \in {0, HourLen} /\ LocalClock(a - 1) = a - 1 + Offset(a - 1)
  BY <1>4, Clocks
<1>15. Offset(b) \in {0, HourLen} /\ LocalClock(b) = b + Offset(b)
  BY <1>4, Clocks
<1>16. HourLen \in Nat /\ DayLen \in Nat /\ HourLen <= DayLen /\ a <= b
  BY <1>1, <1>2, <1>4, Lengths
<1> QED
  BY <1>4, <1>11, <1>12, <1>13, <1>14, <1>15, <1>16

(* When clocks go back over midnight, times before it are of the day that   *)
(* the change ends.                                                         *)
LEMMA DaysInOrder ==
  ASSUME NEW f \in Int, NEW c \in Int, f <= c
  PROVE  LocalDay(f) <= LocalDay(c) \/ LocalDay(f) = LocalDay(SummerEnd - 1)
<1>1. LocalDay(f) \in Int /\ LocalDay(c) \in Int
  BY Clocks
<1>2. SUFFICES ASSUME LocalDay(c) < LocalDay(f) PROVE LocalDay(f) = LocalDay(SummerEnd - 1)
  BY <1>1
<1>3. SummerEnd \in Int /\ SummerStart \in Int /\ SummerEnd - 1 \in Int
  BY Clocks
<1>4. HourLen \in Nat /\ DayLen \in Nat /\ HourLen <= DayLen
  BY Lengths
<1>5. LocalClock(c) < DayLen * LocalDay(f) /\ DayLen * LocalDay(f) <= LocalClock(f)
  BY <1>2, DayBefore
<1>6. /\ LocalClock(f) = f + Offset(f) /\ LocalClock(c) = c + Offset(c)
      /\ Offset(f) \in {0, HourLen} /\ Offset(c) \in {0, HourLen} /\ DayLen * LocalDay(f) \in Int
  BY Clocks
<1>7. Offset(f) = HourLen /\ Offset(c) = 0 /\ HourLen # 0
  BY <1>4, <1>5, <1>6
<1>8. SummerStart <= f /\ f < SummerEnd /\ SummerEnd <= c
  BY <1>3, <1>7 DEF Offset
<1>9. LocalClock(SummerEnd - 1) = SummerEnd - 1 + HourLen
  BY <1>3, <1>4, <1>8 DEF LocalClock, Offset
<1>10. DayLen * LocalDay(f) <= LocalClock(SummerEnd - 1)
  BY <1>3, <1>4, <1>5, <1>6, <1>7, <1>8, <1>9
<1>11. LocalClock(SummerEnd - 1) < DayLen * LocalDay(f) + DayLen
  BY <1>3, <1>4, <1>5, <1>6, <1>7, <1>8, <1>9
<1> QED
  BY <1>1, <1>3, <1>10, <1>11, DayOf

(* The answer of a search is not of an earlier day than its hit. *)
LEMMA AnswerDay ==
  ASSUME NEW c \in Int, MinutesIntoDay(c) >= 0
  PROVE  Answer(c) \in Int /\ LocalDay(c) <= LocalDay(Answer(c))
<1> DEFINE d == LocalDay(c)
           m == MinutesIntoDay(c)
           h == m \div HourMinutes
           n == m % HourMinutes
           l == d * DayLen + h * HourLen + n * MinuteLen
<1>0. /\ MinuteLen \in Nat \ {0} /\ HourMinutes \in Nat \ {0} /\ HourLen \in Nat \ {0}
      /\ DayLen \in Nat \ {0} /\ d \in Int
  BY Lengths, Clocks
<1>1. StartOfDayLocal(c) \in Int
  <2>1. d * DayLen \in Int
    BY <1>0
  <2> QED
    BY <1>0, <2>1 DEF StartOfDayLocal, TimeOfLocal
<1>2. m \in Nat
  <2>1. c - StartOfDayLocal(c) \in Int
    BY <1>1
  <2>2. m \in Int
    BY <1>0, <2>1, Division DEF MinutesIntoDay
  <2> QED
    BY <2>2
<1> HIDE DEF m
<1>3. h \in Int /\ n \in Int /\ 0 <= n /\ n < HourMinutes /\ m = HourMinutes * h + n
  BY <1>0, <1>2, Division
<1> HIDE DEF h, n
<1>4. h \in Nat /\ n \in Nat
  <2>1. ~(h < 0)
    BY <1>0, <1>2, <1>3, Multiples
  <2> QED
    BY <1>3, <2>1
<1>5. h * HourLen \in Nat /\ n * MinuteLen \in Nat /\ d * DayLen \in Int /\ d * DayLen = DayLen * d
  BY <1>0, <1>4
<1>6. l \in Int /\ DayLen * d <= l
  BY <1>5
<1>7. Answer(c) = TimeOfLocal(l)
  BY DEF Answer, SetTimeOfDayLocal, m, h, n
<1> HIDE DEF l
<1>8. l - HourLen \in Int
  BY <1>0, <1>6
<1>9. Answer(c) \in Int /\ l <= LocalClock(Answer(c))
  <2>1. CASE LocalClock(l - HourLen) = l
    BY <1>6, <1>7, <1>8, <2>1 DEF TimeOfLocal
  <2>2. CASE LocalClock(l - HourLen) # l
    <3>1. Answer(c) = l
      BY <1>7, <2>2 DEF TimeOfLocal
    <3>2. LocalClock(l) = l + Offset(l) /\ Offset(l) \in {0, HourLen}
      BY <1>6, Clocks
    <3> QED
      BY <1>0, <1>6, <3>1, <3>2
  <2> QED
    BY <2>1, <2>2
<1>10. LocalClock(Answer(c)) \in Int /\ LocalClock(Answer(c)) \div DayLen = LocalDay(Answer(c))
  BY <1>9, Clocks
<1>11. l \div DayLen <= LocalClock(Answer(c)) \div DayLen
  BY <1>0, <1>6, <1>9, <1>10, QuotientOrder
<1>12. (DayLen * d) \div DayLen <= l \div DayLen
  BY <1>0, <1>5, <1>6, QuotientOrder
<1>13. (DayLen * d) \div DayLen = d
  <2>1. DayLen * d \in Int /\ DayLen * d = DayLen * d + 0 /\ 0 \in Int /\ 0 < DayLen
    BY <1>0, <1>5
  <2> QED
    BY <1>0, <2>1, Quotient
<1>14. l \div DayLen \in Int /\ LocalDay(Answer(c)) \in Int
  BY <1>0, <1>6, <1>9, Division, Clocks
<1> QED
  BY <1>0, <1>9, <1>10, <1>11, <1>12, <1>13, <1>14

(* What FirstByClock says is the first minute that the local clock selects. *)
LEMMA DueIs ==
  ASSUME NEW s, NEW f \in Int
  PROVE  \/ FirstByClock(s, f) = {} /\ \A t \in Window(f) : ~ClockMatches(s, t)
         \/ \E u \in Window(f) : /\ ClockMatches(s, u) /\ FirstByClock(s, f) = {u}
                                 /\ \A t \in Window(f) : ClockMatches(s, t) => u <= t
<1> DEFINE due == {t \in Window(f) : ClockMatches(s, t)}
<1>1. FirstByClock(s, f) = IF due = {} THEN {} ELSE {Min(due)}
  BY DEF FirstByClock, Window, First
<1>2. CASE due = {}
  BY <1>1, <1>2
<1>3. CASE due # {}
  <2>1. due \subseteq Int /\ \A t \in due : f <= t
    BY WindowIs
  <2>2. Min(due) \in due /\ \A t \in due : Min(due) <= t
    <3> HIDE DEF due
    <3> QED
      BY <1>3, <2>1, LeastFrom
  <2> QED
    BY <1>1, <1>3, <2>2
<1> QED
  BY <1>2, <1>3

(* Where no clock is changed, a cron search finds the first minute that the *)
(* local clock selects.                                                     *)
LEMMA CronByClock ==
  ASSUME NEW s, NEW f \in Int,
         \A t \in FirstByClock(s, f) \cup NextCron(s, f) : NoChange(f, t)
  PROVE  NextCron(s, f) = FirstByClock(s, f)
<1>1. CASE FirstByClock(s, f) # {}
  <2>1. PICK u \in Window(f) : /\ ClockMatches(s, u) /\ FirstByClock(s, f) = {u}
                               /\ \A t \in Window(f) : ClockMatches(s, t) => u <= t
    BY <1>1, DueIs
  <2>2. u \in Int /\ Whole(u) /\ f <= u /\ NoChange(f, u)
    BY <2>1, WindowIs
  <2>3. ASSUME NEW t \in Window(f), t <= u PROVE CronMatches(s, t) <=> ClockMatches(s, t)
    <3>1. t \in Int /\ Whole(t) /\ f <= t
      BY WindowIs
    <3>2. \A c \in Changes : c \in Int /\ ~(f < c /\ c <= u)
      BY <2>2, SteadySpan, Clocks DEF Changes
    <3>3. Offset(f) = Offset(t)
      BY <2>2, <2>3, <3>1, <3>2, SameOffset
    <3>4. Offset(t) = Offset(u)
      BY <2>2, <2>3, <3>1, <3>2, SameOffset
    <3>5. LocalClock(f) <= LocalClock(t) /\ LocalClock(t) <= LocalClock(u)
      BY <2>2, <2>3, <3>1, <3>3, <3>4, DayBounds
    <3>6. LocalDay(f) <= LocalDay(t) /\ LocalDay(t) <= LocalDay(u) /\ LocalDay(t) \in Int
      BY <2>2, <3>1, <3>5, DayOrder, Clocks
    <3>7. Steady(LocalDay(t))
      BY <2>2, <3>6, NoChangeIs
    <3> QED
      BY <3>1, <3>7, SteadyMatches
  <2>4. CronMatches(s, u)
    BY <2>1, <2>2, <2>3
  <2>5. PICK c \in Window(f) : /\ CronMatches(s, c) /\ NextCron(s, f) = {Answer(c)}
                               /\ \A t \in Window(f) : CronMatches(s, t) => c <= t
    BY <2>4, CronFinds
  <2>6. c = u
    <3>1. c \in Int /\ c <= u
      BY <2>4, <2>5, WindowIs
    <3>2. u <= c
      BY <2>1, <2>3, <2>5, <3>1
    <3> QED
      BY <2>2, <3>1, <3>2
  <2>7. Steady(LocalDay(u))
    <3>1. LocalDay(u) \in Int /\ LocalDay(f) \in Int
      BY <2>2, Clocks
    <3> QED
      BY <2>2, <3>1, NoChangeIs
  <2>8. Answer(u) = u
    BY <2>2, <2>7, SteadyMinute DEF Answer
  <2> QED
    BY <2>1, <2>5, <2>6, <2>8
<1>2. CASE FirstByClock(s, f) = {}
  <2>1. \A t \in Window(f) : ~ClockMatches(s, t)
    BY <1>2, DueIs
  <2>2. SUFFICES ASSUME NextCron(s, f) # {} PROVE FALSE
    BY <1>2
  <2>3. PICK c \in Window(f) : CronMatches(s, c) /\ NextCron(s, f) = {Answer(c)}
    BY <2>2, CronFinds
  <2>4. c \in Int /\ Whole(c) /\ f <= c /\ MinutesIntoDay(c) >= 0
    BY <2>3, WindowIs DEF CronMatches
  <2>5. Answer(c) \in Int /\ LocalDay(c) <= LocalDay(Answer(c)) /\ NoChange(f, Answer(c))
    BY <2>3, <2>4, AnswerDay
  <2>6. LocalDay(f) \in Int /\ LocalDay(c) \in Int /\ LocalDay(Answer(c)) \in Int
    BY <2>4, <2>5, Clocks
  <2>7. ~Steady(LocalDay(c))
    BY <2>1, <2>3, <2>4, SteadyMatches
  <2>8. Steady(LocalDay(f))
    BY <2>5, <2>6, NoChangeIs
  <2>9. LocalDay(f) # LocalDay(SummerEnd - 1)
    BY <2>8 DEF Steady, Changes
  <2>10. LocalDay(f) <= LocalDay(c)
    BY <2>4, <2>9, DaysInOrder
  <2> QED
    BY <2>5, <2>6, <2>7, <2>10, NoChangeIs
<1> QED
  BY <1>1, <1>2

--------------------------------------------------------------------------------
(* The moon's window *)

(* The smaller and the larger of two numbers. *)
LEMMA OfTwo ==
  ASSUME NEW a \in Int, NEW b \in Int
  PROVE  /\ Min({a, b}) = IF a <= b THEN a ELSE b
         /\ Max({a, b}) = IF a <= b THEN b ELSE a
  BY DEF Min, Max

(* A spec of a moon phase, and one of an illumination. *)
PhaseSpec(s) == s.kind = "MoonPhase" /\ s.center \in 0..(Circle - 1) /\ s.tolerance \in Nat
IlluminationSpec(s) == s.kind = "MoonIllumination" /\ s.center \in Int /\ s.tolerance \in Nat

(* v is in the window of turn q of the circle. *)
InTurnWindow(s, v, q) ==
  s.center - s.tolerance + Circle * q <= v /\ v <= s.center + s.tolerance + Circle * q

(* A phase is in the window if it is in that of some turn. *)
LEMMA PhaseWindow ==
  ASSUME NEW s, PhaseSpec(s), NEW v \in Int
  PROVE  InWindow(s, v) <=> \E q \in Int : InTurnWindow(s, v, q)
<1>0. /\ s.kind = "MoonPhase" /\ s.center \in Int /\ 0 <= s.center /\ s.center < Circle
      /\ s.tolerance \in Nat /\ Circle \in Nat \ {0}
  BY Bounds DEF PhaseSpec
<1> DEFINE c == s.center
           tol == s.tolerance
<1> HIDE DEF c, tol
<1>a. c \in Int /\ 0 <= c /\ c < Circle /\ tol \in Nat
  BY <1>0 DEF c, tol
<1>1. InWindow(s, v) <=> \E d \in (-tol)..tol : (v + d) % Circle = c
  BY <1>0 DEF InWindow, c, tol
<1>2. ASSUME NEW d \in (-tol)..tol, (v + d) % Circle = c PROVE \E q \in Int : InTurnWindow(s, v, q)
  <2>1. d \in Int /\ v + d \in Int /\ -tol <= d /\ d <= tol
    BY <1>a
  <2>2. (v + d) \div Circle \in Int /\ v + d = Circle * ((v + d) \div Circle) + ((v + d) % Circle)
    BY <1>0, <2>1, Division
  <2>3. PICK q \in Int : v + d = Circle * q + c
    BY <1>2, <2>2
  <2>4. Circle * q \in Int
    BY <1>0
  <2>5. c - tol + Circle * q <= v /\ v <= c + tol + Circle * q
    BY <1>a, <2>1, <2>3, <2>4
  <2> QED
    BY <2>5 DEF InTurnWindow, c, tol
<1>3. ASSUME NEW q \in Int, InTurnWindow(s, v, q) PROVE \E d \in (-tol)..tol : (v + d) % Circle = c
  <2>1. Circle * q \in Int
    BY <1>0
  <2>2. c - tol + Circle * q <= v /\ v <= c + tol + Circle * q
    BY <1>3 DEF InTurnWindow, c, tol
  <2> DEFINE d == Circle * q + c - v
  <2>3. d \in Int /\ v + d = Circle * q + c /\ -tol <= d /\ d <= tol
    BY <1>a, <2>1, <2>2
  <2> HIDE DEF d
  <2>4. v + d \in Int /\ d \in (-tol)..tol
    BY <1>a, <2>3
  <2>5. (v + d) % Circle = c
    BY <1>0, <1>a, <2>3, <2>4, Quotient
  <2> QED
    BY <2>4, <2>5
<1> QED
  BY <1>1, <1>2, <1>3

(* So it does not matter how many turns are counted. *)
LEMMA WindowTurns ==
  ASSUME NEW s, PhaseSpec(s), NEW v \in Int, NEW p \in Int
  PROVE  InWindow(s, v + Circle * p) <=> InWindow(s, v)
<1>0. s.center \in Int /\ s.tolerance \in Nat /\ Circle \in Nat /\ v + Circle * p \in Int
  BY Bounds DEF PhaseSpec
<1>1. ASSUME NEW q \in Int
      PROVE  (InTurnWindow(s, v, q) => InTurnWindow(s, v + Circle * p, q + p)) /\ q + p \in Int
  <2>1. Circle * (q + p) = Circle * q + Circle * p /\ Circle * q \in Int /\ Circle * p \in Int
    BY <1>0
  <2> QED
    BY <1>0, <2>1 DEF InTurnWindow
<1>2. ASSUME NEW q \in Int
      PROVE  (InTurnWindow(s, v + Circle * p, q) => InTurnWindow(s, v, q - p)) /\ q - p \in Int
  <2>1. Circle * (q - p) = Circle * q - Circle * p /\ Circle * q \in Int /\ Circle * p \in Int
    BY <1>0
  <2> QED
    BY <1>0, <2>1 DEF InTurnWindow
<1>3. (\E q \in Int : InTurnWindow(s, v, q)) <=> (\E q \in Int : InTurnWindow(s, v + Circle * p, q))
  BY <1>1, <1>2
<1> QED
  BY <1>0, <1>3, PhaseWindow

(* valueWithinPeriodicWindow says so. *)
LEMMA WithinIs ==
  ASSUME NEW s, PhaseSpec(s), NEW v \in Int
  PROVE  WithinPeriodicWindow(v, s) <=> InWindow(s, v)
<1>0. s.center \in Int /\ s.tolerance \in Nat /\ Circle \in Nat \ {0}
  BY Bounds DEF PhaseSpec
<1> DEFINE c == s.center
           tol == s.tolerance
           dist == IF v > c THEN v - c ELSE c - v
           w == dist % Circle
           k == dist \div Circle
<1> HIDE DEF c, tol
<1>a. c \in Int /\ tol \in Nat
  BY <1>0 DEF c, tol
<1>b. dist \in Int
  BY <1>a
<1>c. w \in Int /\ k \in Int /\ dist = Circle * k + w /\ 0 <= w /\ w < Circle
  <2> HIDE DEF dist
  <2> QED
    BY <1>0, <1>b, Division
<1>1. WithinPeriodicWindow(v, s) <=> Min({w, Circle - w}) <= tol
  BY DEF WithinPeriodicWindow, c, tol
<1> HIDE DEF w, k
<1>2. WithinPeriodicWindow(v, s) <=> w <= tol \/ Circle - w <= tol
  <2>1. Circle - w \in Int
    BY <1>0, <1>c
  <2>2. Min({w, Circle - w}) = IF w <= Circle - w THEN w ELSE Circle - w
    BY <1>c, <2>1, OfTwo
  <2> QED
    BY <1>0, <1>a, <1>c, <1>1, <2>1, <2>2
<1>3. ASSUME NEW q \in Int
      PROVE  Circle * q \in Int /\ (InTurnWindow(s, v, q) <=> c - tol + Circle * q <= v /\ v <= c + tol + Circle * q)
  BY <1>0 DEF InTurnWindow, c, tol
<1>4. CASE v > c
  <2>1. v - c = Circle * k + w /\ Circle * k \in Int
    BY <1>0, <1>c, <1>4
  <2>2. ASSUME w <= tol PROVE InTurnWindow(s, v, k)
    BY <1>a, <1>c, <1>3, <2>1, <2>2
  <2>3. ASSUME Circle - w <= tol PROVE InTurnWindow(s, v, k + 1) /\ k + 1 \in Int
    <3>1. Circle * (k + 1) = Circle * k + Circle /\ k + 1 \in Int
      BY <1>0, <1>c
    <3>2. c - tol + Circle * (k + 1) <= v /\ v <= c + tol + Circle * (k + 1)
      BY <1>0, <1>a, <1>c, <2>1, <2>3, <3>1
    <3> QED
      BY <1>3, <3>1, <3>2
  <2>4. ASSUME NEW q \in Int, InTurnWindow(s, v, q), tol < w PROVE Circle - w <= tol
    <3>1. Circle * q \in Int /\ c - tol + Circle * q <= v /\ v <= c + tol + Circle * q
      BY <1>3, <2>4
    <3>2. k < q
      <4>1. ~(q < k)
        BY <1>0, <1>a, <1>c, <2>1, <2>4, <3>1, Multiples
      <4>2. q # k
        BY <1>a, <1>c, <2>1, <2>4, <3>1
      <4> QED
        BY <1>c, <4>1, <4>2
    <3>3. Circle * k + Circle <= Circle * q
      BY <1>0, <1>c, <3>2, Multiples
    <3> QED
      BY <1>0, <1>a, <1>c, <2>1, <3>1, <3>3
  <2>5. (w <= tol \/ Circle - w <= tol) <=> \E q \in Int : InTurnWindow(s, v, q)
    BY <1>a, <1>c, <2>2, <2>3, <2>4
  <2> QED
    BY <1>2, <2>5, PhaseWindow
<1>5. CASE ~(v > c)
  <2>1. v - c = -(Circle * k) - w /\ Circle * k \in Int
    BY <1>0, <1>a, <1>c, <1>5
  <2>2. ASSUME w <= tol PROVE InTurnWindow(s, v, -k) /\ -k \in Int
    <3>1. Circle * (-k) = -(Circle * k) /\ -k \in Int
      BY <1>0, <1>c
    <3>2. c - tol + Circle * (-k) <= v /\ v <= c + tol + Circle * (-k)
      BY <1>a, <1>c, <2>1, <2>2, <3>1
    <3> QED
      BY <1>3, <3>1, <3>2
  <2>3. ASSUME Circle - w <= tol PROVE InTurnWindow(s, v, -k - 1) /\ -k - 1 \in Int
    <3>1. Circle * (-k - 1) = -(Circle * k) - Circle /\ -k - 1 \in Int
      BY <1>0, <1>c
    <3>2. c - tol + Circle * (-k - 1) <= v /\ v <= c + tol + Circle * (-k - 1)
      BY <1>0, <1>a, <1>c, <2>1, <2>3, <3>1
    <3> QED
      BY <1>3, <3>1, <3>2
  <2>4. ASSUME NEW q \in Int, InTurnWindow(s, v, q), tol < w PROVE Circle - w <= tol
    <3>1. Circle * q \in Int /\ c - tol + Circle * q <= v /\ v <= c + tol + Circle * q
      BY <1>3, <2>4
    <3>2. Circle * (-k) = -(Circle * k) /\ -k \in Int
      BY <1>0, <1>c
    <3>3. q < -k
      <4>1. ~(-k < q)
        BY <1>0, <1>a, <1>c, <2>1, <2>4, <3>1, <3>2, Multiples
      <4>2. ASSUME q = -k PROVE FALSE
        <5>1. Circle * q = -(Circle * k)
          BY <3>2, <4>2
        <5> QED
          BY <1>a, <1>c, <2>1, <2>4, <3>1, <5>1
      <4> QED
        BY <3>2, <4>1, <4>2
    <3>4. Circle * q + Circle <= Circle * (-k)
      BY <1>0, <3>2, <3>3, Multiples
    <3> QED
      BY <1>0, <1>a, <1>c, <2>1, <3>1, <3>2, <3>4
  <2>5. (w <= tol \/ Circle - w <= tol) <=> \E q \in Int : InTurnWindow(s, v, q)
    BY <1>a, <1>c, <2>2, <2>3, <2>4
  <2> QED
    BY <1>2, <2>5, PhaseWindow
<1> QED
  BY <1>4, <1>5

(* v lies between a and b. *)
Between(a, b, v) == (a <= v /\ v <= b) \/ (b <= v /\ v <= a)

(* Between them, from the smaller to the larger. *)
LEMMA BetweenIs ==
  ASSUME NEW a \in Int, NEW b \in Int, NEW v \in Int
  PROVE  v \in Min({a, b})..Max({a, b}) <=> Between(a, b, v)
<1>1. /\ Min({a, b}) = IF a <= b THEN a ELSE b
      /\ Max({a, b}) = IF a <= b THEN b ELSE a
  BY OfTwo
<1> QED
  BY <1>1 DEF Between

(* segmentIntersectsRange: some value between a and b is in the range. *)
LEMMA RangeMeets ==
  ASSUME NEW a \in Int, NEW b \in Int, NEW lo \in Int, NEW hi \in Int, lo <= hi
  PROVE  SegmentIntersectsRange(a, b, lo, hi) <=> \E v \in Int : Between(a, b, v) /\ lo <= v /\ v <= hi
<1>1. /\ Min({a, b}) = IF a <= b THEN a ELSE b
      /\ Max({a, b}) = IF a <= b THEN b ELSE a
  BY OfTwo
<1> DEFINE x == IF a <= b THEN a ELSE b
           y == IF a <= b THEN b ELSE a
           v == IF x <= lo THEN lo ELSE x
<1>2. SegmentIntersectsRange(a, b, lo, hi) <=> y >= lo /\ x <= hi
  BY <1>1 DEF SegmentIntersectsRange
<1>3. ASSUME y >= lo, x <= hi PROVE v \in Int /\ Between(a, b, v) /\ lo <= v /\ v <= hi
  BY <1>3 DEF Between
<1>4. ASSUME NEW u \in Int, Between(a, b, u), lo <= u, u <= hi PROVE y >= lo /\ x <= hi
  BY <1>4 DEF Between
<1> HIDE DEF x, y, v
<1> QED
  BY <1>2, <1>3, <1>4

(* segmentIntersectsPeriodicWindow tries all the turns that matter. *)
LEMMA SegmentIs ==
  ASSUME NEW s, PhaseSpec(s), NEW a \in Int, NEW b \in Int
  PROVE  SegmentIntersectsPeriodicWindow(a, b, s) <=> \E v \in Int : Between(a, b, v) /\ InWindow(s, v)
<1>0. s.center \in Int /\ s.tolerance \in Nat /\ Circle \in Nat \ {0}
  BY Bounds DEF PhaseSpec
<1> DEFINE c == s.center
           tol == s.tolerance
           x == Min({a, b})
           y == Max({a, b})
           first == (x - (c + tol)) \div Circle - 1
           last == -((c - tol - y) \div Circle) + 1
<1>1. x \in Int /\ y \in Int /\ x = (IF a <= b THEN a ELSE b) /\ y = (IF a <= b THEN b ELSE a)
  BY OfTwo
<1>2. SegmentIntersectsPeriodicWindow(a, b, s) <=>
        \E p \in first..last : SegmentIntersectsRange(a, b, c - tol + p * Circle, c + tol + p * Circle)
  BY DEF SegmentIntersectsPeriodicWindow
<1> HIDE DEF c, tol, x, y
<1>3. c \in Int /\ tol \in Nat /\ x - (c + tol) \in Int /\ c - tol - y \in Int
  BY <1>0, <1>1 DEF c, tol
<1>4. /\ (x - (c + tol)) \div Circle \in Int /\ (c - tol - y) \div Circle \in Int
      /\ first \in Int /\ last \in Int
  BY <1>0, <1>3, Division
<1>5. ASSUME NEW p \in Int
      PROVE  /\ p * Circle = Circle * p /\ Circle * p \in Int
             /\ SegmentIntersectsRange(a, b, c - tol + p * Circle, c + tol + p * Circle)
                  <=> \E v \in Int : Between(a, b, v) /\ InTurnWindow(s, v, p)
  <2>1. p * Circle = Circle * p /\ Circle * p \in Int
    BY <1>0
  <2>2. c - tol + Circle * p \in Int /\ c + tol + Circle * p \in Int /\ c - tol + Circle * p <= c + tol + Circle * p
    BY <1>3, <2>1
  <2>3. SegmentIntersectsRange(a, b, c - tol + Circle * p, c + tol + Circle * p) <=>
          \E v \in Int : Between(a, b, v) /\ c - tol + Circle * p <= v /\ v <= c + tol + Circle * p
    BY <2>2, RangeMeets
  <2> QED
    BY <2>1, <2>3 DEF InTurnWindow, c, tol
<1>6. ASSUME NEW v \in Int, Between(a, b, v), NEW p \in Int, InTurnWindow(s, v, p) PROVE p \in first..last
  <2>1. Circle * p \in Int /\ c - tol + Circle * p <= v /\ v <= c + tol + Circle * p
    BY <1>5, <1>6 DEF InTurnWindow, c, tol
  <2>2. x <= v /\ v <= y
    BY <1>1, <1>6 DEF Between
  <2>3. x - (c + tol) <= Circle * p
    BY <1>1, <1>3, <2>1, <2>2
  <2>4. (Circle * p) \div Circle = p
    <3>1. Circle * p = Circle * p + 0 /\ 0 \in Int /\ 0 < Circle
      BY <1>0, <2>1
    <3> QED
      BY <1>0, <2>1, <3>1, Quotient
  <2>5. (x - (c + tol)) \div Circle <= p
    BY <1>0, <1>3, <2>1, <2>3, <2>4, QuotientOrder
  <2>6. c - tol - y <= Circle * (-p) /\ Circle * (-p) \in Int /\ -p \in Int
    <3>1. Circle * (-p) = -(Circle * p)
      BY <1>0
    <3> QED
      BY <1>1, <1>3, <2>1, <2>2, <3>1
  <2>7. (Circle * (-p)) \div Circle = -p
    <3>1. Circle * (-p) = Circle * (-p) + 0 /\ 0 \in Int /\ 0 < Circle
      BY <1>0, <2>6
    <3> QED
      BY <1>0, <2>6, <3>1, Quotient
  <2>8. (c - tol - y) \div Circle <= -p
    BY <1>0, <1>3, <2>6, <2>7, QuotientOrder
  <2> QED
    BY <1>4, <2>5, <2>8
<1>7. \A p \in first..last : p \in Int
  BY <1>4
<1>8. (\E p \in first..last : SegmentIntersectsRange(a, b, c - tol + p * Circle, c + tol + p * Circle))
        <=> \E v \in Int : Between(a, b, v) /\ \E q \in Int : InTurnWindow(s, v, q)
  <2> HIDE DEF first, last
  <2> QED
    BY <1>5, <1>6, <1>7
<1> QED
  BY <1>2, <1>8, PhaseWindow

(* The way from angle a to angle b: the short one, and over the end of the  *)
(* circle only if that is shorter.                                          *)
Turn(delta) ==
  IF 2 * delta > Circle THEN delta - Circle ELSE IF 2 * delta < -Circle THEN delta + Circle ELSE delta

(* That is the way the moon passes. *)
LEMMA PassedPhase ==
  ASSUME NEW s, PhaseSpec(s), NEW a \in 0..(Circle - 1), NEW b \in 0..(Circle - 1), NEW v \in Int
  PROVE  v \in Passed(s, a, b) <=> Between(a, a + Turn(b - a), v)
<1>0. Circle \in Nat \ {0} /\ s.kind = "MoonPhase"
  BY Bounds DEF PhaseSpec
<1>1. a \in Int /\ b \in Int /\ 0 <= a /\ a < Circle /\ 0 <= b /\ b < Circle
  BY <1>0
<1> DEFINE turns == {-Circle, 0, Circle}
           way(n) == Max({b + n - a, a - b - n})
           short == {n \in turns : \A m \in turns : way(n) <= way(m)}
           near == b + (IF 0 \in short THEN 0 ELSE CHOOSE n \in short : TRUE)
<1>2. Passed(s, a, b) = Min({a, near})..Max({a, near})
  BY <1>0 DEF Passed
<1>3. ASSUME NEW n \in Int
      PROVE  way(n) = IF b + n - a <= a - b - n THEN a - b - n ELSE b + n - a
  <2>1. b + n - a \in Int /\ a - b - n \in Int
    BY <1>1
  <2> QED
    BY <2>1, OfTwo
<1>4. -Circle \in Int /\ 0 \in Int /\ Circle \in Int
  BY <1>0
<1> DEFINE delta == b - a
<1>5. /\ way(0) = IF delta <= -delta THEN -delta ELSE delta
      /\ way(Circle) = b + Circle - a
      /\ way(-Circle) = a - b + Circle
  <2> HIDE DEF way
  <2>1. way(0) = IF b + 0 - a <= a - b - 0 THEN a - b - 0 ELSE b + 0 - a
    BY <1>3, <1>4
  <2>2. way(Circle) = IF b + Circle - a <= a - b - Circle THEN a - b - Circle ELSE b + Circle - a
    BY <1>3, <1>4
  <2>3. way(-Circle) = IF b + (-Circle) - a <= a - b - (-Circle) THEN a - b - (-Circle) ELSE b + (-Circle) - a
    BY <1>3, <1>4
  <2> QED
    BY <1>0, <1>1, <2>1, <2>2, <2>3
<1> HIDE DEF way
<1>6. near = a + Turn(delta)
  <2>1. CASE 2 * delta > Circle
    <3>1. 0 \notin short
      BY <1>0, <1>1, <1>5, <2>1
    <3>2. Circle \notin short
      BY <1>0, <1>1, <1>5, <2>1
    <3>3. -Circle \in short
      BY <1>0, <1>1, <1>5, <2>1
    <3>4. short = {-Circle}
      BY <3>1, <3>2, <3>3
    <3> QED
      BY <1>0, <1>1, <2>1, <3>1, <3>4 DEF Turn
  <2>2. CASE 2 * delta < -Circle
    <3>1. 0 \notin short
      BY <1>0, <1>1, <1>5, <2>2
    <3>2. -Circle \notin short
      BY <1>0, <1>1, <1>5, <2>2
    <3>3. Circle \in short
      BY <1>0, <1>1, <1>5, <2>2
    <3>4. short = {Circle}
      BY <3>1, <3>2, <3>3
    <3> QED
      BY <1>0, <1>1, <2>2, <3>1, <3>4 DEF Turn
  <2>3. CASE ~(2 * delta > Circle) /\ ~(2 * delta < -Circle)
    <3>1. 0 \in short
      BY <1>0, <1>1, <1>5, <2>3
    <3> QED
      BY <1>0, <1>1, <2>3, <3>1 DEF Turn
  <2> QED
    BY <2>1, <2>2, <2>3
<1>7. a + Turn(delta) \in Int
  BY <1>0, <1>1 DEF Turn
<1> QED
  BY <1>1, <1>2, <1>6, <1>7, BetweenIs

(* unwrapAngle goes that way, from the turn that has been reached. *)
LEMMA Unwrapped ==
  ASSUME NEW a \in 0..(Circle - 1), NEW b \in 0..(Circle - 1), NEW p \in Int
  PROVE  /\ UnwrapAngle(a + Circle * p, b) = a + Circle * p + Turn(b - a)
         /\ Turn(b - a) \in Int
         /\ \E q \in Int : UnwrapAngle(a + Circle * p, b) = b + Circle * q
<1>0. Circle \in Nat \ {0}
  BY Bounds
<1>1. a \in Int /\ b \in Int /\ 0 <= a /\ a < Circle /\ Circle * p \in Int
  BY <1>0
<1>2. (a + Circle * p) % Circle = a
  <2> DEFINE x == a + Circle * p
  <2>1. x \in Int /\ x = Circle * p + a
    BY <1>1
  <2> HIDE DEF x
  <2>2. x % Circle = a
    BY <1>0, <1>1, <2>1, Quotient
  <2> QED
    BY <2>2 DEF x
<1>3. UnwrapAngle(a + Circle * p, b) = a + Circle * p + Turn(b - a)
  BY <1>2 DEF UnwrapAngle, Turn
<1>4. Turn(b - a) \in {b - a, b - a - Circle, b - a + Circle}
  BY <1>0, <1>1 DEF Turn
<1>5. Circle * (p - 1) = Circle * p - Circle /\ Circle * (p + 1) = Circle * p + Circle /\ p - 1 \in Int /\ p + 1 \in Int
  BY <1>0
<1>6. \/ a + Circle * p + Turn(b - a) = b + Circle * p
      \/ a + Circle * p + Turn(b - a) = b + Circle * (p - 1)
      \/ a + Circle * p + Turn(b - a) = b + Circle * (p + 1)
  BY <1>0, <1>1, <1>4, <1>5
<1>7. Turn(b - a) \in Int
  BY <1>0, <1>1, <1>4
<1> QED
  BY <1>3, <1>5, <1>6, <1>7

(* Whether the moon comes into the window from reading a to reading b. *)
Enters(s, a, b) == ~InWindow(s, a) /\ \E v \in Passed(s, a, b) : InWindow(s, v)

(* The search notices it for phases, in whatever turn it is ... *)
LEMMA PhaseCrosses ==
  ASSUME NEW s, PhaseSpec(s), NEW a \in 0..(Circle - 1), NEW b \in 0..(Circle - 1), NEW p \in Int
  PROVE  Crosses(s, a + Circle * p, UnwrapAngle(a + Circle * p, b)) <=> Enters(s, a, b)
<1>0. Circle \in Nat \ {0} /\ s.kind = "MoonPhase"
  BY Bounds DEF PhaseSpec
<1> DEFINE x == a + Circle * p
           e == Turn(b - a)
<1>1. UnwrapAngle(x, b) = x + e /\ e \in Int
  BY Unwrapped
<1>2. a \in Int /\ Circle * p \in Int /\ x \in Int
  BY <1>0
<1>3. x + e \in Int /\ a + e \in Int
  BY <1>1, <1>2
<1>4. WithinPeriodicWindow(x, s) <=> InWindow(s, a)
  BY <1>2, WithinIs, WindowTurns
<1>5. SegmentIntersectsPeriodicWindow(x, x + e, s) <=> \E v \in Int : Between(x, x + e, v) /\ InWindow(s, v)
  <2> HIDE DEF x, e
  <2> QED
    BY <1>2, <1>3, SegmentIs
<1>6. ASSUME NEW v \in Int
      PROVE  /\ v + Circle * p \in Int /\ v - Circle * p \in Int
             /\ Between(a, a + e, v) <=> Between(x, x + e, v + Circle * p)
             /\ Between(x, x + e, v) <=> Between(a, a + e, v - Circle * p)
             /\ v = (v - Circle * p) + Circle * p
  <2> HIDE DEF e
  <2> QED
    BY <1>1, <1>2 DEF Between
<1>7. ASSUME NEW v \in Int
      PROVE  /\ InWindow(s, v + Circle * p) <=> InWindow(s, v)
             /\ InWindow(s, v - Circle * p) <=> InWindow(s, v)
  <2>1. InWindow(s, v + Circle * p) <=> InWindow(s, v)
    BY WindowTurns
  <2>2. InWindow(s, (v - Circle * p) + Circle * p) <=> InWindow(s, v - Circle * p)
    BY <1>6, WindowTurns
  <2> QED
    BY <1>6, <2>1, <2>2
<1>8. (\E v \in Int : Between(x, x + e, v) /\ InWindow(s, v))
        <=> \E v \in Int : Between(a, a + e, v) /\ InWindow(s, v)
  <2> HIDE DEF x, e
  <2> QED
    BY <1>6, <1>7
<1>9. \A v \in Passed(s, a, b) : v \in Int
  BY DEF Passed
<1>10. (\E v \in Passed(s, a, b) : InWindow(s, v)) <=> \E v \in Int : Between(a, a + e, v) /\ InWindow(s, v)
  BY <1>9, PassedPhase
<1> QED
  BY <1>0, <1>1, <1>4, <1>5, <1>8, <1>10 DEF Crosses, Enters

(* ... and for illuminations. *)
LEMMA IlluminationCrosses ==
  ASSUME NEW s, IlluminationSpec(s), NEW a \in Int, NEW b \in Int
  PROVE  Crosses(s, a, b) <=> Enters(s, a, b)
<1>0. s.kind = "MoonIllumination" /\ s.center \in Int /\ s.tolerance \in Nat
  BY DEF IlluminationSpec
<1> DEFINE lo == s.center - s.tolerance
           hi == s.center + s.tolerance
<1>1. lo \in Int /\ hi \in Int /\ lo <= hi
  BY <1>0
<1>2. ASSUME NEW v \in Int PROVE InWindow(s, v) <=> lo <= v /\ v <= hi
  <2>1. InWindow(s, v) <=> \E d \in (-s.tolerance)..s.tolerance : v + d = s.center
    BY <1>0 DEF InWindow
  <2>2. ASSUME lo <= v, v <= hi PROVE \E d \in (-s.tolerance)..s.tolerance : v + d = s.center
    <3> DEFINE d == s.center - v
    <3>1. d \in (-s.tolerance)..s.tolerance /\ v + d = s.center
      BY <1>0, <2>2
    <3> QED
      BY <3>1
  <2>3. ASSUME NEW d \in (-s.tolerance)..s.tolerance, v + d = s.center PROVE lo <= v /\ v <= hi
    BY <1>0, <2>3
  <2> QED
    BY <2>1, <2>2, <2>3
<1>3. Passed(s, a, b) = Min({a, b})..Max({a, b})
  <2> DEFINE turns == {0}
             way(n) == Max({b + n - a, a - b - n})
             short == {n \in turns : \A m \in turns : way(n) <= way(m)}
             near == b + (IF 0 \in short THEN 0 ELSE CHOOSE n \in short : TRUE)
  <2>1. Passed(s, a, b) = Min({a, near})..Max({a, near})
    BY <1>0 DEF Passed
  <2>2. way(0) \in Int
    <3>1. b + 0 - a \in Int /\ a - b - 0 \in Int
      OBVIOUS
    <3> QED
      BY <3>1, OfTwo
  <2> HIDE DEF way
  <2>3. 0 \in short
    BY <2>2
  <2>4. near = b
    BY <2>3
  <2> QED
    BY <2>1, <2>4
<1>4. \A v \in Passed(s, a, b) : v \in Int
  BY DEF Passed
<1>5. (\E v \in Passed(s, a, b) : InWindow(s, v)) <=> \E v \in Int : Between(a, b, v) /\ lo <= v /\ v <= hi
  <2> HIDE DEF lo, hi
  <2> QED
    BY <1>2, <1>3, <1>4, BetweenIs
<1>6. SegmentIntersectsRange(a, b, lo, hi) <=> \E v \in Int : Between(a, b, v) /\ lo <= v /\ v <= hi
  BY <1>1, RangeMeets
<1>7. a \in lo..hi <=> InWindow(s, a)
  BY <1>1, <1>2
<1> QED
  BY <1>0, <1>5, <1>6, <1>7 DEF Crosses, Enters

--------------------------------------------------------------------------------
(* The moon searches *)

(* What the moon is read as at t. *)
Reading(path, t) == InTurn(path, t \div MinuteLen)

MoonMinute(f, k) == RoundToNextMinute(f) + (k - 1) * MinuteLen

Follow(s, a, b) == IF s.kind = "MoonPhase" THEN UnwrapAngle(a, b) ELSE b

(* g are the first n readings of a search from f, each counted on from the  *)
(* one before.                                                              *)
Readings(path, s, f, n, g) ==
  g = [k \in 0..n |-> IF k = 0 THEN Reading(path, MoonMinute(f, 0))
                      ELSE Follow(s, g[k - 1], Reading(path, MoonMinute(f, k)))]

(* What a search answers that finds these readings. *)
MoonHits(s, g) == {k \in 1..MoonSearchMinutes : Crosses(s, g[k - 1], g[k])}

MoonFails(path, f) == {k \in 0..MoonSearchMinutes : Reading(path, MoonMinute(f, k)) = -1}

MoonFound(path, s, f, found) ==
  \E g : /\ Readings(path, s, f, MoonSearchMinutes, g)
         /\ found = IF MoonHits(s, g) = {} \/ (\E k \in MoonFails(path, f) : k <= Min(MoonHits(s, g)))
                    THEN {} ELSE {MoonMinute(f, Min(MoonHits(s, g)))}

(* Such readings exist, however long the search is. *)
LEMMA ReadingsExist ==
  ASSUME NEW path, NEW s, NEW f, NEW n \in Nat
  PROVE  \E g : Readings(path, s, f, n, g)
<1> DEFINE At(k, g) == IF k = 0 THEN Reading(path, MoonMinute(f, 0))
                       ELSE Follow(s, g[k - 1], Reading(path, MoonMinute(f, k)))
           Bad == {m \in Nat : ~ \E g : Readings(path, s, f, m, g)}
<1>1. ASSUME Bad # {} PROVE FALSE
  <2>1. Min(Bad) \in Bad /\ \A m \in Bad : Min(Bad) <= m
    <3>1. Bad \subseteq Int /\ \A m \in Bad : 0 <= m
      OBVIOUS
    <3> HIDE DEF Bad
    <3> QED
      BY <1>1, <3>1, LeastFrom, 0 \in Int
  <2>2. PICK m \in Bad : \A j \in Bad : m <= j
    BY <2>1
  <2>3. m \in Nat /\ ~ \E g : Readings(path, s, f, m, g)
    OBVIOUS
  <2>4. CASE m = 0
    <3> DEFINE g == [k \in 0..0 |-> Reading(path, MoonMinute(f, 0))]
    <3>1. Readings(path, s, f, 0, g)
      BY DEF Readings
    <3> QED
      BY <2>3, <2>4, <3>1
  <2>5. CASE m # 0
    <3>1. m - 1 \in Nat /\ ~(m <= m - 1)
      BY <2>3, <2>5
    <3>2. m - 1 \notin Bad
      BY <2>2, <3>1
    <3>3. PICK g : Readings(path, s, f, m - 1, g)
      BY <3>1, <3>2
    <3> DEFINE h == [k \in 0..m |-> IF k = m THEN At(m, g) ELSE g[k]]
    <3>4. ASSUME NEW k \in 0..m PROVE h[k] = At(k, h)
      <4>1. CASE k = m
        <5>1. h[m] = At(m, g) /\ h[m - 1] = g[m - 1]
          BY <2>3, <2>5
        <5> QED
          BY <2>5, <4>1, <5>1
      <4>2. CASE k # m
        <5>1. k \in 0..(m - 1) /\ h[k] = g[k]
          BY <2>3, <4>2
        <5>2. g[k] = At(k, g)
          BY <3>3, <5>1 DEF Readings
        <5>3. k # 0 => h[k - 1] = g[k - 1]
          BY <2>3, <5>1
        <5> QED
          BY <5>1, <5>2, <5>3
      <4> QED
        BY <4>1, <4>2
    <3>5. h = [k \in 0..m |-> h[k]]
      OBVIOUS
    <3> HIDE DEF h
    <3>6. Readings(path, s, f, m, h)
      BY <3>4, <3>5 DEF Readings
    <3> QED
      BY <2>3, <3>6
  <2> QED
    BY <2>4, <2>5
<1> QED
  BY <1>1

(* The search of the code goes by them. *)
LEMMA MoonSearch ==
  ASSUME NEW s, NEW f
  PROVE  MoonFound(moon, s, f, NextMoon(s, f))
<1>0. MoonSearchMinutes \in Nat
  BY Bounds
<1> DEFINE reading == CHOOSE g : Readings(moon, s, f, MoonSearchMinutes, g)
           hits == MoonHits(s, reading)
<1>1. Readings(moon, s, f, MoonSearchMinutes, reading)
  BY <1>0, ReadingsExist, Zenon
<1>2. NextMoon(s, f) = IF hits = {} \/ (\E k \in MoonFails(moon, f) : k <= Min(hits))
                       THEN {} ELSE {MoonMinute(f, Min(hits))}
  BY DEF NextMoon, Readings, MoonHits, MoonFails, MoonMinute, MoonAt, Reading, Follow
<1> HIDE DEF reading
<1> QED
  BY <1>1, <1>2 DEF MoonFound

Angles == 0..(Circle - 1)

Path(p) == p \in Seq((-1)..(Circle - 1)) /\ p # <<>>

(* A reading is an angle, or -1 when it fails. *)
LEMMA ReadingRange ==
  ASSUME NEW path, Path(path), NEW t \in Int
  PROVE  Reading(path, t) \in Angles \cup {-1}
<1>1. Len(path) \in Nat \ {0}
  BY DEF Path
<1>2. MinuteLen \in Nat \ {0} /\ Circle \in Nat
  BY Lengths, Bounds
<1> DEFINE i == t \div MinuteLen
           n == Len(path)
<1>3. i \in Int
  BY <1>2, Division
<1> HIDE DEF i, n
<1>4. i % n \in Int /\ 0 <= i % n /\ i % n < n /\ n \in Nat
  BY <1>1, <1>3, Division DEF n
<1>5. (i % n) + 1 \in 1..n
  BY <1>4
<1>6. path[(i % n) + 1] \in (-1)..(Circle - 1)
  <2> DEFINE x == (i % n) + 1
  <2>1. x \in 1..Len(path)
    BY <1>5 DEF n
  <2> HIDE DEF x
  <2> DEFINE S == (-1)..(Circle - 1)
  <2>a. path \in Seq(S)
    BY DEF Path
  <2> HIDE DEF S
  <2>b. path[x] \in S
    BY <2>1, <2>a
  <2>2. path[x] \in (-1)..(Circle - 1)
    BY <2>b DEF S
  <2> QED
    BY <2>2 DEF x
<1>7. Reading(path, t) = path[(i % n) + 1]
  BY DEF Reading, InTurn, i, n
<1> QED
  BY <1>2, <1>6, <1>7 DEF Angles

(* The minutes of a moon search. *)
LEMMA MoonMinutes ==
  ASSUME NEW f \in Int, NEW k \in Int
  PROVE  /\ MoonMinute(f, k) \in Int /\ Whole(MoonMinute(f, k))
         /\ MoonMinute(f, k) - MinuteLen = MoonMinute(f, k - 1)
         /\ MoonMinute(f, 0) = RoundToNextMinute(f) - MinuteLen
         /\ \A j \in Int : (j <= k) <=> (MoonMinute(f, j) <= MoonMinute(f, k))
<1> DEFINE R == RoundToNextMinute(f)
<1>0. MinuteLen \in Nat \ {0} /\ R \in Int /\ Whole(R)
  BY Lengths, Rounded
<1> HIDE DEF R
<1>1. ASSUME NEW j \in Int
      PROVE  /\ MinuteLen * j \in Int /\ j - 1 \in Int
             /\ MoonMinute(f, j) = R + MinuteLen * j - MinuteLen
  BY <1>0 DEF MoonMinute, R
<1>2. MoonMinute(f, k) \in Int
  BY <1>0, <1>1
<1>3. Whole(MoonMinute(f, k))
  <2>1. k - 1 \in Int /\ (k - 1) * MinuteLen = MinuteLen * (k - 1) /\ (k - 1) * MinuteLen \in Int
    BY <1>0
  <2>2. Whole((k - 1) * MinuteLen)
    BY <2>1 DEF Whole
  <2> QED
    BY <1>0, <2>1, <2>2, WholeSums DEF MoonMinute, R
<1>4. MoonMinute(f, k) - MinuteLen = MoonMinute(f, k - 1)
  <2>1. MinuteLen * (k - 1) = MinuteLen * k - MinuteLen
    BY <1>0
  <2>2. MoonMinute(f, k - 1) = R + MinuteLen * (k - 1) - MinuteLen
    BY <1>1
  <2> QED
    BY <1>0, <1>1, <2>1, <2>2
<1>5. MoonMinute(f, 0) = R - MinuteLen
  <2>1. MinuteLen * 0 = 0
    BY <1>0
  <2> QED
    BY <1>0, <1>1, <2>1
<1>6. ASSUME NEW j \in Int PROVE (j <= k) <=> (MoonMinute(f, j) <= MoonMinute(f, k))
  <2>1. j < k => MinuteLen * j + MinuteLen <= MinuteLen * k
    BY <1>0, Multiples
  <2>2. k < j => MinuteLen * k + MinuteLen <= MinuteLen * j
    BY <1>0, Multiples
  <2> QED
    BY <1>0, <1>1, <2>1, <2>2
<1> QED
  BY <1>2, <1>3, <1>4, <1>5, <1>6 DEF R

(* No reading of the first k + 1 fails. *)
AllRead(path, f, k) == \A j \in 0..k : Reading(path, MoonMinute(f, j)) # -1

(* While none fails, what is counted on is the angle and whole turns. *)
LEMMA PhaseReadings ==
  ASSUME NEW path, Path(path), NEW s, PhaseSpec(s), NEW f \in Int, NEW N \in Nat,
         NEW g, Readings(path, s, f, N, g), NEW k \in 0..N, AllRead(path, f, k)
  PROVE  \E q \in Int : g[k] = Reading(path, MoonMinute(f, k)) + Circle * q
<1>0. Circle \in Nat \ {0} /\ s.kind = "MoonPhase"
  BY Bounds DEF PhaseSpec
<1> DEFINE M(j) == Reading(path, MoonMinute(f, j))
           Bad == {j \in 0..k : ~ \E q \in Int : g[j] = M(j) + Circle * q}
<1>1. ASSUME NEW j \in 0..k PROVE M(j) \in Angles
  <2>1. j \in Int /\ MoonMinute(f, j) \in Int
    BY MoonMinutes
  <2> QED
    BY <2>1, ReadingRange DEF AllRead
<1>2. ASSUME NEW j \in 0..k
      PROVE  g[j] = IF j = 0 THEN M(0) ELSE Follow(s, g[j - 1], M(j))
  <2>1. j \in 0..N
    OBVIOUS
  <2> QED
    BY <2>1 DEF Readings
<1> HIDE DEF M
<1>3. ASSUME Bad # {} PROVE FALSE
  <2>1. Min(Bad) \in Bad /\ \A m \in Bad : Min(Bad) <= m
    <3>1. Bad \subseteq Int /\ \A m \in Bad : 0 <= m
      OBVIOUS
    <3> HIDE DEF Bad
    <3> QED
      BY <1>3, <3>1, LeastFrom, 0 \in Int
  <2>2. PICK j \in Bad : \A i \in Bad : j <= i
    BY <2>1
  <2>3. j \in 0..k /\ j \in Nat /\ ~ \E q \in Int : g[j] = M(j) + Circle * q
    OBVIOUS
  <2>4. CASE j = 0
    <3>1. M(0) \in Int
      BY <1>0, <1>1, <2>3, <2>4 DEF Angles
    <3>2. g[0] = M(0) + Circle * 0
      BY <1>0, <1>2, <2>3, <2>4, <3>1
    <3> QED
      BY <2>3, <2>4, <3>2
  <2>5. CASE j # 0
    <3>1. j - 1 \in 0..k /\ ~(j <= j - 1)
      BY <2>3, <2>5
    <3>2. j - 1 \notin Bad
      BY <2>2, <3>1
    <3>3. PICK p \in Int : g[j - 1] = M(j - 1) + Circle * p
      BY <3>1, <3>2
    <3>4. M(j - 1) \in Angles /\ M(j) \in Angles
      BY <1>1, <2>3, <3>1
    <3>5. g[j] = UnwrapAngle(M(j - 1) + Circle * p, M(j))
      BY <1>0, <1>2, <2>3, <2>5, <3>3 DEF Follow
    <3>6. \E q \in Int : UnwrapAngle(M(j - 1) + Circle * p, M(j)) = M(j) + Circle * q
      BY <3>4, Unwrapped DEF Angles
    <3> QED
      BY <2>3, <3>5, <3>6
  <2> QED
    BY <2>4, <2>5
<1>4. k \notin Bad /\ k \in 0..k
  BY <1>3
<1> QED
  BY <1>4 DEF M

(* So, while none fails, the search hits where the moon comes in. *)
LEMMA HitsAreEntries ==
  ASSUME NEW path, Path(path), NEW s, PhaseSpec(s) \/ IlluminationSpec(s), NEW f \in Int, NEW N \in Nat,
         NEW g, Readings(path, s, f, N, g), NEW k \in 1..N, AllRead(path, f, k)
  PROVE  Crosses(s, g[k - 1], g[k]) <=>
           Enters(s, Reading(path, MoonMinute(f, k - 1)), Reading(path, MoonMinute(f, k)))
<1> DEFINE M(j) == Reading(path, MoonMinute(f, j))
<1>0. k \in 0..N /\ k - 1 \in 0..N /\ k # 0 /\ k \in Int /\ k - 1 \in Int
  OBVIOUS
<1>1. AllRead(path, f, k - 1)
  BY DEF AllRead
<1>2. g[k] = Follow(s, g[k - 1], M(k))
  BY <1>0 DEF Readings
<1>3. M(k) \in Angles /\ M(k - 1) \in Angles
  <2>1. MoonMinute(f, k) \in Int /\ MoonMinute(f, k - 1) \in Int
    BY <1>0, MoonMinutes
  <2>2. M(k) # -1 /\ M(k - 1) # -1
    BY <1>0 DEF AllRead
  <2> QED
    BY <2>1, <2>2, ReadingRange
<1>4. CASE PhaseSpec(s)
  <2>1. PICK p \in Int : g[k - 1] = M(k - 1) + Circle * p
    BY <1>0, <1>1, <1>4, PhaseReadings
  <2>2. g[k] = UnwrapAngle(M(k - 1) + Circle * p, M(k))
    BY <1>2, <1>4, <2>1 DEF Follow, PhaseSpec
  <2> HIDE DEF M
  <2>3. Crosses(s, M(k - 1) + Circle * p, UnwrapAngle(M(k - 1) + Circle * p, M(k))) <=> Enters(s, M(k - 1), M(k))
    BY <1>3, <1>4, PhaseCrosses DEF Angles
  <2> QED
    BY <2>1, <2>2, <2>3 DEF M
<1>5. CASE IlluminationSpec(s)
  <2>1. s.kind # "MoonPhase"
    BY <1>5 DEF IlluminationSpec
  <2>2. g[k] = M(k)
    BY <1>2, <2>1 DEF Follow
  <2>3. g[k - 1] = M(k - 1)
    <3>1. CASE k - 1 = 0
      <4>1. g[0] = M(0)
        BY <1>0 DEF Readings
      <4> QED
        BY <3>1, <4>1
    <3>2. CASE k - 1 # 0
      <4>1. g[k - 1] = Follow(s, g[k - 1 - 1], M(k - 1))
        BY <1>0, <3>2 DEF Readings
      <4> QED
        BY <2>1, <4>1 DEF Follow
    <3> QED
      BY <3>1, <3>2
  <2>4. M(k) \in Int /\ M(k - 1) \in Int
    BY <1>3, Bounds DEF Angles
  <2> HIDE DEF M
  <2>5. Crosses(s, M(k - 1), M(k)) <=> Enters(s, M(k - 1), M(k))
    BY <1>5, <2>4, IlluminationCrosses
  <2> QED
    BY <2>2, <2>3, <2>5 DEF M
<1> QED
  BY <1>4, <1>5

--------------------------------------------------------------------------------
(* The job *)

(* The inductive invariant: next is what the search from `from` finds. *)
Searched == spec # NoSpec /\ spec.kind = "Cron" => from \in Int /\ next = NextCron(spec, from)

(* A search of a cron spec answers with a time. *)
LEMMA AnswerTime ==
  ASSUME NEW s, NEW f \in Int, NEW t \in NextCron(s, f)
  PROVE  t \in Int
<1>1. PICK c \in Window(f) : CronMatches(s, c) /\ NextCron(s, f) = {Answer(c)}
  BY CronFinds
<1>2. c \in Int /\ MinutesIntoDay(c) >= 0
  BY <1>1, WindowIs DEF CronMatches
<1> QED
  BY <1>1, <1>2, AnswerDay

(* Every step of a job keeps it. *)
LEMMA SearchedNext ==
  ASSUME Searched, [CalcNext]_calcVars
  PROVE  Searched'
<1>1. CASE AddToCalendar
  <2>1. PICK s \in Specs, f \in 0..MaxFrom : spec' = s /\ from' = f /\ next' = Compute(s, f)
    BY <1>1 DEF AddToCalendar
  <2>2. f \in Int
    OBVIOUS
  <2>3. s.kind = "Cron" => Compute(s, f) = NextCron(s, f)
    BY DEF Compute
  <2> QED
    BY <2>1, <2>2, <2>3 DEF Searched
<1>2. CASE RunAndReschedule
  <2>1. PICK t \in next : from' = t + MinuteLen /\ next' = Compute(spec, t + MinuteLen) /\ spec' = spec
    BY <1>2 DEF RunAndReschedule
  <2>2. spec # NoSpec
    BY <1>2 DEF RunAndReschedule
  <2>3. ASSUME spec.kind = "Cron" PROVE t + MinuteLen \in Int /\ Compute(spec, t + MinuteLen) = NextCron(spec, t + MinuteLen)
    <3>1. t \in Int
      BY <2>1, <2>2, <2>3, AnswerTime DEF Searched
    <3>2. t + MinuteLen \in Int
      BY <3>1, Lengths
    <3> QED
      BY <2>3, <3>2 DEF Compute
  <2> QED
    BY <2>1, <2>2, <2>3 DEF Searched
<1>3. CASE UNCHANGED calcVars
  BY <1>3 DEF calcVars, Searched
<1> QED
  BY <1>1, <1>2, <1>3 DEF CalcNext

(* CronRunsEveryMatch: whatever the lengths of the calendar and the times   *)
(* of the clock changes, each search of a cron job                          *)
(* (computeNextCronOccurrence of schedule_calculator.cpp) finds the first   *)
(* minute its fields select by the local clock, as long as no day the       *)
(* search spans has a clock change.                                         *)
THEOREM CronSearches == CalcSpec => []CronRunsEveryMatch
<1>1. CalcInit => Searched
  BY DEF CalcInit, Searched
<1>2. Searched /\ [CalcNext]_calcVars => Searched'
  BY SearchedNext
<1>3. Searched => CronRunsEveryMatch
  <2>1. SUFFICES ASSUME Searched, spec.kind = "Cron",
                        \A t \in FirstByClock(spec, from) \cup next : NoChange(from, t)
                 PROVE  next = FirstByClock(spec, from)
    BY DEF CronRunsEveryMatch
  <2>2. spec # NoSpec
    BY <2>1 DEF NoSpec
  <2>3. from \in Int /\ next = NextCron(spec, from)
    BY <2>1, <2>2 DEF Searched
  <2> QED
    BY <2>1, <2>3, CronByClock
<1> QED
  BY <1>1, <1>2, <1>3, PTL DEF CalcSpec

(* A moon spec that validate accepts. *)
MoonSpec(s) == PhaseSpec(s) \/ IlluminationSpec(s)

MoonKinds == {"MoonPhase", "MoonIllumination"}

(* Where a search finds nothing, or k is the first hit, the moon came into  *)
(* the window in no minute before.                                          *)
LEMMA MoonAnswer ==
  ASSUME NEW path, Path(path), NEW s, MoonSpec(s), NEW f \in Int, NEW found, MoonFound(path, s, f, found)
  PROVE  LET M(j) == Reading(path, MoonMinute(f, j))
             N == MoonSearchMinutes
         IN \/ \E k \in 1..N : /\ found = {MoonMinute(f, k)}
                               /\ Enters(s, M(k - 1), M(k))
                               /\ \A j \in 1..N : Enters(s, M(j - 1), M(j)) => k <= j
            \/ found = {} /\ \A k \in 1..N : AllRead(path, f, k) => ~Enters(s, M(k - 1), M(k))
<1> DEFINE M(j) == Reading(path, MoonMinute(f, j))
           N == MoonSearchMinutes
<1>0. N \in Nat
  BY Bounds
<1>1. PICK g : /\ Readings(path, s, f, N, g)
               /\ found = IF MoonHits(s, g) = {} \/ (\E k \in MoonFails(path, f) : k <= Min(MoonHits(s, g)))
                          THEN {} ELSE {MoonMinute(f, Min(MoonHits(s, g)))}
  BY DEF MoonFound
<1> DEFINE hits == MoonHits(s, g)
<1>2. \A k : k \in hits <=> k \in 1..N /\ Crosses(s, g[k - 1], g[k])
  BY DEF MoonHits
<1>3. ASSUME NEW k \in 1..N, AllRead(path, f, k) PROVE k \in hits <=> Enters(s, M(k - 1), M(k))
  BY <1>0, <1>1, <1>2, <1>3, HitsAreEntries DEF MoonSpec
<1>4. ASSUME hits # {} PROVE Min(hits) \in hits /\ \A k \in hits : Min(hits) <= k
  <2>1. hits \subseteq Int /\ \A k \in hits : 0 <= k
    BY <1>2
  <2> HIDE DEF hits
  <2> QED
    BY <1>4, <2>1, LeastFrom, 0 \in Int
<1>5. ASSUME NEW k \in 0..N PROVE AllRead(path, f, k) <=> ~ \E j \in MoonFails(path, f) : j <= k
  BY <1>0 DEF AllRead, MoonFails
<1> HIDE DEF M, hits
<1>6. CASE found # {}
  <2> DEFINE k == Min(hits)
  <2>1. k \in hits /\ (\A j \in hits : k <= j) /\ found = {MoonMinute(f, k)}
    BY <1>1, <1>4, <1>6 DEF hits
  <2>2. ~ \E j \in MoonFails(path, f) : j <= k
    BY <1>1, <1>6 DEF hits
  <2> HIDE DEF k
  <2>3. k \in 1..N /\ k \in 0..N
    BY <1>0, <1>2, <2>1
  <2>4. AllRead(path, f, k)
    BY <1>5, <2>2, <2>3
  <2>5. Enters(s, M(k - 1), M(k))
    BY <1>3, <2>1, <2>3, <2>4
  <2>6. ASSUME NEW j \in 1..N, Enters(s, M(j - 1), M(j)), j < k PROVE FALSE
    <3>1. AllRead(path, f, j)
      BY <2>3, <2>4, <2>6 DEF AllRead
    <3>2. j \in hits
      BY <1>3, <2>6, <3>1
    <3> QED
      BY <2>1, <2>3, <2>6, <3>2
  <2>7. \A j \in 1..N : Enters(s, M(j - 1), M(j)) => k <= j
    BY <1>0, <2>3, <2>6
  <2> QED
    BY <2>1, <2>3, <2>5, <2>7 DEF M
<1>7. CASE found = {}
  <2>1. ASSUME NEW k \in 1..N, AllRead(path, f, k), Enters(s, M(k - 1), M(k)) PROVE FALSE
    <3>1. k \in hits
      BY <1>3, <2>1
    <3>2. Min(hits) \in hits /\ Min(hits) <= k
      BY <1>4, <3>1
    <3>3. Min(hits) \in 0..N /\ k \in 0..N
      BY <1>0, <1>2, <3>2
    <3>4. AllRead(path, f, Min(hits))
      BY <2>1, <3>2, <3>3 DEF AllRead
    <3>5. ~ \E j \in MoonFails(path, f) : j <= Min(hits)
      BY <1>5, <3>3, <3>4
    <3> QED
      BY <1>1, <1>7, <3>1, <3>5 DEF hits
  <2> QED
    BY <1>7, <2>1 DEF M
<1> QED
  BY <1>6, <1>7

(* A whole minute is rounded to itself. *)
LEMMA RoundedAlready ==
  ASSUME NEW x \in Int, Whole(x)
  PROVE  RoundToNextMinute(x) = x
<1>0. MinuteLen \in Nat \ {0}
  BY Lengths
<1>1. PICK m \in Int : x = MinuteLen * m
  BY DEF Whole
<1> DEFINE y == x + MinuteLen - 1
           r == MinuteLen - 1
<1>2. y \in Int /\ r \in Int /\ y = MinuteLen * m + r /\ 0 <= r /\ r < MinuteLen
  BY <1>0, <1>1
<1> HIDE DEF y, r
<1>3. y \div MinuteLen = m
  BY <1>0, <1>2, Quotient
<1>4. RoundToNextMinute(x) = m * MinuteLen
  BY <1>3 DEF RoundToNextMinute, y
<1> QED
  BY <1>0, <1>1, <1>4

(* The minutes the property speaks of are those of the search. *)
LEMMA MoonWindow ==
  ASSUME NEW f \in Int
  PROVE  LET start == RoundToNextMinute(f)
             searched == MinutesOf(start, start + (MoonSearchMinutes - 1) * MinuteLen)
         IN /\ \A t \in searched : \E k \in 1..MoonSearchMinutes : t = MoonMinute(f, k)
            /\ \A k \in 1..MoonSearchMinutes : MoonMinute(f, k) \in searched
<1> DEFINE start == RoundToNextMinute(f)
           N == MoonSearchMinutes
           searched == MinutesOf(start, start + (N - 1) * MinuteLen)
<1>0. N \in Nat /\ start \in Int /\ Whole(start)
  BY Bounds, Rounded
<1>1. RoundToNextMinute(start) = start
  BY <1>0, RoundedAlready
<1> HIDE DEF start, N
<1>2. searched = First(start, N)
  BY <1>1 DEF First
<1>3. /\ \A t \in searched : \E k \in 0..(N - 1) : t = start + k * MinuteLen
      /\ \A k \in 0..(N - 1) : start + k * MinuteLen \in searched
  <2> HIDE DEF searched
  <2> QED
    BY <1>0, <1>1, <1>2, MinutesAre
<1> HIDE DEF searched
<1>4. ASSUME NEW t \in searched PROVE \E k \in 1..N : t = MoonMinute(f, k)
  <2>1. PICK k \in 0..(N - 1) : t = start + k * MinuteLen
    BY <1>3
  <2>2. k + 1 \in 1..N /\ (k + 1) - 1 = k
    BY <1>0
  <2>3. t = MoonMinute(f, k + 1)
    BY <2>1, <2>2 DEF MoonMinute, start
  <2> QED
    BY <2>2, <2>3
<1>5. ASSUME NEW k \in 1..N PROVE MoonMinute(f, k) \in searched
  <2>1. k - 1 \in 0..(N - 1)
    BY <1>0
  <2> QED
    BY <1>3, <2>1 DEF MoonMinute, start
<1> QED
  BY <1>4, <1>5 DEF searched, start, N

(* A search of the moon's phase or illumination finds the first minute in   *)
(* which the moon comes into the window.                                    *)
LEMMA MoonByCrossing ==
  ASSUME Path(moon), MoonSpec(spec), from \in Int, MoonFound(moon, spec, from, next)
  PROVE  MoonRunsAtCrossing
<1> DEFINE start == RoundToNextMinute(from)
           N == MoonSearchMinutes
           searched == MinutesOf(start, start + (N - 1) * MinuteLen)
           enters(t) == LET a == MoonAt(t - MinuteLen) IN
                        ~InWindow(spec, a) /\ \E v \in Passed(spec, a, MoonAt(t)) : InWindow(spec, v)
           first == {t \in searched : enters(t) /\ \A u \in searched : enters(u) => t <= u}
           known == \A t \in first : \A u \in MinutesOf(start - MinuteLen, t) : MoonAt(u) # -1
           M(j) == Reading(moon, MoonMinute(from, j))
<1>1. MoonRunsAtCrossing <=> (spec.kind \in MoonKinds => (known => next = first))
  BY DEF MoonRunsAtCrossing, MoonKinds
<1>2. /\ \A t \in searched : \E k \in 1..N : t = MoonMinute(from, k)
      /\ \A k \in 1..N : MoonMinute(from, k) \in searched
  BY MoonWindow
<1>3. ASSUME NEW k \in 1..N PROVE enters(MoonMinute(from, k)) <=> Enters(spec, M(k - 1), M(k))
  <2>1. MoonMinute(from, k) - MinuteLen = MoonMinute(from, k - 1)
    BY MoonMinutes
  <2> QED
    BY <2>1 DEF Enters, MoonAt, Reading
<1>4. ASSUME NEW k \in 1..N, NEW j \in 1..N
      PROVE  (j <= k) <=> (MoonMinute(from, j) <= MoonMinute(from, k))
  BY MoonMinutes
<1>4a. ASSUME NEW k \in 1..N PROVE MoonMinute(from, k) \in Int
  BY MoonMinutes
<1>5. ASSUME NEW k \in 1..N, MoonMinute(from, k) \in first, known PROVE AllRead(moon, from, k)
  <2>1. ASSUME NEW j \in 0..k PROVE M(j) # -1
    <3> DEFINE u == MoonMinute(from, j)
    <3>1. j \in Int /\ k \in Int /\ 0 <= j /\ j <= k /\ 0 \in Int
      OBVIOUS
    <3>2. u \in Int /\ Whole(u) /\ u <= MoonMinute(from, k) /\ MoonMinute(from, k) \in Int
      BY <3>1, MoonMinutes
    <3>3. MoonMinute(from, 0) <= u /\ MoonMinute(from, 0) = start - MinuteLen
      BY <3>1, MoonMinutes
    <3>4. start - MinuteLen \in Int /\ RoundToNextMinute(start - MinuteLen) = start - MinuteLen
      <4>1. MoonMinute(from, 0) \in Int /\ Whole(MoonMinute(from, 0))
        BY <3>1, MoonMinutes
      <4> QED
        BY <3>3, <4>1, RoundedAlready
    <3> HIDE DEF u
    <3>5. u % MinuteLen = 0
      <4>1. PICK m \in Int : u = MinuteLen * m
        BY <3>2 DEF Whole
      <4>2. MinuteLen \in Nat \ {0} /\ u = MinuteLen * m + 0 /\ 0 \in Int /\ 0 < MinuteLen
        BY <3>2, <4>1, Lengths
      <4>3. u \in Int
        BY <3>2
      <4> QED
        BY ONLY <4>2, <4>3, m \in Int, Quotient
    <3>6. u \in MinutesOf(start - MinuteLen, MoonMinute(from, k))
      BY <3>2, <3>3, <3>4, <3>5 DEF MinutesOf
    <3>7. MoonAt(u) # -1
      BY <1>5, <3>6
    <3> QED
      BY <3>7 DEF MoonAt, Reading, u
  <2> QED
    BY <2>1 DEF AllRead
<1> SUFFICES ASSUME known PROVE next = first
  BY <1>1
<1>6. \/ \E k \in 1..N : /\ next = {MoonMinute(from, k)}
                         /\ Enters(spec, M(k - 1), M(k))
                         /\ \A j \in 1..N : Enters(spec, M(j - 1), M(j)) => k <= j
      \/ next = {} /\ \A k \in 1..N : AllRead(moon, from, k) => ~Enters(spec, M(k - 1), M(k))
  BY MoonAnswer
<1>7. \A t : t \in first <=> t \in searched /\ enters(t) /\ \A u \in searched : enters(u) => t <= u
  OBVIOUS
<1> HIDE DEF known, first, enters, searched, M, start, N
<1>8. ASSUME NEW k \in 1..N, next = {MoonMinute(from, k)}, Enters(spec, M(k - 1), M(k)),
             \A j \in 1..N : Enters(spec, M(j - 1), M(j)) => k <= j
      PROVE  next = first
  <2>1. MoonMinute(from, k) \in searched /\ enters(MoonMinute(from, k))
    BY <1>2, <1>3, <1>8
  <2>2. ASSUME NEW u \in searched, enters(u) PROVE MoonMinute(from, k) <= u
    <3>1. PICK j \in 1..N : u = MoonMinute(from, j)
      BY <1>2
    <3>2. k <= j
      BY <1>3, <1>8, <2>2, <3>1
    <3> QED
      BY <1>4, <3>1, <3>2
  <2>3. MoonMinute(from, k) \in first
    BY <1>7, <2>1, <2>2
  <2>4. ASSUME NEW t \in first PROVE t = MoonMinute(from, k)
    <3>1. t \in searched /\ enters(t) /\ t <= MoonMinute(from, k)
      BY <1>7, <2>1
    <3>2. MoonMinute(from, k) <= t
      BY <2>2, <3>1
    <3>3. t \in Int /\ MoonMinute(from, k) \in Int
      BY <1>2, <1>4a, <3>1
    <3> QED
      BY <3>1, <3>2, <3>3
  <2> QED
    BY <1>8, <2>3, <2>4
<1>9. ASSUME next = {}, \A k \in 1..N : AllRead(moon, from, k) => ~Enters(spec, M(k - 1), M(k)),
             NEW t \in first
      PROVE  FALSE
  <2>1. t \in searched /\ enters(t)
    BY <1>7
  <2>2. PICK k \in 1..N : t = MoonMinute(from, k)
    BY <1>2, <2>1
  <2>3. AllRead(moon, from, k)
    BY <1>5, <2>2
  <2> QED
    BY <1>3, <1>9, <2>1, <2>2, <2>3
<1> QED
  BY <1>6, <1>8, <1>9

(* The inductive invariant for moon jobs. *)
MoonSearched ==
  /\ moon \in MoonPaths
  /\ spec # NoSpec /\ spec.kind \in MoonKinds =>
       MoonSpec(spec) /\ from \in Int /\ MoonFound(moon, spec, from, next)

(* What a moon search answers with is a minute. *)
LEMMA MoonTime ==
  ASSUME NEW path, NEW s, NEW f \in Int, NEW found, MoonFound(path, s, f, found), NEW t \in found
  PROVE  t \in Int
<1>0. MoonSearchMinutes \in Nat
  BY Bounds
<1>1. PICK g : found = IF MoonHits(s, g) = {} \/ (\E k \in MoonFails(path, f) : k <= Min(MoonHits(s, g)))
                       THEN {} ELSE {MoonMinute(f, Min(MoonHits(s, g)))}
  BY DEF MoonFound
<1> DEFINE hits == MoonHits(s, g)
<1>2. hits # {} /\ t = MoonMinute(f, Min(hits))
  BY <1>1
<1>3. hits \subseteq Int /\ \A k \in hits : 0 <= k
  BY <1>0 DEF MoonHits
<1> HIDE DEF hits
<1>4. Min(hits) \in Int
  BY <1>2, <1>3, LeastFrom, 0 \in Int
<1> QED
  BY <1>2, <1>4, MoonMinutes

(* Every step of a job keeps it. *)
LEMMA MoonSearchedNext ==
  ASSUME MoonSearched, [CalcNext]_calcVars
  PROVE  MoonSearched'
<1>0. \A s, f : s.kind \in MoonKinds => Compute(s, f) = NextMoon(s, f)
  BY DEF Compute, MoonKinds
<1>1. CASE AddToCalendar
  <2>1. PICK s \in Specs, f \in 0..MaxFrom :
          Validate(s) /\ spec' = s /\ from' = f /\ next' = Compute(s, f) /\ moon' = moon
    BY <1>1 DEF AddToCalendar
  <2>2. f \in Int
    OBVIOUS
  <2>3. ASSUME s.kind \in MoonKinds PROVE MoonSpec(s)
    <3>1. MaxTolerance \in Nat
      BY Bounds
    <3>2. CASE s.kind = "MoonPhase"
      <4>1. s.center \in 0..(Circle - 1) /\ s.tolerance \in 0..MaxTolerance
        BY <2>1, <3>2 DEF Validate
      <4>2. s.tolerance \in Nat
        BY <3>1, <4>1
      <4> QED
        BY <3>2, <4>1, <4>2 DEF MoonSpec, PhaseSpec
    <3>3. CASE s.kind = "MoonIllumination"
      <4>1. s.center \in 0..100 /\ s.tolerance \in 1..50
        BY <2>1, <3>3 DEF Validate
      <4>2. s.center \in Int /\ s.tolerance \in Nat
        BY <4>1
      <4> QED
        BY <3>3, <4>2 DEF MoonSpec, IlluminationSpec
    <3> QED
      BY <2>3, <3>2, <3>3 DEF MoonKinds
  <2>4. ASSUME s.kind \in MoonKinds PROVE MoonFound(moon', spec', from', next')
    <3>1. MoonFound(moon, s, f, NextMoon(s, f))
      BY MoonSearch
    <3> QED
      BY <1>0, <2>1, <2>4, <3>1
  <2> QED
    BY <2>1, <2>2, <2>3, <2>4 DEF MoonSearched
<1>2. CASE RunAndReschedule
  <2>1. PICK t \in next : from' = t + MinuteLen /\ next' = Compute(spec, t + MinuteLen)
    BY <1>2 DEF RunAndReschedule
  <2>2. spec # NoSpec /\ spec' = spec /\ moon' = moon
    BY <1>2 DEF RunAndReschedule
  <2>3. ASSUME spec.kind \in MoonKinds PROVE t + MinuteLen \in Int /\ MoonFound(moon', spec', from', next')
    <3>1. t \in Int
      BY <2>1, <2>2, <2>3, MoonTime DEF MoonSearched
    <3>2. t + MinuteLen \in Int
      BY <3>1, Lengths
    <3>3. MoonFound(moon, spec, t + MinuteLen, NextMoon(spec, t + MinuteLen))
      BY MoonSearch
    <3>4. next' = NextMoon(spec, t + MinuteLen)
      BY <1>0, <2>1, <2>3
    <3> QED
      BY <2>1, <2>2, <3>2, <3>3, <3>4
  <2> QED
    BY <2>1, <2>2, <2>3 DEF MoonSearched
<1>3. CASE UNCHANGED calcVars
  BY <1>3 DEF calcVars, MoonSearched
<1> QED
  BY <1>1, <1>2, <1>3 DEF CalcNext

(* MoonRunsAtCrossing: for every circle, window and sequence of readings,   *)
(* each search of a moon job (computeNextMoonPhaseOccurrence and            *)
(* computeNextMoonIlluminationOccurrence of schedule_calculator.cpp) finds  *)
(* the first minute in which the moon comes into the window, whatever turn  *)
(* unwrapAngle has counted to.                                              *)
THEOREM MoonSearches == CalcSpec => []MoonRunsAtCrossing
<1>1. CalcInit => MoonSearched
  BY DEF CalcInit, MoonSearched
<1>2. MoonSearched /\ [CalcNext]_calcVars => MoonSearched'
  BY MoonSearchedNext
<1>3. MoonSearched => MoonRunsAtCrossing
  <2>1. SUFFICES ASSUME MoonSearched, spec.kind \in MoonKinds PROVE MoonRunsAtCrossing
    BY DEF MoonRunsAtCrossing, MoonKinds
  <2>2. spec # NoSpec
    BY <2>1 DEF NoSpec, MoonKinds
  <2>3. Path(moon)
    BY <2>1, CalendarAssumption DEF MoonSearched, Path
  <2> QED
    BY <2>1, <2>2, <2>3, MoonByCrossing DEF MoonSearched
<1> QED
  BY <1>1, <1>2, <1>3, PTL DEF CalcSpec

--------------------------------------------------------------------------------
(* The sun *)

(* The clocks are not changed from three days before f until n + 1 days     *)
(* after it.                                                                *)
Still(f, n) ==
  \A t \in (f - (2 * DayLen + HourLen))..(f + (n + 1) * DayLen) : Offset(t) = Offset(f)

(* The local days from the one before f to the n-th after it. *)
Around(f, n, d) == LocalDay(f) - 1 <= d /\ d <= LocalDay(f) + n

(* The time at which local clocks show l, on one of these days. *)
LEMMA StillLocal ==
  ASSUME NEW f \in Int, NEW n \in Nat, Still(f, n), NEW d \in Int, Around(f, n, d), NEW l \in Int,
         DayLen * d <= l, l < DayLen * d + DayLen
  PROVE  /\ TimeOfLocal(l) = l - Offset(f) /\ l - Offset(f) \in Int
         /\ LocalClock(l - Offset(f)) = l /\ LocalDay(l - Offset(f)) = d
<1> DEFINE o == Offset(f)
           X == DayLen * LocalDay(f)
           Y == DayLen * n
<1>0. /\ o \in {0, HourLen} /\ HourLen \in Nat \ {0} /\ DayLen \in Nat \ {0} /\ HourLen <= DayLen
      /\ LocalDay(f) \in Int /\ X \in Int
  BY Clocks, Lengths, Bounds
<1>1. X <= f + o /\ f + o < X + DayLen
  BY DayBounds
<1>2. Y \in Nat /\ (n + 1) * DayLen = Y + DayLen
  BY <1>0
<1>3. DayLen * (LocalDay(f) - 1) = X - DayLen /\ DayLen * (LocalDay(f) + n) = X + Y
  BY <1>0
<1> HIDE DEF o, X, Y
<1>4. X - DayLen <= DayLen * d /\ DayLen * d \in Int
  <2>1. DayLen * (d - (LocalDay(f) - 1)) >= 0
    <3>1. d - (LocalDay(f) - 1) \in Nat
      BY <1>0 DEF Around
    <3> QED
      BY <1>0, <3>1
  <2>2. DayLen * (d - (LocalDay(f) - 1)) = DayLen * d - DayLen * (LocalDay(f) - 1) /\ DayLen * d \in Int
    BY <1>0
  <2> QED
    BY <1>0, <1>3, <2>1, <2>2
<1>5. DayLen * d <= X + Y
  <2>1. DayLen * (LocalDay(f) + n - d) >= 0
    <3>1. LocalDay(f) + n - d \in Nat
      BY <1>0 DEF Around
    <3> QED
      BY <1>0, <3>1
  <2>2. DayLen * (LocalDay(f) + n - d) = DayLen * (LocalDay(f) + n) - DayLen * d
    BY <1>0
  <2> QED
    BY <1>0, <1>2, <1>3, <1>4, <2>1, <2>2
<1>6. \A t \in (f - (2 * DayLen + HourLen))..(f + (Y + DayLen)) : Offset(t) = o
  BY <1>2 DEF Still, o
<1>7. Offset(l - HourLen) = o /\ l - HourLen \in Int
  <2>1. l - HourLen \in (f - (2 * DayLen + HourLen))..(f + (Y + DayLen))
    BY <1>0, <1>1, <1>2, <1>4, <1>5
  <2> QED
    BY <1>0, <1>6, <2>1
<1>8. Offset(l - o) = o /\ l - o \in Int
  <2>1. l - o \in (f - (2 * DayLen + HourLen))..(f + (Y + DayLen))
    BY <1>0, <1>1, <1>2, <1>4, <1>5
  <2> QED
    BY <1>0, <1>6, <2>1
<1>9. LocalClock(l - o) = l
  BY <1>0, <1>8 DEF LocalClock
<1>10. LocalDay(l - o) = d
  BY <1>8, <1>9, DayOf
<1>11. TimeOfLocal(l) = l - o
  BY <1>0, <1>7 DEF TimeOfLocal, LocalClock
<1> QED
  BY <1>8, <1>9, <1>10, <1>11 DEF o

(* The run of the local day d, when clocks are ahead by o. *)
SunRun(s, o, d) ==
  IF InTurn(SunTimes, d) = -1 THEN {}
  ELSE {DayLen * d + InTurn(SunTimes, d) - o + s.offset * MinuteLen}

(* Sunrises and sunsets are times of their day. *)
LEMMA SunRange ==
  ASSUME NEW d \in Int
  PROVE  /\ InTurn(SunTimes, d) \in (-1)..(DayLen - 1)
         /\ \E i \in DOMAIN SunTimes : InTurn(SunTimes, d) = SunTimes[i]
<1> DEFINE n == Len(SunTimes)
           x == (d % n) + 1
           S == (-1)..(DayLen - 1)
<1>1. SunTimes \in Seq(S) /\ SunTimes # <<>>
  BY CalendarAssumption
<1> HIDE DEF S
<1>2. n \in Nat \ {0} /\ DOMAIN SunTimes = 1..n
  BY <1>1
<1> HIDE DEF n
<1>3. d % n \in Int /\ 0 <= d % n /\ d % n < n
  BY <1>2, Division
<1>4. x \in 1..n
  BY <1>2, <1>3
<1>5. InTurn(SunTimes, d) = SunTimes[x]
  BY DEF InTurn, n
<1> HIDE DEF x
<1>6. SunTimes[x] \in S
  BY <1>1, <1>2, <1>4
<1> QED
  BY <1>2, <1>4, <1>5, <1>6 DEF S

(* What SunOf says of a time of one of these days, with the offset.          *)
LEMMA SunRuns ==
  ASSUME NEW s, s.offset \in Int, NEW f \in Int, NEW n \in Nat, Still(f, n), NEW d \in Int, Around(f, n, d),
         NEW t \in Int, LocalDay(t) = d
  PROVE  {u + s.offset * MinuteLen : u \in SunOf(t)} = SunRun(s, Offset(f), d)
<1> DEFINE second == InTurn(SunTimes, d)
<1>0. DayLen \in Nat \ {0} /\ DayLen * d \in Int /\ d * DayLen = DayLen * d
  BY Lengths
<1>1. SunOf(t) = IF second = -1 THEN {} ELSE {TimeOfLocal(d * DayLen + second)}
  BY DEF SunOf
<1>2. second \in (-1)..(DayLen - 1)
  BY SunRange
<1> HIDE DEF second
<1>3. ASSUME second # -1 PROVE TimeOfLocal(d * DayLen + second) = DayLen * d + second - Offset(f)
  <2>1. /\ DayLen * d + second \in Int /\ DayLen * d <= DayLen * d + second
        /\ DayLen * d + second < DayLen * d + DayLen
    BY <1>0, <1>2, <1>3
  <2> DEFINE l == DayLen * d + second
  <2>2. d * DayLen + second = l
    BY <1>0
  <2>3. l \in Int /\ DayLen * d <= l /\ l < DayLen * d + DayLen
    BY <2>1
  <2> HIDE DEF l
  <2>4. TimeOfLocal(l) = l - Offset(f)
    BY <2>3, StillLocal
  <2>5. TimeOfLocal(d * DayLen + second) = l - Offset(f)
    BY <2>2, <2>4
  <2>6. Offset(f) \in Int /\ second \in Int
    BY <1>2, DayBounds
  <2> QED
    BY <1>0, <2>3, <2>5, <2>6 DEF l
<1> QED
  BY <1>1, <1>3 DEF SunRun, second

(* A later day has the later run. *)
LEMMA RunsInOrder ==
  ASSUME NEW s, s.offset \in Int, NEW o \in Int, NEW d \in Int, NEW e \in Int,
         NEW t \in SunRun(s, o, d), NEW u \in SunRun(s, o, e)
  PROVE  t \in Int /\ u \in Int /\ (d <= e => t <= u)
<1>0. DayLen \in Nat \ {0} /\ DayLen * d \in Int /\ DayLen * e \in Int /\ s.offset * MinuteLen \in Int
  BY Lengths
<1>1. InTurn(SunTimes, d) \in (-1)..(DayLen - 1) /\ InTurn(SunTimes, e) \in (-1)..(DayLen - 1)
  BY SunRange
<1>2. /\ InTurn(SunTimes, d) # -1 /\ t = DayLen * d + InTurn(SunTimes, d) - o + s.offset * MinuteLen
      /\ InTurn(SunTimes, e) # -1 /\ u = DayLen * e + InTurn(SunTimes, e) - o + s.offset * MinuteLen
  BY DEF SunRun
<1>3. t \in Int /\ u \in Int
  BY <1>0, <1>1, <1>2
<1>4. CASE d < e
  <2>1. DayLen * d + DayLen <= DayLen * e
    BY <1>0, <1>4, Multiples
  <2> QED
    BY <1>0, <1>1, <1>2, <1>3, <2>1
<1>5. CASE d = e
  BY <1>2, <1>3, <1>5
<1> QED
  BY <1>3, <1>4, <1>5

(* The minute a sun search starts with, and its day. *)
LEMMA SunStart ==
  ASSUME NEW f \in Int, NEW n \in Nat, Still(f, n)
  PROVE  LET R == RoundToNextMinute(f) IN
         /\ R \in Int /\ Offset(R) = Offset(f)
         /\ LocalDay(R) \in Int /\ LocalDay(f) <= LocalDay(R) /\ LocalDay(R) <= LocalDay(f) + 1
<1> DEFINE R == RoundToNextMinute(f)
           X == DayLen * LocalDay(f)
           Y == DayLen * n
<1>0. /\ R \in Int /\ f <= R /\ R < f + MinuteLen /\ MinuteLen \in Nat \ {0}
      /\ DayLen \in Nat \ {0} /\ HourLen \in Nat
  BY Rounded, Lengths, Bounds
<1>1. MinuteLen <= DayLen
  <2>1. /\ MinuteLen \in Nat /\ HourMinutes \in Nat \ {0} /\ HourLen \in Nat /\ HourLen <= DayLen
        /\ HourLen = MinuteLen * HourMinutes
    BY Lengths
  <2>2. MinuteLen * (HourMinutes - 1) >= 0 /\ MinuteLen * (HourMinutes - 1) = HourLen - MinuteLen
    BY <2>1
  <2> QED
    BY <1>0, <2>1, <2>2
<1>2. Y \in Nat /\ (n + 1) * DayLen = Y + DayLen
  BY <1>0
<1> HIDE DEF R, Y
<1>3. R \in (f - (2 * DayLen + HourLen))..(f + (Y + DayLen))
  BY <1>0, <1>1, <1>2
<1>4. Offset(R) = Offset(f)
  BY <1>2, <1>3 DEF Still
<1>5. /\ LocalClock(f) = f + Offset(f) /\ LocalClock(R) = R + Offset(f) /\ Offset(f) \in Int
      /\ LocalDay(f) \in Int /\ LocalDay(R) \in Int /\ X \in Int /\ LocalClock(f) < X + DayLen
      /\ DayLen * LocalDay(R) <= LocalClock(R) /\ DayLen * LocalDay(R) \in Int
  BY <1>0, <1>4, DayBounds
<1>6. LocalDay(f) <= LocalDay(R)
  <2>1. LocalClock(f) <= LocalClock(R)
    BY <1>0, <1>5
  <2> QED
    BY <1>0, <2>1, DayOrder
<1>7. ~(LocalDay(f) + 1 < LocalDay(R))
  <2>1. LocalDay(f) + 1 \in Int /\ DayLen * (LocalDay(f) + 1) = X + DayLen
    BY <1>0, <1>5
  <2>2. LocalDay(f) + 1 < LocalDay(R) => DayLen * (LocalDay(f) + 1) + DayLen <= DayLen * LocalDay(R)
    BY <1>0, <1>5, <2>1, Multiples
  <2> HIDE DEF X
  <2> QED
    BY <1>0, <1>1, <1>5, <2>1, <2>2
<1> QED
  BY <1>0, <1>4, <1>5, <1>6, <1>7 DEF R

(* The day of the k-th step of a sun search, and the run it finds. *)
LEMMA SunSteps ==
  ASSUME NEW s, s.offset \in Int, NEW f \in Int, NEW n \in Nat, Still(f, n), NEW k \in Nat,
         LocalDay(RoundToNextMinute(f)) + k <= LocalDay(f) + n
  PROVE  LET R == RoundToNextMinute(f)
             D == LocalDay(R)
         IN {t + s.offset * MinuteLen : t \in SunOf(StartOfDayLocal(R) + k * DayLen)}
              = SunRun(s, Offset(f), D + k)
<1> DEFINE R == RoundToNextMinute(f)
           D == LocalDay(R)
           o == Offset(f)
<1>0. /\ R \in Int /\ D \in Int /\ LocalDay(f) <= D /\ D <= LocalDay(f) + 1 /\ LocalDay(f) \in Int
      /\ D + k <= LocalDay(f) + n
      /\ DayLen \in Nat \ {0}
  BY SunStart, Clocks, Bounds, Lengths
<1> HIDE DEF R, D
<1>1. Around(f, n, D) /\ Around(f, n, D + k) /\ D + k \in Int
  BY <1>0 DEF Around
<1>2. DayLen * D \in Int /\ D * DayLen = DayLen * D /\ k * DayLen \in Int
  BY <1>0
<1>3. StartOfDayLocal(R) = DayLen * D - o /\ DayLen * D - o \in Int
  <2> DEFINE l == DayLen * D
  <2>1. l \in Int /\ DayLen * D <= l /\ l < DayLen * D + DayLen
    BY <1>0, <1>2
  <2> HIDE DEF l
  <2>2. TimeOfLocal(l) = l - o /\ l - o \in Int
    BY <1>0, <1>1, <2>1, StillLocal
  <2>3. StartOfDayLocal(R) = TimeOfLocal(l)
    BY <1>2 DEF StartOfDayLocal, l, D
  <2>4. StartOfDayLocal(R) = l - o
    BY <2>2, <2>3
  <2> QED
    BY <2>2, <2>4 DEF l
<1> DEFINE l == DayLen * (D + k)
<1>4. l \in Int /\ l = DayLen * D + k * DayLen
  BY <1>0
<1>5. DayLen * (D + k) <= l /\ l < DayLen * (D + k) + DayLen
  BY <1>0, <1>4
<1> HIDE DEF l
<1>6. LocalDay(l - o) = D + k /\ l - o \in Int
  BY <1>1, <1>4, <1>5, StillLocal
<1>7. StartOfDayLocal(R) + k * DayLen = l - o
  <2>1. o \in Int
    BY Clocks, Lengths
  <2> QED
    BY <1>2, <1>3, <1>4, <2>1
<1>8. {t + s.offset * MinuteLen : t \in SunOf(l - o)} = SunRun(s, o, D + k)
  BY <1>1, <1>6, SunRuns
<1> QED
  BY <1>7, <1>8 DEF R, D, o

(* A run that stays in its day is over when the next day begins. *)
LEMMA RunsSameDay ==
  ASSUME NEW s, s.offset \in Int, \A i \in DOMAIN SunTimes : SunTimes[i] + s.offset * MinuteLen < DayLen,
         NEW R \in Int, NEW d \in Int, d < LocalDay(R), NEW t \in SunRun(s, Offset(R), d)
  PROVE  t < R
<1>0. /\ DayLen \in Nat \ {0} /\ DayLen * d \in Int /\ s.offset * MinuteLen \in Int
      /\ Offset(R) \in Int /\ LocalClock(R) = R + Offset(R) /\ LocalDay(R) \in Int
      /\ DayLen * LocalDay(R) \in Int /\ DayLen * LocalDay(R) <= LocalClock(R)
  BY Lengths, DayBounds
<1>1. InTurn(SunTimes, d) \in Int /\ InTurn(SunTimes, d) + s.offset * MinuteLen < DayLen
  BY <1>0, SunRange
<1>2. t = DayLen * d + InTurn(SunTimes, d) - Offset(R) + s.offset * MinuteLen
  BY DEF SunRun
<1>3. DayLen * d + DayLen <= DayLen * LocalDay(R)
  BY <1>0, Multiples
<1> QED
  BY <1>0, <1>1, <1>2, <1>3

(* A local clock that shows l shows no less, and the time is at most an     *)
(* hour behind it.                                                          *)
LEMMA LocalTimes ==
  ASSUME NEW l \in Int
  PROVE  /\ TimeOfLocal(l) \in Int /\ l - HourLen <= TimeOfLocal(l)
         /\ l <= LocalClock(TimeOfLocal(l))
<1>0. HourLen \in Nat /\ l - HourLen \in Int
  BY Lengths
<1>1. CASE LocalClock(l - HourLen) = l
  BY <1>0, <1>1 DEF TimeOfLocal
<1>2. CASE LocalClock(l - HourLen) # l
  <2>1. TimeOfLocal(l) = l
    BY <1>2 DEF TimeOfLocal
  <2>2. LocalClock(l) = l + Offset(l) /\ Offset(l) \in {0, HourLen}
    BY Clocks
  <2> QED
    BY <1>0, <2>1, <2>2
<1> QED
  BY <1>1, <1>2

(* Whatever clocks do, no sunrise of a day is more than an hour before it.   *)
LEMMA NotBeforeDay ==
  ASSUME NEW d \in Int, NEW u \in SunOf(TimeOfLocal(d * DayLen))
  PROVE  u \in Int /\ DayLen * d - HourLen <= u
<1> DEFINE l == d * DayLen
           x == TimeOfLocal(l)
           e == LocalDay(x)
           second == InTurn(SunTimes, e)
           y == e * DayLen + second
<1>0. HourLen \in Nat /\ DayLen \in Nat \ {0} /\ l \in Int /\ l = DayLen * d /\ DayLen * d \in Int
  BY Lengths
<1> HIDE DEF l
<1>1. x \in Int /\ l <= LocalClock(x)
  BY <1>0, LocalTimes
<1>2. u = TimeOfLocal(y) /\ second # -1
  BY DEF SunOf, l
<1> HIDE DEF x
<1>3. e \in Int /\ LocalClock(x) < DayLen * e + DayLen /\ DayLen * e \in Int /\ LocalClock(x) \in Int
  BY <1>1, DayBounds, Clocks
<1>4. second \in (-1)..(DayLen - 1)
  BY <1>3, SunRange
<1> HIDE DEF e, second
<1>5. ~(e < d)
  BY <1>0, <1>1, <1>3, Multiples
<1>6. DayLen * d <= DayLen * e
  <2>1. e - d \in Nat
    BY <1>3, <1>5
  <2>2. DayLen * (e - d) >= 0 /\ DayLen * (e - d) = DayLen * e - DayLen * d
    BY <1>0, <1>3, <2>1
  <2> QED
    BY <1>0, <1>3, <2>2
<1>7. second \in Nat /\ e * DayLen = DayLen * e
  BY <1>0, <1>2, <1>3, <1>4
<1>8. y \in Int /\ DayLen * d <= y
  BY <1>0, <1>3, <1>6, <1>7
<1> HIDE DEF y
<1>9. u \in Int /\ y - HourLen <= u
  BY <1>2, <1>8, LocalTimes
<1> QED
  BY <1>0, <1>8, <1>9

(* Clocks are not changed near f, nor until the day after the first on      *)
(* which a run of s is due.                                                 *)
Calm(s, f) ==
  \E n \in 1..(SunSearchDays - 1) :
    /\ Still(f, n)
    /\ \E d \in LocalDay(f)..(LocalDay(f) + n - 1) :
         \E t \in SunOf(TimeOfLocal(d * DayLen)) : t + s.offset * MinuteLen >= RoundToNextMinute(f)

(* Then a sun search finds that run.                                         *)
LEMMA SunByDay ==
  ASSUME spec.kind = "Sun", spec.offset \in Int, from \in Int, next = NextSun(spec, from),
         Calm(spec, from)
  PROVE  SunRunsEveryDay
<1> DEFINE F == LocalDay(from)
           R == RoundToNextMinute(from)
           D == LocalDay(R)
           o == Offset(from)
           move == spec.offset * MinuteLen
           days == LocalDay(from - DayLen)..(F + SunSearchDays - 2)
           runs == {t + move : t \in UNION {SunOf(TimeOfLocal(d * DayLen)) : d \in days}}
           due == {t \in runs : t >= R}
           sameDay == \A i \in DOMAIN SunTimes : SunTimes[i] + move < DayLen
           candidates(k) == {t + move : t \in SunOf(StartOfDayLocal(R) + k * DayLen)}
           hits == {k \in 0..(SunSearchDays - 1) : \E t \in candidates(k) : t >= R}
           Run(d) == SunRun(spec, o, d)
           Real(d) == {t + move : t \in SunOf(TimeOfLocal(d * DayLen))}
<1>1. SunRunsEveryDay <=> (sameDay /\ due # {} => next = {Min(due)})
  BY DEF SunRunsEveryDay
<1>2. next = IF hits = {} THEN {} ELSE candidates(Min(hits))
  BY DEF NextSun
<1>a. PICK n \in 1..(SunSearchDays - 1) :
        Still(from, n) /\ \E d \in F..(F + n - 1) : \E t \in Real(d) : t >= R
  BY DEF Calm
<1>b. n \in Nat /\ n <= SunSearchDays - 1 /\ SunSearchDays \in Nat
  BY Bounds
<1>3. /\ R \in Int /\ Offset(R) = o /\ D \in Int /\ F <= D /\ D <= F + 1 /\ F \in Int
      /\ DayLen \in Nat \ {0} /\ HourLen \in Nat /\ HourLen <= DayLen /\ o \in Int /\ 0 <= o /\ move \in Int
  <2>1. /\ R \in Int /\ Offset(R) = o /\ D \in Int /\ F <= D /\ D <= F + 1
    BY <1>a, <1>b, SunStart
  <2>2. F \in Int /\ o \in {0, HourLen}
    BY Clocks
  <2>3. DayLen \in Nat \ {0} /\ HourLen \in Nat /\ HourLen <= DayLen /\ MinuteLen \in Nat
    BY Lengths
  <2>4. move \in Int
    BY <2>3
  <2> QED
    BY <2>1, <2>2, <2>3, <2>4
<1>4. \A k \in Nat : D + k <= F + n => candidates(k) = Run(D + k)
  BY <1>a, <1>b, SunSteps
<1>5. LocalDay(from - DayLen) = F - 1
  <2> DEFINE l == LocalClock(from) - DayLen
  <2>1. /\ LocalClock(from) = from + o /\ DayLen * F <= LocalClock(from)
        /\ LocalClock(from) < DayLen * F + DayLen /\ DayLen * F \in Int
    BY DayBounds
  <2>2. F - 1 \in Int /\ DayLen * (F - 1) = DayLen * F - DayLen /\ Around(from, n, F - 1)
    BY <1>3, <1>b DEF Around
  <2>3. l \in Int /\ DayLen * (F - 1) <= l /\ l < DayLen * (F - 1) + DayLen /\ l - o = from - DayLen
    BY <1>3, <2>1, <2>2
  <2> HIDE DEF l
  <2>4. LocalDay(l - o) = F - 1
    BY <1>a, <1>b, <2>2, <2>3, StillLocal
  <2> QED
    BY <2>3, <2>4
<1>6. \A d : d \in days <=> d \in (F - 1)..(F + SunSearchDays - 2)
  BY <1>5
<1>7. ASSUME NEW d \in Int, F - 1 <= d, d <= F + n PROVE Real(d) = Run(d)
  <2> DEFINE l == DayLen * d
  <2>0. Around(from, n, d)
    BY <1>7 DEF Around
  <2>1. l \in Int /\ DayLen * d <= l /\ l < DayLen * d + DayLen /\ d * DayLen = l
    BY <1>3
  <2> HIDE DEF l
  <2>2. TimeOfLocal(l) = l - o /\ l - o \in Int /\ LocalDay(l - o) = d
    BY <1>a, <1>b, <2>0, <2>1, StillLocal
  <2>3. {t + move : t \in SunOf(l - o)} = Run(d)
    BY <1>a, <1>b, <2>0, <2>2, SunRuns
  <2> QED
    BY <2>1, <2>2, <2>3
<1>8. \A t : t \in runs <=> \E d \in days : t \in Real(d)
  OBVIOUS
<1>9. ASSUME NEW d \in Int, NEW e \in Int, NEW t \in Run(d), NEW u \in Run(e)
      PROVE  t \in Int /\ u \in Int /\ (d <= e => t <= u)
  BY <1>3, RunsInOrder
<1>10. ASSUME sameDay, NEW d \in Int, d < D, NEW t \in Run(d) PROVE t < R
  BY <1>3, <1>10, RunsSameDay
<1>c. ASSUME NEW d \in Int, NEW t \in Run(d), NEW e \in Int, d < e - 1, NEW v \in Real(e)
      PROVE  v \in Int /\ t <= v
  <2>1. PICK w \in SunOf(TimeOfLocal(e * DayLen)) : v = w + move
    OBVIOUS
  <2>2. w \in Int /\ DayLen * e - HourLen <= w
    BY <2>1, NotBeforeDay
  <2>3. t = DayLen * d + InTurn(SunTimes, d) - o + move /\ InTurn(SunTimes, d) \in (-1)..(DayLen - 1)
    BY SunRange DEF SunRun
  <2>4. DayLen * (e - 1) = DayLen * e - DayLen /\ DayLen * e \in Int /\ e - 1 \in Int
    BY <1>3
  <2>5. DayLen * d + DayLen <= DayLen * (e - 1) /\ DayLen * d \in Int
    BY <1>3, <1>c, <2>4, Multiples
  <2> HIDE DEF move, o
  <2> QED
    BY <1>3, <2>1, <2>2, <2>3, <2>4, <2>5
<1>11. \A t : t \in due <=> t \in runs /\ t >= R
  OBVIOUS
<1>12. \A k : k \in hits <=> k \in 0..(SunSearchDays - 1) /\ \E t \in candidates(k) : t >= R
  OBVIOUS
<1> SUFFICES ASSUME sameDay, due # {} PROVE next = {Min(due)}
  BY <1>1
<1> HIDE DEF F, R, D, o, move, days, runs, due, candidates, hits, Run, Real, sameDay
<1>14. PICK d \in F..(F + n - 1) : \E t \in Real(d) : t >= R
  BY <1>a
<1>15. d \in Int /\ F <= d /\ d <= F + n - 1 /\ F - 1 <= d /\ d <= F + n
  BY <1>3, <1>b
<1>16. PICK t \in Run(d) : t >= R
  BY <1>7, <1>14, <1>15
<1>17. t \in Int /\ ~(d < D)
  BY <1>3, <1>9, <1>10, <1>15, <1>16
<1>18. d - D \in hits
  <2>1. d - D \in 0..(SunSearchDays - 1) /\ d - D \in Nat /\ D + (d - D) = d
    BY <1>3, <1>b, <1>15, <1>17
  <2>2. candidates(d - D) = Run(d)
    BY <1>4, <1>15, <2>1
  <2> QED
    BY <1>12, <1>16, <2>1, <2>2
<1> DEFINE k == Min(hits)
<1>19. k \in hits /\ \A j \in hits : k <= j
  <2>1. hits \subseteq Int /\ \A j \in hits : 0 <= j
    BY <1>b, <1>12
  <2> QED
    BY <1>18, <2>1, LeastFrom, 0 \in Int
<1> HIDE DEF k
<1>20. k \in Nat /\ k \in 0..(SunSearchDays - 1) /\ k <= d - D
  BY <1>b, <1>12, <1>18, <1>19
<1>21. D + k \in Int /\ F <= D + k /\ D + k <= F + n - 1 /\ D + k <= F + n
  BY <1>3, <1>b, <1>15, <1>20
<1>22. candidates(k) = Run(D + k)
  BY <1>4, <1>20, <1>21
<1>23. next = Run(D + k)
  BY <1>2, <1>18, <1>22 DEF k
<1>24. PICK u \in Run(D + k) : u >= R
  BY <1>12, <1>19, <1>22
<1>25. Run(D + k) = {u}
  BY <1>24 DEF Run, SunRun
<1>26. u \in due /\ u \in Int
  <2>1. D + k \in days
    BY <1>3, <1>b, <1>6, <1>21
  <2>2. F - 1 <= D + k
    BY <1>3, <1>21
  <2>3. u \in Real(D + k)
    BY <1>7, <1>21, <1>24, <2>2
  <2>4. u \in Int
    BY <1>9, <1>21, <1>24
  <2> QED
    BY <1>8, <1>11, <1>24, <2>1, <2>3, <2>4
<1>27. ASSUME NEW v \in due PROVE v \in Int /\ u <= v
  <2>1. PICK e \in days : v \in Real(e) /\ v >= R
    BY <1>8, <1>11
  <2>2. e \in Int /\ F - 1 <= e /\ e <= F + SunSearchDays - 2
    BY <1>3, <1>b, <1>6
  <2>3. CASE e <= F + n
    <3>1. v \in Run(e)
      BY <1>7, <2>1, <2>2, <2>3
    <3>2. v \in Int
      BY <1>9, <2>2, <3>1
    <3>3. ~(e < D)
      BY <1>3, <1>10, <2>1, <2>2, <3>1, <3>2
    <3>4. e - D \in 0..(SunSearchDays - 1) /\ e - D \in Nat /\ D + (e - D) = e
      BY <1>3, <1>b, <2>2, <3>3
    <3>5. e - D \in hits
      <4>1. candidates(e - D) = Run(e)
        BY <1>4, <2>3, <3>4
      <4> QED
        BY <1>12, <2>1, <3>1, <3>4, <4>1
    <3>6. D + k <= e
      <4>1. k <= e - D
        BY <1>19, <3>5
      <4> QED
        BY <1>3, <1>20, <2>2, <4>1
    <3> QED
      BY <1>9, <1>21, <1>24, <2>2, <3>1, <3>6
  <2>4. CASE ~(e <= F + n)
    <3>1. D + k < e - 1
      BY <1>3, <1>b, <1>21, <2>2, <2>4
    <3> QED
      BY <1>c, <1>21, <1>24, <2>1, <2>2, <3>1
  <2> QED
    BY <2>3, <2>4
<1>28. Min(due) = u
  <2>1. Min(due) \in due /\ \A v \in due : Min(due) <= v
    <3>1. due \subseteq Int /\ \A v \in due : u <= v
      BY <1>27
    <3> QED
      BY <1>26, <3>1, LeastFrom
  <2>2. Min(due) <= u /\ u <= Min(due) /\ Min(due) \in Int
    BY <1>26, <1>27, <2>1
  <2> QED
    BY <1>26, <2>2
<1> QED
  BY <1>23, <1>25, <1>28

(* The inductive invariant for sun jobs. *)
SunSearched ==
  spec # NoSpec /\ spec.kind = "Sun" =>
    spec.offset \in Int /\ from \in Int /\ next = NextSun(spec, from)

(* The time at which a local clock shows a time of a day is a time. *)
LEMMA SunTime ==
  ASSUME NEW s, s.offset \in Int, NEW f \in Int, NEW t \in NextSun(s, f)
  PROVE  t \in Int
<1> DEFINE R == RoundToNextMinute(f)
           candidates(d) == {u + s.offset * MinuteLen : u \in SunOf(StartOfDayLocal(R) + d * DayLen)}
           hits == {d \in 0..(SunSearchDays - 1) : \E u \in candidates(d) : u >= R}
<1>0. /\ R \in Int /\ SunSearchDays \in Nat /\ DayLen \in Nat \ {0} /\ HourLen \in Nat
      /\ s.offset * MinuteLen \in Int
  BY Rounded, Bounds, Lengths
<1>1. NextSun(s, f) = IF hits = {} THEN {} ELSE candidates(Min(hits))
  BY DEF NextSun
<1>2. ASSUME NEW d \in Int PROVE \A u \in candidates(d) : u \in Int
  <2> DEFINE x == StartOfDayLocal(R) + d * DayLen
  <2>1. LocalDay(R) \in Int
    BY <1>0, Clocks
  <2>2. LocalDay(R) * DayLen \in Int /\ d * DayLen \in Int
    BY <1>0, <2>1
  <2>3. x \in Int
    BY <1>0, <2>2 DEF StartOfDayLocal, TimeOfLocal
  <2> HIDE DEF x
  <2>4. LocalDay(x) \in Int
    BY <2>3, Clocks
  <2>5. InTurn(SunTimes, LocalDay(x)) \in Int /\ LocalDay(x) * DayLen \in Int
    BY <1>0, <2>4, SunRange
  <2>6. \A u \in SunOf(x) : u \in Int
    BY <1>0, <2>5 DEF SunOf, TimeOfLocal
  <2> QED
    BY <1>0, <2>6 DEF x
<1>3. hits # {} /\ t \in candidates(Min(hits))
  BY <1>1
<1>4. Min(hits) \in Int
  <2>1. hits \subseteq Int /\ \A d \in hits : 0 <= d
    BY <1>0
  <2> HIDE DEF hits
  <2> QED
    BY <1>3, <2>1, LeastFrom, 0 \in Int
<1> HIDE DEF hits, candidates
<1> QED
  BY <1>2, <1>3, <1>4

(* Every step of a job keeps it. *)
LEMMA SunSearchedNext ==
  ASSUME SunSearched, [CalcNext]_calcVars
  PROVE  SunSearched'
<1>0. \A s, f : s.kind = "Sun" => Compute(s, f) = NextSun(s, f)
  BY DEF Compute
<1>1. CASE AddToCalendar
  <2>1. PICK s \in Specs, f \in 0..MaxFrom :
          Validate(s) /\ spec' = s /\ from' = f /\ next' = Compute(s, f)
    BY <1>1 DEF AddToCalendar
  <2>2. f \in Int
    OBVIOUS
  <2>3. ASSUME s.kind = "Sun" PROVE s.offset \in Int
    <3>1. s.offset \in (-MaxSunOffset)..MaxSunOffset
      BY <2>1, <2>3 DEF Validate
    <3> QED
      BY <3>1
  <2> QED
    BY <1>0, <2>1, <2>2, <2>3 DEF SunSearched
<1>2. CASE RunAndReschedule
  <2>1. PICK t \in next : from' = t + MinuteLen /\ next' = Compute(spec, t + MinuteLen)
    BY <1>2 DEF RunAndReschedule
  <2>2. spec # NoSpec /\ spec' = spec
    BY <1>2 DEF RunAndReschedule
  <2>3. ASSUME spec.kind = "Sun" PROVE t + MinuteLen \in Int
    <3>1. t \in Int
      BY <2>1, <2>2, <2>3, SunTime DEF SunSearched
    <3> QED
      BY <3>1, Lengths
  <2> QED
    BY <1>0, <2>1, <2>2, <2>3 DEF SunSearched
<1>3. CASE UNCHANGED calcVars
  BY <1>3 DEF calcVars, SunSearched
<1> QED
  BY <1>1, <1>2, <1>3 DEF CalcNext

(* SunRunsEveryDay, where no clock change is near: whatever the sunrises,   *)
(* the offset and the calendar, each search of a sun job                    *)
(* (computeNextSunOccurrence of schedule_calculator.cpp) finds the first    *)
(* run that is due, and passes over no day but those without a sunrise.     *)
THEOREM SunSearches == CalcSpec => [](Calm(spec, from) => SunRunsEveryDay)
<1>1. CalcInit => SunSearched
  BY DEF CalcInit, SunSearched
<1>2. SunSearched /\ [CalcNext]_calcVars => SunSearched'
  BY SunSearchedNext
<1>3. SunSearched => (Calm(spec, from) => SunRunsEveryDay)
  <2>1. SUFFICES ASSUME SunSearched, Calm(spec, from), spec.kind = "Sun" PROVE SunRunsEveryDay
    BY DEF SunRunsEveryDay
  <2>2. spec # NoSpec
    BY <2>1 DEF NoSpec
  <2> QED
    BY <2>1, <2>2, SunByDay DEF SunSearched
<1> QED
  BY <1>1, <1>2, <1>3, PTL DEF CalcSpec
================================================================================
