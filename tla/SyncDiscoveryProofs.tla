------------------------- MODULE SyncDiscoveryProofs -------------------------
(***************************************************************************)
(* Proofs about two independent parts: what a program learns of its        *)
(* machine (fdt.c, pci.c, the wall clock of fatfs_disk.c), and the spin    *)
(* lock with the panic path.                                               *)
(*                                                                         *)
(* The wall clock: the calendar counts days of years that begin in March,  *)
(* and get_fattime's division by eras, centuries and quadrennia inverts    *)
(* that numbering on every day (CivilOfDay).                               *)
(*                                                                         *)
(* PCI: the scan from a place lists what is on its bus from there on and   *)
(* what is behind it, each function once, because a bus is entered only    *)
(* through the one bridge that leads there (ScanVisits); the capability    *)
(* walk has seen every slot it can reach before the hop budget is used up  *)
(* (WalkedClosed); a BAR word is passed over if and only if it is the      *)
(* upper half of a BAR (PassedOverValue).                                  *)
(*                                                                         *)
(* The device tree: each offset of the walk is that of a token, no token   *)
(* is skipped (Advances), and a node's property is found among its own,    *)
(* the first of that name (FromBody).                                      *)
(*                                                                         *)
(* The lock: the word is written only by an SC whose reservation was taken *)
(* while the word read 0 and has survived since (ReservationFresh), or by  *)
(* the holder's unlock; so the word always names the one hart in the       *)
(* critical section (HolderIsOwner).  A panic runs no lock code, so all of *)
(* it holds with panics anywhere in the lock code as well.                 *)
(*                                                                         *)
(* The panic path: the guard is swapped from 0 to 1 once, so one hart at   *)
(* most ever enters the dump, and what is on the wire is what that hart    *)
(* has got done (DumpInv).                                                 *)
(***************************************************************************)
EXTENDS Discovery, Sync, FiniteSetTheorems, SequenceTheorems, NaturalsInduction,
        WellFoundedInduction, TLAPS

-----------------------------------------------------------------------------
(***************************************************************************)
(* Numbers.                                                                *)
(***************************************************************************)

LEMMA SmallestOf ==
  ASSUME NEW S, S \subseteq Nat, S # {}
  PROVE  \E n \in S : \A m \in S : n <= m
<1>1. IsWellFoundedOn(OpToRel(<, Nat), Nat)
  BY NatLessThanWellFounded
<1>2. PICK n \in S : \A m \in S : ~(<<m, n>> \in OpToRel(<, Nat))
  BY <1>1, WFMin
<1>3. \A m \in S : ~(m < n)
  BY <1>2 DEF OpToRel
<1> QED
  BY <1>3

LEMMA LargestOf ==
  ASSUME NEW S, NEW n \in Nat, \A x \in S : x \in Nat /\ x <= n, S # {}
  PROVE  \E m \in S : \A k \in S : k <= m
<1> DEFINE T == {x \in Nat : x <= n /\ n - x \in S}
<1>1. T \subseteq Nat
  OBVIOUS
<1>2. T # {}
  <2>1. PICK x \in S : x \in Nat /\ x <= n
    OBVIOUS
  <2>2. n - x \in Nat /\ n - x <= n /\ n - (n - x) = x
    BY <2>1
  <2> QED
    BY <2>1, <2>2
<1>3. PICK t \in T : \A k \in T : t <= k
  <2> HIDE DEF T
  <2> QED
    BY <1>1, <1>2, SmallestOf
<1>4. t \in Nat /\ t <= n /\ n - t \in S
  BY <1>3
<1>5. ASSUME NEW k \in S PROVE k <= n - t
  <2>1. k \in Nat /\ k <= n
    OBVIOUS
  <2>2. n - k \in Nat /\ n - k <= n /\ n - (n - k) = k
    BY <2>1
  <2>3. n - k \in T
    BY <2>2
  <2>4. t <= n - k
    BY <1>3, <2>3
  <2> QED
    BY <1>4, <2>1, <2>4
<1> QED
  BY <1>4, <1>5

LEMMA DivMod ==
  ASSUME NEW x \in Nat, NEW Q \in Nat, Q > 0
  PROVE  x \div Q \in Nat /\ x % Q \in 0..Q-1 /\ x = (x \div Q) * Q + (x % Q)
OBVIOUS

LEMMA DivUnique ==
  ASSUME NEW q \in Nat, NEW Q \in Nat, Q > 0, NEW r \in 0..Q-1
  PROVE  (q * Q + r) \div Q = q /\ (q * Q + r) % Q = r
OBVIOUS

-----------------------------------------------------------------------------
(***************************************************************************)
(* Days counted by years that begin in March, so that the leap day is the  *)
(* last of its year: the number of a day is the days of the years before,  *)
(* of the months before, and of the month.                                 *)
(***************************************************************************)

YearStart(y) == 365 * y + y \div 4 - y \div 100 + y \div 400
MonthStart(mp) == (153 * mp + 2) \div 5

MarchYear(y, m) == IF m <= 2 THEN y - 1 ELSE y
MarchMonth(m) == IF m <= 2 THEN m + 9 ELSE m - 3
DayInYear(m, d) == MonthStart(MarchMonth(m)) + d - 1

DayNumber(y, m, d) == YearStart(MarchYear(y, m)) + DayInYear(m, d)

ValidDate(y, m, d) ==
  /\ y \in Nat /\ y >= 1970 /\ m \in 1..12 /\ d \in 1..MonthDays(y, m)

LEMMA LeapYearLength ==
  ASSUME NEW y \in Nat, y >= 1
  PROVE  YearStart(y) = YearStart(y - 1) + (IF Leap(y) THEN 366 ELSE 365)
BY SMTT(60) DEF YearStart, Leap

\* Day doy of a year of an era, as a day of the era; the year also as
\* 100 * c + 4 * q + r.
EraDay(yoe, doy) == 365 * yoe + yoe \div 4 - yoe \div 100 + doy
EraDayOf(c, q, r, doy) == 36524 * c + 1461 * q + 365 * r + doy

LEMMA YearFromDay ==
  ASSUME NEW c \in Nat, c <= 3, NEW q \in Nat, q <= 24, NEW r \in Nat, r <= 3,
         NEW doy \in Nat, doy <= 365, doy = 365 => r = 3 /\ (q = 24 => c = 3),
         NEW doe \in Int, doe = EraDayOf(c, q, r, doy)
  PROVE  /\ doe >= 0 /\ doe <= 146096
         /\ YearOfEra(doe) = 100 * c + 4 * q + r
<1>0. doe = 36524 * c + 1461 * q + 365 * r + doy
  BY DEF EraDayOf
<1>1. doe >= 0 /\ doe <= 146096
  BY <1>0
<1>2. PICK A \in Int : A = doe \div 36524 - doe \div 146096 /\ A >= c /\ A <= c
  <2>1. CASE doe = 146096
    <3>1. c >= 3 /\ doe \div 36524 - doe \div 146096 = 3
      BY <1>0, <2>1
    <3> QED
      BY <3>1
  <2>2. CASE doe # 146096
    <3>1. 1461 * q + 365 * r + doy <= 36523
      BY <1>0, <2>2
    <3>2. doe <= 146095
      BY <1>1, <2>2
    <3>3. doe \div 146096 = 0 /\ doe \div 36524 >= c /\ doe \div 36524 <= c
      BY <1>0, <1>1, <3>1, <3>2
    <3> QED
      BY <3>3
  <2> QED
    BY <2>1, <2>2
<1>3. PICK rest \in Nat : rest = 24 * c + q + 365 * r + doy /\ rest < 2920
  OBVIOUS
<1>4. PICK B \in Int : B = doe \div 1460
                       /\ (rest < 1460 => B >= 25 * c + q /\ B <= 25 * c + q)
                       /\ (rest >= 1460 => B >= 25 * c + q + 1 /\ B <= 25 * c + q + 1)
  BY <1>0, <1>3
<1>5. PICK N \in Int : N = doe - B + A
  OBVIOUS
<1>6. PICK y \in Nat : y = 100 * c + 4 * q + r
  OBVIOUS
<1>7. N >= 365 * y /\ N < 365 * y + 365
  <2>1. CASE rest < 1460
    <3>1. doy < 365
      BY <1>3, <2>1
    <3> QED
      BY <1>0, <1>2, <1>4, <1>5, <1>6, <2>1, <3>1
  <2>2. CASE rest >= 1460
    <3>1. doy >= 1
      BY <1>3, <2>2
    <3> QED
      BY <1>0, <1>2, <1>4, <1>5, <1>6, <2>2, <3>1
  <2> QED
    BY <1>3, <2>1, <2>2
<1>8. N \div 365 >= y /\ N \div 365 <= y
  BY <1>7
<1>9. YearOfEra(doe) = N \div 365
  <2>1. N = doe - doe \div 1460 + doe \div 36524 - doe \div 146096
    BY <1>1, <1>2, <1>4, <1>5
  <2> QED
    BY <2>1 DEF YearOfEra
<1> QED
  BY <1>1, <1>6, <1>8, <1>9

\* The same for a year of the era.
LEMMA YearOfEraValue ==
  ASSUME NEW yoe \in Nat, yoe < 400, NEW doy \in Nat, doy <= 365, doy = 365 => Leap(yoe + 1)
  PROVE  /\ EraDay(yoe, doy) \in Nat /\ EraDay(yoe, doy) < 146097
         /\ YearOfEra(EraDay(yoe, doy)) = yoe /\ DayOfYear(EraDay(yoe, doy)) = doy
<1>1. PICK c \in Nat, q \in Nat, r \in Nat :
         c <= 3 /\ q <= 24 /\ r <= 3 /\ yoe = 100 * c + 4 * q + r
  <2>1. PICK c \in Nat : c = yoe \div 100 /\ c <= 3
    OBVIOUS
  <2>2. PICK k \in Nat : k = yoe - 100 * c /\ k < 100
    BY <2>1
  <2>3. PICK q \in Nat : q = k \div 4 /\ q <= 24
    BY <2>2
  <2>4. PICK r \in Nat : r = k - 4 * q /\ r <= 3
    BY <2>3
  <2> QED
    BY <2>1, <2>2, <2>3, <2>4
<1>2. doy = 365 => r = 3 /\ (q = 24 => c = 3)
  BY <1>1 DEF Leap
<1>3. PICK doe \in Int : doe = EraDayOf(c, q, r, doy)
  BY DEF EraDayOf
<1>4. doe >= 0 /\ doe <= 146096 /\ YearOfEra(doe) = 100 * c + 4 * q + r
  BY <1>1, <1>2, <1>3, YearFromDay
<1>5. EraDay(yoe, doy) = doe
  <2>1. yoe \div 4 = 25 * c + q /\ yoe \div 100 = c
    BY <1>1
  <2>2. 365 * yoe + (25 * c + q) - c + doy = 36524 * c + 1461 * q + 365 * r + doy
    BY <1>1
  <2> QED
    BY <1>3, <2>1, <2>2 DEF EraDay, EraDayOf
<1>6. YearOfEra(doe) = yoe
  BY <1>1, <1>4
<1>7. DayOfYear(doe) = doy
  <2>1. doe - (365 * yoe + yoe \div 4 - yoe \div 100) = doy
    BY <1>5 DEF EraDay
  <2> QED
    BY <1>6, <2>1, Zenon DEF DayOfYear
<1>8. doe \in Nat /\ doe < 146097
  BY <1>4
<1>9. EraDay(yoe, doy) \in Nat /\ EraDay(yoe, doy) < 146097
  BY <1>5, <1>8
<1>10. YearOfEra(EraDay(yoe, doy)) = yoe
  BY <1>5, <1>6, Zenon
<1>11. DayOfYear(EraDay(yoe, doy)) = doy
  BY <1>5, <1>7, Zenon
<1> QED
  BY <1>9, <1>10, <1>11

LEMMA MonthOfYear ==
  ASSUME NEW y \in Nat, NEW m \in 1..12, NEW d \in 1..MonthDays(y, m)
  PROVE  \E mp \in Nat, doy \in Nat :
           /\ mp = MarchMonth(m) /\ doy = DayInYear(m, d) /\ doy <= 365
           /\ doy = 365 => m = 2 /\ Leap(y)
           /\ (5 * doy + 2) \div 153 = mp
           /\ doy - (153 * mp + 2) \div 5 + 1 = d
           /\ m = IF mp < 10 THEN mp + 3 ELSE mp - 9
<1>1. m \in {1, 2, 3, 4, 5, 6, 7, 8, 9, 10, 11, 12}
  OBVIOUS
<1>2. MonthDays(y, m) \in 28..31
  BY <1>1 DEF MonthDays
<1>3. d \in 1..31 /\ (m \in {4, 6, 9, 11} => d <= 30)
      /\ (m = 2 => d <= 29 /\ (d = 29 => Leap(y)))
  BY <1>1, <1>2 DEF MonthDays
<1>4. LET mp == MarchMonth(m)
          doy == DayInYear(m, d)
      IN /\ mp \in Nat /\ doy \in Nat /\ doy <= 365
         /\ doy = 365 => m = 2 /\ Leap(y)
         /\ (5 * doy + 2) \div 153 = mp
         /\ doy - (153 * mp + 2) \div 5 + 1 = d
         /\ m = IF mp < 10 THEN mp + 3 ELSE mp - 9
  BY <1>1, <1>3 DEF MarchMonth, DayInYear, MonthStart
<1> QED
  BY <1>4

\* get_fattime's arithmetic inverts the numbering.
LEMMA CivilOfDay ==
  ASSUME NEW y, NEW m, NEW d, ValidDate(y, m, d),
         NEW day \in Nat, day + 719468 = DayNumber(y, m, d)
  PROVE  Civil(day) = <<y, m, d>>
<1>1. PICK Y \in Nat, mp \in Nat, doy \in Nat :
         /\ doy <= 365 /\ Y = MarchYear(y, m) /\ mp = MarchMonth(m) /\ doy = DayInYear(m, d)
         /\ doy = 365 => m = 2 /\ Leap(y)
         /\ (5 * doy + 2) \div 153 = mp
         /\ doy - (153 * mp + 2) \div 5 + 1 = d
         /\ m = IF mp < 10 THEN mp + 3 ELSE mp - 9
  <2>1. MarchYear(y, m) \in Nat
    BY DEF ValidDate, MarchYear
  <2>2. y \in Nat /\ m \in 1..12 /\ d \in 1..MonthDays(y, m)
    BY DEF ValidDate
  <2> QED
    BY <2>1, <2>2, MonthOfYear
<1>2. y \in Nat /\ m \in 1..12 /\ Y = (IF m <= 2 THEN y - 1 ELSE y)
  BY <1>1 DEF ValidDate, MarchYear
<1>3. PICK e \in Nat, k \in Nat : k < 400 /\ Y = 400 * e + k
  <2>1. Y \div 400 \in Nat /\ Y % 400 \in 0..399 /\ Y = 400 * (Y \div 400) + (Y % 400)
    OBVIOUS
  <2> QED
    BY <2>1
<1>4. doy = 365 => Leap(k + 1)
  BY <1>1, <1>2, <1>3 DEF Leap
<1>5. PICK x \in Nat : x = EraDay(k, doy) /\ x < 146097
                        /\ YearOfEra(x) = k /\ DayOfYear(x) = doy
  BY <1>1, <1>3, <1>4, YearOfEraValue
<1>6. day + 719468 = 146097 * e + x
  <2>1. day + 719468 = YearStart(Y) + doy
    BY <1>1 DEF DayNumber
  <2>2. Y \div 4 = 100 * e + k \div 4 /\ Y \div 100 = 4 * e + k \div 100 /\ Y \div 400 = e
    BY <1>3
  <2>3. YearStart(Y) = 146097 * e + (365 * k + k \div 4 - k \div 100)
    BY <1>3, <2>2 DEF YearStart
  <2>4. x = (365 * k + k \div 4 - k \div 100) + doy
    BY <1>5 DEF EraDay
  <2> QED
    BY <2>1, <2>3, <2>4
<1>7. (day + 719468) \div 146097 = e
  BY <1>5, <1>6
<1>8. day + 719468 - e * 146097 = x
  BY <1>6
<1>9. Civil(day) = <<k + e * 400 + (IF m <= 2 THEN 1 ELSE 0), m, d>>
  BY <1>1, <1>5, <1>7, <1>8 DEF Civil
<1> QED
  BY <1>2, <1>3, <1>9

-----------------------------------------------------------------------------
(***************************************************************************)
(* The calendar keeps the numbering.                                       *)
(***************************************************************************)

LEMMA NextDayNumber ==
  ASSUME NEW y, NEW m, NEW d, ValidDate(y, m, d)
  PROVE  LET lastDay == d = MonthDays(y, m)
             y1 == IF lastDay /\ m = 12 THEN y + 1 ELSE y
             m1 == IF lastDay /\ m = 12 THEN 1 ELSE IF lastDay THEN m + 1 ELSE m
             d1 == IF lastDay THEN 1 ELSE d + 1
         IN ValidDate(y1, m1, d1) /\ DayNumber(y1, m1, d1) = DayNumber(y, m, d) + 1
<1>1. /\ y \in Nat /\ y >= 1970 /\ m \in 1..12 /\ d \in 1..MonthDays(y, m)
      /\ MonthDays(y, m) \in 28..31
  BY DEF ValidDate, MonthDays
<1>2. YearStart(y) \in Int /\ YearStart(y - 1) \in Int
  BY <1>1 DEF YearStart
<1>3. CASE d # MonthDays(y, m)
  BY <1>1, <1>2, <1>3 DEF ValidDate, DayNumber, DayInYear, MarchYear, MarchMonth, MonthStart
<1>4. CASE d = MonthDays(y, m) /\ m = 12
  <2>1. d = 31 /\ MonthDays(y + 1, 1) = 31 /\ (y + 1) - 1 = y
    BY <1>1, <1>4 DEF MonthDays
  <2>2. DayNumber(y, 12, d) = YearStart(y) + 305 /\ DayNumber(y + 1, 1, 1) = YearStart(y) + 306
    BY <1>2, <2>1 DEF DayNumber, DayInYear, MarchYear, MarchMonth, MonthStart
  <2>3. ValidDate(y + 1, 1, 1)
    BY <1>1, <2>1 DEF ValidDate
  <2> QED
    BY <1>2, <1>4, <2>2, <2>3
<1>5. CASE d = MonthDays(y, m) /\ m = 2
  <2>1. YearStart(y) = YearStart(y - 1) + (IF Leap(y) THEN 366 ELSE 365)
    BY <1>1, LeapYearLength
  <2>2. d = (IF Leap(y) THEN 29 ELSE 28) /\ MonthDays(y, 3) = 31
    BY <1>5 DEF MonthDays
  <2>3. DayNumber(y, 2, d) = YearStart(y - 1) + 336 + d /\ DayNumber(y, 3, 1) = YearStart(y)
    BY <1>1, <1>2 DEF DayNumber, DayInYear, MarchYear, MarchMonth, MonthStart
  <2>4. ValidDate(y, 3, 1)
    BY <1>1, <2>2 DEF ValidDate
  <2> QED
    BY <1>2, <1>5, <2>1, <2>2, <2>3, <2>4
<1>6. CASE d = MonthDays(y, m) /\ m \notin {2, 12}
  <2>1. m \in {1, 3, 4, 5, 6, 7, 8, 9, 10, 11}
    BY <1>1, <1>6
  <2>2. d = (IF m \in {4, 6, 9, 11} THEN 30 ELSE 31)
    BY <1>6, <2>1 DEF MonthDays
  <2>3. ValidDate(y, m + 1, 1)
    BY <1>1, <2>1 DEF ValidDate, MonthDays
  <2>4. DayInYear(m + 1, 1) = DayInYear(m, d) + 1 /\ MarchYear(y, m + 1) = MarchYear(y, m)
        /\ DayInYear(m, d) \in Int
    BY <2>1, <2>2 DEF DayInYear, MarchYear, MarchMonth, MonthStart
  <2>5. YearStart(MarchYear(y, m)) \in Int
    BY <1>2 DEF MarchYear
  <2> QED
    BY <1>6, <2>1, <2>3, <2>4, <2>5 DEF DayNumber
<1> QED
  BY <1>3, <1>4, <1>5, <1>6
-----------------------------------------------------------------------------
(***************************************************************************)
(* DaysBefore, in the numbering.                                           *)
(***************************************************************************)

FirstOfYear(y) == DayNumber(y, 1, 1) - 719468

LEMMA FirstOfYearStep ==
  /\ FirstOfYear(1970) = 0
  /\ \A y \in Nat : y > 1970 =>
       FirstOfYear(y) = FirstOfYear(y - 1) + (IF Leap(y - 1) THEN 366 ELSE 365)
<1>1. \A y \in Nat : y > 0 => FirstOfYear(y) = YearStart(y - 1) + 306 - 719468
                              /\ YearStart(y - 1) \in Int
  BY DEF FirstOfYear, DayNumber, DayInYear, MarchYear, MarchMonth, MonthStart, YearStart
<1>2. YearStart(1969) = 719162
  BY DEF YearStart
<1>3. ASSUME NEW y \in Nat, y > 1970
      PROVE  FirstOfYear(y) = FirstOfYear(y - 1) + (IF Leap(y - 1) THEN 366 ELSE 365)
  <2>1. PICK z \in Nat : z = y - 1 /\ z >= 1
    BY <1>3
  <2>2. YearStart(z) = YearStart(z - 1) + (IF Leap(z) THEN 366 ELSE 365)
    BY <2>1, LeapYearLength
  <2> QED
    BY <1>1, <1>3, <2>1, <2>2
<1> QED
  BY <1>1, <1>2, <1>3

LEMMA DaysBeforeValue ==
  ASSUME NEW y \in FirstYear..LastYear
  PROVE  DaysBefore[y] = FirstOfYear(y) /\ FirstOfYear(y) \in Nat
<1> DEFINE S == FirstYear..LastYear
           f == [z \in S |-> FirstOfYear(z)]
           body(h) == [z \in S |-> IF z = FirstYear THEN 0
                                   ELSE h[z - 1] + (IF Leap(z - 1) THEN 366 ELSE 365)]
<1>0. S \subseteq Nat
  BY ClockAssumption
<1>1. S \subseteq Nat /\ FirstYear = 1970 /\ \A z \in S : z # 1970 => z > 1970 /\ z - 1 \in S
  BY ClockAssumption
<1> HIDE DEF S
<1>2. \A z \in S : FirstOfYear(z) = IF z = FirstYear THEN 0
                   ELSE FirstOfYear(z - 1) + (IF Leap(z - 1) THEN 366 ELSE 365)
  BY <1>1, FirstOfYearStep
<1>3. f = body(f)
  BY <1>1, <1>2
<1>4. DaysBefore = CHOOSE h : h = body(h)
  BY DEF DaysBefore, S
<1>5. DaysBefore = body(DaysBefore)
  <2> HIDE DEF f, body
  <2> QED
    BY <1>3, <1>4, Zenon
<1>6. \A z \in S : DaysBefore[z] = IF z = FirstYear THEN 0
                   ELSE DaysBefore[z - 1] + (IF Leap(z - 1) THEN 366 ELSE 365)
  BY <1>5
<1> DEFINE bad == {z \in S : ~(DaysBefore[z] = FirstOfYear(z) /\ FirstOfYear(z) \in Nat)}
<1>7. bad = {}
  <2> SUFFICES ASSUME bad # {} PROVE FALSE
    OBVIOUS
  <2>0. bad \subseteq Nat
    BY <1>0, Zenon
  <2>1. PICK z \in bad : \A w \in bad : z <= w
    <3> HIDE DEF bad
    <3> QED
      BY <2>0, SmallestOf
  <2>2. z # 1970
    BY <1>1, <1>6, <2>1, FirstOfYearStep
  <2>3. z - 1 \in S /\ z - 1 \notin bad
    BY <1>1, <2>1, <2>2
  <2> QED
    BY <1>1, <1>2, <1>6, <2>1, <2>2, <2>3
<1> QED
  BY <1>7 DEF S

-----------------------------------------------------------------------------
(***************************************************************************)
(* The inductive invariant of the clock.                                   *)
(***************************************************************************)

\* The calendar and the clock agree.
OnTime ==
  /\ now \in Nat /\ ValidDate(year, month, mday)
  /\ now \div TicksPerDay + 719468 = DayNumber(year, month, mday)

\* The two halves as read are of one moment.
ReadAsOf ==
  /\ clock_pc = "low" =>
       Civil((latched * LoMod + low) \div TicksPerDay) = asof /\ asof[1] \in Int
  /\ clock_pc = "stamped" => stamp = Clamp(asof) /\ asof[1] \in Int

ClockInv ==
  /\ clock_pc \in {"off", "idle", "low", "stamped"}
  /\ clock_pc # "off" => OnTime
  /\ ReadAsOf

\* Counting up changes the quotient exactly when the remainder becomes zero.
LEMMA DivStep ==
  ASSUME NEW x \in Nat, NEW Q \in Nat, Q > 0
  PROVE  (x + 1) \div Q = IF (x + 1) % Q = 0 THEN x \div Q + 1 ELSE x \div Q
<1>1. PICK q \in Nat, r \in 0..Q-1 : x = q * Q + r /\ q = x \div Q
  BY DivMod
<1>2. CASE r + 1 < Q
  <2>1. r + 1 \in 0..Q-1 /\ x + 1 = q * Q + (r + 1)
    BY <1>1, <1>2
  <2>2. (x + 1) \div Q = q /\ (x + 1) % Q = r + 1
    BY <2>1, DivUnique
  <2> QED
    BY <1>1, <2>2
<1>3. CASE r + 1 = Q
  <2>1. 0 \in 0..Q-1 /\ x + 1 = (q + 1) * Q + 0 /\ q + 1 \in Nat
    BY <1>1, <1>3
  <2>2. (x + 1) \div Q = q + 1 /\ (x + 1) % Q = 0
    BY <2>1, DivUnique
  <2> QED
    BY <1>1, <2>2
<1> QED
  BY <1>1, <1>2, <1>3

LEMMA ClockInitInv == ClockStart \/ ClockUnused => ClockInv
<1>1. CASE ClockStart
  <2>1. PICK n \in Nat : n = DaysBefore[year] /\ n = FirstOfYear(year)
    BY <1>1, DaysBeforeValue DEF ClockStart
  <2>2. TicksPerDay \in Nat /\ TicksPerDay > 0 /\ 0 \in 0..TicksPerDay-1
    BY ClockAssumption
  <2>3. year \in Nat /\ year >= 1970 /\ month = 1 /\ mday = 1
    BY <1>1, ClockAssumption DEF ClockStart
  <2>4. ValidDate(year, month, mday)
    BY <2>3 DEF ValidDate, MonthDays
  <2>5. now = n * TicksPerDay + 0 /\ now \in Nat
    <3>1. n * TicksPerDay \in Nat
      BY <2>2
    <3> QED
      BY <1>1, <2>1, <3>1 DEF ClockStart
  <2>6. now \div TicksPerDay = n
    BY <2>2, <2>5, DivUnique
  <2>7. DayNumber(year, 1, 1) \in Int
    BY <2>3 DEF DayNumber, YearStart, MarchYear, DayInYear, MarchMonth, MonthStart
  <2>8. n + 719468 = DayNumber(year, month, mday)
    BY <2>1, <2>3, <2>7 DEF FirstOfYear
  <2> QED
    BY <1>1, <2>4, <2>5, <2>6, <2>8 DEF ClockStart, ClockInv, OnTime, ReadAsOf
<1>2. CASE ClockUnused
  BY <1>2 DEF ClockUnused, ClockInv, ReadAsOf
<1> QED
  BY <1>1, <1>2

LEMMA TickInv == ASSUME ClockInv, Tick PROVE ClockInv'
<1>1. clock_pc \in {"idle", "low"} /\ OnTime /\ now' = now + 1 /\ clock_pc' = clock_pc
  BY DEF ClockInv, Tick
<1>2. now \in Nat /\ TicksPerDay \in Nat /\ TicksPerDay > 0 /\ now \div TicksPerDay \in Int
  BY <1>1, ClockAssumption, DivMod DEF OnTime
<1>3. ReadAsOf'
  BY <1>1 DEF ClockInv, ReadAsOf, Tick
<1>4. OnTime'
  <2>1. ValidDate(year, month, mday) /\ now \div TicksPerDay + 719468 = DayNumber(year, month, mday)
    BY <1>1 DEF OnTime
  <2>2. CASE now' % TicksPerDay = 0
    <3>1. now' \div TicksPerDay = now \div TicksPerDay + 1
      BY <1>1, <1>2, <2>2, DivStep
    <3>2. NextDay
      BY <2>2 DEF Tick
    <3>3. ValidDate(year', month', mday')
          /\ DayNumber(year', month', mday') = DayNumber(year, month, mday) + 1
      BY <2>1, <3>2, NextDayNumber DEF NextDay
    <3> QED
      BY <1>1, <1>2, <2>1, <3>1, <3>3 DEF OnTime
  <2>3. CASE now' % TicksPerDay # 0
    <3>1. now' \div TicksPerDay = now \div TicksPerDay
      BY <1>1, <1>2, <2>3, DivStep
    <3>2. year' = year /\ month' = month /\ mday' = mday
      BY <2>3 DEF Tick
    <3> QED
      BY <1>1, <1>2, <2>1, <3>1, <3>2 DEF OnTime
  <2> QED
    BY <2>2, <2>3
<1> QED
  BY <1>1, <1>3, <1>4 DEF ClockInv

LEMMA ReadLowInv == ASSUME ClockInv, RtcReadLow PROVE ClockInv'
<1>1. OnTime /\ UNCHANGED <<now, year, month, mday>>
  BY DEF ClockInv, RtcReadLow
<1>2. OnTime'
  BY <1>1 DEF OnTime
<1>3. latched' * LoMod + low' = now
  BY <1>1, ClockAssumption, DivMod DEF OnTime, RtcReadLow
<1>4. Civil(now \div TicksPerDay) = <<year, month, mday>>
  <2>1. now \div TicksPerDay \in Nat
    BY <1>1, ClockAssumption, DivMod DEF OnTime
  <2> QED
    BY <1>1, <2>1, CivilOfDay DEF OnTime
<1>5. asof' = <<year, month, mday>> /\ year \in Int
  BY <1>1 DEF RtcReadLow, OnTime, ValidDate
<1> QED
  BY <1>2, <1>3, <1>4, <1>5 DEF ClockInv, ReadAsOf, RtcReadLow

LEMMA ClockStepInv == ASSUME ClockInv, [ClockNext]_clockVars PROVE ClockInv'
<1>1. CASE GetFattime
  BY <1>1 DEF ClockInv, OnTime, ReadAsOf, GetFattime
<1>2. CASE StampUsed
  BY <1>2 DEF ClockInv, OnTime, ReadAsOf, StampUsed
<1>3. CASE UNCHANGED clockVars
  BY <1>3 DEF ClockInv, OnTime, ReadAsOf, clockVars
<1> QED
  BY <1>1, <1>2, <1>3, TickInv, ReadLowInv DEF ClockNext

LEMMA ClockInvSafe == ClockInv => StampIsToday
<1> SUFFICES ASSUME ClockInv, clock_pc = "stamped"
             PROVE  \/ asof[1] \in 1980..2107 /\ stamp = asof
                    \/ asof[1] < 1980 /\ stamp = <<1980, 1, 1>>
                    \/ asof[1] > 2107 /\ stamp[1] = 2107
  BY DEF StampIsToday
<1>1. stamp = Clamp(asof) /\ asof[1] \in Int
  BY DEF ClockInv, ReadAsOf
<1>2. CASE asof[1] < 1980
  BY <1>1, <1>2 DEF Clamp
<1>3. CASE asof[1] > 2107
  BY <1>1, <1>3 DEF Clamp
<1>4. CASE ~(asof[1] < 1980) /\ ~(asof[1] > 2107)
  BY <1>1, <1>4 DEF Clamp
<1> QED
  BY <1>2, <1>3, <1>4

-----------------------------------------------------------------------------
(***************************************************************************)
(* PCI: the capability list.                                               *)
(***************************************************************************)

CapsOK ==
  /\ caps.list \in BOOLEAN /\ caps.first \in 0..NSlots
  /\ caps.next \in [1..NSlots -> 0..NSlots]

\* The slot after s on the walk.
After(s) == IF s = 0 THEN 0 ELSE IF caps.next[s] = s THEN 0 ELSE caps.next[s]

LEMMA AfterType ==
  ASSUME CapsOK, NEW s \in 0..NSlots
  PROVE  After(s) \in 0..NSlots
<1>1. CASE s = 0
  BY <1>1, PciAssumption DEF After
<1>2. CASE s # 0
  <2>1. s \in 1..NSlots
    BY <1>2, PciAssumption
  <2>2. caps.next[s] \in 0..NSlots /\ 0 \in 0..NSlots
    BY <2>1, PciAssumption DEF CapsOK
  <2> QED
    BY <2>2 DEF After
<1> QED
  BY <1>1, <1>2

\* g lists the slots the walk is at for up to n hops.
Walks(g, n) ==
  /\ g = [h \in 0..n |-> g[h]]
  /\ g[0] = caps.first
  /\ \A h \in 1..n : g[h] = After(g[h - 1])

LEMMA WalkOfCaps == \A n \in Nat : \E g : Walks(g, n)
<1> DEFINE bad == {n \in Nat : ~\E g : Walks(g, n)}
<1> SUFFICES ASSUME bad # {} PROVE FALSE
  OBVIOUS
<1>1. PICK n \in bad : \A m \in bad : n <= m
  BY SmallestOf
<1>2. n # 0
  <2>1. Walks([h \in 0..0 |-> caps.first], 0)
    BY DEF Walks
  <2> QED
    BY <2>1
<1>3. PICK g : Walks(g, n - 1)
  BY <1>1, <1>2
<1> DEFINE k == [h \in 0..n |-> IF h = n THEN After(g[n - 1]) ELSE g[h]]
<1>4. Walks(k, n)
  <2>1. k[0] = caps.first
    BY <1>2, <1>3 DEF Walks
  <2>2. \A h \in 1..n : k[h] = After(k[h - 1])
    <3> SUFFICES ASSUME NEW h \in 1..n PROVE k[h] = After(k[h - 1])
      OBVIOUS
    <3>1. k[h - 1] = g[h - 1]
      OBVIOUS
    <3>2. CASE h = n
      BY <3>1, <3>2
    <3>3. CASE h # n
      <4>1. h \in 1..n-1 /\ k[h] = g[h]
        BY <1>1, <3>3
      <4> QED
        BY <1>3, <3>1, <4>1 DEF Walks
    <3> QED
      BY <3>2, <3>3
  <2> QED
    BY <2>1, <2>2 DEF Walks
<1> QED
  BY <1>1, <1>4

LEMMA SlotAtValue ==
  /\ SlotAt[0] = caps.first
  /\ \A h \in 1..MaxHops : SlotAt[h] = After(SlotAt[h - 1])
<1> DEFINE body(f) == [h \in 0..MaxHops |->
                         IF h = 0 THEN caps.first
                         ELSE IF f[h - 1] = 0 THEN 0
                         ELSE IF caps.next[f[h - 1]] = f[h - 1] THEN 0
                         ELSE caps.next[f[h - 1]]]
<1>0. MaxHops \in Nat
  BY PciAssumption
<1>1. PICK g : Walks(g, MaxHops)
  BY <1>0, WalkOfCaps
<1>2. \A h \in 0..MaxHops : g[h] = IF h = 0 THEN caps.first ELSE After(g[h - 1])
  <2> SUFFICES ASSUME NEW h \in 0..MaxHops
               PROVE  g[h] = IF h = 0 THEN caps.first ELSE After(g[h - 1])
    OBVIOUS
  <2>1. CASE h = 0
    BY <1>1, <2>1 DEF Walks
  <2>2. CASE h # 0
    <3>1. h \in 1..MaxHops
      BY <1>0, <2>2
    <3> QED
      BY <1>1, <2>2, <3>1 DEF Walks
  <2> QED
    BY <2>1, <2>2
<1>3. g = body(g)
  <2>1. g = [h \in 0..MaxHops |-> IF h = 0 THEN caps.first ELSE After(g[h - 1])]
    BY <1>1, <1>2 DEF Walks
  <2> QED
    BY <2>1, Zenon DEF After
<1>4. SlotAt = CHOOSE f : f = body(f)
  BY DEF SlotAt
<1>5. SlotAt = body(SlotAt)
  <2> HIDE DEF body
  <2> QED
    BY <1>3, <1>4, Zenon
<1>6. \A h \in 0..MaxHops : SlotAt[h] = IF h = 0 THEN caps.first ELSE After(SlotAt[h - 1])
  <2> SUFFICES ASSUME NEW h \in 0..MaxHops
               PROVE  SlotAt[h] = IF h = 0 THEN caps.first ELSE After(SlotAt[h - 1])
    OBVIOUS
  <2>1. SlotAt[h] = body(SlotAt)[h]
    BY <1>5, Zenon
  <2> QED
    BY <2>1 DEF After
<1>7. 0 \in 0..MaxHops /\ \A h \in 1..MaxHops : h \in 0..MaxHops /\ h # 0
  BY <1>0
<1> QED
  BY <1>6, <1>7

LEMMA SlotAtType == ASSUME CapsOK PROVE \A h \in 0..MaxHops : SlotAt[h] \in 0..NSlots
<1> DEFINE bad == {h \in 0..MaxHops : SlotAt[h] \notin 0..NSlots}
<1> SUFFICES ASSUME bad # {} PROVE FALSE
  OBVIOUS
<1>0. bad \subseteq Nat
  OBVIOUS
<1>1. PICK h \in bad : \A k \in bad : h <= k
  BY <1>0, SmallestOf
<1>2. h # 0
  BY <1>1, SlotAtValue DEF CapsOK
<1>3. h \in 1..MaxHops /\ h - 1 \in 0..MaxHops /\ SlotAt[h - 1] \in 0..NSlots
  BY <1>1, <1>2, PciAssumption
<1> QED
  BY <1>1, <1>3, AfterType, SlotAtValue

\* The walk stays within every closed set, and so within the list.
LEMMA WalkWithin ==
  ASSUME CapsOK, NEW ss, SlotsClosed(ss), NEW h \in 0..MaxHops, SlotAt[h] # 0
  PROVE  SlotAt[h] \in ss
<1> DEFINE bad == {k \in 0..MaxHops : SlotAt[k] # 0 /\ SlotAt[k] \notin ss}
<1> SUFFICES ASSUME bad # {} PROVE FALSE
  OBVIOUS
<1>0. bad \subseteq Nat
  OBVIOUS
<1>1. PICK k \in bad : \A j \in bad : k <= j
  BY <1>0, SmallestOf
<1>2. k # 0
  BY <1>1, SlotAtValue DEF SlotsClosed
<1>3. k \in 1..MaxHops /\ k - 1 \in 0..MaxHops /\ k - 1 \notin bad
  BY <1>1, <1>2, PciAssumption
<1>4. SlotAt[k] = After(SlotAt[k - 1])
  BY <1>3, SlotAtValue
<1>5. SlotAt[k - 1] # 0 /\ SlotAt[k] = caps.next[SlotAt[k - 1]]
  BY <1>1, <1>4 DEF After
<1> QED
  BY <1>1, <1>3, <1>5 DEF SlotsClosed

\* Once over, the walk stays over.
LEMMA OverForGood ==
  ASSUME NEW h \in 0..MaxHops, SlotAt[h] = 0, NEW k \in 0..MaxHops, h <= k
  PROVE  SlotAt[k] = 0
<1> DEFINE bad == {j \in 0..MaxHops : h <= j /\ SlotAt[j] # 0}
<1> SUFFICES ASSUME bad # {} PROVE FALSE
  OBVIOUS
<1>0. bad \subseteq Nat
  OBVIOUS
<1>1. PICK j \in bad : \A i \in bad : j <= i
  BY <1>0, SmallestOf
<1>2. j # h
  BY <1>1
<1>3. j \in 1..MaxHops /\ j - 1 \in 0..MaxHops /\ j - 1 \notin bad /\ h <= j - 1
  BY <1>1, <1>2, PciAssumption
<1>4. SlotAt[j - 1] = 0
  BY <1>3
<1> QED
  BY <1>1, <1>3, <1>4, SlotAtValue DEF After

\* A walk that comes back goes round.
LEMMA GoesRound ==
  ASSUME NEW i \in 0..MaxHops, NEW j \in 0..MaxHops, i < j, SlotAt[i] = SlotAt[j]
  PROVE  SlotAt[i + (MaxHops - j)] = SlotAt[MaxHops]
<1> DEFINE bad == {k \in 0..MaxHops - j : SlotAt[i + k] # SlotAt[j + k]}
<1>m. MaxHops \in Nat
  BY PciAssumption
<1>1. bad = {}
  <2> SUFFICES ASSUME bad # {} PROVE FALSE
    OBVIOUS
  <2>0. bad \subseteq Nat
    OBVIOUS
  <2>1. PICK k \in bad : \A l \in bad : k <= l
    BY <2>0, SmallestOf
  <2>2. k # 0
    BY <2>1
  <2>3. k - 1 \in 0..MaxHops - j /\ k - 1 \notin bad
    BY <1>m, <2>1, <2>2
  <2>4. SlotAt[i + (k - 1)] = SlotAt[j + (k - 1)]
    BY <2>3
  <2>5. i + k \in 1..MaxHops /\ j + k \in 1..MaxHops
        /\ (i + k) - 1 = i + (k - 1) /\ (j + k) - 1 = j + (k - 1)
    BY <1>m, <2>1, <2>2
  <2>6. SlotAt[i + k] = After(SlotAt[(i + k) - 1]) /\ SlotAt[j + k] = After(SlotAt[(j + k) - 1])
    BY <2>5, SlotAtValue
  <2> QED
    BY <2>1, <2>4, <2>5, <2>6
<1>2. MaxHops - j \in 0..MaxHops - j /\ j + (MaxHops - j) = MaxHops
  BY <1>m
<1> QED
  BY <1>1, <1>2

\* What the walk is at within the budget, and 0.
Walked == {SlotAt[h] : h \in 0..MaxHops-1} \cup {0}

LEMMA LastHop == ASSUME CapsOK PROVE SlotAt[MaxHops] \in Walked
<1>m. MaxHops \in Nat /\ MaxHops >= 1 /\ NSlots \in Nat /\ NSlots <= MaxHops
  BY PciAssumption
<1>1. CASE SlotAt[MaxHops] = 0
  BY <1>1 DEF Walked
<1>2. CASE SlotAt[MaxHops] # 0
  <2> DEFINE f == [h \in 0..MaxHops |-> SlotAt[h]]
  <2>1. f \in [0..MaxHops -> 1..NSlots]
    <3> SUFFICES ASSUME NEW h \in 0..MaxHops PROVE SlotAt[h] \in 1..NSlots
      OBVIOUS
    <3>1. MaxHops \in 0..MaxHops /\ h <= MaxHops
      BY <1>m
    <3>2. SlotAt[h] # 0
      BY <1>2, <3>1, OverForGood
    <3>3. SlotAt[h] \in 0..NSlots
      BY SlotAtType
    <3> QED
      BY <1>m, <3>2, <3>3
  <2>2. /\ IsFiniteSet(0..MaxHops) /\ Cardinality(0..MaxHops) = MaxHops + 1
        /\ IsFiniteSet(1..NSlots) /\ Cardinality(1..NSlots) = NSlots
    <3>1. 0 \in Int /\ 1 \in Int /\ MaxHops \in Int /\ NSlots \in Int
      BY <1>m
    <3>2. /\ IsFiniteSet(0..MaxHops) /\ Cardinality(0..MaxHops) = IF 0 > MaxHops THEN 0 ELSE MaxHops-0+1
          /\ IsFiniteSet(1..NSlots) /\ Cardinality(1..NSlots) = IF 1 > NSlots THEN 0 ELSE NSlots-1+1
      BY <3>1, FS_Interval
    <3> QED
      BY <1>m, <3>2
  <2>3. Cardinality(1..NSlots) < Cardinality(0..MaxHops)
    BY <1>m, <2>2
  <2>4. PICK x, y \in 0..MaxHops : x # y /\ f[x] = f[y]
    <3> HIDE DEF f
    <3> QED
      BY <2>1, <2>2, <2>3, FS_PigeonHole
  <2>5. PICK i \in 0..MaxHops, j \in 0..MaxHops : i < j /\ SlotAt[i] = SlotAt[j]
    <3>1. CASE x < y
      BY <2>4, <3>1
    <3>2. CASE y < x
      BY <2>4, <3>2
    <3> QED
      BY <1>m, <2>4, <3>1, <3>2
  <2>6. SlotAt[i + (MaxHops - j)] = SlotAt[MaxHops]
    BY <2>5, GoesRound
  <2>7. i + (MaxHops - j) \in 0..MaxHops-1
    BY <1>m, <2>5
  <2> QED
    BY <2>6, <2>7 DEF Walked
<1> QED
  BY <1>1, <1>2

\* The budget is enough to see the whole list.
LEMMA WalkedClosed == ASSUME CapsOK PROVE SlotsClosed(Walked) /\ Walked \subseteq 0..NSlots
<1>m. MaxHops \in Nat /\ MaxHops >= 1 /\ NSlots \in Nat
  BY PciAssumption
<1>1. caps.first \in Walked
  <2>1. 0 \in 0..MaxHops-1
    BY <1>m
  <2> QED
    BY <2>1, SlotAtValue DEF Walked
<1>2. ASSUME NEW s \in Walked, s # 0 PROVE caps.next[s] \in Walked
  <2>1. PICK h \in 0..MaxHops-1 : s = SlotAt[h]
    BY <1>2 DEF Walked
  <2>2. h + 1 \in 1..MaxHops /\ (h + 1) - 1 = h
    BY <1>m
  <2>3. SlotAt[h + 1] = After(s)
    BY <2>1, <2>2, SlotAtValue
  <2>4. SlotAt[h + 1] \in Walked
    <3>1. CASE h + 1 = MaxHops
      BY <3>1, LastHop
    <3>2. CASE h + 1 # MaxHops
      <4>1. h + 1 \in 0..MaxHops-1
        BY <1>m, <3>2
      <4> QED
        BY <4>1 DEF Walked
    <3> QED
      BY <3>1, <3>2
  <2>5. CASE caps.next[s] = s
    BY <2>5, <1>2
  <2>6. CASE caps.next[s] # s
    BY <1>2, <2>3, <2>4, <2>6 DEF After
  <2> QED
    BY <2>5, <2>6
<1>3. Walked \subseteq 0..NSlots
  <2>1. \A h \in 0..MaxHops-1 : h \in 0..MaxHops
    BY <1>m
  <2>2. 0 \in 0..NSlots
    BY <1>m
  <2> QED
    BY <2>1, <2>2, SlotAtType DEF Walked
<1> QED
  BY <1>1, <1>2, <1>3 DEF SlotsClosed

LEMMA MinOf ==
  ASSUME NEW S, S \subseteq Nat, S # {}
  PROVE  Min(S) \in S
<1>1. PICK n \in S : \A m \in S : n <= m
  BY SmallestOf
<1> QED
  BY <1>1 DEF Min

\* pci_find_capability finds what the list leads to.
LEMMA FindCapabilityRight ==
  ASSUME CapsOK, NEW id
  PROVE  IF FindCapability(id) = 0 THEN \A t \in ListedSlots : caps.id[t] # id
         ELSE FindCapability(id) \in ListedSlots /\ caps.id[FindCapability(id)] = id
<1>m. MaxHops \in Nat /\ MaxHops >= 1 /\ NSlots \in Nat
  BY PciAssumption
<1>1. CASE ~caps.list
  BY <1>1 DEF FindCapability, ListedSlots
<1>2. CASE caps.list /\ HopsWithin(id) # {}
  <2>1. HopsWithin(id) \subseteq Nat
    BY DEF HopsWithin
  <2>2. PICK h \in HopsWithin(id) : h = Min(HopsWithin(id))
    BY <1>2, <2>1, MinOf
  <2>3. h \in 0..MaxHops /\ SlotAt[h] # 0 /\ caps.id[SlotAt[h]] = id
    BY <1>m DEF HopsWithin
  <2>4. FindCapability(id) = SlotAt[h]
    BY <1>2, <2>2 DEF FindCapability
  <2>5. SlotAt[h] \in 1..NSlots
    BY <1>m, <2>3, SlotAtType
  <2>6. \A ss \in SUBSET (0..NSlots) : SlotsClosed(ss) => SlotAt[h] \in ss
    BY <2>3, WalkWithin
  <2>7. SlotAt[h] \in ListedSlots
    BY <1>2, <2>5, <2>6 DEF ListedSlots
  <2> QED
    BY <2>3, <2>4, <2>7
<1>3. CASE caps.list /\ HopsWithin(id) = {}
  <2>1. FindCapability(id) = 0
    BY <1>3 DEF FindCapability
  <2>2. ASSUME NEW t \in ListedSlots PROVE caps.id[t] # id
    <3>1. t \in Walked /\ t # 0
      BY WalkedClosed DEF ListedSlots
    <3>2. PICK h \in 0..MaxHops-1 : t = SlotAt[h]
      BY <3>1 DEF Walked
    <3> QED
      BY <1>3, <3>1, <3>2 DEF HopsWithin
  <2> QED
    BY <2>1, <2>2
<1> QED
  BY <1>1, <1>2, <1>3 DEF CapsOK

-----------------------------------------------------------------------------
(***************************************************************************)
(* PCI: the BARs.                                                          *)
(***************************************************************************)

\* A word is passed over if and only if no BAR starts there.
LEMMA PassedOverValue ==
  ASSUME NEW l \in Layouts, NEW u, words = WordsOf(l, u)
  PROVE  \A i \in 1..NBars : PassedOver[i] = (i \notin DOMAIN l)
<1> DEFINE S == 1..NBars
           up(i) == i \notin DOMAIN l
           f == [i \in S |-> up(i)]
           body(g) == [i \in S |-> i > 1 /\ words[i - 1] = "m64" /\ ~g[i - 1]]
<1>n. NBars \in Nat
  BY PciAssumption
<1>0. \A i \in S : i \notin DOMAIN l <=> i - 1 \in DOMAIN l /\ l[i - 1] = "m64"
  BY DEF Layouts
<1>d. DOMAIN l \subseteq S
  BY DEF Layouts
<1>1. \A i \in S : up(i) <=> (i > 1 /\ words[i - 1] = "m64" /\ ~up(i - 1))
  <2> SUFFICES ASSUME NEW i \in S
               PROVE  up(i) <=> (i > 1 /\ words[i - 1] = "m64" /\ ~up(i - 1))
    OBVIOUS
  <2>1. CASE i = 1
    <3>1. i - 1 \notin DOMAIN l
      BY <1>d, <1>n, <2>1
    <3> QED
      BY <1>0, <2>1, <3>1
  <2>2. CASE i # 1
    <3>1. i > 1 /\ i - 1 \in S
      BY <1>n, <2>2
    <3>2. words[i - 1] = IF i - 1 \in DOMAIN l THEN l[i - 1] ELSE u[i - 1]
      BY <3>1 DEF WordsOf
    <3> QED
      BY <1>0, <3>1, <3>2
  <2> QED
    BY <2>1, <2>2
<1>2. f = body(f)
  <2>1. \A i \in S : (i > 1 /\ words[i - 1] = "m64" /\ ~up(i - 1))
                     <=> (i > 1 /\ words[i - 1] = "m64" /\ ~f[i - 1])
    <3> SUFFICES ASSUME NEW i \in S, i > 1
                 PROVE  f[i - 1] <=> up(i - 1)
      OBVIOUS
    <3>1. i - 1 \in S
      BY <1>n
    <3> QED
      BY <3>1, Zenon
  <2>2. \A i \in S : up(i) = (i > 1 /\ words[i - 1] = "m64" /\ ~f[i - 1])
    BY <1>1, <2>1, Zenon
  <2> HIDE DEF up
  <2> QED
    BY <2>2, Zenon
<1>3. PassedOver = CHOOSE g : g = body(g)
  BY DEF PassedOver
<1>4. PassedOver = body(PassedOver)
  <2> HIDE DEF f, body
  <2> QED
    BY <1>2, <1>3, Zenon
<1>5. \A i \in S : PassedOver[i] = (i > 1 /\ words[i - 1] = "m64" /\ ~PassedOver[i - 1])
  <2> SUFFICES ASSUME NEW i \in S
               PROVE  PassedOver[i] = (i > 1 /\ words[i - 1] = "m64" /\ ~PassedOver[i - 1])
    OBVIOUS
  <2>1. PassedOver[i] = body(PassedOver)[i]
    BY <1>4, Zenon
  <2> QED
    BY <2>1, Zenon
<1> DEFINE bad == {i \in S : PassedOver[i] # up(i)}
<1>6. bad = {}
  <2> SUFFICES ASSUME bad # {} PROVE FALSE
    OBVIOUS
  <2>0. bad \subseteq Nat
    OBVIOUS
  <2>1. PICK i \in bad : \A j \in bad : i <= j
    <3> HIDE DEF bad
    <3> QED
      BY <2>0, SmallestOf
  <2>2. i \in S /\ PassedOver[i] # up(i)
    BY <2>1
  <2>3. ASSUME i > 1 PROVE PassedOver[i - 1] = up(i - 1)
    <3>1. i - 1 \in S /\ ~(i <= i - 1)
      BY <1>n, <2>2, <2>3
    <3>2. i - 1 \notin bad
      BY <2>1, <3>1, Zenon
    <3> QED
      BY <3>1, <3>2, Zenon
  <2>4. PassedOver[i] = (i > 1 /\ words[i - 1] = "m64" /\ ~PassedOver[i - 1])
    BY <1>5, <2>2
  <2>5. up(i) = (i > 1 /\ words[i - 1] = "m64" /\ ~up(i - 1))
    BY <1>1, <2>2, Zenon
  <2> HIDE DEF up
  <2> QED
    BY <2>2, <2>3, <2>4, <2>5, Zenon
<1> QED
  BY <1>6, Zenon

LEMMA SetupBarsRight ==
  ASSUME NEW l \in Layouts, NEW u, words = WordsOf(l, u)
  PROVE  SetupBars = BarsOf(l, u)
<1>n. NBars \in Nat
  BY PciAssumption
<1>1. ASSUME NEW i \in 1..NBars
      PROVE  (IF PassedOver[i] THEN <<>> ELSE BarAt(i))
               = IF i \notin DOMAIN l THEN <<>>
                 ELSE IF l[i] = "zero" THEN <<>>
                 ELSE IF l[i] = "m64" THEN <<"m64", u[i + 1]>>
                 ELSE <<l[i]>>
  <2>1. PassedOver[i] = (i \notin DOMAIN l)
    BY PassedOverValue
  <2>2. words[i] = IF i \in DOMAIN l THEN l[i] ELSE u[i]
    BY DEF WordsOf
  <2>3. CASE i \notin DOMAIN l
    BY <2>1, <2>3
  <2>4. CASE i \in DOMAIN l /\ l[i] = "m64"
    <3>1. i # NBars
      BY <2>4 DEF Layouts
    <3>2. i < NBars /\ i + 1 \in 1..NBars /\ (i + 1) - 1 = i
      BY <1>n, <3>1
    <3>3. i + 1 \notin DOMAIN l
      BY <2>4, <3>2 DEF Layouts
    <3>4. words[i + 1] = u[i + 1] /\ words[i] = "m64"
      BY <2>2, <2>4, <3>2, <3>3 DEF WordsOf
    <3> QED
      BY <2>1, <2>4, <3>2, <3>4 DEF BarAt
  <2>5. CASE i \in DOMAIN l /\ l[i] # "m64"
    BY <2>1, <2>2, <2>5 DEF BarAt
  <2> QED
    BY <2>3, <2>4, <2>5
<1> QED
  BY <1>1, Zenon DEF SetupBars, BarsOf

-----------------------------------------------------------------------------
(***************************************************************************)
(* PCI: places, sequences, and what the recursive definition gives.        *)
(***************************************************************************)

LEMMA ProductNat == ASSUME NEW a \in Nat, NEW b \in Nat PROVE a * b \in Nat
OBVIOUS

LEMMA EarlierPage ==
  ASSUME NEW q \in Nat, NEW k \in Nat, q < k, NEW E \in Nat
  PROVE  q * E + E <= k * E
<1>1. PICK d \in Nat : k = q + 1 + d
  <2>1. k - q - 1 \in Nat /\ k = q + 1 + (k - q - 1)
    OBVIOUS
  <2> QED
    BY <2>1
<1>2. k * E = q * E + E + d * E /\ d * E \in Nat /\ q * E \in Nat
  BY <1>1
<1> QED
  BY <1>2

LastPlace == NBuses * PerBus - 1
Places == 0..NBuses * PerBus - 1

LEMMA PlaceFacts ==
  /\ PerBus \in Nat /\ PerBus > 0 /\ NBuses \in Nat /\ NBuses > 0
  /\ LastPlace \in Nat /\ 0 \in Places
  /\ \A a : a \in Places <=> a \in Nat /\ a <= LastPlace
<1>1. PerBus \in Nat /\ PerBus > 0
  <2>1. NDevs \in Nat /\ NDevs > 0 /\ NFuncs \in Nat /\ NFuncs > 0
    BY PciAssumption
  <2>2. 0 * NFuncs + NFuncs <= NDevs * NFuncs /\ NDevs * NFuncs \in Nat
    BY <2>1, EarlierPage, ProductNat
  <2> QED
    BY <2>1, <2>2 DEF PerBus
<1>2. NBuses \in Nat /\ NBuses > 0
  BY PciAssumption
<1>3. 0 * PerBus + PerBus <= NBuses * PerBus /\ NBuses * PerBus \in Nat
  BY <1>1, <1>2, EarlierPage, ProductNat
<1>4. PICK n \in Nat : n = NBuses * PerBus /\ n >= 1
  BY <1>1, <1>3
<1> QED
  BY <1>1, <1>2, <1>4 DEF LastPlace, Places

\* A place is within its bus.
LEMMA BusFacts ==
  ASSUME NEW a \in Nat
  PROVE  /\ Bus(a) \in Nat
         /\ Bus(a) * PerBus <= a /\ a < Bus(a) * PerBus + PerBus
         /\ Bus(a) * PerBus \in Nat
<1>1. PICK q \in Nat, r \in 0..PerBus-1 : a = q * PerBus + r /\ q = a \div PerBus
  BY PlaceFacts, DivMod
<1>2. q * PerBus \in Nat
  BY PlaceFacts, ProductNat
<1> QED
  BY <1>1, <1>2, PlaceFacts DEF Bus

LEMMA BusMonotone ==
  ASSUME NEW x \in Nat, NEW y \in Nat, x <= y
  PROVE  Bus(x) <= Bus(y)
<1> SUFFICES ASSUME Bus(y) < Bus(x) PROVE FALSE
  BY BusFacts
<1>1. Bus(x) \in Nat /\ Bus(y) \in Nat
  BY BusFacts
<1>2. Bus(y) * PerBus + PerBus <= Bus(x) * PerBus
  BY <1>1, PlaceFacts, EarlierPage
<1>3. /\ Bus(x) * PerBus <= x /\ Bus(x) * PerBus \in Nat
      /\ y < Bus(y) * PerBus + PerBus /\ Bus(y) * PerBus \in Nat
  BY BusFacts
<1> QED
  BY <1>2, <1>3, PlaceFacts

LEMMA WithinWindow ==
  ASSUME NEW a \in Nat, Bus(a) < NBuses
  PROVE  a \in Places
<1>1. Bus(a) * PerBus + PerBus <= NBuses * PerBus
  BY BusFacts, PlaceFacts, EarlierPage
<1>2. a < Bus(a) * PerBus + PerBus /\ Bus(a) * PerBus \in Nat /\ NBuses * PerBus \in Nat
  BY BusFacts, PlaceFacts, ProductNat
<1> QED
  BY <1>1, <1>2, PlaceFacts DEF Places

\* The first place of a higher bus.
LEMMA FirstOfBus ==
  ASSUME NEW a \in Nat, NEW s \in Nat, Bus(a) < s, s < NBuses
  PROVE  s * PerBus \in Places /\ s * PerBus > a /\ Bus(s * PerBus) = s
<1>1. Bus(a) * PerBus + PerBus <= s * PerBus /\ s * PerBus \in Nat
  BY BusFacts, PlaceFacts, EarlierPage, ProductNat
<1>2. Bus(s * PerBus) = s
  <2>1. 0 \in 0..PerBus-1 /\ s * PerBus + 0 = s * PerBus
    BY <1>1, PlaceFacts
  <2>2. (s * PerBus + 0) \div PerBus = s
    BY <2>1, PlaceFacts, DivUnique
  <2> QED
    BY <2>1, <2>2 DEF Bus
<1>3. s * PerBus > a
  BY <1>1, BusFacts, PlaceFacts
<1>4. s * PerBus \in Places
  BY <1>1, <1>2, WithinWindow
<1> QED
  BY <1>2, <1>3, <1>4

\* The place after a, on the same bus unless a is its bus's last.
LEMMA NextPlace ==
  ASSUME NEW a \in Places
  PROVE  IF (a + 1) % PerBus = 0 THEN Bus(a + 1) = Bus(a) + 1
         ELSE a + 1 \in Places /\ Bus(a + 1) = Bus(a)
<1>0. a \in Nat /\ PerBus \in Nat /\ PerBus > 0
  BY PlaceFacts
<1>1. PICK q \in Nat, r \in 0..PerBus-1 : a = q * PerBus + r /\ q = a \div PerBus
  BY <1>0, DivMod
<1>p. q * PerBus \in Nat
  BY <1>0, ProductNat
<1>2. CASE r + 1 < PerBus
  <2>1. r + 1 \in 0..PerBus-1 /\ a + 1 = q * PerBus + (r + 1)
    BY <1>0, <1>1, <1>2, <1>p
  <2>2. (a + 1) \div PerBus = q /\ (a + 1) % PerBus = r + 1
    BY <1>0, <2>1, DivUnique
  <2>3. Bus(a + 1) = Bus(a) /\ r + 1 # 0
    BY <1>1, <2>2 DEF Bus
  <2>4. Bus(a) < NBuses
    <3> SUFFICES ASSUME ~(Bus(a) < NBuses) PROVE FALSE
      OBVIOUS
    <3>1. NBuses * PerBus <= Bus(a) * PerBus
      <4>1. Bus(a) \in Nat
        BY <1>0, BusFacts
      <4>2. CASE Bus(a) = NBuses
        BY <4>2, PlaceFacts, ProductNat
      <4>3. CASE NBuses < Bus(a)
        <5>1. NBuses * PerBus + PerBus <= Bus(a) * PerBus
          BY <4>1, <4>3, PlaceFacts, EarlierPage
        <5>2. NBuses * PerBus \in Nat /\ Bus(a) * PerBus \in Nat
          BY <4>1, PlaceFacts, ProductNat
        <5> QED
          BY <5>1, <5>2, <1>0
      <4> QED
        BY <4>1, <4>2, <4>3, PlaceFacts
    <3>2. Bus(a) * PerBus <= a /\ Bus(a) * PerBus \in Nat /\ NBuses * PerBus \in Nat
      BY <1>0, BusFacts, PlaceFacts, ProductNat
    <3> QED
      BY <1>0, <3>1, <3>2 DEF Places
  <2>5. a + 1 \in Places
    BY <1>0, <2>3, <2>4, WithinWindow
  <2> QED
    BY <2>2, <2>3, <2>5
<1>3. CASE r + 1 = PerBus
  <2>1. 0 \in 0..PerBus-1 /\ a + 1 = (q + 1) * PerBus + 0 /\ q + 1 \in Nat
    BY <1>0, <1>1, <1>3
  <2>2. (a + 1) \div PerBus = q + 1 /\ (a + 1) % PerBus = 0
    BY <1>0, <2>1, DivUnique
  <2> QED
    BY <1>1, <2>2 DEF Bus
<1> QED
  BY <1>0, <1>1, <1>2, <1>3

\* s lists the places of G, each once.
Lists(s, G) == s \in Seq(Nat) /\ Range(s) = G /\ IsInjective(s)

LEMMA ListsNone == Lists(<<>>, {})
<1>1. <<>> \in Seq(Nat) /\ DOMAIN <<>> = {}
  OBVIOUS
<1> QED
  BY <1>1 DEF Lists, Range, IsInjective

LEMMA ListsOne == ASSUME NEW a \in Nat PROVE Lists(<<a>>, {a})
<1>1. <<a>> \in Seq(Nat) /\ DOMAIN <<a>> = {1} /\ <<a>>[1] = a
  OBVIOUS
<1> QED
  BY <1>1 DEF Lists, Range, IsInjective

LEMMA ListsBoth ==
  ASSUME NEW s, NEW t, NEW G, NEW H, Lists(s, G), Lists(t, H), G \cap H = {}
  PROVE  Lists(s \o t, G \cup H)
<1>1. s \in Seq(Nat) /\ t \in Seq(Nat)
  BY DEF Lists
<1>2. PICK m \in Nat, n \in Nat : m = Len(s) /\ n = Len(t)
  BY <1>1
<1>3. DOMAIN s = 1..m /\ DOMAIN t = 1..n
  BY <1>1, <1>2
<1> DEFINE u == s \o t
<1>4. u \in Seq(Nat) /\ DOMAIN u = 1..m+n
  BY <1>1, <1>2
<1>5. /\ \A i \in 1..m : u[i] = s[i] /\ i \in 1..m+n
      /\ \A i \in 1..n : u[m + i] = t[i] /\ m + i \in 1..m+n
  BY <1>1, <1>2
<1>6. \A i \in 1..m+n : i \in 1..m \/ (i - m \in 1..n /\ i = m + (i - m))
  BY <1>2
<1> HIDE DEF u
<1>7. \A i \in 1..m : s[i] \in G
  BY <1>3 DEF Lists, Range
<1>8. \A i \in 1..n : t[i] \in H
  BY <1>3 DEF Lists, Range
<1>9. Range(u) = G \cup H
  <2>1. ASSUME NEW x \in Range(u) PROVE x \in G \cup H
    <3>1. PICK i \in 1..m+n : x = u[i]
      BY <1>4 DEF Range
    <3>2. CASE i \in 1..m
      BY <1>5, <1>7, <3>1, <3>2
    <3>3. CASE i - m \in 1..n /\ i = m + (i - m)
      BY <1>5, <1>8, <3>1, <3>3
    <3> QED
      BY <1>6, <3>2, <3>3
  <2>2. ASSUME NEW x \in G PROVE x \in Range(u)
    <3>1. PICK i \in 1..m : x = s[i]
      BY <1>3 DEF Lists, Range
    <3>2. i \in DOMAIN u /\ x = u[i]
      BY <1>4, <1>5, <3>1
    <3> QED
      BY <3>2 DEF Range
  <2>3. ASSUME NEW x \in H PROVE x \in Range(u)
    <3>1. PICK i \in 1..n : x = t[i]
      BY <1>3 DEF Lists, Range
    <3>2. m + i \in DOMAIN u /\ x = u[m + i]
      BY <1>4, <1>5, <3>1
    <3> QED
      BY <3>2 DEF Range
  <2> QED
    BY <2>1, <2>2, <2>3
<1>10. IsInjective(u)
  <2> SUFFICES ASSUME NEW i \in 1..m+n, NEW j \in 1..m+n, u[i] = u[j]
               PROVE  i = j
    BY <1>4 DEF IsInjective
  <2>1. CASE i \in 1..m /\ j \in 1..m
    <3>1. s[i] = s[j]
      BY <1>5, <2>1
    <3> QED
      BY <1>3, <2>1, <3>1 DEF Lists, IsInjective
  <2>2. CASE i \in 1..m /\ j \notin 1..m
    <3>1. j - m \in 1..n /\ j = m + (j - m)
      BY <1>6, <2>2
    <3>2. u[i] \in G /\ u[j] \in H
      BY <1>5, <1>7, <1>8, <2>2, <3>1
    <3> QED
      BY <3>2
  <2>3. CASE i \notin 1..m /\ j \in 1..m
    <3>1. i - m \in 1..n /\ i = m + (i - m)
      BY <1>6, <2>3
    <3>2. u[j] \in G /\ u[i] \in H
      BY <1>5, <1>7, <1>8, <2>3, <3>1
    <3> QED
      BY <3>2
  <2>4. CASE i \notin 1..m /\ j \notin 1..m
    <3>1. i - m \in 1..n /\ i = m + (i - m) /\ j - m \in 1..n /\ j = m + (j - m)
      BY <1>6, <2>4
    <3>2. t[i - m] = t[j - m]
      BY <1>5, <3>1
    <3>3. i - m = j - m
      BY <1>3, <3>1, <3>2 DEF Lists, IsInjective
    <3> QED
      BY <3>1, <3>3
  <2> QED
    BY <2>1, <2>2, <2>3, <2>4
<1> QED
  BY <1>4, <1>9, <1>10 DEF Lists, u

\* The equation of ScanFrom, with what it takes from other places.
ScanStep(g, a) ==
  LET sec    == machine[a].sec
      match  == IF machine[a].id = vendor_device THEN <<a>> ELSE <<>>
      behind == IF sec # 0 /\ sec # Bus(a) THEN g[sec * PerBus] ELSE <<>>
      rest   == IF (a + 1) % PerBus = 0 THEN <<>> ELSE g[a + 1]
  IN IF LookedAt(a) THEN (match \o behind) \o rest ELSE rest

LEMMA StepLooksAhead ==
  ASSUME MachineOK(machine), NEW g, NEW h, NEW a \in Places,
         \A c \in Places : c > a => g[c] = h[c]
  PROVE  ScanStep(g, a) = ScanStep(h, a)
<1>1. a \in Nat
  BY PlaceFacts
<1>2. (a + 1) % PerBus # 0 => g[a + 1] = h[a + 1]
  BY <1>1, NextPlace
<1>3. LookedAt(a) /\ machine[a].sec # 0 => g[machine[a].sec * PerBus] = h[machine[a].sec * PerBus]
  <2> SUFFICES ASSUME LookedAt(a), machine[a].sec # 0
               PROVE  g[machine[a].sec * PerBus] = h[machine[a].sec * PerBus]
    OBVIOUS
  <2>1. a \in DOMAIN machine
    BY DEF LookedAt
  <2>2. machine[a].sec \in Nat /\ Bus(a) < machine[a].sec /\ machine[a].sec < NBuses
    <3>1. machine[a].sec \in Nat /\ machine[a].sec > Bus(a) /\ machine[a].sec < NBuses
      BY <2>1 DEF MachineOK
    <3> QED
      BY <1>1, <3>1, BusFacts
  <2>3. machine[a].sec * PerBus \in Places /\ machine[a].sec * PerBus > a
    BY <1>1, <2>2, FirstOfBus
  <2> QED
    BY <2>3
<1> QED
  BY <1>2, <1>3, Zenon DEF ScanStep

\* g is what the scan gives from every place from a on.
Scans(g, a) ==
  /\ g = [c \in a..LastPlace |-> g[c]]
  /\ \A c \in a..LastPlace : g[c] = ScanStep(g, c)

LEMMA ScanExists == ASSUME MachineOK(machine) PROVE \E g : Scans(g, 0)
<1> DEFINE bad == {a \in Places : ~\E g : Scans(g, a)}
<1>0. LastPlace \in Nat /\ 0 \in Places /\ \A a : a \in Places <=> a \in Nat /\ a <= LastPlace
  BY PlaceFacts
<1> SUFFICES ASSUME bad # {} PROVE FALSE
  BY <1>0
<1>1. PICK a \in bad : \A c \in bad : c <= a
  <2>1. \A x \in bad : x \in Nat /\ x <= LastPlace
    BY <1>0
  <2> HIDE DEF bad
  <2> QED
    BY <1>0, <2>1, LargestOf
<1>2. a \in Nat /\ a <= LastPlace /\ a \in Places
  BY <1>0, <1>1
<1>3. PICK g : Scans(g, a + 1)
  <2>1. CASE a = LastPlace
    <3>1. a + 1 > LastPlace
      BY <1>0, <2>1
    <3>2. \A c : c \notin a + 1 .. LastPlace
      BY <1>0, <1>2, <3>1
    <3>3. Scans([c \in a + 1 .. LastPlace |-> 0], a + 1)
      BY <3>2 DEF Scans
    <3> QED
      BY <3>3
  <2>2. CASE a # LastPlace
    <3>1. a + 1 \in Places /\ ~(a + 1 <= a)
      BY <1>0, <1>2, <2>2
    <3> QED
      BY <1>1, <3>1
  <2> QED
    BY <2>1, <2>2
<1> DEFINE h == [c \in a..LastPlace |-> IF c = a THEN ScanStep(g, a) ELSE g[c]]
<1>4. \A c \in Places : c > a => h[c] = g[c]
  BY <1>0, <1>2
<1>5. ASSUME NEW c \in a..LastPlace PROVE h[c] = ScanStep(h, c)
  <2>1. c \in Places /\ c \in Nat /\ c >= a
    BY <1>0, <1>2
  <2>2. \A d \in Places : d > c => h[d] = g[d]
    <3> SUFFICES ASSUME NEW d \in Places, d > c PROVE h[d] = g[d]
      OBVIOUS
    <3>1. d > a
      BY <1>0, <1>2, <2>1
    <3> QED
      BY <1>4, <3>1
  <2>3. ScanStep(h, c) = ScanStep(g, c)
    <3> HIDE DEF h
    <3> QED
      BY <2>1, <2>2, StepLooksAhead
  <2>4. CASE c = a
    BY <2>3, <2>4
  <2>5. CASE c # a
    <3>1. c \in a + 1 .. LastPlace
      BY <1>0, <1>2, <2>1, <2>5
    <3>2. g[c] = ScanStep(g, c)
      BY <1>3, <3>1 DEF Scans
    <3> QED
      BY <2>3, <2>5, <3>2
  <2> QED
    BY <2>4, <2>5
<1>6. Scans(h, a)
  <2>1. h = [c \in a..LastPlace |-> h[c]]
    OBVIOUS
  <2> HIDE DEF h
  <2> QED
    BY <1>5, <2>1 DEF Scans
<1> QED
  BY <1>1, <1>6

LEMMA ScanFromValue ==
  ASSUME MachineOK(machine)
  PROVE  \A a \in Places : ScanFrom[a] = ScanStep(ScanFrom, a)
<1> DEFINE body(f) == [a \in Places |-> ScanStep(f, a)]
<1>1. PICK g : Scans(g, 0)
  BY ScanExists
<1>2. Places = 0..LastPlace
  BY DEF Places, LastPlace
<1>3. g = body(g)
  BY <1>1, <1>2, Zenon DEF Scans
<1>4. ScanFrom = CHOOSE f : f = body(f)
  BY Zenon DEF ScanFrom, ScanStep, Places
<1>5. ScanFrom = body(ScanFrom)
  <2> HIDE DEF body
  <2> QED
    BY <1>3, <1>4, Zenon
<1> QED
  BY <1>5, Zenon

-----------------------------------------------------------------------------
(***************************************************************************)
(* What the scan visits.  V is the functions of bus b from place lo on,    *)
(* and all those behind them: each is on that bus or behind another of V.  *)
(***************************************************************************)

LeadsTo(x, y) == machine[x].sec # 0 /\ machine[x].sec = Bus(y)

Region(b, lo, V) ==
  /\ V \subseteq DOMAIN machine
  /\ \A y \in V : y >= lo
  /\ \A y \in DOMAIN machine : Bus(y) = b /\ y >= lo => y \in V
  /\ \A x \in V, y \in DOMAIN machine : LeadsTo(x, y) => y \in V
  /\ \A y \in V : Bus(y) = b \/ \E x \in V : LeadsTo(x, y)

LEMMA MachineFacts ==
  ASSUME MachineOK(machine), NEW a \in DOMAIN machine
  PROVE  /\ a \in Nat /\ a \in Places /\ Bus(a) \in Nat /\ Bus(a) < NBuses /\ LookedAt(a)
         /\ machine[a].sec \in Nat /\ machine[a].sec < NBuses
         /\ machine[a].sec # 0 => Bus(a) < machine[a].sec
<1>1. /\ a \in Nat /\ Bus(a) < NBuses /\ FunctionZero(a) \in DOMAIN machine
      /\ a # FunctionZero(a) => machine[FunctionZero(a)].multi
      /\ machine[a].sec \in Nat /\ machine[a].sec < NBuses
      /\ machine[a].sec # 0 => machine[a].sec > Bus(a)
  BY DEF MachineOK
<1>2. LookedAt(a)
  BY <1>1 DEF LookedAt
<1> QED
  BY <1>1, <1>2, WithinWindow, BusFacts

LEMMA LeadsUp ==
  ASSUME MachineOK(machine), NEW x \in DOMAIN machine, NEW y \in DOMAIN machine, LeadsTo(x, y)
  PROVE  x < y /\ Bus(x) < Bus(y)
<1>1. x \in Nat /\ y \in Nat /\ Bus(x) \in Nat /\ Bus(y) \in Nat /\ Bus(x) < Bus(y)
  BY MachineFacts DEF LeadsTo
<1> QED
  BY <1>1, BusMonotone

LEMMA OneBridge ==
  ASSUME MachineOK(machine), NEW x \in DOMAIN machine, NEW z \in DOMAIN machine,
         NEW y, LeadsTo(x, y), LeadsTo(z, y)
  PROVE  x = z
BY DEF MachineOK, LeadsTo

LEMMA RegionNone ==
  ASSUME MachineOK(machine), NEW a \in Places, (a + 1) % PerBus = 0
  PROVE  Region(Bus(a), a + 1, {})
<1>1. a \in Nat /\ Bus(a + 1) = Bus(a) + 1 /\ Bus(a) \in Nat
  BY NextPlace, PlaceFacts, BusFacts
<1>2. ASSUME NEW y \in DOMAIN machine, Bus(y) = Bus(a), y >= a + 1 PROVE FALSE
  <2>1. y \in Nat
    BY MachineFacts
  <2>2. Bus(a + 1) <= Bus(y)
    BY <1>1, <1>2, <2>1, BusMonotone
  <2> QED
    BY <1>1, <1>2, <2>2
<1> QED
  BY <1>2 DEF Region

LEMMA RegionSkip ==
  ASSUME MachineOK(machine), NEW a \in Places, a \notin DOMAIN machine,
         NEW W, Region(Bus(a), a + 1, W)
  PROVE  Region(Bus(a), a, W)
<1>0. a \in Nat
  BY PlaceFacts
<1>1. \A y \in DOMAIN machine : y \in Nat /\ (y >= a => y >= a + 1)
  <2> SUFFICES ASSUME NEW y \in DOMAIN machine PROVE y \in Nat /\ (y >= a => y >= a + 1)
    OBVIOUS
  <2>1. y \in Nat /\ y # a
    BY MachineFacts
  <2> QED
    BY <1>0, <2>1
<1>2. \A y \in W : y \in Nat /\ y >= a + 1
  BY <1>1 DEF Region
<1>3. \A y \in W : y >= a
  BY <1>0, <1>2
<1> QED
  BY <1>1, <1>3, Zenon DEF Region

LEMMA RegionPlain ==
  ASSUME MachineOK(machine), NEW a \in DOMAIN machine, machine[a].sec = 0,
         NEW W, Region(Bus(a), a + 1, W)
  PROVE  Region(Bus(a), a, {a} \cup W)
<1>0. a \in Nat
  BY MachineFacts
<1>1. \A y \in DOMAIN machine : y \in Nat /\ (y >= a => y = a \/ y >= a + 1)
  <2> SUFFICES ASSUME NEW y \in DOMAIN machine PROVE y \in Nat /\ (y >= a => y = a \/ y >= a + 1)
    OBVIOUS
  <2>1. y \in Nat
    BY MachineFacts
  <2> QED
    BY <1>0, <2>1
<1>2. \A y \in {a} \cup W : y >= a
  <2>1. \A y \in W : y \in Nat /\ y >= a + 1
    BY <1>1 DEF Region
  <2> QED
    BY <1>0, <2>1
<1>3. \A y : ~LeadsTo(a, y)
  BY DEF LeadsTo
<1> QED
  BY <1>1, <1>2, <1>3, Zenon DEF Region

\* A bridge: what is behind it, and what comes after it.
BehindAndAfter(a, U, W) ==
  /\ a \in DOMAIN machine /\ machine[a].sec # 0
  /\ Region(machine[a].sec, machine[a].sec * PerBus, U)
  /\ Region(Bus(a), a + 1, W)

LEMMA RegionBridge ==
  ASSUME MachineOK(machine), NEW a, NEW U, NEW W, BehindAndAfter(a, U, W)
  PROVE  Region(Bus(a), a, ({a} \cup U) \cup W)
<1> DEFINE b == machine[a].sec
           V == ({a} \cup U) \cup W
<1>a. a \in DOMAIN machine /\ b # 0 /\ Region(b, b * PerBus, U) /\ Region(Bus(a), a + 1, W)
  BY DEF BehindAndAfter
<1>0. a \in Nat /\ b \in Nat /\ Bus(a) \in Nat /\ Bus(a) < b /\ b < NBuses
  BY <1>a, MachineFacts
<1>1. b * PerBus \in Places /\ b * PerBus > a /\ Bus(b * PerBus) = b
  BY <1>0, FirstOfBus
<1>2. b * PerBus \in Nat
  BY <1>1, PlaceFacts
<1> HIDE DEF b
<1>3. \A y \in DOMAIN machine : y \in Nat /\ (y >= a => y = a \/ y >= a + 1)
  <2> SUFFICES ASSUME NEW y \in DOMAIN machine PROVE y \in Nat /\ (y >= a => y = a \/ y >= a + 1)
    OBVIOUS
  <2>1. y \in Nat
    BY MachineFacts
  <2> QED
    BY <1>0, <2>1
<1>4. \A y \in V : y >= a
  <2>1. \A y \in W : y \in Nat /\ y >= a + 1
    BY <1>a, <1>3 DEF Region
  <2>2. \A y \in U : y \in Nat /\ y >= b * PerBus
    BY <1>a, <1>3 DEF Region
  <2> QED
    BY <1>0, <1>1, <1>2, <2>1, <2>2
<1>5. ASSUME NEW y \in DOMAIN machine, LeadsTo(a, y) PROVE y \in U
  <2>1. Bus(y) = b
    BY <1>5 DEF LeadsTo, b
  <2>2. y \in Nat /\ Bus(y) * PerBus <= y
    BY <1>3, BusFacts
  <2>3. y >= b * PerBus
    BY <1>2, <2>1, <2>2
  <2> QED
    BY <1>a, <2>1, <2>3 DEF Region
<1>6. ASSUME NEW y \in U, Bus(y) = b PROVE LeadsTo(a, y)
  BY <1>a, <1>6 DEF LeadsTo, b
<1>7. V \subseteq DOMAIN machine
  BY <1>a DEF Region
<1>8. \A y \in DOMAIN machine : Bus(y) = Bus(a) /\ y >= a => y \in V
  BY <1>a, <1>3 DEF Region
<1>9. \A x \in V, y \in DOMAIN machine : LeadsTo(x, y) => y \in V
  BY <1>a, <1>5, Zenon DEF Region
<1>10. ASSUME NEW y \in V PROVE Bus(y) = Bus(a) \/ \E x \in V : LeadsTo(x, y)
  <2>1. CASE y = a
    BY <2>1
  <2>2. CASE y \in U
    <3>1. CASE Bus(y) = b
      BY <1>6, <2>2, <3>1, Zenon
    <3>2. CASE Bus(y) # b
      BY <1>a, <2>2, <3>2, Zenon DEF Region
    <3> QED
      BY <3>1, <3>2
  <2>3. CASE y \in W
    BY <1>a, <2>3, Zenon DEF Region
  <2> QED
    BY <2>1, <2>2, <2>3
<1> HIDE DEF V
<1>11. Region(Bus(a), a, V)
  BY <1>4, <1>7, <1>8, <1>9, <1>10, Zenon DEF Region
<1> QED
  BY <1>11 DEF V

\* Nothing is visited both behind a bridge and after it: nothing else leads there.
LEMMA RegionsDisjoint ==
  ASSUME MachineOK(machine), NEW a, NEW U, NEW W, BehindAndAfter(a, U, W)
  PROVE  U \cap W = {} /\ a \notin U /\ a \notin W
<1> DEFINE b == machine[a].sec
<1>a. a \in DOMAIN machine /\ b # 0 /\ Region(b, b * PerBus, U) /\ Region(Bus(a), a + 1, W)
  BY DEF BehindAndAfter
<1>0. a \in Nat /\ b \in Nat /\ Bus(a) \in Nat /\ Bus(a) < b /\ b < NBuses
  BY <1>a, MachineFacts
<1>1. b * PerBus \in Places /\ b * PerBus > a /\ Bus(b * PerBus) = b /\ b * PerBus \in Nat
  BY <1>0, FirstOfBus, PlaceFacts
<1> HIDE DEF b
<1>2. \A y \in U : y \in DOMAIN machine /\ y \in Nat /\ y >= b * PerBus
  BY <1>a, MachineFacts DEF Region
<1>3. \A y \in W : y \in DOMAIN machine /\ y \in Nat /\ y >= a + 1
  BY <1>a, MachineFacts DEF Region
<1>4. a \notin U /\ a \notin W
  BY <1>0, <1>1, <1>2, <1>3
<1>5. \A y \in U : Bus(y) \in Nat /\ b <= Bus(y)
  <2> SUFFICES ASSUME NEW y \in U PROVE Bus(y) \in Nat /\ b <= Bus(y)
    OBVIOUS
  <2>1. y \in Nat /\ b * PerBus <= y
    BY <1>1, <1>2
  <2>2. Bus(b * PerBus) <= Bus(y)
    BY <1>1, <2>1, BusMonotone
  <2> QED
    BY <1>1, <2>1, <2>2, BusFacts
<1>6. U \cap W = {}
  <2> SUFFICES ASSUME U \cap W # {} PROVE FALSE
    OBVIOUS
  <2>0. U \cap W \subseteq Nat
    BY <1>2
  <2>1. PICK y \in U \cap W : \A z \in U \cap W : y <= z
    BY <2>0, SmallestOf
  <2>2. Bus(y) # Bus(a)
    BY <1>0, <1>5, <2>1
  <2>3. PICK z \in W : LeadsTo(z, y)
    BY <1>a, <2>1, <2>2 DEF Region
  <2>4. CASE Bus(y) = b
    <3>1. LeadsTo(a, y)
      BY <1>a, <2>4 DEF LeadsTo, b
    <3>2. z = a
      BY <1>a, <1>3, <2>3, <3>1, OneBridge
    <3> QED
      BY <1>4, <3>2
  <2>5. CASE Bus(y) # b
    <3>1. PICK x \in U : LeadsTo(x, y)
      BY <1>a, <2>1, <2>5 DEF Region
    <3>2. x = z
      BY <1>2, <1>3, <2>3, <3>1, OneBridge
    <3>3. x < y /\ x \in Nat /\ y \in Nat
      BY <1>2, <2>1, <3>1, LeadsUp
    <3> QED
      BY <2>1, <3>1, <3>2, <3>3
  <2> QED
    BY <2>4, <2>5
<1> QED
  BY <1>4, <1>6

-----------------------------------------------------------------------------
(***************************************************************************)
(* What the scan lists.                                                    *)
(***************************************************************************)

Matching(V) == {y \in V : machine[y].id = vendor_device}

Visited(a, V) == Region(Bus(a), a, V) /\ Lists(ScanFrom[a], Matching(V))

LEMMA ListsMatch ==
  ASSUME NEW a \in Nat
  PROVE  Lists(IF machine[a].id = vendor_device THEN <<a>> ELSE <<>>, Matching({a}))
<1>1. CASE machine[a].id = vendor_device
  <2>1. Matching({a}) = {a}
    BY <1>1 DEF Matching
  <2> QED
    BY <1>1, <2>1, ListsOne
<1>2. CASE machine[a].id # vendor_device
  <2>1. Matching({a}) = {}
    BY <1>2 DEF Matching
  <2> QED
    BY <1>2, <2>1, ListsNone
<1> QED
  BY <1>1, <1>2

LEMMA MatchingSets ==
  /\ Matching({}) = {}
  /\ \A U, W : Matching(U \cup W) = Matching(U) \cup Matching(W)
  /\ \A U, W : U \cap W = {} => Matching(U) \cap Matching(W) = {}
BY DEF Matching

LEMMA ScanVisits ==
  ASSUME MachineOK(machine)
  PROVE  \A a \in Places : \E V : Visited(a, V)
<1> DEFINE bad == {a \in Places : ~\E V : Visited(a, V)}
<1>0. LastPlace \in Nat /\ \A a : a \in Places <=> a \in Nat /\ a <= LastPlace
  BY PlaceFacts
<1> SUFFICES ASSUME bad # {} PROVE FALSE
  OBVIOUS
<1>1. PICK a \in bad : \A c \in bad : c <= a
  <2>1. \A x \in bad : x \in Nat /\ x <= LastPlace
    BY <1>0
  <2> HIDE DEF bad
  <2> QED
    BY <1>0, <2>1, LargestOf
<1>2. a \in Nat /\ a \in Places /\ ~\E V : Visited(a, V)
  BY <1>0, <1>1
<1>3. ASSUME NEW c \in Places, c > a PROVE \E V : Visited(c, V)
  <2>1. ~(c <= a)
    BY <1>0, <1>2, <1>3
  <2> QED
    BY <1>1, <2>1
<1> DEFINE rest == IF (a + 1) % PerBus = 0 THEN <<>> ELSE ScanFrom[a + 1]
           match == IF machine[a].id = vendor_device THEN <<a>> ELSE <<>>
<1>4. PICK W : Region(Bus(a), a + 1, W) /\ Lists(rest, Matching(W))
  <2>1. CASE (a + 1) % PerBus = 0
    <3>1. Region(Bus(a), a + 1, {})
      BY <1>2, <2>1, RegionNone
    <3>2. Lists(rest, Matching({}))
      BY <2>1, ListsNone, MatchingSets
    <3> QED
      BY <3>1, <3>2
  <2>2. CASE (a + 1) % PerBus # 0
    <3>1. a + 1 \in Places /\ Bus(a + 1) = Bus(a) /\ a + 1 > a
      BY <1>2, <2>2, NextPlace
    <3>2. PICK W : Visited(a + 1, W)
      BY <1>3, <3>1
    <3> QED
      BY <2>2, <3>1, <3>2 DEF Visited
  <2> QED
    BY <2>1, <2>2
<1>5. ScanFrom[a] = ScanStep(ScanFrom, a)
  BY <1>2, ScanFromValue
<1>6. CASE a \notin DOMAIN machine
  <2>1. ScanFrom[a] = rest
    BY <1>5, <1>6, Zenon DEF ScanStep, LookedAt
  <2>2. Region(Bus(a), a, W)
    BY <1>2, <1>4, <1>6, RegionSkip
  <2> HIDE DEF rest
  <2>3. Visited(a, W)
    BY <1>4, <2>1, <2>2 DEF Visited
  <2> QED
    BY <1>2, <2>3
<1>7. CASE a \in DOMAIN machine /\ machine[a].sec = 0
  <2>1. LookedAt(a)
    BY <1>7, MachineFacts
  <2>2. ScanFrom[a] = (match \o <<>>) \o rest
    BY <1>5, <1>7, <2>1, Zenon DEF ScanStep
  <2>3. Region(Bus(a), a, {a} \cup W)
    BY <1>4, <1>7, RegionPlain
  <2>4. a \notin W
    BY <1>2, <1>4 DEF Region
  <2>5. Lists(match, Matching({a}))
    BY <1>2, ListsMatch
  <2> HIDE DEF match, rest
  <2>6. match \o <<>> = match
    BY <2>5, ConcatEmptySeq DEF Lists
  <2>7. Matching({a}) \cap Matching(W) = {}
    BY <2>4, MatchingSets
  <2>8. Lists(match \o rest, Matching({a}) \cup Matching(W))
    BY <1>4, <2>5, <2>7, ListsBoth
  <2>9. Visited(a, {a} \cup W)
    BY <2>2, <2>3, <2>6, <2>8, MatchingSets DEF Visited
  <2> QED
    BY <1>2, <2>9
<1>8. CASE a \in DOMAIN machine /\ machine[a].sec # 0
  <2> DEFINE b == machine[a].sec
  <2>1. LookedAt(a) /\ b \in Nat /\ Bus(a) \in Nat /\ Bus(a) < b /\ b < NBuses
    BY <1>8, MachineFacts
  <2>2. b * PerBus \in Places /\ b * PerBus > a /\ Bus(b * PerBus) = b
    BY <1>2, <2>1, FirstOfBus
  <2>3. PICK U : Visited(b * PerBus, U)
    BY <1>3, <2>2
  <2>4. b # Bus(a)
    BY <2>1
  <2>5. ScanFrom[a] = (match \o ScanFrom[b * PerBus]) \o rest
    BY <1>5, <1>8, <2>1, <2>4, Zenon DEF ScanStep
  <2>6. BehindAndAfter(a, U, W)
    BY <1>4, <1>8, <2>2, <2>3 DEF Visited, BehindAndAfter
  <2>7. Region(Bus(a), a, ({a} \cup U) \cup W) /\ U \cap W = {} /\ a \notin U /\ a \notin W
    BY <2>6, RegionBridge, RegionsDisjoint
  <2>8. Lists(match, Matching({a})) /\ Lists(ScanFrom[b * PerBus], Matching(U))
    BY <1>2, <2>3, ListsMatch DEF Visited
  <2> HIDE DEF match, rest, b
  <2>9. Matching({a}) \cap Matching(U) = {}
        /\ Matching({a} \cup U) \cap Matching(W) = {}
    <3>1. {a} \cap U = {} /\ ({a} \cup U) \cap W = {}
      BY <2>7
    <3> QED
      BY <3>1, MatchingSets
  <2>10. Lists(match \o ScanFrom[b * PerBus], Matching({a} \cup U))
    <3>1. Lists(match \o ScanFrom[b * PerBus], Matching({a}) \cup Matching(U))
      BY <2>8, <2>9, ListsBoth
    <3> QED
      BY <3>1, MatchingSets
  <2>11. Lists((match \o ScanFrom[b * PerBus]) \o rest, Matching({a} \cup U) \cup Matching(W))
    BY <1>4, <2>9, <2>10, ListsBoth
  <2>12. Visited(a, ({a} \cup U) \cup W)
    BY <2>5, <2>7, <2>11, MatchingSets DEF Visited
  <2> QED
    BY <1>2, <2>12
<1> QED
  BY <1>6, <1>7, <1>8

\* The scan from bus 0 lists every function with the identifier that can be reached.
LEMMA ScanLists ==
  ASSUME MachineOK(machine)
  PROVE  Lists(ScanFrom[0], {a \in DOMAIN machine : Bus(a) \in ReachableBuses
                                                   /\ machine[a].id = vendor_device})
<1>0. 0 \in Places /\ 0 \in Nat /\ NBuses \in Nat /\ NBuses > 0
  BY PlaceFacts
<1>1. PICK V : Region(Bus(0), 0, V) /\ Lists(ScanFrom[0], Matching(V))
  BY <1>0, ScanVisits DEF Visited
<1>2. Bus(0) = 0
  <2>1. Bus(0) \in Nat /\ Bus(0) * PerBus <= 0 /\ Bus(0) * PerBus \in Nat
    BY <1>0, BusFacts
  <2>2. CASE 0 < Bus(0)
    <3>1. 0 * PerBus + PerBus <= Bus(0) * PerBus
      BY <1>0, <2>1, <2>2, PlaceFacts, EarlierPage
    <3> QED
      BY <2>1, <3>1, PlaceFacts
  <2> QED
    BY <2>1, <2>2
<1>3. \A y \in V : y \in DOMAIN machine /\ y \in Nat
  BY <1>1, MachineFacts DEF Region
<1>4. ASSUME NEW bs, BusesClosed(bs), NEW y \in V PROVE Bus(y) \in bs
  <2> DEFINE out == {x \in V : Bus(x) \notin bs}
  <2> SUFFICES ASSUME out # {} PROVE FALSE
    OBVIOUS
  <2>1. out \subseteq Nat
    BY <1>3
  <2>2. PICK x \in out : \A z \in out : x <= z
    <3> HIDE DEF out
    <3> QED
      BY <2>1, SmallestOf
  <2>3. Bus(x) # 0
    BY <1>4, <2>2 DEF BusesClosed
  <2>4. PICK z \in V : LeadsTo(z, x)
    BY <1>1, <1>2, <2>2, <2>3 DEF Region
  <2>5. z < x /\ z \in Nat /\ x \in Nat
    BY <1>3, <2>2, <2>4, LeadsUp
  <2>6. Bus(z) \in bs
    BY <2>2, <2>4, <2>5
  <2> QED
    BY <1>3, <1>4, <2>2, <2>4, <2>6 DEF BusesClosed, LeadsTo
<1>5. \A y \in V : Bus(y) \in ReachableBuses
  <2> SUFFICES ASSUME NEW y \in V PROVE Bus(y) \in ReachableBuses
    OBVIOUS
  <2>1. Bus(y) \in 0..NBuses-1
    <3>1. Bus(y) \in Nat /\ Bus(y) < NBuses
      BY <1>3, MachineFacts
    <3> QED
      BY <1>0, <3>1
  <2> QED
    BY <1>4, <2>1 DEF ReachableBuses
<1>6. ASSUME NEW y \in DOMAIN machine, Bus(y) \in ReachableBuses PROVE y \in V
  <2> DEFINE bs == {0} \cup {machine[x].sec : x \in V}
  <2>1. \A z \in DOMAIN machine : Bus(z) \in bs => z \in V
    <3> SUFFICES ASSUME NEW z \in DOMAIN machine, Bus(z) \in bs PROVE z \in V
      OBVIOUS
    <3>1. CASE Bus(z) = 0
      <4>1. z \in Nat
        BY MachineFacts
      <4>2. z >= 0
        BY <4>1
      <4> QED
        BY <1>1, <1>2, <3>1, <4>2 DEF Region
    <3>2. CASE Bus(z) # 0
      <4>1. PICK x \in V : Bus(z) = machine[x].sec
        BY <3>2
      <4>2. LeadsTo(x, z)
        BY <3>2, <4>1 DEF LeadsTo
      <4> QED
        BY <1>1, <4>2 DEF Region
    <3> QED
      BY <3>1, <3>2
  <2>2. BusesClosed(bs)
    BY <2>1 DEF BusesClosed
  <2>3. bs \in SUBSET (0..NBuses-1)
    <3>1. ASSUME NEW x \in V PROVE machine[x].sec \in 0..NBuses-1
      <4>1. machine[x].sec \in Nat /\ machine[x].sec < NBuses
        BY <1>3, MachineFacts
      <4> QED
        BY <1>0, <4>1
    <3>2. 0 \in 0..NBuses-1
      BY <1>0
    <3> QED
      BY <3>1, <3>2
  <2>4. Bus(y) \in bs
    <3> HIDE DEF bs
    <3> QED
      BY <1>6, <2>2, <2>3 DEF ReachableBuses
  <2> QED
    BY <2>1, <2>4
<1>7. Matching(V) = {a \in DOMAIN machine : Bus(a) \in ReachableBuses
                                            /\ machine[a].id = vendor_device}
  BY <1>3, <1>5, <1>6 DEF Matching
<1> QED
  BY <1>1, <1>7

-----------------------------------------------------------------------------
(***************************************************************************)
(* The inductive invariant of the scan, the BARs and the capabilities.     *)
(***************************************************************************)

\* The driver has the first functions of the scan.
FoundInOrder ==
  /\ machine \in Machines /\ found \in Seq(Nat)
  /\ Len(found) <= Len(ScanFrom[0])
  /\ \A i \in 1..Len(found) : found[i] = ScanFrom[0][i]

BarsRead ==
  \E l \in Layouts, u \in [1..NBars -> Uppers] :
    words = WordsOf(l, u) /\ (bar # <<>> => bar = BarsOf(l, u))

MsiAsFound ==
  /\ msi[1] = "on" <=> FindCapability("msi") # 0
  /\ msi[1] = "on" => msi[3][IF msi[2] THEN 12 ELSE 8] = "data" /\ msi[3][4] = "low"

PciInv ==
  /\ pci_pc \in {"idle", "find", "done", "bars", "caps", "msi"}
  /\ pci_pc \in {"find", "done"} => FoundInOrder
  /\ pci_pc = "done" => Len(found) = Len(ScanFrom[0])
  /\ pci_pc = "bars" => BarsRead
  /\ pci_pc \in {"caps", "msi"} => CapsOK
  /\ pci_pc = "msi" => MsiAsFound

LEMMA ScanSequence == ASSUME machine \in Machines PROVE ScanFrom[0] \in Seq(Nat)
<1>1. MachineOK(machine)
  BY PciAssumption
<1> QED
  BY <1>1, ScanLists DEF Lists

LEMMA PciInitInv == PciStart \/ PciUnused => PciInv
<1>1. CASE PciStart /\ pci_pc = "find"
  <2>1. machine \in Machines /\ found = <<>>
    BY <1>1 DEF PciStart
  <2>2. ScanFrom[0] \in Seq(Nat)
    BY <2>1, ScanSequence
  <2>3. FoundInOrder
    BY <2>1, <2>2 DEF FoundInOrder
  <2> QED
    BY <1>1, <2>3 DEF PciInv
<1>2. CASE PciStart /\ pci_pc = "bars"
  <2>1. BarsRead
    BY <1>2 DEF PciStart, BarsRead
  <2> QED
    BY <1>2, <2>1 DEF PciInv
<1>3. CASE PciStart /\ pci_pc = "caps"
  <2>1. CapsOK
    BY <1>3 DEF PciStart, CapsOK
  <2> QED
    BY <1>3, <2>1 DEF PciInv
<1>4. CASE PciUnused
  BY <1>4 DEF PciUnused, PciInv
<1>5. PciStart => pci_pc \in {"find", "bars", "caps"}
  BY DEF PciStart
<1> QED
  BY <1>1, <1>2, <1>3, <1>4, <1>5

\* What is computed from the machine, the words or the list changes with them only.
LEMMA ScanSame ==
  ASSUME UNCHANGED <<machine, vendor_device>>
  PROVE  ScanFrom' = ScanFrom
BY DEF ScanFrom, LookedAt

LEMMA FindCapabilitySame ==
  ASSUME UNCHANGED caps
  PROVE  FindCapability("msi")' = FindCapability("msi")
BY DEF FindCapability, HopsWithin, SlotAt

LEMMA FindNextInv == ASSUME PciInv, FindNext PROVE PciInv'
<1>1. /\ pci_pc = "find" /\ FoundInOrder
      /\ UNCHANGED <<machine, vendor_device, words, bar, caps, msi>>
  BY DEF PciInv, FindNext
<1>2. ScanFrom' = ScanFrom
  BY <1>1, ScanSame
<1>3. PICK n \in Nat, hits \in Seq(Nat) :
         /\ n = Len(found) /\ hits = ScanFrom[0] /\ n <= Len(hits) /\ found \in Seq(Nat)
         /\ \A i \in 1..n : found[i] = hits[i]
  <2>1. ScanFrom[0] \in Seq(Nat)
    BY <1>1, ScanSequence DEF FoundInOrder
  <2>2. Len(found) \in Nat
    BY <1>1 DEF FoundInOrder
  <2> QED
    BY <1>1, <2>1, <2>2 DEF FoundInOrder
<1>4. CASE n < Len(hits)
  <2>1. FindDeviceNth(n) = <<hits[n + 1]>>
    BY <1>3, <1>4 DEF FindDeviceNth
  <2>2. found' = found \o <<hits[n + 1]>> /\ pci_pc' = "find"
    <3>1. <<hits[n + 1]>> # <<>>
      OBVIOUS
    <3> QED
      BY <1>3, <2>1, <3>1 DEF FindNext
  <2>3. hits[n + 1] \in Nat
    BY <1>3, <1>4
  <2>4. /\ found' \in Seq(Nat) /\ Len(found') = n + 1
        /\ \A i \in 1..n : found'[i] = found[i]
        /\ found'[n + 1] = hits[n + 1]
    BY <1>3, <2>2, <2>3
  <2>5. \A i \in 1..n+1 : found'[i] = hits[i]
    <3> SUFFICES ASSUME NEW i \in 1..n+1 PROVE found'[i] = hits[i]
      OBVIOUS
    <3>1. CASE i = n + 1
      BY <2>4, <3>1
    <3>2. CASE i # n + 1
      <4>1. i \in 1..n
        BY <3>2
      <4> QED
        BY <1>3, <2>4, <4>1
    <3> QED
      BY <3>1, <3>2
  <2>6. machine' \in Machines
    BY <1>1 DEF FoundInOrder
  <2>7. Len(found') <= Len(hits) /\ hits = ScanFrom'[0]
    BY <1>2, <1>3, <1>4, <2>4
  <2>8. FoundInOrder'
    BY <2>4, <2>5, <2>6, <2>7 DEF FoundInOrder
  <2> QED
    BY <2>2, <2>8 DEF PciInv
<1>5. CASE n = Len(hits)
  <2>1. FindDeviceNth(n) = <<>>
    BY <1>3, <1>5 DEF FindDeviceNth
  <2>2. found' = found \o <<>> /\ pci_pc' = "done"
    BY <1>3, <2>1 DEF FindNext
  <2>3. found' = found
    BY <1>3, <2>2, ConcatEmptySeq
  <2>4. FoundInOrder'
    BY <1>1, <1>2, <2>3 DEF FoundInOrder
  <2>5. Len(found') = Len(ScanFrom'[0])
    BY <1>2, <1>3, <1>5, <2>3
  <2> QED
    BY <2>2, <2>4, <2>5 DEF PciInv
<1> QED
  BY <1>3, <1>4, <1>5

LEMMA ReadBarsInv == ASSUME PciInv, ReadBars PROVE PciInv'
<1>1. pci_pc = "bars" /\ BarsRead /\ bar' = SetupBars /\ UNCHANGED <<pci_pc, words>>
  BY DEF PciInv, ReadBars
<1>2. PICK l \in Layouts, u \in [1..NBars -> Uppers] : words = WordsOf(l, u)
  BY <1>1 DEF BarsRead
<1>3. SetupBars = BarsOf(l, u)
  BY <1>2, SetupBarsRight
<1>4. BarsRead'
  BY <1>1, <1>2, <1>3 DEF BarsRead
<1> QED
  BY <1>1, <1>4 DEF PciInv

LEMMA MsiConfigureInv == ASSUME PciInv, MsiConfigure PROVE PciInv'
<1>1. pci_pc = "caps" /\ pci_pc' = "msi" /\ CapsOK /\ caps' = caps
  BY DEF PciInv, MsiConfigure
<1>2. CapsOK'
  BY <1>1 DEF CapsOK
<1>3. FindCapability("msi")' = FindCapability("msi")
  BY <1>1, FindCapabilitySame
<1>4. PICK addr64 \in BOOLEAN :
        msi' = IF FindCapability("msi") = 0 THEN <<"none">>
               ELSE <<"on", addr64,
                      [r \in {4, 8, 12} |->
                         CASE r = 4 -> "low"
                           [] r = 8 -> IF addr64 THEN "high" ELSE "data"
                           [] OTHER -> IF addr64 THEN "data" ELSE "mask"]>>
  BY DEF MsiConfigure
<1>5. MsiAsFound'
  <2>1. CASE FindCapability("msi") = 0
    BY <1>3, <1>4, <2>1 DEF MsiAsFound
  <2>2. CASE FindCapability("msi") # 0
    <3> DEFINE regs == [r \in {4, 8, 12} |->
                          CASE r = 4 -> "low"
                            [] r = 8 -> IF addr64 THEN "high" ELSE "data"
                            [] OTHER -> IF addr64 THEN "data" ELSE "mask"]
    <3>1. msi' = <<"on", addr64, regs>>
      BY <1>4, <2>2
    <3>2. regs[4] = "low" /\ regs[IF addr64 THEN 12 ELSE 8] = "data"
      OBVIOUS
    <3> HIDE DEF regs
    <3>3. msi'[1] = "on" /\ msi'[2] = addr64 /\ msi'[3] = regs
      BY <3>1
    <3> QED
      BY <1>3, <2>2, <3>2, <3>3 DEF MsiAsFound
  <2> QED
    BY <2>1, <2>2
<1> QED
  BY <1>1, <1>2, <1>5 DEF PciInv

LEMMA PciStepInv == ASSUME PciInv, [PciNext]_pciVars PROVE PciInv'
<1>1. CASE UNCHANGED pciVars
  <2>1. UNCHANGED <<pci_pc, machine, vendor_device, found, words, bar, caps, msi>>
    BY <1>1 DEF pciVars
  <2>2. ScanFrom' = ScanFrom /\ FindCapability("msi")' = FindCapability("msi")
    BY <2>1, ScanSame, FindCapabilitySame
  <2>3. (FoundInOrder => FoundInOrder') /\ (BarsRead => BarsRead')
        /\ (CapsOK => CapsOK') /\ (MsiAsFound => MsiAsFound')
    BY <2>1, <2>2 DEF FoundInOrder, BarsRead, CapsOK, MsiAsFound
  <2> QED
    BY <2>1, <2>2, <2>3 DEF PciInv
<1> QED
  BY <1>1, FindNextInv, ReadBarsInv, MsiConfigureInv DEF PciNext

LEMMA PciInvSafe == ASSUME PciInv PROVE FunctionsFound /\ BarsAsDeclared /\ CapabilitiesFound
<1>1. FunctionsFound
  <2> SUFFICES ASSUME pci_pc = "done"
               PROVE  /\ Range(found) = {a \in DOMAIN machine : Bus(a) \in ReachableBuses
                                                                /\ machine[a].id = vendor_device}
                      /\ IsInjective(found)
    BY DEF FunctionsFound
  <2>1. FoundInOrder /\ Len(found) = Len(ScanFrom[0])
    BY DEF PciInv
  <2>2. MachineOK(machine) /\ ScanFrom[0] \in Seq(Nat)
    BY <2>1, PciAssumption, ScanSequence DEF FoundInOrder
  <2>3. found = ScanFrom[0]
    <3>1. \A i \in 1..Len(found) : found[i] = ScanFrom[0][i]
      BY <2>1 DEF FoundInOrder
    <3>2. found \in Seq(Nat)
      BY <2>1 DEF FoundInOrder
    <3> QED
      BY <2>1, <2>2, <3>1, <3>2, SeqEqual
  <2> QED
    BY <2>2, <2>3, ScanLists DEF Lists
<1>2. BarsAsDeclared
  BY DEF PciInv, BarsRead, BarsAsDeclared
<1>3. CapabilitiesFound
  <2>1. ASSUME pci_pc \in {"caps", "msi"}, NEW id \in CapIds
        PROVE  IF FindCapability(id) = 0 THEN \A t \in ListedSlots : caps.id[t] # id
               ELSE FindCapability(id) \in ListedSlots /\ caps.id[FindCapability(id)] = id
    BY <2>1, FindCapabilityRight DEF PciInv
  <2>2. ASSUME pci_pc = "msi", "msi" \in CapIds
        PROVE  /\ msi[1] = "on" <=> \E t \in ListedSlots : caps.id[t] = "msi"
               /\ msi[1] = "on" => msi[3][IF msi[2] THEN 12 ELSE 8] = "data" /\ msi[3][4] = "low"
    <3>1. MsiAsFound
      BY <2>2 DEF PciInv
    <3>2. FindCapability("msi") # 0 <=> \E t \in ListedSlots : caps.id[t] = "msi"
      BY <2>1, <2>2
    <3> QED
      BY <3>1, <3>2, Zenon DEF MsiAsFound
  <2> QED
    BY <2>1, <2>2, Zenon DEF CapabilitiesFound
<1> QED
  BY <1>1, <1>2, <1>3

-----------------------------------------------------------------------------
(***************************************************************************)
(* The device tree: the walker's offsets.                                  *)
(***************************************************************************)

Starts == DOMAIN blob.at

LEMMA TokenFacts ==
  ASSUME BlobOK(blob), NEW o \in Starts
  PROVE  /\ o \in Nat /\ o % 4 = 0 /\ o < struct_size /\ struct_size \in Nat
         /\ TokenAt(o) = blob.at[o]
         /\ blob.at[o].tok \in {"BEGIN_NODE", "END_NODE", "PROP", "NOP", "END"}
         /\ blob.at[o].tok = "BEGIN_NODE" => NodeOK(blob, o) /\ blob.at[o].node.nlen \in Nat
         /\ blob.at[o].tok = "PROP" => blob.at[o].prop.len \in Nat
         /\ blob.at[o].tok # "END" => o + Bytes(blob.at[o]) \in Starts
         /\ \A p \in Starts : p > o => blob.at[o].tok # "END" /\ p >= o + Bytes(blob.at[o])
<1>1. /\ o \in Nat /\ o % 4 = 0 /\ o < struct_size /\ struct_size \in Nat
      /\ blob.at[o].tok \in {"BEGIN_NODE", "END_NODE", "PROP", "NOP", "END"}
      /\ blob.at[o].tok = "BEGIN_NODE" => NodeOK(blob, o)
      /\ blob.at[o].tok = "PROP" => blob.at[o].prop.len \in Nat
      /\ blob.at[o].tok # "END" => o + Bytes(blob.at[o]) \in Starts
      /\ \A p \in Starts : p > o => blob.at[o].tok # "END" /\ p >= o + Bytes(blob.at[o])
  BY DEF BlobOK, struct_size, Starts
<1>2. TokenAt(o) = blob.at[o]
  BY DEF TokenAt, Starts
<1>3. NodeOK(blob, o) => blob.at[o].node.nlen \in Nat
  BY DEF NodeOK
<1> QED
  BY <1>1, <1>2, <1>3

LEMMA AlignName ==
  ASSUME NEW o \in Nat, o % 4 = 0, NEW n \in Nat
  PROVE  /\ Align4(o + 4 + n + 1) = o + Align4(4 + n + 1)
         /\ Align4(4 + n + 1) \in Nat /\ Align4(4 + n + 1) >= 4
<1>1. PICK k \in Nat : o = 4 * k
  <2>1. o \div 4 \in Nat /\ o = 4 * (o \div 4)
    OBVIOUS
  <2> QED
    BY <2>1
<1>2. (o + 4 + n + 1 + 3) \div 4 = k + (4 + n + 1 + 3) \div 4
  BY <1>1
<1> QED
  BY <1>1, <1>2 DEF Align4

LEMMA AlignNat == ASSUME NEW n \in Nat PROVE Align4(n) \in Nat
BY DEF Align4

\* Stepping over a token leads to the next one.
LEMMA StepOver ==
  ASSUME BlobOK(blob), NEW o \in Starts
  PROVE  /\ Bytes(blob.at[o]) \in Nat /\ Bytes(blob.at[o]) > 0
         /\ blob.at[o].tok = "BEGIN_NODE" => SkipName(o) = o + Bytes(blob.at[o])
         /\ blob.at[o].tok = "PROP" => SkipProp(o) = o + Bytes(blob.at[o])
         /\ blob.at[o].tok \in {"END_NODE", "NOP", "END"} => Bytes(blob.at[o]) = 4
<1>1. /\ o \in Nat /\ o % 4 = 0 /\ TokenAt(o) = blob.at[o]
      /\ blob.at[o].tok \in {"BEGIN_NODE", "END_NODE", "PROP", "NOP", "END"}
      /\ blob.at[o].tok = "BEGIN_NODE" => blob.at[o].node.nlen \in Nat
      /\ blob.at[o].tok = "PROP" => blob.at[o].prop.len \in Nat
  BY TokenFacts
<1>2. CASE blob.at[o].tok = "BEGIN_NODE"
  <2>1. PICK n \in Nat : n = blob.at[o].node.nlen
    BY <1>1, <1>2
  <2>2. Bytes(blob.at[o]) = Align4(4 + n + 1) /\ SkipName(o) = Align4(o + 4 + n + 1)
    BY <1>1, <1>2, <2>1 DEF Bytes, SkipName
  <2>3. /\ Align4(o + 4 + n + 1) = o + Align4(4 + n + 1)
        /\ Align4(4 + n + 1) \in Nat /\ Align4(4 + n + 1) >= 4
    BY <1>1, AlignName
  <2>4. Bytes(blob.at[o]) \in Nat /\ Bytes(blob.at[o]) > 0
    BY <2>2, <2>3
  <2>5. SkipName(o) = o + Bytes(blob.at[o])
    BY <2>2, <2>3
  <2> QED
    BY <1>2, <2>4, <2>5
<1>3. CASE blob.at[o].tok = "PROP"
  <2>1. PICK n \in Nat : n = Align4(blob.at[o].prop.len)
    BY <1>1, <1>3, AlignNat
  <2>2. Bytes(blob.at[o]) = 12 + n
    BY <1>3, <2>1 DEF Bytes
  <2>3. SkipProp(o) = o + 12 + n
    BY <1>1, <2>1 DEF SkipProp
  <2> QED
    BY <1>1, <1>3, <2>2, <2>3
<1>4. CASE blob.at[o].tok \in {"END_NODE", "NOP", "END"}
  BY <1>4 DEF Bytes
<1> QED
  BY <1>1, <1>2, <1>3, <1>4

-----------------------------------------------------------------------------
(***************************************************************************)
(* What fdt_node_prop's loop gives.                                        *)
(***************************************************************************)

\* The equation of PropFrom, with what it takes from further on.
PropStep(g, q) ==
  LET t == TokenAt(q[2])
      next == IF t.tok = "NOP" THEN q[2] + 4 ELSE SkipProp(q[2])
  IN IF t.tok \notin {"NOP", "PROP"} THEN NoProp
     ELSE IF t.tok = "PROP" /\ t.prop.name = q[1] THEN t.prop
     ELSE IF next < struct_size THEN g[<<q[1], next>>] ELSE NoProp

LastOffset == struct_size - 1
Keys(o) == PropNames \X (o..LastOffset)

LEMMA OffsetFacts ==
  ASSUME BlobOK(blob)
  PROVE  LastOffset \in Nat /\ LastOffset = struct_size - 1 /\ struct_size \in Nat
<1>1. struct_size \in Nat /\ 0 \in Starts
  BY DEF BlobOK, struct_size, Starts
<1>2. 0 < struct_size
  BY <1>1, TokenFacts
<1> QED
  BY <1>1, <1>2 DEF LastOffset

LEMMA PropStepLooksAhead ==
  ASSUME BlobOK(blob), NEW g, NEW h, NEW name \in PropNames, NEW o \in 0..LastOffset,
         \A p \in 0..LastOffset : p > o => g[<<name, p>>] = h[<<name, p>>]
  PROVE  PropStep(g, <<name, o>>) = PropStep(h, <<name, o>>)
<1> DEFINE t == TokenAt(o)
           next == IF t.tok = "NOP" THEN o + 4 ELSE SkipProp(o)
<1>0. LastOffset \in Nat /\ LastOffset = struct_size - 1 /\ struct_size \in Nat /\ o \in Nat
  BY OffsetFacts
<1>1. ASSUME t.tok \in {"NOP", "PROP"}, next < struct_size
      PROVE  g[<<name, next>>] = h[<<name, next>>]
  <2>1. o \in Starts
    BY <1>1 DEF TokenAt, Starts
  <2>2. next = o + Bytes(blob.at[o]) /\ Bytes(blob.at[o]) \in Nat /\ Bytes(blob.at[o]) > 0
    BY <1>1, <2>1, TokenFacts, StepOver
  <2> HIDE DEF next
  <2>3. next \in 0..LastOffset /\ next > o
    BY <1>0, <1>1, <2>2
  <2> QED
    BY <2>3
<1>2. \A f : PropStep(f, <<name, o>>) =
        IF t.tok \notin {"NOP", "PROP"} THEN NoProp
        ELSE IF t.tok = "PROP" /\ t.prop.name = name THEN t.prop
        ELSE IF next < struct_size THEN f[<<name, next>>] ELSE NoProp
  BY DEF PropStep
<1> HIDE DEF t, next
<1> QED
  BY <1>1, <1>2, Zenon

\* g is what the loop gives from every offset from o on.
Finds(g, o) ==
  /\ g = [q \in Keys(o) |-> g[q]]
  /\ \A name \in PropNames, p \in o..LastOffset : g[<<name, p>>] = PropStep(g, <<name, p>>)

LEMMA FindsExists == ASSUME BlobOK(blob) PROVE \E g : Finds(g, 0)
<1> DEFINE bad == {o \in 0..LastOffset : ~\E g : Finds(g, o)}
<1>0. LastOffset \in Nat
  BY OffsetFacts
<1> SUFFICES ASSUME bad # {} PROVE FALSE
  BY <1>0
<1>1. PICK o \in bad : \A c \in bad : c <= o
  <2>1. \A x \in bad : x \in Nat /\ x <= LastOffset
    BY <1>0
  <2> HIDE DEF bad
  <2> QED
    BY <1>0, <2>1, LargestOf
<1>2. o \in Nat /\ o <= LastOffset /\ o \in 0..LastOffset
  BY <1>0, <1>1
<1>3. PICK g : Finds(g, o + 1)
  <2>1. CASE o = LastOffset
    <3>1. \A c : c \notin o + 1 .. LastOffset
      BY <1>0, <1>2, <2>1
    <3>2. Finds([q \in Keys(o + 1) |-> 0], o + 1)
      BY <3>1 DEF Finds
    <3> QED
      BY <3>2
  <2>2. CASE o # LastOffset
    <3>1. o + 1 \in 0..LastOffset /\ ~(o + 1 <= o)
      BY <1>0, <1>2, <2>2
    <3> QED
      BY <1>1, <3>1
  <2> QED
    BY <2>1, <2>2
<1> DEFINE h == [q \in Keys(o) |-> IF q[2] = o THEN PropStep(g, q) ELSE g[q]]
<1>4. ASSUME NEW name \in PropNames, NEW p \in o..LastOffset
      PROVE  h[<<name, p>>] = IF p = o THEN PropStep(g, <<name, o>>) ELSE g[<<name, p>>]
  <2>1. <<name, p>> \in Keys(o)
    BY DEF Keys
  <2> QED
    BY <2>1
<1>5. ASSUME NEW name \in PropNames, NEW p \in o..LastOffset
      PROVE  h[<<name, p>>] = PropStep(h, <<name, p>>)
  <2>1. p \in 0..LastOffset /\ p >= o
    BY <1>0, <1>2
  <2>2. ASSUME NEW d \in 0..LastOffset, d > p PROVE h[<<name, d>>] = g[<<name, d>>]
    <3>1. d \in o..LastOffset /\ d # o
      BY <1>0, <1>2, <2>1, <2>2
    <3> HIDE DEF h
    <3> QED
      BY <1>4, <3>1
  <2> HIDE DEF h
  <2>3. PropStep(h, <<name, p>>) = PropStep(g, <<name, p>>)
    BY <2>1, <2>2, PropStepLooksAhead
  <2>4. CASE p = o
    BY <1>4, <2>3, <2>4
  <2>5. CASE p # o
    <3>1. p \in o + 1 .. LastOffset
      BY <1>0, <1>2, <2>1, <2>5
    <3>2. g[<<name, p>>] = PropStep(g, <<name, p>>)
      BY <1>3, <3>1 DEF Finds
    <3> QED
      BY <1>4, <2>3, <2>5, <3>2
  <2> QED
    BY <2>4, <2>5
<1>6. Finds(h, o)
  <2>1. h = [q \in Keys(o) |-> h[q]]
    OBVIOUS
  <2> HIDE DEF h
  <2> QED
    BY <1>5, <2>1 DEF Finds
<1> QED
  BY <1>1, <1>6

LEMMA PropFromValue ==
  ASSUME BlobOK(blob), NEW name \in PropNames, NEW o \in 0..LastOffset
  PROVE  PropFrom[<<name, o>>] = PropStep(PropFrom, <<name, o>>)
<1> DEFINE body(f) == [q \in Keys(0) |-> PropStep(f, q)]
<1>1. PICK g : Finds(g, 0)
  BY FindsExists
<1>2. \A q \in Keys(0) : g[q] = PropStep(g, q)
  <2> SUFFICES ASSUME NEW q \in Keys(0) PROVE g[q] = PropStep(g, q)
    OBVIOUS
  <2>1. PICK n \in PropNames, p \in 0..LastOffset : q = <<n, p>>
    BY DEF Keys
  <2> QED
    BY <1>1, <2>1 DEF Finds
<1>3. g = body(g)
  BY <1>1, <1>2, Zenon DEF Finds
<1>4. PropFrom = CHOOSE f : f = body(f)
  BY Zenon DEF PropFrom, PropStep, Keys, LastOffset
<1>5. PropFrom = body(PropFrom)
  <2> HIDE DEF body
  <2> QED
    BY <1>3, <1>4, Zenon
<1>6. <<name, o>> \in Keys(0)
  BY DEF Keys
<1>7. PropFrom[<<name, o>>] = body(PropFrom)[<<name, o>>]
  BY <1>5, Zenon
<1> QED
  BY <1>6, <1>7, Zenon

-----------------------------------------------------------------------------
(***************************************************************************)
(* From the first of a node's properties the loop gives the node's own.    *)
(***************************************************************************)

Props(o) == blob.at[o].node.props
Body(o) == blob.at[o].body
Named(o, name, i) == {j \in DOMAIN Props(o) : j >= i /\ Props(o)[j].name = name}
FirstNamed(o, name, i) ==
  IF Named(o, name, i) = {} THEN NoProp ELSE Props(o)[Min(Named(o, name, i))]

LEMMA MinIs ==
  ASSUME NEW S, S \subseteq Int, NEW m \in S, \A x \in S : m <= x
  PROVE  Min(S) = m
<1>1. Min(S) \in S /\ \A y \in S : Min(S) <= y
  BY DEF Min
<1>2. Min(S) \in Int /\ m \in Int /\ Min(S) <= m /\ m <= Min(S)
  BY <1>1
<1> QED
  BY <1>2

LEMMA NodeFacts ==
  ASSUME BlobOK(blob), NEW o \in Nodes
  PROVE  /\ o \in Starts /\ blob.at[o].tok = "BEGIN_NODE" /\ TokenAt(o) = blob.at[o]
         /\ Props(o) \in Seq(Range(Props(o))) /\ Len(Props(o)) \in Nat
         /\ DOMAIN Props(o) = 1..Len(Props(o))
         /\ SkipName(o) = Body(o)[1]
         /\ \A i \in 1..Len(Props(o)) + 1 : Body(o)[i] \in Starts
         /\ blob.at[Body(o)[Len(Props(o)) + 1]].tok \in {"BEGIN_NODE", "END_NODE"}
         /\ \A i \in 1..Len(Props(o)) :
              /\ PropOK(Props(o)[i])
              /\ blob.at[Body(o)[i]] = PropToken(Props(o)[i])
              /\ Body(o)[i + 1] = Body(o)[i] + Bytes(blob.at[Body(o)[i]])
<1>1. o \in Starts /\ blob.at[o].tok = "BEGIN_NODE"
  BY DEF Nodes, Starts
<1>2. TokenAt(o) = blob.at[o] /\ NodeOK(blob, o)
  BY <1>1, TokenFacts
<1>3. SkipName(o) = o + Bytes(blob.at[o])
  BY <1>1, StepOver
<1>4. /\ Props(o) \in Seq(Range(Props(o)))
      /\ Body(o)[1] = o + Bytes(blob.at[o])
      /\ \A i \in 1..Len(Props(o)) + 1 : Body(o)[i] \in Starts
      /\ blob.at[Body(o)[Len(Props(o)) + 1]].tok \in {"BEGIN_NODE", "END_NODE"}
      /\ \A i \in DOMAIN Props(o) :
              /\ PropOK(Props(o)[i])
              /\ blob.at[Body(o)[i]] = PropToken(Props(o)[i])
              /\ Body(o)[i + 1] = Body(o)[i] + Bytes(blob.at[Body(o)[i]])
  BY <1>2, Zenon DEF NodeOK, Props, Body, Starts
<1>5. Len(Props(o)) \in Nat /\ DOMAIN Props(o) = 1..Len(Props(o))
  BY <1>4, LenProperties
<1> QED
  BY <1>1, <1>2, <1>3, <1>4, <1>5, Zenon

\* One of a node's properties, or the NOP in its place: found, or stepped over.
LEMMA AtProperty ==
  ASSUME BlobOK(blob), NEW o \in Nodes, NEW name \in PropNames, NEW i \in 1..Len(Props(o))
  PROVE  PropFrom[<<name, Body(o)[i]>>] =
           IF Props(o)[i].name = name THEN Props(o)[i]
           ELSE PropFrom[<<name, Body(o)[i + 1]>>]
<1> DEFINE p == Body(o)[i]
           r == Props(o)[i]
           t == blob.at[p]
           n == Body(o)[i + 1]
<1>0. LastOffset \in Nat /\ LastOffset = struct_size - 1 /\ struct_size \in Nat
  BY OffsetFacts
<1>1. Len(Props(o)) \in Nat
  BY NodeFacts
<1>2. i \in 1..Len(Props(o)) + 1 /\ i + 1 \in 1..Len(Props(o)) + 1
  BY <1>1
<1>3. p \in Starts /\ n \in Starts /\ t = PropToken(r) /\ n = p + Bytes(t)
  BY <1>2, NodeFacts
<1> HIDE DEF n
<1>4. TokenAt(p) = t /\ p \in Nat /\ p < struct_size /\ n \in Nat /\ n < struct_size
  BY <1>3, TokenFacts
<1>5. p \in 0..LastOffset
  BY <1>0, <1>4
<1>6. PropFrom[<<name, p>>] = PropStep(PropFrom, <<name, p>>)
  BY <1>5, PropFromValue
<1>7. name # "NOP"
  BY DEF PropNames
<1>8. CASE r.name = "NOP"
  <2>1. t = [tok |-> "NOP"]
    BY <1>3, <1>8 DEF PropToken
  <2>2. t.tok = "NOP"
    BY <2>1
  <2>3. n = p + 4
    BY <1>3, <2>2, StepOver
  <2> HIDE DEF p, t
  <2>4. PropStep(PropFrom, <<name, p>>) = PropFrom[<<name, n>>]
    BY <1>4, <2>2, <2>3 DEF PropStep
  <2> QED
    BY <1>6, <1>7, <1>8, <2>4 DEF p, n
<1>9. CASE r.name # "NOP"
  <2>1. t = [tok |-> "PROP", prop |-> r]
    BY <1>3, <1>9 DEF PropToken
  <2>2. t.tok = "PROP" /\ t.prop = r
    BY <2>1
  <2>3. SkipProp(p) = n
    BY <1>3, <2>2, StepOver
  <2> HIDE DEF p, t, r
  <2>4. PropStep(PropFrom, <<name, p>>) =
          IF r.name = name THEN r ELSE PropFrom[<<name, n>>]
    BY <1>4, <2>2, <2>3 DEF PropStep
  <2> QED
    BY <1>6, <2>4 DEF p, n, r
<1> QED
  BY <1>8, <1>9

LEMMA FromBody ==
  ASSUME BlobOK(blob), NEW o \in Nodes, NEW name \in PropNames
  PROVE  \A i \in 1..Len(Props(o)) + 1 :
           PropFrom[<<name, Body(o)[i]>>] = FirstNamed(o, name, i)
<1> DEFINE k == Len(Props(o))
           Right(i) == PropFrom[<<name, Body(o)[i]>>] = FirstNamed(o, name, i)
           bad == {i \in 1..k + 1 : ~Right(i)}
<1>0. k \in Nat /\ DOMAIN Props(o) = 1..k
  BY NodeFacts
<1> HIDE DEF k
<1> SUFFICES ASSUME bad # {} PROVE FALSE
  BY Zenon DEF k
<1>1. PICK i \in bad : \A c \in bad : c <= i
  <2>1. k + 1 \in Nat /\ \A x \in bad : x \in Nat /\ x <= k + 1
    BY <1>0
  <2> HIDE DEF bad
  <2> QED
    BY <2>1, LargestOf
<1>2. i \in Nat /\ i >= 1 /\ i <= k + 1 /\ ~Right(i)
  BY <1>0, <1>1
<1>3. CASE i = k + 1
  <2>1. Body(o)[i] \in Starts /\ blob.at[Body(o)[i]].tok \in {"BEGIN_NODE", "END_NODE"}
    BY <1>0, <1>3, NodeFacts DEF k
  <2>2. /\ TokenAt(Body(o)[i]) = blob.at[Body(o)[i]]
        /\ Body(o)[i] \in 0..LastOffset
    BY <2>1, TokenFacts, OffsetFacts
  <2>3. PropFrom[<<name, Body(o)[i]>>] = NoProp
    BY <2>1, <2>2, PropFromValue DEF PropStep
  <2>4. Named(o, name, i) = {}
    BY <1>0, <1>3 DEF Named
  <2> QED
    BY <1>2, <2>3, <2>4 DEF FirstNamed
<1>4. CASE i <= k
  <2>1. i \in 1..k /\ i + 1 \in 1..k + 1 /\ ~(i + 1 <= i)
    BY <1>0, <1>2, <1>4
  <2>2. Right(i + 1)
    BY <1>1, <2>1
  <2>3. PropFrom[<<name, Body(o)[i]>>] =
          IF Props(o)[i].name = name THEN Props(o)[i]
          ELSE PropFrom[<<name, Body(o)[i + 1]>>]
    BY <2>1, AtProperty DEF k
  <2>4. CASE Props(o)[i].name = name
    <3>1. i \in Named(o, name, i) /\ Named(o, name, i) \subseteq Int
      BY <1>0, <2>1, <2>4 DEF Named
    <3>2. \A x \in Named(o, name, i) : i <= x
      BY <1>0, <1>2 DEF Named
    <3>3. Min(Named(o, name, i)) = i
      BY <3>1, <3>2, MinIs
    <3> QED
      BY <1>2, <2>3, <2>4, <3>1, <3>3 DEF FirstNamed
  <2>5. CASE Props(o)[i].name # name
    <3>1. ASSUME NEW j \in 1..k, Props(o)[j].name = name PROVE j >= i <=> j >= i + 1
      <4>1. j # i
        BY <2>5, <3>1
      <4> QED
        BY <1>0, <1>2, <4>1
    <3>2. Named(o, name, i) = Named(o, name, i + 1)
      BY <1>0, <3>1, Zenon DEF Named
    <3> QED
      BY <1>2, <2>2, <2>3, <2>5, <3>2, Zenon DEF FirstNamed
  <2> QED
    BY <2>4, <2>5
<1> QED
  BY <1>0, <1>2, <1>3, <1>4

LEMMA OwnFound ==
  ASSUME BlobOK(blob), NEW o \in Nodes, NEW name \in PropNames
  PROVE  NodeProp(o, name) = Own(o, name)
<1>1. Len(Props(o)) \in Nat /\ DOMAIN Props(o) = 1..Len(Props(o)) /\ SkipName(o) = Body(o)[1]
  BY NodeFacts
<1>2. 1 \in 1..Len(Props(o)) + 1
  BY <1>1
<1>3. Body(o)[1] \in Starts
  BY <1>2, NodeFacts
<1>4. Body(o)[1] < struct_size
  BY <1>3, TokenFacts
<1>5. NodeProp(o, name) = FirstNamed(o, name, 1)
  BY <1>1, <1>2, <1>4, FromBody DEF NodeProp
<1>6. Named(o, name, 1) = {j \in DOMAIN Props(o) : Props(o)[j].name = name}
  BY <1>1 DEF Named
<1> QED
  BY <1>5, <1>6, Zenon DEF FirstNamed, Own, Props

LEMMA OwnOK ==
  ASSUME BlobOK(blob), NEW o \in Nodes, NEW name \in PropNames
  PROVE  Own(o, name) = NoProp \/ (Own(o, name).name = name /\ PropOK(Own(o, name)))
<1> DEFINE named == {i \in DOMAIN Props(o) : Props(o)[i].name = name}
<1>1. DOMAIN Props(o) = 1..Len(Props(o)) /\ Len(Props(o)) \in Nat
  BY NodeFacts
<1>2. Own(o, name) = IF named = {} THEN NoProp ELSE Props(o)[Min(named)]
  BY DEF Own, Props
<1>3. ASSUME named # {} PROVE Min(named) \in named
  <2>1. named \subseteq Nat /\ named \subseteq Int
    BY <1>1
  <2> HIDE DEF named
  <2>2. PICK m \in named : \A x \in named : m <= x
    BY <1>3, <2>1, SmallestOf
  <2>3. Min(named) = m
    BY <2>1, <2>2, MinIs
  <2> QED
    BY <2>3
<1>4. ASSUME named # {} PROVE Min(named) \in 1..Len(Props(o)) /\ Props(o)[Min(named)].name = name
  BY <1>1, <1>3, <1>4
<1>5. ASSUME NEW i \in 1..Len(Props(o)) PROVE PropOK(Props(o)[i])
  BY NodeFacts
<1> HIDE DEF named
<1> QED
  BY <1>2, <1>4, <1>5

LEMMA RegRight ==
  ASSUME BlobOK(blob), NEW o \in Nodes, NEW i \in Nat
  PROVE  NodeReg64(o, i) =
           LET v == Own(o, "reg").vals IN IF i < Len(v) THEN <<v[i + 1]>> ELSE <<>>
<1> DEFINE p == Own(o, "reg")
<1>1. NodeProp(o, "reg") = p
  BY OwnFound DEF PropNames
<1>2. p = NoProp \/ (p.name = "reg" /\ PropOK(p))
  BY OwnOK DEF PropNames
<1> HIDE DEF p
<1>3. CASE p = NoProp
  <2>1. p.len = -1 /\ p.vals = <<>>
    BY <1>3 DEF NoProp
  <2>2. (i + 1) * 16 > p.len /\ ~(i < Len(p.vals))
    BY <2>1
  <2> QED
    BY <1>1, <2>2 DEF NodeReg64, p
<1>4. CASE p.name = "reg" /\ PropOK(p)
  <2>1. p.len \in Nat /\ Len(p.vals) = p.len \div 16
    BY <1>4 DEF PropOK
  <2>2. (i + 1) * 16 > p.len <=> ~(i < Len(p.vals))
    BY <2>1
  <2> QED
    BY <1>1, <2>2 DEF NodeReg64, p
<1> QED
  BY <1>2, <1>3, <1>4

LEMMA InterruptRight ==
  ASSUME BlobOK(blob), NEW o \in Nodes
  PROVE  NodeInterrupt(o) =
           LET v == Own(o, "interrupts").vals IN IF v = <<>> THEN 0 ELSE v[1]
<1> DEFINE p == Own(o, "interrupts")
<1>1. NodeProp(o, "interrupts") = p
  BY OwnFound DEF PropNames
<1>2. p = NoProp \/ (p.name = "interrupts" /\ PropOK(p))
  BY OwnOK DEF PropNames
<1> HIDE DEF p
<1>3. p.len < 4 <=> p.vals = <<>>
  <2>1. CASE p = NoProp
    <3>1. p.len = -1 /\ p.vals = <<>>
      BY <2>1 DEF NoProp
    <3> QED
      BY <3>1
  <2>2. CASE p.name = "interrupts" /\ PropOK(p)
    BY <2>2 DEF PropOK
  <2> QED
    BY <1>2, <2>1, <2>2
<1> QED
  BY <1>1, <1>3 DEF NodeInterrupt, p

\* What the walk tests at a node is what the query means.
LEMMA MatchesMeant ==
  ASSUME BlobOK(blob), NEW o \in Nodes
  PROVE  Matches(o) <=> o \in Meant
<1>1. NodeProp(o, "compatible") = Own(o, "compatible")
      /\ NodeProp(o, "device_type") = Own(o, "device_type")
  BY OwnFound DEF PropNames
<1>2. TokenAt(o) = blob.at[o]
  BY NodeFacts
<1>3. NodeReg64(o, 0) # <<>> <=> Own(o, "reg").vals # <<>>
  <2> DEFINE v == Own(o, "reg").vals
  <2>1. NodeReg64(o, 0) = IF 0 < Len(v) THEN <<v[0 + 1]>> ELSE <<>>
    BY RegRight
  <2>2. v \in Seq(Range(v))
    <3>1. Own(o, "reg") = NoProp \/ PropOK(Own(o, "reg"))
      BY OwnOK DEF PropNames
    <3>2. CASE Own(o, "reg") = NoProp
      <4>1. v = <<>>
        BY <3>2 DEF NoProp
      <4>2. <<>> \in Seq(Range(v))
        BY EmptySeq
      <4> HIDE DEF v
      <4> QED
        BY <4>1, <4>2
    <3>3. CASE PropOK(Own(o, "reg"))
      BY <3>3 DEF PropOK
    <3> QED
      BY <3>1, <3>2, <3>3
  <2> HIDE DEF v
  <2>3. 0 < Len(v) <=> v # <<>>
    BY <2>2, EmptySeq, LenProperties
  <2> QED
    BY <2>1, <2>3 DEF v
<1>4. Matches(o) <=>
        CASE query.by = "compatible" -> HasString(Own(o, "compatible"), query.key)
          [] query.by = "virtio" -> /\ HasString(Own(o, "compatible"), "virtio,mmio")
                                    /\ Own(o, "reg").vals # <<>>
                                    /\ blob.at[o].node.dev = query.key
          [] query.by = "named" -> blob.at[o].node.name = query.key
          [] OTHER -> Own(o, "device_type").vals = <<"cpu">>
  BY <1>1, <1>2, <1>3 DEF Matches, IsCompatible, IsVirtio, IsNamed, IsCpu
<1> QED
  BY <1>4, Zenon DEF Meant

-----------------------------------------------------------------------------
(***************************************************************************)
(* The inductive invariant of the walk.                                    *)
(***************************************************************************)

\* What is behind the walk: no node it looks for, or every cpu so far.
FdtInv ==
  /\ fdt_pc \in {"idle", "walk", "done"}
  /\ fdt_pc # "idle" => blob \in Blobs
  /\ fdt_pc = "walk" =>
       /\ off \in Starts /\ result = NoNode
       /\ IF query.by = "cpus" THEN cpus = Cardinality({o \in Meant : o < off})
          ELSE \A o \in Meant : o >= off
  /\ fdt_pc = "done" =>
       IF query.by = "cpus" THEN cpus = Cardinality(Meant)
       ELSE \/ Meant = {} /\ result = NoNode
            \/ result \in Meant /\ \A o \in Meant : result <= o

LEMMA MeantFacts ==
  ASSUME BlobOK(blob)
  PROVE  Meant \subseteq Starts /\ Meant \subseteq Nodes /\ Starts \subseteq Nat
<1>1. Meant \subseteq Nodes /\ Nodes \subseteq Starts
  BY Zenon DEF Meant, Nodes, Starts
<1>2. Starts \subseteq Nat
  BY TokenFacts
<1> QED
  BY <1>1, <1>2

LEMMA FdtInitInv == FdtStart \/ FdtUnused => FdtInv
<1>1. ASSUME FdtStart PROVE FdtInv
  <2>1. /\ blob \in Blobs /\ off = 0 /\ cpus = 0 /\ result = NoNode /\ fdt_pc = "walk"
        /\ BlobOK(blob)
    BY <1>1, FdtAssumption DEF FdtStart
  <2>2. 0 \in Starts
    BY <2>1 DEF BlobOK, Starts
  <2>3. \A o \in Meant : o >= 0 /\ ~(o < 0)
    BY <2>1, MeantFacts
  <2>4. {o \in Meant : o < 0} = {}
    BY <2>3
  <2>5. Cardinality({o \in Meant : o < 0}) = 0
    BY <2>4, FS_EmptySet
  <2> QED
    BY <2>1, <2>2, <2>3, <2>5 DEF FdtInv
<1>2. ASSUME FdtUnused PROVE FdtInv
  BY <1>2 DEF FdtUnused, FdtInv
<1> QED
  BY <1>1, <1>2

LEMMA SameTree ==
  ASSUME UNCHANGED <<blob, query>>
  PROVE  Meant' = Meant /\ Starts' = Starts
<1>1. blob' = blob /\ query' = query
  OBVIOUS
<1>2. Starts' = Starts /\ Nodes' = Nodes
  BY <1>1 DEF Starts, Nodes
<1>3. \A o, name : Own(o, name)' = Own(o, name)
  BY <1>1 DEF Own
<1> QED
  BY <1>1, <1>2, <1>3, Zenon DEF Meant, HasString

\* The walk steps over a token that is not what it looks for, or counts it.
LEMMA Advances ==
  ASSUME FdtInv, fdt_pc = "walk", blob.at[off].tok # "END",
         off' = off + Bytes(blob.at[off]), query.by # "cpus" => off \notin Meant,
         cpus' = IF off \in Meant THEN cpus + 1 ELSE cpus,
         UNCHANGED <<blob, query, result, fdt_pc>>
  PROVE  FdtInv'
<1>1. /\ blob \in Blobs /\ BlobOK(blob) /\ off \in Starts /\ result = NoNode
  BY FdtAssumption DEF FdtInv
<1>2. off' \in Starts /\ off \in Nat /\ off' \in Nat /\ off' > off
  <2>1. off + Bytes(blob.at[off]) \in Starts /\ off \in Nat
    BY <1>1, TokenFacts
  <2>2. Bytes(blob.at[off]) \in Nat /\ Bytes(blob.at[off]) > 0
    BY <1>1, StepOver
  <2> QED
    BY <2>1, <2>2
<1>3. ASSUME NEW o \in Meant PROVE o \in Nat /\ (o < off' <=> o <= off) /\ (o >= off' <=> o > off)
  <2>1. o \in Starts /\ o \in Nat
    BY <1>1, MeantFacts
  <2>2. o > off => o >= off'
    BY <1>1, <2>1, TokenFacts
  <2> QED
    BY <1>2, <2>1, <2>2
<1>4. Meant' = Meant /\ Starts' = Starts
  BY SameTree
<1>5. CASE query.by # "cpus"
  <2>1. \A o \in Meant : o >= off
    BY <1>5 DEF FdtInv
  <2>2. \A o \in Meant : o >= off'
    BY <1>2, <1>3, <1>5, <2>1
  <2> QED
    BY <1>1, <1>2, <1>4, <1>5, <2>2 DEF FdtInv
<1>6. CASE query.by = "cpus"
  <2> DEFINE before == {o \in Meant : o < off}
             after == {o \in Meant : o < off'}
  <2>1. cpus = Cardinality(before)
    BY <1>6 DEF FdtInv
  <2>2. IsFiniteSet(before)
    <3>1. before \subseteq 0..off
      BY <1>2, <1>3
    <3>2. IsFiniteSet(0..off)
      BY <1>2, FS_Interval
    <3> QED
      BY <3>1, <3>2, FS_Subset
  <2>3. cpus' = Cardinality(after)
    <3>1. CASE off \in Meant
      <4>1. off \notin before
        BY <1>2
      <4>2. \A o \in Meant : o < off' <=> o < off \/ o = off
        BY <1>2, <1>3
      <4>3. after = before \cup {off}
        BY <3>1, <4>2, Zenon
      <4> HIDE DEF before, after
      <4>4. Cardinality(before \cup {off}) = Cardinality(before) + 1
        BY <2>2, <4>1, FS_AddElement
      <4> QED
        BY <2>1, <3>1, <4>3, <4>4
    <3>2. CASE off \notin Meant
      <4>1. after = before
        BY <1>2, <1>3, <3>2
      <4> QED
        BY <2>1, <3>2, <4>1
    <3> QED
      BY <3>1, <3>2
  <2> QED
    BY <1>1, <1>2, <1>4, <1>6, <2>3 DEF FdtInv
<1> QED
  BY <1>5, <1>6

LEMMA FdtStepInv == ASSUME FdtInv, [FdtNext]_fdtVars PROVE FdtInv'
<1>1. ASSUME fdt_pc = "walk"
      PROVE  /\ blob \in Blobs /\ BlobOK(blob) /\ off \in Starts /\ result = NoNode
             /\ TokenAt(off) = blob.at[off] /\ off < struct_size
             /\ blob.at[off].tok \in {"BEGIN_NODE", "END_NODE", "PROP", "NOP", "END"}
  <2>1. blob \in Blobs /\ BlobOK(blob) /\ off \in Starts /\ result = NoNode
    BY <1>1, FdtAssumption DEF FdtInv
  <2> QED
    BY <2>1, TokenFacts
<1>2. ASSUME fdt_pc = "walk", blob.at[off].tok # "BEGIN_NODE" PROVE off \notin Meant
  BY <1>1, <1>2, MeantFacts DEF Nodes
<1>3. CASE BeginNode
  <2>1. fdt_pc = "walk" /\ TokenAt(off).tok = "BEGIN_NODE" /\ UNCHANGED <<blob, query>>
    BY <1>3 DEF BeginNode, Walking, Stay
  <2>2. off \in Nodes /\ blob.at[off].tok = "BEGIN_NODE"
    BY <1>1, <2>1 DEF Nodes, Starts
  <2>3. Matches(off) <=> off \in Meant
    BY <1>1, <2>1, <2>2, MatchesMeant
  <2>4. CASE Matches(off) /\ query.by # "cpus"
    <3>1. result' = off /\ fdt_pc' = "done" /\ UNCHANGED <<off, cpus>>
      BY <1>3, <2>4 DEF BeginNode
    <3>2. Meant' = Meant
      BY <2>1, SameTree
    <3>3. \A o \in Meant : o \in Nat /\ off \in Nat /\ o >= off
      <4>1. \A o \in Meant : o >= off
        BY <2>1, <2>4 DEF FdtInv
      <4> QED
        BY <1>1, <2>1, <4>1, MeantFacts
    <3>4. \A o \in Meant : off <= o
      BY <3>3
    <3> QED
      BY <1>1, <2>1, <2>3, <2>4, <3>1, <3>2, <3>4 DEF FdtInv
  <2>5. CASE ~(Matches(off) /\ query.by # "cpus")
    <3>1. /\ off' = SkipName(off) /\ cpus' = IF Matches(off) THEN cpus + 1 ELSE cpus
          /\ UNCHANGED <<result, fdt_pc>>
      BY <1>3, <2>5 DEF BeginNode
    <3>2. off' = off + Bytes(blob.at[off])
      BY <1>1, <2>1, <2>2, <3>1, StepOver
    <3>3. cpus' = IF off \in Meant THEN cpus + 1 ELSE cpus
      BY <2>3, <3>1
    <3> QED
      BY <2>1, <2>2, <2>3, <2>5, <3>1, <3>2, <3>3, Advances
  <2> QED
    BY <2>4, <2>5
<1>4. CASE EndNodeOrNop
  <2>1. /\ fdt_pc = "walk" /\ TokenAt(off).tok \in {"END_NODE", "NOP"} /\ off' = off + 4
        /\ UNCHANGED <<blob, query, cpus, result, fdt_pc>>
    BY <1>4 DEF EndNodeOrNop, Walking, Stay
  <2>2. blob.at[off].tok \in {"END_NODE", "NOP"}
    BY <1>1, <2>1
  <2>3. Bytes(blob.at[off]) = 4
    BY <1>1, <2>1, <2>2, StepOver
  <2>4. off \notin Meant
    BY <1>2, <2>1, <2>2
  <2> QED
    BY <2>1, <2>2, <2>3, <2>4, Advances
<1>5. CASE Property
  <2>1. /\ fdt_pc = "walk" /\ TokenAt(off).tok = "PROP" /\ off' = SkipProp(off)
        /\ UNCHANGED <<blob, query, cpus, result, fdt_pc>>
    BY <1>5 DEF Property, Walking, Stay
  <2>2. blob.at[off].tok = "PROP"
    BY <1>1, <2>1
  <2>3. off' = off + Bytes(blob.at[off])
    BY <1>1, <2>1, <2>2, StepOver
  <2>4. off \notin Meant
    BY <1>2, <2>1, <2>2
  <2> QED
    BY <2>1, <2>2, <2>3, <2>4, Advances
<1>6. CASE WalkEnds
  <2>1. /\ fdt_pc = "walk" /\ fdt_pc' = "done"
        /\ off >= struct_size \/ TokenAt(off).tok \in {"END", "payload"}
        /\ UNCHANGED <<blob, query, off, cpus, result>>
    BY <1>6 DEF WalkEnds, Stay
  <2>2. struct_size \in Nat /\ off \in Nat
    BY <1>1, <2>1, TokenFacts
  <2>3. blob.at[off].tok = "END"
    BY <1>1, <2>1, <2>2
  <2>4. ASSUME NEW o \in Meant PROVE o \in Nat /\ o < off
    <3>1. o \in Starts /\ o \in Nat
      BY <1>1, <2>1, MeantFacts
    <3>2. ~(o > off)
      BY <1>1, <2>1, <2>3, <3>1, TokenFacts
    <3>3. o # off
      BY <1>2, <2>1, <2>3
    <3> QED
      BY <2>2, <3>1, <3>2, <3>3
  <2>5. Meant' = Meant
    BY <2>1, SameTree
  <2>6. CASE query.by = "cpus"
    <3>1. cpus = Cardinality({o \in Meant : o < off})
      BY <2>1, <2>6 DEF FdtInv
    <3>2. {o \in Meant : o < off} = Meant
      BY <2>4
    <3>3. cpus = Cardinality(Meant)
      BY <3>1, <3>2
    <3> QED
      BY <1>1, <2>1, <2>5, <2>6, <3>3 DEF FdtInv
  <2>7. CASE query.by # "cpus"
    <3>1. \A o \in Meant : o >= off
      BY <2>1, <2>7 DEF FdtInv
    <3>2. Meant = {}
      BY <2>2, <2>4, <3>1
    <3> QED
      BY <1>1, <2>1, <2>5, <2>7, <3>2 DEF FdtInv
  <2> QED
    BY <2>6, <2>7
<1>7. CASE UNCHANGED fdtVars
  <2>1. UNCHANGED <<blob, query>> /\ UNCHANGED <<off, cpus, result, fdt_pc>>
    BY <1>7 DEF fdtVars
  <2>2. Meant' = Meant /\ Starts' = Starts
    BY <2>1, SameTree
  <2> QED
    BY <2>1, <2>2 DEF FdtInv
<1> QED
  BY <1>3, <1>4, <1>5, <1>6, <1>7 DEF FdtNext

LEMMA FdtInvSafe == FdtInv => FoundInTree
<1> SUFFICES ASSUME FdtInv PROVE FoundInTree
  OBVIOUS
<1>1. ASSUME fdt_pc = "walk", off \in Nodes
      PROVE  /\ \A i \in 0..1 : NodeReg64(off, i) =
                  LET v == Own(off, "reg").vals IN IF i < Len(v) THEN <<v[i + 1]>> ELSE <<>>
             /\ NodeInterrupt(off) =
                  LET v == Own(off, "interrupts").vals IN IF v = <<>> THEN 0 ELSE v[1]
  <2>1. BlobOK(blob)
    BY <1>1, FdtAssumption DEF FdtInv
  <2> QED
    BY <1>1, <2>1, RegRight, InterruptRight
<1>2. fdt_pc = "done" =>
        IF query.by = "cpus" THEN cpus = Cardinality(Meant)
        ELSE \/ Meant = {} /\ result = NoNode
             \/ result \in Meant /\ \A o \in Meant : result <= o
  BY DEF FdtInv
<1> QED
  BY <1>1, <1>2, Zenon DEF FoundInTree

-----------------------------------------------------------------------------
(***************************************************************************)
(* A program that learns of its machine.                                   *)
(***************************************************************************)

DiscoveryInv == FdtInv /\ PciInv /\ ClockInv

LEMMA DiscoveryInitInv == Init => DiscoveryInv
<1>1. Init => /\ FdtStart \/ FdtUnused
              /\ PciStart \/ PciUnused
              /\ ClockStart \/ ClockUnused
  BY DEF Init
<1> QED
  BY <1>1, FdtInitInv, PciInitInv, ClockInitInv DEF DiscoveryInv

LEMMA DiscoveryStepInv == DiscoveryInv /\ [Next]_vars => DiscoveryInv'
<1> SUFFICES ASSUME DiscoveryInv, [Next]_vars PROVE DiscoveryInv'
  OBVIOUS
<1>1. [FdtNext]_fdtVars
  BY Zenon DEF Next, vars
<1>2. [PciNext]_pciVars
  BY Zenon DEF Next, vars
<1>3. [ClockNext]_clockVars
  BY Zenon DEF Next, vars
<1> QED
  BY <1>1, <1>2, <1>3, FdtStepInv, PciStepInv, ClockStepInv DEF DiscoveryInv

\* What the walk, the scan and the clock have done so far is right at every step.
THEOREM DiscoveryInvariance == DiscoverySpec => []DiscoveryInv
BY DiscoveryInitInv, DiscoveryStepInv, PTL DEF DiscoverySpec

\* fdt.c: in every well-formed device tree the walk by byte offsets finds what the
\* tree says: the first node in document order, none, or the number of cpus; and a
\* node's reg and interrupts are its own.
THEOREM FoundInTreeHolds == DiscoverySpec => []FoundInTree
<1>1. DiscoveryInv => FoundInTree
  BY FdtInvSafe DEF DiscoveryInv
<1> QED
  BY <1>1, DiscoveryInvariance, PTL

\* pci.c: on every machine whose bridges lead to higher buses, one to a bus, asking
\* for n = 0, 1, ... gives each function with the identifier on a reachable bus
\* exactly once.
THEOREM FunctionsFoundHolds == DiscoverySpec => []FunctionsFound
<1>1. DiscoveryInv => FunctionsFound
  BY PciInvSafe DEF DiscoveryInv
<1> QED
  BY <1>1, DiscoveryInvariance, PTL

\* pci_setup_bars: whatever the upper half of a 64-bit BAR looks like, each declared
\* BAR is read, at its first word, and no other.
THEOREM BarsAsDeclaredHolds == DiscoverySpec => []BarsAsDeclared
<1>1. DiscoveryInv => BarsAsDeclared
  BY PciInvSafe DEF DiscoveryInv
<1> QED
  BY <1>1, DiscoveryInvariance, PTL

\* pci_find_capability and pci_msi_configure: for every capability list, cyclic ones
\* too, a capability is found if and only if the list leads to it, and MSI is set up
\* exactly then.
THEOREM CapabilitiesFoundHolds == DiscoverySpec => []CapabilitiesFound
<1>1. DiscoveryInv => CapabilitiesFound
  BY PciInvSafe DEF DiscoveryInv
<1> QED
  BY <1>1, DiscoveryInvariance, PTL

\* pci.c, altogether: what enumeration reports is what the machine has.
THEOREM FoundOnBusHolds == DiscoverySpec => []FoundOnBus
<1>1. FunctionsFound /\ BarsAsDeclared /\ CapabilitiesFound => FoundOnBus
  BY DEF FoundOnBus
<1> QED
  BY <1>1, FunctionsFoundHolds, BarsAsDeclaredHolds, CapabilitiesFoundHolds, PTL

\* get_fattime: on every day from 1970 on the stamp is the date of one moment, within
\* the range FAT can hold.
THEOREM StampIsTodayHolds == DiscoverySpec => []StampIsToday
<1>1. DiscoveryInv => StampIsToday
  BY ClockInvSafe DEF DiscoveryInv
<1> QED
  BY <1>1, DiscoveryInvariance, PTL

-----------------------------------------------------------------------------
(***************************************************************************)
(* The spin lock, for any number of harts and any retry bound of           *)
(* atomic_cas_u32.                                                         *)
(***************************************************************************)

USE MutexAssumption

LEMMA InitEstablishes == MutexInit => MutexIInv
  BY DEF MutexInit, MutexIInv, MutexTypeOK, HolderIsOwner, ReservationFresh, Harts, Self

\* A CAS that returns false leaves its variables in their ranges.
LEMMA CasFalseType ==
  ASSUME MutexTypeOK, NEW h \in Harts, CasFalse(h)
  PROVE  /\ pc' \in [Harts -> {"out", "lr", "sc", "pause", "cs"}]
         /\ op' \in [Harts -> {"lock", "trylock"}]
         /\ retries' \in [Harts -> 0..Retries]
<1>1. CASE op[h] = "lock"
  BY <1>1 DEF MutexTypeOK, CasFalse, CasReturns
<1>2. CASE op[h] # "lock"
  BY <1>2 DEF MutexTypeOK, CasFalse, CasReturns
<1> QED
  BY <1>1, <1>2

\* Every step keeps the variables in their ranges.
LEMMA TypeStep ==
  ASSUME MutexTypeOK, NEW h \in Harts, MutexStep(h)
  PROVE  MutexTypeOK'
<1> USE DEF MutexTypeOK, Harts
<1>1. CASE Call(h)
  BY <1>1 DEF Call
<1>2. CASE Lr(h)
  <2>1. resv' \in [Harts -> BOOLEAN] /\ holder' \in 0..NHarts
    BY <1>2 DEF Lr
  <2>2. CASE holder = 0
    BY <1>2, <2>1, <2>2 DEF Lr
  <2>3. CASE holder # 0
    <3>1. CasFalse(h)
      BY <1>2, <2>3 DEF Lr
    <3> QED
      BY <2>1, <3>1, CasFalseType
  <2> QED
    BY <2>2, <2>3
<1>3. CASE ScSuccess(h)
  BY <1>3 DEF ScSuccess, WriteWord, CasReturns, Self
<1>4. CASE ScFail(h)
  <2>1. resv' \in [Harts -> BOOLEAN] /\ holder' \in 0..NHarts
    BY <1>4 DEF ScFail
  <2>2. CASE retries[h] - 1 > 0
    <3>1. /\ retries' = [retries EXCEPT ![h] = @ - 1]
          /\ pc' = [pc EXCEPT ![h] = "lr"]
          /\ op' = op
      BY <1>4, <2>2 DEF ScFail
    <3>2. retries[h] - 1 \in 0..Retries
      BY <2>2
    <3> QED
      BY <2>1, <3>1, <3>2
  <2>3. CASE ~(retries[h] - 1 > 0)
    <3>1. CasFalse(h)
      BY <1>4, <2>3 DEF ScFail
    <3> QED
      BY <2>1, <3>1, CasFalseType
  <2> QED
    BY <2>2, <2>3
<1>5. CASE Pause(h)
  BY <1>5 DEF Pause
<1>6. CASE Unlock(h)
  BY <1>6 DEF Unlock, WriteWord
<1>7. CASE HolderRead(h)
  BY <1>7 DEF HolderRead
<1> QED
  BY <1>1, <1>2, <1>3, <1>4, <1>5, <1>6, <1>7 DEF MutexStep

\* A step that leaves the word alone and moves no hart into or out of the
\* critical section keeps the word naming the holder.
LEMMA OwnerFrame ==
  ASSUME HolderIsOwner, UNCHANGED holder,
         \A g \in Harts : pc'[g] = "cs" <=> pc[g] = "cs"
  PROVE  HolderIsOwner'
  BY DEF HolderIsOwner

\* The word keeps naming the hart in the critical section.
LEMMA OwnerStep ==
  ASSUME MutexIInv, NEW h \in Harts, MutexStep(h)
  PROVE  HolderIsOwner'
<1> USE DEF MutexIInv, MutexTypeOK
<1>1. CASE Call(h)
  BY <1>1, OwnerFrame DEF Call
<1>2. CASE Lr(h)
  BY <1>2, OwnerFrame DEF Lr, CasFalse, CasReturns
<1>3. CASE ScSuccess(h)
  <2>1. holder = 0 /\ holder' = Self(h) /\ pc' = [pc EXCEPT ![h] = "cs"]
    BY <1>3 DEF ScSuccess, WriteWord, CasReturns, ReservationFresh
  <2>2. \A g \in Harts : pc[g] # "cs"
    BY <2>1 DEF HolderIsOwner
  <2>3. \A g \in Harts : (pc'[g] = "cs" <=> g = h) /\ (Self(g) = Self(h) <=> g = h) /\ Self(h) # 0
    BY <2>1, <2>2 DEF Self, Harts
  <2> QED
    BY <2>1, <2>3 DEF HolderIsOwner, Self
<1>4. CASE ScFail(h)
  BY <1>4, OwnerFrame DEF ScFail, CasFalse, CasReturns
<1>5. CASE Pause(h)
  BY <1>5, OwnerFrame DEF Pause
<1>6. CASE Unlock(h)
  <2>1. pc[h] = "cs" /\ holder' = 0 /\ pc' = [pc EXCEPT ![h] = "out"]
    BY <1>6 DEF Unlock, WriteWord
  <2>2. \A g \in Harts : pc[g] = "cs" => g = h
    BY <2>1 DEF HolderIsOwner, Self, Harts
  <2>3. \A g \in Harts : pc'[g] # "cs" /\ Self(g) # 0
    BY <2>1, <2>2 DEF Self, Harts
  <2> QED
    BY <2>1, <2>3 DEF HolderIsOwner, Self
<1>7. CASE HolderRead(h)
  BY <1>7, OwnerFrame DEF HolderRead
<1> QED
  BY <1>1, <1>2, <1>3, <1>4, <1>5, <1>6, <1>7 DEF MutexStep

\* A reservation held at the SC was taken on a free lock that nobody has
\* written since.
LEMMA FreshStep ==
  ASSUME MutexIInv, NEW h \in Harts, MutexStep(h)
  PROVE  ReservationFresh'
<1> USE DEF MutexIInv, MutexTypeOK, ReservationFresh
<1>1. CASE Call(h)
  BY <1>1 DEF Call
<1>2. CASE Lr(h)
  BY <1>2 DEF Lr, CasFalse, CasReturns
<1>3. CASE ScSuccess(h)
  BY <1>3 DEF ScSuccess, WriteWord
<1>4. CASE ScFail(h)
  BY <1>4 DEF ScFail, CasFalse, CasReturns
<1>5. CASE Pause(h)
  BY <1>5 DEF Pause
<1>6. CASE Unlock(h)
  BY <1>6 DEF Unlock, WriteWord
<1>7. CASE HolderRead(h)
  BY <1>7 DEF HolderRead
<1> QED
  BY <1>1, <1>2, <1>3, <1>4, <1>5, <1>6, <1>7 DEF MutexStep

LEMMA StepPreserves ==
  ASSUME MutexIInv, [MutexNext]_mutexVars
  PROVE  MutexIInv'
<1>1. CASE MutexNext
  <2>1. PICK h \in Harts : MutexStep(h)
    BY <1>1 DEF MutexNext
  <2> QED
    BY <2>1, TypeStep, OwnerStep, FreshStep DEF MutexIInv
<1>2. CASE UNCHANGED mutexVars
  BY <1>2 DEF mutexVars, MutexIInv, MutexTypeOK, HolderIsOwner, ReservationFresh
<1> QED
  BY <1>1, <1>2

\* The inductive invariant of the lock.
THEOREM MutexInvariance == MutexSpec => []MutexIInv
  BY InitEstablishes, StepPreserves, PTL DEF MutexSpec

\* The lock word is 0 or the number of a hart, and the retry counter stays
\* within its bound (mutex.h:36-39, atomic.h:98-111).
THEOREM MutexTypeCorrect == MutexSpec => []MutexTypeOK
<1>1. MutexIInv => MutexTypeOK
  BY DEF MutexIInv
<1> QED
  BY <1>1, MutexInvariance, PTL

\* Two harts are never both between mutex_lock and mutex_unlock (mutex.h:57-71).
THEOREM MutualExclusionHolds == MutexSpec => []MutualExclusion
<1>1. MutexIInv => MutualExclusion
  BY DEF MutexIInv, MutexTypeOK, HolderIsOwner, MutualExclusion, Self, Harts
<1> QED
  BY <1>1, MutexInvariance, PTL

\* mutex_holder names the hart in the critical section, and nobody else
\* (mutex.h:77-80).
THEOREM HolderIsOwnerHolds == MutexSpec => []HolderIsOwner
<1>1. MutexIInv => HolderIsOwner
  BY DEF MutexIInv
<1> QED
  BY <1>1, MutexInvariance, PTL

-----------------------------------------------------------------------------
(***************************************************************************)
(* Both on the same harts.                                                 *)
(***************************************************************************)

\* Lock code keeps the lock's invariant, and panic code does not touch it.
LEMMA SyncStepKeepsLock ==
  ASSUME MutexIInv, [SyncNext]_syncVars
  PROVE  MutexIInv'
<1>1. CASE SyncNext
  <2>1. PICK h \in Harts : LockCode(h) \/ PanicCode(h)
    BY <1>1 DEF SyncNext
  <2>2. CASE LockCode(h)
    BY <2>2, TypeStep, OwnerStep, FreshStep DEF LockCode, MutexIInv
  <2>3. CASE PanicCode(h)
    BY <2>3 DEF PanicCode, mutexVars, MutexIInv, MutexTypeOK, HolderIsOwner, ReservationFresh
  <2> QED
    BY <2>1, <2>2, <2>3
<1>2. CASE UNCHANGED syncVars
  BY <1>2 DEF syncVars, MutexIInv, MutexTypeOK, HolderIsOwner, ReservationFresh
<1> QED
  BY <1>1, <1>2

\* Two harts are never both between mutex_lock and mutex_unlock, also when harts
\* panic or fault at any instruction of the lock code (mutex.h:57-71).
THEOREM MutualExclusionWithPanics == SyncSpec => []MutualExclusion
<1>1. SyncInit => MutexIInv
  BY InitEstablishes DEF SyncInit
<1>2. MutexIInv => MutualExclusion
  BY DEF MutexIInv, MutexTypeOK, HolderIsOwner, MutualExclusion, Self, Harts
<1> QED
  BY <1>1, <1>2, SyncStepKeepsLock, PTL DEF SyncSpec

Chunks == [hart : Harts, part : {"message"} \cup P!DumpParts]

PanicTypeOK ==
  /\ ppc \in [Harts -> {"ok", "msg", "guard", "halt"} \cup P!DumpParts]
  /\ guard \in {0, 1}
  /\ wire \in Seq(Chunks)

\* A hart prints nothing before its message, and has not yet sent the part of the
\* dump it is at.
Fresh(h, i) ==
  /\ ppc[h] \notin {"ok", "msg"}
  /\ ppc[h] \in P!DumpParts => P!OrderAt(i) < P!Order[ppc[h]]

\* Until the guard is taken nobody dumps; then one hart at most does, the parts
\* on the wire are its own, and the part before its next one is among them.
DumpInv ==
  /\ PanicTypeOK
  /\ OneDump
  /\ \A i \in 1..Len(wire) : Fresh(wire[i].hart, i)
  /\ guard = 0 => \A h \in Harts : ppc[h] \notin P!DumpParts
  /\ guard = 0 => \A i \in 1..Len(wire) : P!OrderAt(i) = 0
  /\ \A h \in Harts : ppc[h] \in P!DumpParts =>
       /\ \A g \in Harts : ppc[g] \in P!DumpParts => g = h
       /\ \A i \in 1..Len(wire) : P!OrderAt(i) > 0 => wire[i].hart = h
       /\ ppc[h] # "begin" => \E i \in 1..Len(wire) : P!OrderAt(i) = P!Order[ppc[h]] - 1

LEMMA DumpInit == SyncInit => DumpInv
<1> SUFFICES ASSUME SyncInit PROVE DumpInv
  OBVIOUS
<1>1. wire = <<>> /\ guard = 0 /\ ppc = [h \in Harts |-> "ok"]
  BY DEF SyncInit, P!PanicInit
<1>2. wire \in Seq(Chunks) /\ Len(wire) = 0
  BY <1>1, EmptySeq
<1> QED
  BY <1>1, <1>2 DEF DumpInv, PanicTypeOK, OneDump, P!OneDump, P!DumpParts

\* What Send does to the wire.
LEMMA SendAppends ==
  ASSUME wire \in Seq(Chunks), NEW h \in Harts, NEW part \in {"message"} \cup P!DumpParts,
         P!Send(h, part)
  PROVE  /\ wire' \in Seq(Chunks) /\ Len(wire) \in Nat /\ Len(wire') = Len(wire) + 1
         /\ \A i \in 1..Len(wire) : wire'[i] = wire[i] /\ wire'[i] \in Chunks
         /\ wire'[Len(wire) + 1] = [hart |-> h, part |-> part]
<1>1. [hart |-> h, part |-> part] \in Chunks
  BY DEF Chunks
<1>2. wire' = Append(wire, [hart |-> h, part |-> part])
  BY DEF P!Send
<1> QED
  BY <1>1, <1>2

\* The places of the parts in their order.
LEMMA OrderValues ==
  /\ P!Order["message"] = 0 /\ P!Order["begin"] = 1
  /\ P!Order["body"] = 2 /\ P!Order["end"] = 3
  /\ \A c \in Chunks : P!Order[c.part] \in 0..3
  BY DEF P!Order, Chunks, P!DumpParts

\* A chunk later in order than all its hart has sent keeps the wire to one dump,
\* if it is a message or comes from the hart that dumps, after the part before it.
LEMMA SendKeepsOneDump ==
  ASSUME wire \in Seq(Chunks), OneDump, NEW h \in Harts,
         NEW part \in {"message"} \cup P!DumpParts, P!Send(h, part),
         \A i \in 1..Len(wire) : wire[i].hart = h => P!OrderAt(i) < P!Order[part],
         P!Order[part] > 0 =>
           \A i \in 1..Len(wire) : P!OrderAt(i) > 0 => wire[i].hart = h,
         P!Order[part] > 1 => \E i \in 1..Len(wire) : P!OrderAt(i) = P!Order[part] - 1
  PROVE  OneDump'
<1> DEFINE n == Len(wire)
           O(i) == P!Order[wire'[i].part]
<1>1. /\ n \in Nat /\ Len(wire') = n + 1
      /\ \A i \in 1..n : wire'[i] = wire[i]
      /\ wire'[n + 1] = [hart |-> h, part |-> part]
  BY SendAppends
<1>2. /\ \A i \in 1..n : O(i) = P!OrderAt(i)
      /\ O(n + 1) = P!Order[part]
  BY <1>1 DEF P!OrderAt
<1>3. \A j \in 1..n :
        /\ \A i \in 1..(j - 1) :
             /\ wire[i].hart = wire[j].hart => P!OrderAt(i) < P!OrderAt(j)
             /\ P!OrderAt(i) > 0 /\ P!OrderAt(j) > 0 => wire[i].hart = wire[j].hart
        /\ P!OrderAt(j) > 1 => \E i \in 1..(j - 1) : P!OrderAt(i) = P!OrderAt(j) - 1
  BY DEF OneDump, P!OneDump
<1>4. SUFFICES \A j \in 1..(n + 1) :
        /\ \A i \in 1..(j - 1) :
             /\ wire'[i].hart = wire'[j].hart => O(i) < O(j)
             /\ O(i) > 0 /\ O(j) > 0 => wire'[i].hart = wire'[j].hart
        /\ O(j) > 1 => \E i \in 1..(j - 1) : O(i) = O(j) - 1
  BY <1>1 DEF OneDump, P!OneDump, P!OrderAt
<1> TAKE j \in 1..(n + 1)
<1> HIDE DEF n, O
<1>5. CASE j \in 1..n
  <2>1. \A i \in 1..(j - 1) : i \in 1..n
    BY <1>1, <1>5
  <2> QED
    BY <1>1, <1>2, <1>3, <1>5, <2>1
<1>6. CASE j = n + 1
  <2>1. \A i : i \in 1..(j - 1) <=> i \in 1..n
    BY <1>1, <1>6
  <2>2. wire'[j].hart = h /\ O(j) = P!Order[part]
    BY <1>1, <1>2, <1>6
  <2> QED
    BY <1>1, <1>2, <2>1, <2>2 DEF n
<1> QED
  BY <1>1, <1>5, <1>6

\* Everything but the order of the wire, after hart h sent a chunk it had not
\* sent and stands at nothing it has.
LEMMA SendKeepsFresh ==
  ASSUME DumpInv, NEW h \in Harts, NEW part \in {"message"} \cup P!DumpParts,
         P!Send(h, part),
         NEW to \in {"guard", "halt"} \cup P!DumpParts, ppc' = [ppc EXCEPT ![h] = to],
         ppc[h] = "msg" => to = "guard",
         ppc[h] \in P!DumpParts /\ to \in P!DumpParts =>
           P!Order[ppc[h]] < P!Order[to] /\ P!Order[part] < P!Order[to],
         ppc[h] = "msg" \/ ppc[h] \in P!DumpParts
  PROVE  \A i \in 1..Len(wire') : Fresh(wire[i].hart, i)'
<1> DEFINE n == Len(wire)
<1>1. /\ n \in Nat /\ Len(wire') = n + 1
      /\ \A i \in 1..n : wire'[i] = wire[i] /\ wire[i] \in Chunks
      /\ wire'[n + 1] = [hart |-> h, part |-> part]
  BY SendAppends DEF DumpInv, PanicTypeOK
<1>2. SUFFICES ASSUME NEW i \in 1..(n + 1) PROVE Fresh(wire[i].hart, i)'
  BY <1>1
<1>3. ppc'[h] = to /\ \A g \in Harts : g # h => ppc'[g] = ppc[g]
  BY DEF DumpInv, PanicTypeOK
<1> HIDE DEF n
<1>4. CASE i \in 1..n
  <2>1. Fresh(wire[i].hart, i) /\ wire'[i] = wire[i] /\ wire[i].hart \in Harts
    BY <1>1, <1>4 DEF DumpInv, n, Chunks
  <2>2. P!OrderAt(i) \in 0..3
    BY <1>1, <1>4, OrderValues DEF P!OrderAt
  <2>3. CASE wire[i].hart = h
    <3>1. to \in P!DumpParts => P!OrderAt(i) < P!Order[to]
      <4>1. to \in P!DumpParts => ppc[h] \in P!DumpParts
        BY DEF P!DumpParts
      <4>2. ppc[h] \in P!DumpParts => P!Order[ppc[h]] \in 1..3
        BY OrderValues DEF P!DumpParts
      <4>3. to \in P!DumpParts => P!Order[to] \in 1..3
        BY OrderValues DEF P!DumpParts
      <4> QED
        BY <2>1, <2>2, <2>3, <4>1, <4>2, <4>3 DEF Fresh
    <3> QED
      BY <1>3, <2>1, <2>3, <3>1 DEF Fresh, P!OrderAt, P!DumpParts
  <2>4. CASE wire[i].hart # h
    BY <1>3, <2>1, <2>4 DEF Fresh, P!OrderAt
  <2> QED
    BY <2>3, <2>4
<1>5. CASE i = n + 1
  <2>1. wire'[i].hart = h /\ wire'[i].part = part
    BY <1>1, <1>5
  <2>2. to \in P!DumpParts => P!Order[part] < P!Order[to]
    BY DEF P!DumpParts
  <2> QED
    BY <1>3, <2>1, <2>2 DEF Fresh, P!OrderAt, P!DumpParts
<1> QED
  BY <1>1, <1>4, <1>5

LEMMA DumpStep ==
  ASSUME DumpInv, NEW h \in Harts, P!PanicStep(h)
  PROVE  DumpInv'
<1>0. /\ PanicTypeOK /\ OneDump
      /\ \A i \in 1..Len(wire) : Fresh(wire[i].hart, i) /\ P!OrderAt(i) \in 0..3
  BY OrderValues DEF DumpInv, PanicTypeOK, P!OrderAt
<1>p. ASSUME NEW i \in 1..Len(wire) PROVE wire[i].hart \in Harts
  <2>1. wire[i] \in Chunks
    BY <1>0 DEF PanicTypeOK
  <2> QED
    BY <2>1 DEF Chunks
<1>1. CASE P!PanicCall(h) \/ P!Fault(h)
  <2>1. /\ ppc'[h] \in {"msg", "guard"} /\ \A g \in Harts : g # h => ppc'[g] = ppc[g]
        /\ ppc' \in [Harts -> {"ok", "msg", "guard", "halt"} \cup P!DumpParts]
        /\ ppc'[h] = "msg" => ppc[h] = "ok"
        /\ guard' = guard /\ wire' = wire
    BY <1>0, <1>1 DEF PanicTypeOK, P!PanicCall, P!Fault
  <2>2. OneDump' /\ PanicTypeOK'
    BY <1>0, <2>1 DEF OneDump, P!OneDump, P!OrderAt, PanicTypeOK
  <2>3. ASSUME NEW i \in 1..Len(wire) PROVE Fresh(wire[i].hart, i)'
    <3>1. CASE wire[i].hart = h
      BY <1>0, <2>1, <3>1 DEF Fresh, P!OrderAt, P!DumpParts
    <3>2. CASE wire[i].hart # h
      BY <1>0, <1>p, <2>1, <3>2 DEF Fresh, P!OrderAt
    <3> QED
      BY <3>1, <3>2
  <2>4. \A g \in Harts : ppc'[g] \in P!DumpParts => ppc[g] \in P!DumpParts /\ ppc'[g] = ppc[g]
    BY <2>1 DEF P!DumpParts
  <2> QED
    BY <2>1, <2>2, <2>3, <2>4 DEF DumpInv, P!OrderAt
<1>2. CASE P!PrintMessage(h)
  <2>1. /\ ppc[h] = "msg" /\ ppc' = [ppc EXCEPT ![h] = "guard"] /\ guard' = guard
        /\ P!Send(h, "message")
    BY <1>2 DEF P!PrintMessage
  <2>2. \A i \in 1..Len(wire) : wire[i].hart # h
    BY <1>0, <2>1 DEF Fresh
  <2>3. OneDump'
    BY <1>0, <2>1, <2>2, OrderValues, SendKeepsOneDump DEF PanicTypeOK
  <2>4. \A i \in 1..Len(wire') : Fresh(wire[i].hart, i)'
    BY <2>1, SendKeepsFresh DEF P!DumpParts
  <2>5. /\ wire' \in Seq(Chunks) /\ Len(wire) \in Nat /\ Len(wire') = Len(wire) + 1
        /\ \A i \in 1..Len(wire) : wire'[i] = wire[i]
        /\ wire'[Len(wire) + 1] = [hart |-> h, part |-> "message"]
    BY <1>0, <2>1, SendAppends DEF PanicTypeOK
  <2>6. PanicTypeOK'
    BY <1>0, <2>1, <2>5 DEF PanicTypeOK
  <2>7. /\ \A i \in 1..Len(wire) : P!OrderAt(i)' = P!OrderAt(i) /\ wire'[i].hart = wire[i].hart
        /\ \A i \in 1..Len(wire') : i \notin 1..Len(wire) => P!OrderAt(i)' = 0
    BY <2>5, OrderValues DEF P!OrderAt
  <2>8. \A g \in Harts : ppc'[g] \in P!DumpParts => ppc[g] \in P!DumpParts /\ ppc'[g] = ppc[g]
    BY <1>0, <2>1 DEF P!DumpParts, PanicTypeOK
  <2>9. guard = 0 => \A i \in 1..Len(wire') : P!OrderAt(i)' = 0
    BY <2>7 DEF DumpInv
  <2>10. ASSUME NEW g \in Harts, ppc'[g] \in P!DumpParts
         PROVE  /\ \A k \in Harts : ppc'[k] \in P!DumpParts => k = g
                /\ \A i \in 1..Len(wire') : P!OrderAt(i)' > 0 => wire'[i].hart = g
                /\ ppc'[g] # "begin" =>
                     \E i \in 1..Len(wire') : P!OrderAt(i)' = P!Order[ppc'[g]] - 1
    <3>1. ppc[g] \in P!DumpParts /\ ppc'[g] = ppc[g]
      BY <2>8, <2>10
    <3>2. \A i \in 1..Len(wire) : i \in 1..Len(wire')
      BY <2>5
    <3>3. \A k \in Harts : ppc'[k] \in P!DumpParts => k = g
      BY <2>8, <3>1 DEF DumpInv
    <3>4. ASSUME NEW i \in 1..Len(wire'), P!OrderAt(i)' > 0 PROVE wire'[i].hart = g
      <4>1. i \in 1..Len(wire)
        BY <2>7, <3>4
      <4> QED
        BY <2>7, <3>1, <3>4, <4>1 DEF DumpInv
    <3>5. ASSUME ppc'[g] # "begin"
          PROVE  \E i \in 1..Len(wire') : P!OrderAt(i)' = P!Order[ppc'[g]] - 1
      <4>1. PICK i \in 1..Len(wire) : P!OrderAt(i) = P!Order[ppc[g]] - 1
        BY <3>1, <3>5 DEF DumpInv
      <4> QED
        BY <2>7, <3>1, <3>2, <4>1
    <3> QED
      BY <3>3, <3>4, <3>5
  <2> QED
    BY <2>1, <2>3, <2>4, <2>6, <2>8, <2>9, <2>10 DEF DumpInv
<1>3. CASE P!Guard(h)
  <2>0. ppc[h] = "guard" /\ wire' = wire
    BY <1>3 DEF P!Guard
  <2>1. CASE guard = 0 /\ guard' = 1 /\ ppc' = [ppc EXCEPT ![h] = "begin"]
    <3>1. OneDump' /\ PanicTypeOK'
      BY <1>0, <2>0, <2>1 DEF OneDump, P!OneDump, P!OrderAt, PanicTypeOK, P!DumpParts
    <3>2. \A i \in 1..Len(wire) : P!OrderAt(i) = 0 /\ P!OrderAt(i)' = 0
      BY <2>0, <2>1 DEF DumpInv, P!OrderAt
    <3>3. ppc'[h] = "begin" /\ \A g \in Harts : g # h => ppc'[g] = ppc[g] /\ ppc[g] \notin P!DumpParts
      BY <1>0, <2>1 DEF DumpInv, PanicTypeOK
    <3>4. ASSUME NEW i \in 1..Len(wire) PROVE Fresh(wire[i].hart, i)'
      <4>1. CASE wire[i].hart = h
        BY <3>2, <3>3, <4>1, <2>0, OrderValues DEF Fresh
      <4>2. CASE wire[i].hart # h
        BY <1>0, <1>p, <2>0, <3>3, <4>2 DEF Fresh
      <4> QED
        BY <4>1, <4>2
    <3>5. \A g \in Harts : ppc'[g] \in P!DumpParts => g = h
      BY <3>3
    <3> QED
      BY <2>0, <2>1, <3>1, <3>2, <3>3, <3>4, <3>5 DEF DumpInv
  <2>2. CASE guard' = guard /\ ppc' = [ppc EXCEPT ![h] = "halt"]
    <3>1. OneDump' /\ PanicTypeOK'
      BY <1>0, <2>0, <2>2 DEF OneDump, P!OneDump, P!OrderAt, PanicTypeOK
    <3>2. \A g \in Harts : ppc'[g] \in P!DumpParts => ppc[g] \in P!DumpParts /\ ppc'[g] = ppc[g]
      BY <1>0, <2>2 DEF PanicTypeOK, P!DumpParts
    <3>3. \A i \in 1..Len(wire) : Fresh(wire[i].hart, i)'
      BY <1>0, <2>0, <2>2 DEF Fresh, PanicTypeOK, P!DumpParts, P!OrderAt
    <3> QED
      BY <2>0, <2>2, <3>1, <3>2, <3>3 DEF DumpInv, P!OrderAt
  <2> QED
    BY <1>3, <2>1, <2>2 DEF P!Guard
<1>4. CASE P!Dump(h)
  <2>1. PICK part \in P!DumpParts : part = ppc[h]
    BY <1>4 DEF P!Dump
  <2>2. PICK to \in {"body", "end", "halt"} :
          /\ ppc' = [ppc EXCEPT ![h] = to]
          /\ part = "begin" => to = "body"
          /\ part = "body" => to = "end"
          /\ part = "end" => to = "halt"
    <3>1. CASE part = "begin"
      BY <1>4, <2>1, <3>1 DEF P!Dump
    <3>2. CASE part = "body"
      BY <1>4, <2>1, <3>2 DEF P!Dump
    <3>3. CASE part = "end"
      BY <1>4, <2>1, <3>3 DEF P!Dump
    <3> QED
      BY <3>1, <3>2, <3>3 DEF P!DumpParts
  <2>3. P!Send(h, part) /\ guard' = guard
    BY <1>4, <2>1 DEF P!Dump
  <2>4. /\ \A g \in Harts : ppc[g] \in P!DumpParts => g = h
        /\ \A i \in 1..Len(wire) : P!OrderAt(i) > 0 => wire[i].hart = h
        /\ part # "begin" => \E i \in 1..Len(wire) : P!OrderAt(i) = P!Order[part] - 1
    BY <2>1 DEF DumpInv
  <2>5. \A i \in 1..Len(wire) : wire[i].hart = h => P!OrderAt(i) < P!Order[part]
    BY <1>0, <2>1 DEF Fresh
  <2>6. P!Order[part] > 1 => part # "begin"
    BY OrderValues
  <2>7. OneDump'
    BY <1>0, <2>3, <2>4, <2>5, <2>6, SendKeepsOneDump DEF PanicTypeOK
  <2>8. to \in P!DumpParts => P!Order[part] < P!Order[to] /\ P!Order[part] = P!Order[to] - 1
    BY <2>2, OrderValues DEF P!DumpParts
  <2>9. \A i \in 1..Len(wire') : Fresh(wire[i].hart, i)'
    <3>1. to \in {"guard", "halt"} \cup P!DumpParts /\ ppc[h] # "msg"
      BY <2>1 DEF P!DumpParts
    <3> QED
      BY <2>1, <2>2, <2>3, <2>8, <3>1, SendKeepsFresh
  <2>10. /\ wire' \in Seq(Chunks) /\ Len(wire) \in Nat /\ Len(wire') = Len(wire) + 1
         /\ \A i \in 1..Len(wire) : wire'[i] = wire[i]
         /\ wire'[Len(wire) + 1] = [hart |-> h, part |-> part]
    BY <1>0, <2>3, SendAppends DEF PanicTypeOK
  <2>11. PanicTypeOK'
    BY <1>0, <2>2, <2>3, <2>10 DEF PanicTypeOK, P!DumpParts
  <2>12. guard # 0
    BY <2>1 DEF DumpInv
  <2>13. ppc'[h] = to /\ \A g \in Harts : ppc'[g] \in P!DumpParts => g = h
    BY <1>0, <2>2, <2>4 DEF PanicTypeOK
  <2>14. ASSUME NEW i \in 1..Len(wire'), P!OrderAt(i)' > 0 PROVE wire'[i].hart = h
    <3>1. CASE i \in 1..Len(wire)
      BY <2>4, <2>10, <2>14, <3>1 DEF P!OrderAt
    <3>2. CASE i = Len(wire) + 1
      BY <2>10, <3>2
    <3> QED
      BY <2>10, <3>1, <3>2
  <2>15. to \in P!DumpParts => \E i \in 1..Len(wire') : P!OrderAt(i)' = P!Order[to] - 1
    <3>1. Len(wire) + 1 \in 1..Len(wire') /\ P!Order[wire'[Len(wire) + 1].part] = P!Order[part]
      BY <2>10
    <3> QED
      BY <2>8, <3>1 DEF P!OrderAt
  <2> QED
    BY <2>3, <2>7, <2>9, <2>11, <2>12, <2>13, <2>14, <2>15 DEF DumpInv
<1> QED
  BY <1>1, <1>2, <1>3, <1>4 DEF P!PanicStep

\* However many harts panic or fault, and wherever, one hart dumps at most, every
\* part once and in order (panic.c:19-23, panic.h:35-36).
THEOREM OneDumpHolds == SyncSpec => []OneDump
<1>1. ASSUME DumpInv, [SyncNext]_syncVars PROVE DumpInv'
  <2>1. ASSUME UNCHANGED <<ppc, guard, wire>> PROVE DumpInv'
    BY <1>1, <2>1 DEF DumpInv, PanicTypeOK, Fresh, OneDump, P!OneDump, P!OrderAt
  <2> QED
    BY <1>1, <2>1, DumpStep DEF SyncNext, LockCode, PanicCode, syncVars
<1>2. DumpInv => OneDump
  BY DEF DumpInv
<1> QED
  BY <1>1, <1>2, DumpInit, PTL DEF SyncSpec
=============================================================================
