-------------------------- MODULE AnimalGaitProofs --------------------------
(***************************************************************************)
(* What holds of AnimalGait for every value of its constants: the types,   *)
(* the times kept across the wrap of the clock, and the bound on the speed *)
(* of the joints.                                                          *)
(***************************************************************************)
EXTENDS AnimalGait, TLAPS

LEMMA MinusType == \A a, b \in Time : Minus(a, b) \in Time
  BY LoggerAssumption DEF Minus, Time

(* A register read keeps the logger well typed.                             *)
LEMMA ReadFieldType ==
  ASSUME LoggerTypeOK, NEW clock \in Time, NEW s \in Servos, NEW f \in Fields,
         NEW runStart \in Time, logCycleStartTime' \in Time, lastLogTime' \in Time,
         sdReady' = sdReady, ReadField(clock, s, f, runStart)
  PROVE  LoggerTypeOK' /\ ReadsInBounds'
<1>1. logBuffer' \in [Servos -> [Fields -> Time]]
  BY DEF ReadField, LoggerTypeOK
<1>2. /\ logServoIndex' \in 0 .. NServos /\ logFieldIndex' \in Fields
      /\ loggingInProgress' \in BOOLEAN /\ ReadsInBounds'
  <2>1. /\ logServoIndex' \in 0 .. NServos /\ logFieldIndex' \in Fields
    BY LoggerAssumption DEF ReadField, Servos, Fields
  <2>2. CASE logServoIndex' >= NServos
    BY <2>1, <2>2 DEF ReadField, ReadsInBounds
  <2>3. CASE ~(logServoIndex' >= NServos)
    <3>1. logServoIndex' \in Servos
      BY <2>1, <2>3, LoggerAssumption DEF Servos
    <3>2. loggingInProgress' = TRUE
      BY <2>3 DEF ReadField
    <3>3. QED
      BY <2>1, <3>1, <3>2 DEF ReadsInBounds
  <2>4. QED
    BY <2>2, <2>3
<1>3. row' \in Row \cup {NoRow}
  <2>1. CASE row' = row
    BY <2>1 DEF LoggerTypeOK
  <2>2. CASE LogRow(clock, runStart)
    <3>1. PICK stored \in BOOLEAN :
            row' = [start |-> logCycleStartTime', at |-> clock,
                    ts |-> Minus(logCycleStartTime', runStart),
                    stored |-> stored, samples |-> logBuffer']
      BY <2>2 DEF LogRow
    <3>2. Minus(logCycleStartTime', runStart) \in Time
      BY MinusType
    <3>3. QED
      BY <1>1, <3>1, <3>2 DEF Row
  <2>3. QED
    BY <2>1, <2>2 DEF ReadField
<1>4. QED
  BY <1>1, <1>2, <1>3 DEF LoggerTypeOK

LEMMA UpdateLoggingType ==
  ASSUME LoggerTypeOK, ReadsInBounds, NEW clock \in Time, NEW runStart \in Time,
         UpdateLogging(clock, runStart)
  PROVE  LoggerTypeOK' /\ ReadsInBounds'
<1>1. CASE sdReady /\ UNCHANGED sdReady /\ StartCycle(clock, runStart)
  <2>1. 0 \in Servos /\ 0 \in Fields
    BY LoggerAssumption DEF Servos, Fields
  <2>2. QED
    BY <1>1, <2>1, ReadFieldType DEF StartCycle
<1>2. CASE sdReady /\ UNCHANGED sdReady /\ ContinueCycle(clock, runStart)
  <2>1. /\ logServoIndex \in Servos /\ logFieldIndex \in Fields
        /\ logCycleStartTime' \in Time /\ lastLogTime' \in Time
    BY <1>2 DEF ContinueCycle, ReadsInBounds, LoggerTypeOK
  <2>2. ReadField(clock, logServoIndex, logFieldIndex, runStart)
    BY <1>2 DEF ContinueCycle
  <2>3. QED
    BY <1>2, <2>1, <2>2, ReadFieldType
<1>3. CASE UNCHANGED loggerVars
  BY <1>3 DEF loggerVars, LoggerTypeOK, ReadsInBounds
<1>4. QED
  BY <1>1, <1>2, <1>3 DEF UpdateLogging

(* Where a joint can be commanded to.                                       *)
Reach(j) == IF j \in Body THEN -Bend .. Bend ELSE 0 .. FinSwing

Age == Minus(now, gaitStartTime)

(* The last command is the ease's value at the last pass, so that the next  *)
(* one starts from there.                                                   *)
EaseInv ==
  /\ {now, gaitStartTime, runStartMillis} \subseteq Time /\ gaitIndex \in Gaits
  /\ Age <= Duration(gaitIndex)
  /\ switchPos \in [Joints -> Int] /\ lastCommanded \in [Joints -> Int]
  /\ \A j \in Joints :
       /\ switchPos[j] \in Reach(j)
       /\ lastCommanded[j] = Eased(j, switchPos[j], gaitIndex, Age)

Nth(s, f) == s * NFields + f

(* v is the clock between n and n * MaxPass after the start of the cycle.   *)
Aged(v, start, n) == \E age \in n .. n * MaxPass : v = (start + age) % ClockMod

IsRead(s, f) == s < logServoIndex \/ (s = logServoIndex /\ f < logFieldIndex)

Gap(start, before) ==
  LET gap == Minus(start, before)
  IN /\ LogInterval <= gap
     /\ gap < LogInterval + MaxPass \/ gap <= NServos * NFields * MaxPass

(* A cycle under way has been read up to the indices, one register per pass *)
(* from its start on; between cycles the last one is not long over.         *)
CycleInv ==
  /\ LoggerTypeOK /\ ReadsInBounds
  /\ logCycleStartTime = lastLogTime
  /\ ~sdReady => row = NoRow /\ ~loggingInProgress
  /\ loggingInProgress =>
       /\ Nth(logServoIndex, logFieldIndex) >= 1
       /\ Aged(now, lastLogTime, Nth(logServoIndex, logFieldIndex) - 1)
       /\ \A s \in Servos, f \in Fields :
            IsRead(s, f) => Aged(logBuffer[s][f], lastLogTime, Nth(s, f))
       /\ row # NoRow => Gap(lastLogTime, row.start)
  /\ ~loggingInProgress /\ row # NoRow =>
       /\ row.start = lastLogTime
       /\ \/ Minus(now, lastLogTime) < LogInterval
          \/ Minus(now, lastLogTime) <= (NServos * NFields - 1) * MaxPass
-----------------------------------------------------------------------------
(* The clock.                                                               *)
LEMMA Remainder ==
  ASSUME NEW n \in Nat, NEW m \in Nat \ {0}
  PROVE  n = (n \div m) * m + (n % m) /\ n % m \in 0 .. m - 1 /\ n \div m \in Nat
  OBVIOUS

LEMMA OneRemainder ==
  ASSUME NEW m \in Nat \ {0}, NEW p \in Int, NEW q \in Int,
         NEW r \in 0 .. m - 1, NEW s \in 0 .. m - 1, p * m + r = q * m + s
  PROVE  r = s
<1>1. (p - q) * m = s - r
  OBVIOUS
<1>2. CASE p > q
  <2>1. (p - q) * m >= m
    BY <1>2
  <2> QED
    BY <1>1, <2>1
<1>3. CASE p < q
  <2>1. (q - p) * m >= m /\ (q - p) * m = - ((p - q) * m)
    BY <1>3
  <2> QED
    BY <1>1, <2>1
<1> QED
  BY <1>1, <1>2, <1>3

LEMMA StepOfRemainder ==
  ASSUME NEW n \in Nat, NEW d \in Nat, NEW m \in Nat \ {0}
  PROVE  ((n % m) + d) % m = (n + d) % m
<1> DEFINE r == n % m
           p == n \div m
           s == (r + d) % m
           q == (r + d) \div m
           t == (n + d) % m
           u == (n + d) \div m
<1>1. n = p * m + r /\ r \in 0 .. m - 1 /\ p \in Nat
  BY Remainder
<1>2. r + d = q * m + s /\ s \in 0 .. m - 1 /\ q \in Nat
  <2>1. r + d \in Nat
    BY <1>1
  <2> HIDE DEF r
  <2> QED
    BY <2>1, Remainder
<1>3. n + d = u * m + t /\ t \in 0 .. m - 1 /\ u \in Nat
  <2>1. n + d \in Nat
    OBVIOUS
  <2> QED
    BY <2>1, Remainder
<1> HIDE DEF p, q, r, s, t, u
<1>4. (p + q) * m + s = u * m + t
  <2>1. (p + q) * m = p * m + q * m
    BY <1>1, <1>2
  <2> QED
    BY <1>1, <1>2, <1>3, <2>1
<1>5. s = t
  <2>1. p + q \in Int /\ u \in Int
    BY <1>1, <1>2, <1>3
  <2> QED
    BY <1>2, <1>3, <1>4, <2>1, OneRemainder
<1> QED
  BY <1>5 DEF r, s, t

(* A difference of clock values grows no faster than the clock, and exactly *)
(* with it while it does not come round.                                    *)
LEMMA Later ==
  ASSUME NEW a \in Time, NEW g \in Time, NEW d \in Nat
  PROVE  /\ (a + d) % ClockMod \in Time
         /\ Minus((a + d) % ClockMod, g) <= Minus(a, g) + d
         /\ Minus(a, g) + d < ClockMod => Minus((a + d) % ClockMod, g) = Minus(a, g) + d
<1> DEFINE b == (a + d) % ClockMod
           q == (a + d) \div ClockMod
<1>1. a \in Nat /\ g \in Nat /\ a < ClockMod /\ g < ClockMod /\ ClockMod \in Nat \ {0}
  BY LoggerAssumption DEF Time
<1>2. a + d = q * ClockMod + b /\ q \in Nat /\ b \in 0 .. ClockMod - 1
  <2>1. a + d \in Nat
    BY <1>1
  <2> QED
    BY <1>1, <2>1, Remainder
<1> HIDE DEF b, q
<1>3. b \in Nat /\ b < ClockMod
  BY <1>1, <1>2
<1>4. q = 0 \/ q = 1 \/ (q >= 2 /\ q * ClockMod >= 2 * ClockMod)
  BY <1>1, <1>2
<1>5. CASE q = 0
  BY <1>1, <1>2, <1>3, <1>5 DEF Minus, Time, b
<1>6. CASE q = 1
  BY <1>1, <1>2, <1>3, <1>6 DEF Minus, Time, b
<1>7. CASE q >= 2 /\ q * ClockMod >= 2 * ClockMod
  BY <1>1, <1>2, <1>3, <1>7 DEF Minus, Time, b
<1> QED
  BY <1>4, <1>5, <1>6, <1>7

LEMMA NoTime == \A a \in Time : Minus(a, a) = 0 /\ (a + 0) % ClockMod = a
  BY LoggerAssumption DEF Time, Minus

LEMMA Passes ==
  /\ MaxPass \in Nat /\ MaxPass >= 1 /\ MaxPass < ClockMod
  /\ \A d \in PassLengths : d \in Nat /\ d >= 1 /\ d <= MaxPass
<1>1. MaxPass \in Nat \ {0} /\ \A d \in PassLengths : d \in Nat \ {0} /\ d <= MaxPass
  BY AnimalAssumption
<1>2. CDuration + MaxPass < ClockMod /\ CDuration \in Nat
  BY AnimalAssumption
<1> HIDE DEF MaxPass
<1> QED
  BY <1>1, <1>2, LoggerAssumption
-----------------------------------------------------------------------------
(* The ease, over a common denominator: smoothstep(t / length) is           *)
(* Smooth(t, length) / Cube(length).                                        *)
Cube(length) == length * length * length

Hermite(t, length) == t * t * (3 * length - 2 * t)

Within(t, length) == IF t <= 0 THEN 0 ELSE IF t >= length THEN length ELSE t

Smooth(t, length) == Hermite(Within(t, length), length)

LEMMA Floor ==
  ASSUME NEW n \in Int, NEW b \in Nat \ {0}
  PROVE  n \div b \in Int /\ (n \div b) * b <= n /\ n < (n \div b) * b + b
  OBVIOUS

LEMMA SquareNat == ASSUME NEW x \in Int PROVE x * x \in Nat
<1>1. CASE x >= 0
  BY <1>1
<1>2. CASE x < 0
  <2>1. (-x) * (-x) \in Nat /\ (-x) * (-x) = x * x
    BY <1>2
  <2> QED
    BY <2>1
<1> QED
  BY <1>1, <1>2

LEMMA WithinRange ==
  ASSUME NEW l \in Nat \ {0}, NEW t \in Int
  PROVE  Within(t, l) \in 0 .. l
  BY DEF Within

LEMMA Ends ==
  ASSUME NEW l \in Nat \ {0}
  PROVE  Hermite(0, l) = 0 /\ Hermite(l, l) = Cube(l) /\ Cube(l) \in Nat \ {0}
<1>1. Hermite(0, l) = 0
  BY DEF Hermite
<1>2. Hermite(l, l) = Cube(l)
  <2>1. 3 * l - 2 * l = l
    OBVIOUS
  <2> QED
    BY <2>1 DEF Hermite, Cube
<1>3. Cube(l) \in Nat \ {0}
  <2>1. l * l \in Nat \ {0}
    OBVIOUS
  <2> DEFINE q == l * l
  <2> HIDE DEF q
  <2>2. q \in Nat \ {0}
    BY <2>1 DEF q
  <2>3. q * l \in Nat \ {0}
    BY <2>2
  <2> QED
    BY <2>3 DEF q, Cube
<1> QED
  BY <1>1, <1>2, <1>3

(* Between two times the smoothed value grows, by at most 3/2 of the time.  *)
LEMMA Growth ==
  ASSUME NEW l \in Nat \ {0}, NEW a \in 0 .. l, NEW b \in 0 .. l, a <= b
  PROVE  /\ Hermite(a, l) \in Int /\ Hermite(b, l) \in Int
         /\ 0 <= Hermite(b, l) - Hermite(a, l)
         /\ 2 * (Hermite(b, l) - Hermite(a, l)) <= 3 * l * l * (b - a)
<1> DEFINE s == 3 * l * (a + b) - 2 * (a * a + a * b + b * b)
<1>1. Hermite(b, l) - Hermite(a, l) = (b - a) * s
  BY DEF Hermite
<1>2. s \in Nat
  <2>1. /\ a * a <= a * l /\ b * b <= b * l /\ a * b <= a * l /\ a * b <= b * l
        /\ a * l \in Nat /\ b * l \in Nat /\ a * a \in Nat /\ a * b \in Nat /\ b * b \in Nat
    OBVIOUS
  <2>2. 3 * l * (a + b) = 3 * (a * l) + 3 * (b * l)
    OBVIOUS
  <2> QED
    BY <2>1, <2>2
<1>3. 2 * s <= 3 * l * l
  <2> DEFINE u == l - (a + b)
             v == a - b
  <2>1. u * u \in Nat /\ v * v \in Nat
    BY SquareNat
  <2>2. 3 * l * l - 2 * s = 3 * (u * u) + v * v
    OBVIOUS
  <2>3. 3 * l * l \in Int /\ s \in Int
    OBVIOUS
  <2> HIDE DEF u, v, s
  <2> QED
    BY <2>1, <2>2, <2>3
<1>4. Hermite(a, l) \in Int /\ Hermite(b, l) \in Int
  BY DEF Hermite
<1> HIDE DEF s
<1> DEFINE m == 3 * l * l
           e == b - a
<1>5. e \in Nat /\ m \in Nat
  OBVIOUS
<1>6. 3 * l * l * (b - a) = m * e /\ 2 * s <= m
  BY <1>3
<1>7. Hermite(b, l) - Hermite(a, l) = e * s
  BY <1>1
<1> HIDE DEF m, e
<1>8. e * s \in Nat /\ e * (2 * s) <= e * m /\ e * (2 * s) = 2 * (e * s) /\ e * m = m * e
  BY <1>2, <1>5, <1>6
<1> QED
  BY <1>4, <1>6, <1>7, <1>8

LEMMA SmoothGrowth ==
  ASSUME NEW l \in Nat \ {0}, NEW a \in Int, NEW b \in Int, a <= b
  PROVE  /\ Smooth(a, l) \in 0 .. Cube(l) /\ Smooth(b, l) \in 0 .. Cube(l)
         /\ Smooth(a, l) <= Smooth(b, l)
         /\ 2 * (Smooth(b, l) - Smooth(a, l)) <= 3 * l * l * (b - a)
<1> DEFINE x == Within(a, l)
           y == Within(b, l)
<1>1. x \in 0 .. l /\ y \in 0 .. l
  BY WithinRange
<1>2. x <= y /\ y - x <= b - a
  BY DEF Within
<1> HIDE DEF x, y
<1>3. /\ Hermite(x, l) \in Int /\ Hermite(y, l) \in Int
      /\ 0 <= Hermite(y, l) - Hermite(x, l)
      /\ 2 * (Hermite(y, l) - Hermite(x, l)) <= 3 * l * l * (y - x)
  BY <1>1, <1>2, Growth
<1>4. 0 <= Hermite(x, l) - Hermite(0, l) /\ 0 <= Hermite(l, l) - Hermite(y, l)
  <2>1. 0 \in 0 .. l /\ l \in 0 .. l /\ 0 <= x /\ y <= l
    BY <1>1
  <2> QED
    BY <1>1, <2>1, Growth
<1>5. 3 * l * l * (y - x) <= 3 * l * l * (b - a)
  <2> DEFINE m == 3 * l * l
  <2>1. m \in Nat
    OBVIOUS
  <2> HIDE DEF m
  <2>2. m * (y - x) <= m * (b - a)
    BY <1>1, <1>2, <2>1
  <2> QED
    BY <2>2 DEF m
<1>6. 3 * l * l * (y - x) \in Int /\ 3 * l * l * (b - a) \in Int
  BY <1>1
<1>7. Hermite(0, l) = 0 /\ Hermite(l, l) = Cube(l) /\ Cube(l) \in Nat
  BY Ends
<1>8. /\ Hermite(x, l) \in 0 .. Cube(l) /\ Hermite(y, l) \in 0 .. Cube(l)
      /\ Hermite(x, l) <= Hermite(y, l)
  BY <1>3, <1>4, <1>7
<1>9. 2 * (Hermite(y, l) - Hermite(x, l)) <= 3 * l * l * (b - a)
  BY <1>3, <1>5, <1>6
<1> QED
  BY <1>8, <1>9 DEF Smooth, x, y

LEMMA EaseIs ==
  ASSUME NEW from \in Int, NEW to \in Int, NEW t \in Int, NEW l \in Nat \ {0}
  PROVE  Ease(from, to, t, l) = from + ((to - from) * Smooth(t, l)) \div Cube(l)
<1> DEFINE d == to - from
<1>0. d \in Int
  OBVIOUS
<1>1. Hermite(0, l) = 0 /\ Hermite(l, l) = Cube(l) /\ Cube(l) \in Nat \ {0}
  BY Ends
<1>2. CASE t <= 0
  <2>1. Smooth(t, l) = 0
    BY <1>1, <1>2 DEF Smooth, Within
  <2>2. (d * 0) \div Cube(l) = 0
    BY <1>0, <1>1
  <2>3. Ease(from, to, t, l) = from
    BY <1>2 DEF Ease
  <2> QED
    BY <2>1, <2>2, <2>3
<1>3. CASE t > 0 /\ t >= l
  <2>1. Smooth(t, l) = Cube(l)
    BY <1>1, <1>3 DEF Smooth, Within
  <2>2. (d * Cube(l)) \div Cube(l) = d
    <3> DEFINE c == Cube(l)
               q == (d * c) \div c
    <3> HIDE DEF d, c
    <3>1. c \in Nat \ {0} /\ d * c \in Int
      BY <1>0, <1>1 DEF c
    <3>2. q \in Int /\ q * c <= d * c /\ d * c < q * c + c
      BY <3>1, Floor
    <3> HIDE DEF q
    <3>3. ASSUME q > d PROVE FALSE
      <4>1. (q - d) * c >= c /\ (q - d) * c = q * c - d * c
        BY <1>0, <3>1, <3>2, <3>3
      <4> QED
        BY <1>0, <3>1, <3>2, <4>1
    <3>4. ASSUME q < d PROVE FALSE
      <4>1. (d - q) * c >= c /\ (d - q) * c = d * c - q * c
        BY <1>0, <3>1, <3>2, <3>4
      <4> QED
        BY <1>0, <3>1, <3>2, <4>1
    <3>5. q \in Int /\ d \in Int /\ ~(q > d) /\ ~(q < d)
      BY <1>0, <3>2, <3>3, <3>4
    <3>6. q = d
      BY <3>5
    <3> QED
      BY <3>6 DEF q, c
  <2>3. Ease(from, to, t, l) = to /\ from + d = to
    BY <1>3 DEF Ease
  <2> QED
    BY <2>1, <2>2, <2>3
<1>4. CASE t > 0 /\ t < l
  <2>1. Smooth(t, l) = t * t * (3 * l - 2 * t)
    BY <1>4 DEF Smooth, Within, Hermite
  <2>2. (d * t * t * (3 * l - 2 * t)) = d * (t * t * (3 * l - 2 * t))
    BY <1>0
  <2>3. Ease(from, to, t, l) =
          from + (d * t * t * (3 * l - 2 * t)) \div (l * l * l)
    BY <1>4 DEF Ease
  <2> QED
    BY <2>1, <2>2, <2>3 DEF Cube
<1> QED
  BY <1>2, <1>3, <1>4

(* An ease stays between its ends.                                          *)
LEMMA EaseBetween ==
  ASSUME NEW low \in Int, NEW high \in Int, NEW from \in low .. high, NEW to \in low .. high,
         NEW t \in Int, NEW l \in Nat \ {0}
  PROVE  Ease(from, to, t, l) \in low .. high
<1> DEFINE d == to - from
           c == Cube(l)
           k == Smooth(t, l)
           q == (d * k) \div c
<1>1. c \in Nat \ {0} /\ k \in 0 .. c
  <2>1. t <= t
    OBVIOUS
  <2>2. Smooth(t, l) \in 0 .. Cube(l)
    BY <2>1, SmoothGrowth
  <2> QED
    BY <2>2, Ends
<1>2. Ease(from, to, t, l) = from + q
  <2>1. from \in Int /\ to \in Int
    OBVIOUS
  <2> QED
    BY <2>1, EaseIs
<1>3. d \in Int
  OBVIOUS
<1> HIDE DEF c, k
<1>4. q \in Int /\ q * c <= d * k /\ d * k < q * c + c
  <2>1. d * k \in Int
    BY <1>1, <1>3
  <2> HIDE DEF d
  <2> QED
    BY <1>1, <2>1, Floor
<1> HIDE DEF d, q
<1>5. CASE d >= 0
  <2>1. 0 <= d * k /\ d * k <= d * c /\ d * k \in Int /\ d * c \in Int
    BY <1>1, <1>3, <1>5
  <2>2. q * c <= d * c /\ 0 < (q + 1) * c
    BY <1>1, <1>3, <1>4, <2>1
  <2>3. q <= d
    <3> SUFFICES ASSUME q > d PROVE FALSE
      BY <1>3, <1>4
    <3>1. (q - d) * c >= c /\ (q - d) * c = q * c - d * c
      BY <1>1, <1>3, <1>4
    <3> QED
      BY <1>1, <1>3, <1>4, <2>2, <3>1
  <2>4. q >= 0
    <3> SUFFICES ASSUME q + 1 <= 0 PROVE FALSE
      BY <1>4
    <3>1. (q + 1) * c <= 0
      BY <1>1, <1>4
    <3> QED
      BY <1>1, <1>4, <2>2, <3>1
  <2> QED
    BY <1>2, <1>3, <1>4, <2>3, <2>4 DEF d
<1>6. CASE d < 0
  <2>1. d * k <= 0 /\ d * c <= d * k /\ d * k \in Int /\ d * c \in Int
    BY <1>1, <1>3, <1>6
  <2>2. q * c <= 0 /\ d * c < (q + 1) * c
    BY <1>1, <1>3, <1>4, <2>1
  <2>3. q >= d
    <3> SUFFICES ASSUME q + 1 <= d PROVE FALSE
      BY <1>3, <1>4
    <3>1. (q + 1) * c <= d * c
      BY <1>1, <1>3, <1>4
    <3> QED
      BY <1>1, <1>3, <1>4, <2>1, <2>2, <3>1
  <2>4. q <= 0
    <3> SUFFICES ASSUME q >= 1 PROVE FALSE
      BY <1>4
    <3>1. q * c >= c
      BY <1>1, <1>4
    <3> QED
      BY <1>1, <1>4, <2>2, <3>1
  <2> QED
    BY <1>2, <1>3, <1>4, <2>3, <2>4 DEF d
<1> QED
  BY <1>3, <1>5, <1>6

(* Rounding down adds less than one to a difference.                        *)
LEMMA FloorStep ==
  ASSUME NEW m \in Int, NEW n \in Int, NEW c \in Nat \ {0}
  PROVE  c * (n \div c - m \div c - 1) < n - m /\ m \div c \in Int /\ n \div c \in Int
<1> DEFINE p == m \div c
           q == n \div c
<1>1. /\ p \in Int /\ p * c <= m /\ m < p * c + c
      /\ q \in Int /\ q * c <= n /\ n < q * c + c
  BY Floor
<1> HIDE DEF p, q
<1>2. c * (q - p - 1) = q * c - p * c - c
  BY <1>1
<1>3. p * c \in Int /\ q * c \in Int
  BY <1>1
<1> HIDE <1>2
<1>4. c * (q - p - 1) < n - m
  BY <1>1, <1>2, <1>3
<1> QED
  BY <1>1, <1>4 DEF p, q

LEMMA Cancel ==
  ASSUME NEW p \in Nat \ {0}, NEW x \in Int, NEW y \in Int, p * x <= p * y
  PROVE  x <= y
<1> SUFFICES ASSUME x > y PROVE FALSE
  OBVIOUS
<1>1. p * (x - y) >= p /\ p * (x - y) = p * x - p * y
  OBVIOUS
<1> QED
  BY <1>1

(* What n / c moves by when n is d times the growth of the smoothed time.   *)
LEMMA MoveBound ==
  ASSUME NEW l \in Nat \ {0}, NEW swing \in Nat, NEW by \in Int, NEW rise \in Int,
         NEW e \in Nat, NEW k \in Nat,
         Cube(l) * (by - 1) <= rise, rise <= swing * k, 2 * k <= 3 * l * l * e
  PROVE  2 * l * (by - 1) <= 3 * swing * e
<1> DEFINE p == l * l
           x == 2 * l * (by - 1)
           y == 3 * swing * e
<1>1. p \in Nat \ {0} /\ x \in Int /\ y \in Int /\ swing * k \in Int
  OBVIOUS
<1>2. p * x = 2 * (Cube(l) * (by - 1))
  BY DEF Cube
<1>3. Cube(l) * (by - 1) \in Int
  BY DEF Cube
<1>4. p * x <= 2 * (swing * k)
  BY <1>1, <1>2, <1>3
<1>5. 2 * (swing * k) <= p * y
  <2> DEFINE z == 3 * l * l * e
  <2>1. z \in Int /\ swing * z = p * y /\ 2 * (swing * k) = swing * (2 * k) /\ 2 * k <= z
    OBVIOUS
  <2> HIDE DEF z, p, y
  <2>2. swing * (2 * k) <= swing * z
    BY <2>1
  <2> QED
    BY <2>1, <2>2
<1>6. p * x \in Int /\ p * y \in Int
  BY <1>1
<1> HIDE DEF p, x, y
<1>7. p * x <= p * y
  BY <1>1, <1>4, <1>5, <1>6
<1>8. x <= y
  BY <1>1, <1>7, Cancel
<1> QED
  BY <1>8 DEF x, y

(* An ease over length moves by at most the greatest slope of smoothstep,   *)
(* in either direction.                                                     *)
LEMMA EaseStep ==
  ASSUME NEW from \in Int, NEW to \in Int, NEW swing \in Nat,
         to - from <= swing, from - to <= swing,
         NEW l \in Nat \ {0}, NEW a \in Int, NEW b \in Int, a <= b
  PROVE  /\ Ease(from, to, a, l) \in Int /\ Ease(from, to, b, l) \in Int
         /\ 2 * l * (Ease(from, to, b, l) - Ease(from, to, a, l) - 1)
              <= 3 * swing * (b - a)
         /\ 2 * l * (Ease(from, to, a, l) - Ease(from, to, b, l) - 1)
              <= 3 * swing * (b - a)
<1> DEFINE d == to - from
           c == Cube(l)
           j == Smooth(a, l)
           k == Smooth(b, l)
           m == d * j
           n == d * k
           e == b - a
<1>1. c \in Nat \ {0} /\ j \in Int /\ k \in Int /\ j <= k /\ 2 * (k - j) <= 3 * l * l * e
  <2>1. c \in Nat \ {0}
    BY Ends
  <2>2. /\ j \in 0 .. c /\ k \in 0 .. c /\ j <= k
        /\ 2 * (k - j) <= 3 * l * l * (b - a)
    BY SmoothGrowth
  <2> HIDE DEF c, j, k
  <2> QED
    BY <2>1, <2>2
<1>2. /\ Ease(from, to, a, l) = from + m \div c
      /\ Ease(from, to, b, l) = from + n \div c
  BY EaseIs
<1>3. d \in Int /\ d <= swing /\ -d <= swing /\ e \in Nat
  OBVIOUS
<1> HIDE DEF c, j, k, d
<1>4. m \in Int /\ n \in Int
  BY <1>1, <1>3
<1>5. n - m <= swing * (k - j) /\ m - n <= swing * (k - j) /\ k - j \in Nat
  <2> DEFINE r == k - j
  <2>1. r \in Nat /\ n - m = d * r /\ m - n = (-d) * r
    BY <1>1, <1>3
  <2> HIDE DEF r
  <2>2. d * r <= swing * r /\ (-d) * r <= swing * r
    BY <1>3, <2>1
  <2>3. n - m <= swing * r /\ m - n <= swing * r
    BY <2>1, <2>2
  <2> QED
    BY <2>1, <2>3 DEF r
<1> HIDE DEF m, n, e
<1> DEFINE u == m \div c
           v == n \div c
<1>6. /\ u \in Int /\ v \in Int /\ c * (v - u - 1) < n - m /\ c * (u - v - 1) < m - n
  BY <1>1, <1>4, FloorStep
<1> HIDE DEF u, v
<1>7. /\ c * ((v - u) - 1) <= n - m /\ c * ((u - v) - 1) <= m - n
      /\ v - u \in Int /\ u - v \in Int /\ n - m \in Int /\ m - n \in Int
  <2>1. c * (v - u - 1) \in Int /\ c * (u - v - 1) \in Int
    BY <1>1, <1>6
  <2> QED
    BY <1>4, <1>6, <2>1
<1>8. 2 * l * ((v - u) - 1) <= 3 * swing * e
  BY <1>1, <1>3, <1>5, <1>7, MoveBound DEF c
<1>9. 2 * l * ((u - v) - 1) <= 3 * swing * e
  BY <1>1, <1>3, <1>5, <1>7, MoveBound DEF c
<1>10. /\ Ease(from, to, b, l) - Ease(from, to, a, l) = v - u
       /\ Ease(from, to, a, l) - Ease(from, to, b, l) = u - v
       /\ Ease(from, to, a, l) \in Int /\ Ease(from, to, b, l) \in Int
  BY <1>2, <1>6 DEF u, v
<1> QED
  BY <1>8, <1>9, <1>10 DEF e
-----------------------------------------------------------------------------
(* The gaits.                                                               *)
LEMMA JointKinds ==
  /\ \A j \in Body : j = 1 \/ j = 7
  /\ \A j \in Joints : j \notin Body => j = 10 \/ j = 11
  /\ Body \subseteq Joints
  BY AnimalAssumption DEF Body

LEMMA Sizes ==
  /\ Bend \in Nat /\ FinSwing \in Nat /\ BodyEase \in Nat \ {0} /\ FinEase \in Nat \ {0}
  /\ FinDelay \in Nat /\ -Bend \in Int
  /\ \A j \in Joints : Reach(j) \subseteq Int
  BY AnimalAssumption DEF Reach

LEMMA TargetIn == \A j \in Joints, g \in Gaits : Target(g, j) \in Reach(j)
<1> SUFFICES ASSUME NEW j \in Joints, NEW g \in Gaits PROVE Target(g, j) \in Reach(j)
  OBVIOUS
<1>1. CASE j \in Body
  <2>1. Target(g, j) \in {Bend, -Bend}
    BY <1>1, JointKinds DEF Target
  <2> QED
    BY <1>1, <2>1, Sizes DEF Reach
<1>2. CASE j \notin Body
  <2>1. Target(g, j) \in {0, FinSwing}
    BY <1>2, JointKinds DEF Target
  <2> QED
    BY <1>2, <2>1, Sizes DEF Reach
<1> QED
  BY <1>1, <1>2

LEMMA EasedIn ==
  ASSUME NEW j \in Joints, NEW g \in Gaits, NEW from \in Reach(j), NEW t \in Int
  PROVE  Eased(j, from, g, t) \in Reach(j)
<1>1. Target(g, j) \in Reach(j)
  BY TargetIn
<1>2. CASE j \in Body
  <2>1. from \in -Bend .. Bend /\ Target(g, j) \in -Bend .. Bend
    BY <1>1, <1>2 DEF Reach
  <2>2. Ease(from, Target(g, j), t, BodyEase) \in -Bend .. Bend
    <3> DEFINE low == -Bend
               to == Target(g, j)
    <3>1. low \in Int /\ Bend \in Int /\ from \in low .. Bend /\ to \in low .. Bend
          /\ BodyEase \in Nat \ {0}
      BY <2>1, Sizes
    <3> HIDE DEF low, to
    <3>2. Ease(from, to, t, BodyEase) \in low .. Bend
      BY <3>1, EaseBetween
    <3> QED
      BY <3>2 DEF low, to
  <2> QED
    BY <1>2, <2>2 DEF Eased, Reach
<1>3. CASE j \notin Body
  <2>1. from \in 0 .. FinSwing /\ Target(g, j) \in 0 .. FinSwing
    BY <1>1, <1>3 DEF Reach
  <2> DEFINE u == t - (IF g \in {0, 2} THEN 0 ELSE FinDelay)
  <2>2. u \in Int
    BY Sizes
  <2> DEFINE to == Target(g, j)
  <2>3. 0 \in Int /\ FinSwing \in Int /\ to \in 0 .. FinSwing /\ FinEase \in Nat \ {0}
    BY <2>1, Sizes
  <2> HIDE DEF u, to
  <2>4. Ease(from, to, u, FinEase) \in 0 .. FinSwing
    BY <2>1, <2>2, <2>3, EaseBetween
  <2> QED
    BY <1>3, <2>4 DEF Eased, Reach, u, to
<1> QED
  BY <1>2, <1>3

LEMMA EasedAtStart ==
  ASSUME NEW j \in Joints, NEW g \in Gaits, NEW from \in Reach(j)
  PROVE  Eased(j, from, g, 0) = from
  BY Sizes DEF Eased, Ease

(* No joint's ease is steeper than Slope says.                              *)
Slow(j, moved, time) ==
  2 * Slope(j)[2] * (moved - 1) <= 3 * Slope(j)[1] * time

LEMMA EasedStep ==
  ASSUME NEW j \in Joints, NEW g \in Gaits, NEW from \in Reach(j),
         NEW t \in Int, NEW u \in Int, t <= u
  PROVE  /\ Slow(j, Eased(j, from, g, u) - Eased(j, from, g, t), u - t)
         /\ Slow(j, Eased(j, from, g, t) - Eased(j, from, g, u), u - t)
<1> DEFINE to == Target(g, j)
<1>1. to \in Reach(j)
  BY TargetIn
<1> HIDE DEF to
<1>2. CASE j \in Body
  <2>1. from \in Int /\ to \in Int /\ to - from <= 2 * Bend /\ from - to <= 2 * Bend
    BY <1>1, <1>2, Sizes DEF Reach
  <2>2. 2 * Bend \in Nat /\ BodyEase \in Nat \ {0}
    BY Sizes
  <2>3. /\ 2 * BodyEase * (Ease(from, to, u, BodyEase) - Ease(from, to, t, BodyEase) - 1)
             <= 3 * (2 * Bend) * (u - t)
        /\ 2 * BodyEase * (Ease(from, to, t, BodyEase) - Ease(from, to, u, BodyEase) - 1)
             <= 3 * (2 * Bend) * (u - t)
    BY <2>1, <2>2, EaseStep
  <2>4. Slope(j)[1] = 2 * Bend /\ Slope(j)[2] = BodyEase
    BY <1>2 DEF Slope
  <2>5. /\ Eased(j, from, g, u) = Ease(from, to, u, BodyEase)
        /\ Eased(j, from, g, t) = Ease(from, to, t, BodyEase)
    BY <1>2 DEF Eased, to
  <2> QED
    BY <2>3, <2>4, <2>5 DEF Slow
<1>3. CASE j \notin Body
  <2> DEFINE delay == IF g \in {0, 2} THEN 0 ELSE FinDelay
             v == t - delay
             w == u - delay
  <2>1. from \in Int /\ to \in Int /\ to - from <= FinSwing /\ from - to <= FinSwing
    BY <1>1, <1>3, Sizes DEF Reach
  <2>2. FinSwing \in Nat /\ FinEase \in Nat \ {0} /\ delay \in Nat
    BY Sizes
  <2>3. /\ Eased(j, from, g, u) = Ease(from, to, w, FinEase)
        /\ Eased(j, from, g, t) = Ease(from, to, v, FinEase)
    BY <1>3 DEF Eased, to
  <2> HIDE DEF delay
  <2>4. v \in Int /\ w \in Int /\ v <= w /\ w - v = u - t
    BY <2>2
  <2> HIDE DEF v, w
  <2>5. /\ 2 * FinEase * (Ease(from, to, w, FinEase) - Ease(from, to, v, FinEase) - 1)
             <= 3 * FinSwing * (w - v)
        /\ 2 * FinEase * (Ease(from, to, v, FinEase) - Ease(from, to, w, FinEase) - 1)
             <= 3 * FinSwing * (w - v)
    BY <2>1, <2>2, <2>4, EaseStep
  <2>6. Slope(j)[1] = FinSwing /\ Slope(j)[2] = FinEase
    BY <1>3 DEF Slope
  <2> QED
    BY <2>3, <2>4, <2>5, <2>6 DEF Slow
<1> QED
  BY <1>2, <1>3

LEMMA EaseInit == Init => EaseInv
<1> SUFFICES ASSUME Init PROVE EaseInv
  OBVIOUS
<1>1. now \in Time /\ gaitStartTime = now /\ runStartMillis \in Time
  <2>1. now \in Time /\ SetupRest \in Time
    BY AnimalAssumption DEF Init
  <2> QED
    BY <2>1, MinusType DEF Init
<1>2. Age = 0
  BY <1>1, NoTime DEF Age
<1>3. 0 \in Gaits /\ gaitIndex = 0 /\ Duration(0) \in Nat
  BY AnimalAssumption DEF Gaits, Duration, Init
<1>4. \A j \in Joints : switchPos[j] = 0 /\ lastCommanded[j] = 0 /\ 0 \in Reach(j)
  BY Sizes DEF Init, Reach
<1>5. \A j \in Joints : Eased(j, 0, 0, 0) = 0
  BY <1>3, <1>4, EasedAtStart
<1>6. switchPos \in [Joints -> Int] /\ lastCommanded \in [Joints -> Int]
  BY DEF Init
<1>7. Age <= Duration(gaitIndex)
  BY <1>2, <1>3
<1> QED
  BY <1>1, <1>2, <1>3, <1>4, <1>5, <1>6, <1>7 DEF EaseInv

(* One pass: how long ago the gait began, and what is commanded.            *)
LEMMA PassTimes ==
  ASSUME EaseInv, Pass
  PROVE  /\ now' \in Time /\ runStartMillis' = runStartMillis
         /\ Minus(now', now) \in Nat /\ Minus(now', now) <= MaxPass
         /\ Minus(now', gaitStartTime) = Age + Minus(now', now)
         /\ Age \in Nat /\ Duration(gaitIndex) \in Nat
<1>1. now \in Time /\ gaitStartTime \in Time
  BY DEF EaseInv
<1>2. PICK d \in PassLengths : now' = (now + d) % ClockMod
  BY DEF Pass
<1>3. d \in Nat /\ d <= MaxPass /\ MaxPass \in Nat /\ MaxPass < ClockMod
  BY Passes
<1>4. Age \in Nat
  BY <1>1, MinusType, LoggerAssumption DEF Age, Time
<1>5. /\ Duration(gaitIndex) \in Nat /\ Duration(gaitIndex) + MaxPass < ClockMod
      /\ Age <= Duration(gaitIndex)
  BY AnimalAssumption DEF Duration, EaseInv
<1> HIDE DEF MaxPass
<1>6. ClockMod \in Nat
  BY LoggerAssumption
<1>7. 0 + d < ClockMod /\ Age + d < ClockMod
  BY <1>3, <1>4, <1>5, <1>6
<1>8. now' \in Time /\ Minus(now', now) = d /\ Minus(now', gaitStartTime) = Age + d
  <2>1. Minus(now, now) = 0
    BY <1>1, NoTime
  <2>2. /\ now' \in Time
        /\ Minus(now', now) = Minus(now, now) + d
        /\ Minus(now', gaitStartTime) = Minus(now, gaitStartTime) + d
    BY <1>1, <1>2, <1>3, <1>7, <2>1, Later DEF Age
  <2>3. Minus(now', now) = d
    BY <1>3, <2>1, <2>2
  <2> QED
    BY <2>2, <2>3 DEF Age
<1> QED
  BY <1>3, <1>4, <1>5, <1>8 DEF Pass

(* What a pass commands.                                                    *)
LEMMA PassCommands ==
  ASSUME EaseInv, Pass
  PROVE  /\ gaitStartTime' \in Time /\ gaitIndex' \in Gaits
         /\ switchPos' \in [Joints -> Int] /\ lastCommanded' \in [Joints -> Int]
         /\ \A j \in Joints :
              /\ switchPos'[j] \in Reach(j)
              /\ lastCommanded[j] \in Reach(j) /\ lastCommanded'[j] \in Reach(j)
              /\ lastCommanded'[j] = Eased(j, switchPos'[j], gaitIndex', ElapsedInGait)
         /\ ElapsedInGait \in Int
<1>1. now' \in Time /\ gaitStartTime \in Time /\ gaitIndex \in Gaits
  BY PassTimes DEF EaseInv
<1>2. Age \in Int
  BY PassTimes
<1>3. \A j \in Joints : lastCommanded[j] \in Reach(j)
  BY <1>1, <1>2, EasedIn DEF EaseInv
<1>4. /\ gaitStartTime' \in Time /\ gaitIndex' \in Gaits
      /\ switchPos' \in [Joints -> Int]
      /\ \A j \in Joints : switchPos'[j] \in Reach(j)
  <2>1. CASE NextGait
    BY <1>1, <1>3, <2>1 DEF NextGait, Gaits, EaseInv
  <2>2. CASE UNCHANGED <<gaitIndex, gaitStartTime, switchPos>>
    BY <1>1, <2>2 DEF EaseInv
  <2> QED
    BY <2>1, <2>2 DEF Pass
<1>5. ElapsedInGait \in Int
  BY <1>1, <1>4, MinusType, LoggerAssumption DEF ElapsedInGait, Time
<1>6. lastCommanded' =
        [j \in Joints |-> Eased(j, switchPos'[j], gaitIndex', ElapsedInGait)]
  BY DEF Pass
<1>7. \A j \in Joints :
        /\ lastCommanded'[j] = Eased(j, switchPos'[j], gaitIndex', ElapsedInGait)
        /\ lastCommanded'[j] \in Reach(j)
  BY <1>4, <1>5, <1>6, EasedIn
<1>8. lastCommanded' \in [Joints -> Int]
  BY <1>6, <1>7, Sizes
<1> QED
  BY <1>3, <1>4, <1>5, <1>7, <1>8

LEMMA EaseNext == EaseInv /\ [Next]_vars => EaseInv'
<1> SUFFICES ASSUME EaseInv, [Next]_vars PROVE EaseInv'
  OBVIOUS
<1>1. CASE Pass
  <2>1. now' \in Time /\ runStartMillis' \in Time
    BY <1>1, PassTimes DEF EaseInv
  <2>2. Age' = ElapsedInGait
    BY DEF Age, ElapsedInGait
  <2>3. ElapsedInGait <= Duration(gaitIndex')
    <3>1. CASE NextGait
      <4>1. ElapsedInGait = 0
        BY <2>1, <3>1, NoTime DEF NextGait, ElapsedInGait
      <4>2. Duration(gaitIndex') \in Nat
        BY AnimalAssumption DEF Duration
      <4> QED
        BY <4>1, <4>2
    <3>2. CASE ~GaitOver /\ UNCHANGED <<gaitIndex, gaitStartTime, switchPos>>
      <4>1. Minus(now', gaitStartTime) \in Int /\ Duration(gaitIndex) \in Int
        BY <1>1, PassTimes
      <4>2. Minus(now', gaitStartTime) <= Duration(gaitIndex)
        BY <3>2, <4>1 DEF GaitOver
      <4> QED
        BY <3>2, <4>2 DEF ElapsedInGait
    <3> QED
      BY <1>1, <3>1, <3>2 DEF Pass
  <2> QED
    BY <1>1, <2>1, <2>2, <2>3, PassCommands DEF EaseInv
<1>2. CASE UNCHANGED vars
  BY <1>2 DEF vars, EaseInv, Age
<1> QED
  BY <1>1, <1>2 DEF Next

(* The bound on the joints' speed, for one pass.                            *)
LEMMA PassMoves ==
  ASSUME EaseInv, Pass, NEW j \in Joints
  PROVE  /\ Slow(j, lastCommanded'[j] - lastCommanded[j], Minus(now', now))
         /\ Slow(j, lastCommanded[j] - lastCommanded'[j], Minus(now', now))
<1>1. /\ Minus(now', now) \in Nat /\ Age \in Nat
      /\ Minus(now', gaitStartTime) = Age + Minus(now', now)
      /\ now' \in Time /\ gaitIndex \in Gaits
  BY PassTimes DEF EaseInv
<1>2. /\ lastCommanded[j] = Eased(j, switchPos[j], gaitIndex, Age)
      /\ lastCommanded'[j] = Eased(j, switchPos'[j], gaitIndex', ElapsedInGait)
      /\ switchPos[j] \in Reach(j)
  BY PassCommands DEF EaseInv
<1>3. CASE NextGait
  <2>1. ElapsedInGait = 0 /\ switchPos'[j] = lastCommanded[j]
    BY <1>1, <1>3, NoTime DEF NextGait, ElapsedInGait
  <2>2. gaitIndex' \in Gaits /\ lastCommanded[j] \in Reach(j)
    BY PassCommands
  <2>3. lastCommanded'[j] = lastCommanded[j] /\ lastCommanded[j] \in Int
    BY <1>2, <2>1, <2>2, EasedAtStart, Sizes
  <2>4. lastCommanded'[j] - lastCommanded[j] = 0 /\ lastCommanded[j] - lastCommanded'[j] = 0
    BY <2>3
  <2>5. Slope(j)[1] \in Nat /\ Slope(j)[2] \in Nat
    <3>1. CASE j \in Body
      BY <3>1, Sizes DEF Slope
    <3>2. CASE j \notin Body
      BY <3>2, Sizes DEF Slope
    <3> QED
      BY <3>1, <3>2
  <2> DEFINE s == Slope(j)[1]
             l == Slope(j)[2]
             e == Minus(now', now)
  <2> HIDE DEF s, l, e
  <2>6. s \in Nat /\ l \in Nat /\ e \in Nat
    BY <1>1, <2>5 DEF s, l, e
  <2>7. 3 * s * e \in Nat /\ 2 * l * (0 - 1) <= 0
    BY <2>6
  <2>8. 2 * l * (0 - 1) <= 3 * s * e
    BY <2>6, <2>7
  <2> QED
    BY <2>4, <2>8 DEF Slow, s, l, e
<1>4. CASE UNCHANGED <<gaitIndex, gaitStartTime, switchPos>>
  <2>1. ElapsedInGait = Age + Minus(now', now)
    BY <1>1, <1>4 DEF ElapsedInGait
  <2>2. /\ ElapsedInGait \in Int /\ Age \in Int /\ Age <= ElapsedInGait
        /\ ElapsedInGait - Age = Minus(now', now)
    BY <1>1, <2>1
  <2>3. lastCommanded'[j] = Eased(j, switchPos[j], gaitIndex, ElapsedInGait)
    BY <1>2, <1>4
  <2> HIDE DEF Age, ElapsedInGait
  <2>4. /\ Slow(j, Eased(j, switchPos[j], gaitIndex, ElapsedInGait)
                     - Eased(j, switchPos[j], gaitIndex, Age), ElapsedInGait - Age)
        /\ Slow(j, Eased(j, switchPos[j], gaitIndex, Age)
                     - Eased(j, switchPos[j], gaitIndex, ElapsedInGait), ElapsedInGait - Age)
    BY <1>1, <1>2, <2>2, EasedStep
  <2> QED
    BY <1>2, <2>2, <2>3, <2>4
<1> QED
  BY <1>3, <1>4 DEF Pass

LEMMA EaseInvariant == Spec => []EaseInv
  BY EaseInit, EaseNext, PTL DEF Spec

LEMMA StepMoves ==
  EaseInv /\ [Next]_vars =>
    [\A j \in Joints :
       LET swing == Slope(j)[1]  length == Slope(j)[2]
           moved == lastCommanded'[j] - lastCommanded[j]
       IN \A by \in {moved, -moved} :
            2 * length * (by - 1) <= 3 * swing * Minus(now', now)]_vars
<1> SUFFICES ASSUME EaseInv, Pass, NEW j \in Joints,
                    NEW by \in {lastCommanded'[j] - lastCommanded[j],
                                -(lastCommanded'[j] - lastCommanded[j])}
             PROVE  2 * Slope(j)[2] * (by - 1) <= 3 * Slope(j)[1] * Minus(now', now)
  BY DEF Next
<1>1. lastCommanded'[j] \in Int /\ lastCommanded[j] \in Int
  BY PassCommands, Sizes DEF EaseInv
<1>2. by = lastCommanded'[j] - lastCommanded[j] \/ by = lastCommanded[j] - lastCommanded'[j]
  BY <1>1
<1>3. Slow(j, by, Minus(now', now))
  BY <1>2, PassMoves
<1> QED
  BY <1>3 DEF Slow

(* The ease is always taken up from where the joints are: at no pass, and   *)
(* not when the gait changes in the middle of an ease, is a joint commanded *)
(* to move faster than the greatest slope of its own ease (loop(),          *)
(* switchPos1 = lastCommandedPos1), however long the passes are.            *)
THEOREM JointsAreSlow == Spec => NoJump
<1>1. EaseInv /\ [Next]_vars =>
        [\A j \in Joints :
           LET swing == Slope(j)[1]  length == Slope(j)[2]
               moved == lastCommanded'[j] - lastCommanded[j]
           IN \A by \in {moved, -moved} :
                2 * length * (by - 1) <= 3 * swing * Minus(now', now)]_vars
  BY StepMoves
<1> QED
  BY <1>1, EaseInvariant, PTL DEF Spec, NoJump
-----------------------------------------------------------------------------
(* The rows.                                                                *)
LEMMA Times == ClockMod \in Nat \ {0} /\ Time \subseteq Nat
  BY LoggerAssumption DEF Time

LEMMA Counts ==
  /\ NServos \in Nat \ {0} /\ NFields \in Nat \ {0} /\ LogInterval \in Nat
  /\ NServos * NFields \in Nat \ {0}
  BY LoggerAssumption

LEMMA AgedNow == \A v \in Time : Aged(v, v, 0)
<1> SUFFICES ASSUME NEW v \in Time PROVE Aged(v, v, 0)
  OBVIOUS
<1>1. 0 \in 0 .. 0 * MaxPass
  BY Passes
<1> QED
  BY <1>1, NoTime DEF Aged

(* A clock value of a cycle is no older than its passes.                    *)
LEMMA AgedBound ==
  ASSUME NEW v \in Time, NEW start \in Time, NEW n \in Nat, Aged(v, start, n)
  PROVE  Minus(v, start) <= n * MaxPass
<1>1. PICK age \in n .. n * MaxPass : v = (start + age) % ClockMod
  BY DEF Aged
<1>2. MaxPass \in Nat
  BY Passes
<1> HIDE DEF MaxPass
<1>3. n * MaxPass \in Nat
  BY <1>2
<1>4. age \in Nat /\ age <= n * MaxPass
  BY <1>3
<1>5. Minus(start, start) = 0
  BY NoTime
<1>6. Minus(v, start) <= 0 + age
  BY <1>1, <1>4, <1>5, Later
<1>7. Minus(v, start) \in Nat
  BY MinusType, Times
<1> QED
  BY <1>3, <1>4, <1>6, <1>7

(* The next pass is one more.                                               *)
LEMMA AgedNext ==
  ASSUME NEW v \in Time, NEW start \in Time, NEW n \in Nat, Aged(v, start, n),
         NEW d \in PassLengths
  PROVE  Aged((v + d) % ClockMod, start, n + 1)
<1>1. PICK age \in n .. n * MaxPass : v = (start + age) % ClockMod
  BY DEF Aged
<1>2. MaxPass \in Nat /\ d \in Nat /\ d >= 1 /\ d <= MaxPass
  BY Passes
<1> HIDE DEF MaxPass
<1>3. n * MaxPass \in Nat /\ (n + 1) * MaxPass = n * MaxPass + MaxPass
  BY <1>2
<1>4. age \in Nat /\ age + d \in n + 1 .. (n + 1) * MaxPass
  BY <1>2, <1>3
<1>5. start + age \in Nat /\ start \in Nat /\ ClockMod \in Nat \ {0}
  BY <1>4, Times
<1>6. (((start + age) % ClockMod) + d) % ClockMod = ((start + age) + d) % ClockMod
  BY <1>2, <1>5, StepOfRemainder
<1>7. (start + age) + d = start + (age + d)
  BY <1>2, <1>4, <1>5
<1>8. (v + d) % ClockMod = (start + (age + d)) % ClockMod
  BY <1>1, <1>6, <1>7
<1> QED
  BY <1>4, <1>8 DEF Aged

(* Reads go through the registers one by one.                               *)
LEMMA NextRead ==
  ASSUME LoggerTypeOK, NEW t \in Time, NEW s \in Servos, NEW f \in Fields,
         NEW runStart \in Time, ReadField(t, s, f, runStart)
  PROVE  /\ Nth(s, f) \in Nat
         /\ Nth(logServoIndex', logFieldIndex') = Nth(s, f) + 1
         /\ logServoIndex' \in Nat /\ logFieldIndex' \in Nat
         /\ \A r \in Servos, g \in Fields :
              r < logServoIndex' \/ (r = logServoIndex' /\ g < logFieldIndex') =>
                (r = s /\ g = f) \/ r < s \/ (r = s /\ g < f)
         /\ logServoIndex' >= NServos =>
              /\ Nth(s, f) = NServos * NFields - 1
              /\ \A r \in Servos, g \in Fields :
                   (r = s /\ g = f) \/ r < s \/ (r = s /\ g < f)
<1>1. /\ s \in Nat /\ s < NServos /\ f \in Nat /\ f < NFields
      /\ \A r \in Servos : r \in Nat /\ r < NServos
      /\ \A g \in Fields : g \in Nat /\ g < NFields
  BY Counts DEF Servos, Fields
<1>2. s * NFields \in Nat /\ (s + 1) * NFields = s * NFields + NFields
  BY <1>1, Counts
<1>3. IF f + 1 >= NFields
      THEN logFieldIndex' = 0 /\ logServoIndex' = s + 1
      ELSE logFieldIndex' = f + 1 /\ logServoIndex' = s
  BY DEF ReadField
<1>4. CASE f + 1 >= NFields
  <2>1. logFieldIndex' = 0 /\ logServoIndex' = s + 1 /\ f = NFields - 1
    BY <1>1, <1>3, <1>4, Counts
  <2>2. Nth(s, f) \in Nat /\ Nth(s + 1, 0) = Nth(s, f) + 1
    BY <1>1, <1>2, <2>1, Counts DEF Nth
  <2>3. s + 1 >= NServos => s = NServos - 1 /\ Nth(s, f) = NServos * NFields - 1
    <3> SUFFICES ASSUME s + 1 >= NServos
                 PROVE  s = NServos - 1 /\ Nth(s, f) = NServos * NFields - 1
      OBVIOUS
    <3>1. s + 1 = NServos
      BY <1>1, Counts
    <3>2. (s + 1) * NFields = NServos * NFields
      BY <3>1
    <3> QED
      BY <1>1, <1>2, <2>1, <3>1, <3>2, Counts DEF Nth
  <2>4. \A r \in Servos, g \in Fields :
          /\ r < s + 1 \/ (r = s + 1 /\ g < 0) => r < s \/ r = s
          /\ g = f \/ g < f
    BY <1>1, <2>1, Counts
  <2>5. s + 1 >= NServos => \A r \in Servos : r < s \/ r = s
    BY <1>1, <2>3, Counts
  <2> QED
    BY <1>1, <2>1, <2>2, <2>3, <2>4, <2>5
<1>5. CASE f + 1 < NFields
  <2>1. logFieldIndex' = f + 1 /\ logServoIndex' = s /\ ~(s >= NServos)
    BY <1>1, <1>3, <1>5, Counts
  <2>2. Nth(s, f) \in Nat /\ Nth(s, f + 1) = Nth(s, f) + 1
    BY <1>1, <1>2, Counts DEF Nth
  <2>3. \A r \in Servos, g \in Fields : r = s /\ g < f + 1 => r = s /\ (g = f \/ g < f)
    BY <1>1
  <2> QED
    BY <1>1, <2>1, <2>2, <2>3
<1> QED
  BY <1>1, <1>4, <1>5, Counts

(* One read of a cycle all of whose earlier reads were its own.             *)
LEMMA ReadAges ==
  ASSUME LoggerTypeOK, NEW t \in Time, NEW s \in Servos, NEW f \in Fields,
         NEW runStart \in Time, ReadField(t, s, f, runStart),
         logCycleStartTime' \in Time, Aged(t, logCycleStartTime', Nth(s, f)),
         \A r \in Servos, g \in Fields :
           r < s \/ (r = s /\ g < f) => Aged(logBuffer[r][g], logCycleStartTime', Nth(r, g))
  PROVE  \/ /\ loggingInProgress' /\ row' = row
            /\ Nth(logServoIndex', logFieldIndex') >= 1
            /\ Aged(t, logCycleStartTime', Nth(logServoIndex', logFieldIndex') - 1)
            /\ \A r \in Servos, g \in Fields :
                 IsRead(r, g)' => Aged(logBuffer'[r][g], logCycleStartTime', Nth(r, g))
         \/ /\ ~loggingInProgress' /\ row' \in Row
            /\ row'.start = logCycleStartTime'
            /\ row'.ts = Minus(logCycleStartTime', runStart)
            /\ Minus(t, logCycleStartTime') <= (NServos * NFields - 1) * MaxPass
            /\ \A r \in Servos, g \in Fields :
                 Aged(row'.samples[r][g], row'.start, Nth(r, g))
<1>1. logBuffer \in [Servos -> [Fields -> Time]]
  BY DEF LoggerTypeOK
<1>2. logBuffer' = [logBuffer EXCEPT ![s][f] = t]
  BY DEF ReadField
<1>3. logBuffer' \in [Servos -> [Fields -> Time]]
  BY <1>1, <1>2
<1>4. \A r \in Servos, g \in Fields :
        (r = s /\ g = f) \/ r < s \/ (r = s /\ g < f) =>
          Aged(logBuffer'[r][g], logCycleStartTime', Nth(r, g))
  <2> SUFFICES ASSUME NEW r \in Servos, NEW g \in Fields,
                      (r = s /\ g = f) \/ r < s \/ (r = s /\ g < f)
               PROVE  Aged(logBuffer'[r][g], logCycleStartTime', Nth(r, g))
    OBVIOUS
  <2>1. CASE r = s /\ g = f
    <3>1. logBuffer'[r][g] = t
      BY <1>1, <1>2, <2>1
    <3> QED
      BY <2>1, <3>1
  <2>2. CASE ~(r = s /\ g = f)
    <3>1. logBuffer'[r][g] = logBuffer[r][g]
      BY <1>1, <1>2, <2>2
    <3> QED
      BY <2>2, <3>1
  <2> QED
    BY <2>1, <2>2
<1>5. /\ Nth(s, f) \in Nat
      /\ Nth(logServoIndex', logFieldIndex') = Nth(s, f) + 1
  BY NextRead
<1>6. CASE ~(logServoIndex' >= NServos)
  <2>1. loggingInProgress' /\ row' = row
    BY <1>6 DEF ReadField
  <2>2. /\ Nth(logServoIndex', logFieldIndex') >= 1
        /\ Nth(logServoIndex', logFieldIndex') - 1 = Nth(s, f)
    BY <1>5
  <2>3. \A r \in Servos, g \in Fields :
          IsRead(r, g)' => (r = s /\ g = f) \/ r < s \/ (r = s /\ g < f)
    BY NextRead DEF IsRead
  <2> QED
    BY <1>4, <2>1, <2>2, <2>3
<1>7. CASE logServoIndex' >= NServos
  <2>1. ~loggingInProgress' /\ LogRow(t, runStart)
    BY <1>7 DEF ReadField
  <2>2. PICK stored \in BOOLEAN :
          row' = [start |-> logCycleStartTime', at |-> t,
                  ts |-> Minus(logCycleStartTime', runStart),
                  stored |-> stored, samples |-> logBuffer']
    BY <2>1 DEF LogRow
  <2>3. row' \in Row
    BY <1>3, <2>2, MinusType DEF Row
  <2>4. /\ Nth(s, f) = NServos * NFields - 1
        /\ \A r \in Servos, g \in Fields :
             (r = s /\ g = f) \/ r < s \/ (r = s /\ g < f)
    BY <1>7, NextRead
  <2>5. Minus(t, logCycleStartTime') <= Nth(s, f) * MaxPass
    BY <1>5, AgedBound
  <2>6. /\ row'.start = logCycleStartTime' /\ row'.samples = logBuffer'
        /\ row'.ts = Minus(logCycleStartTime', runStart)
    BY <2>2
  <2> QED
    BY <1>4, <2>1, <2>3, <2>4, <2>5, <2>6
<1> QED
  BY <1>6, <1>7

LEMMA CycleInit == Init => CycleInv
<1> SUFFICES ASSUME Init PROVE CycleInv
  OBVIOUS
<1>1. 0 \in Time /\ 0 \in Fields /\ 0 \in 0 .. NServos
  BY LoggerAssumption DEF Time, Fields
<1>2. logBuffer \in [Servos -> [Fields -> Time]]
  BY <1>1 DEF Init, InitLogger
<1>3. LoggerTypeOK
  BY <1>1, <1>2 DEF Init, InitLogger, LoggerTypeOK
<1> QED
  BY <1>3 DEF Init, InitLogger, CycleInv, ReadsInBounds

(* What a pass leaves and completes.                                        *)
CyclePass ==
  /\ CycleInv'
  /\ row' # row =>
       /\ row' \in Row
       /\ row'.ts = Minus(row'.start, runStartMillis)
       /\ \A r \in Servos, g \in Fields : Aged(row'.samples[r][g], row'.start, Nth(r, g))
       /\ row # NoRow => Gap(row'.start, row.start)

LEMMA CycleStarts ==
  ASSUME CycleInv, now \in Time, runStartMillis \in Time, NEW d \in PassLengths,
         now' = (now + d) % ClockMod, now' \in Time, sdReady, sdReady' = sdReady,
         StartCycle(now', runStartMillis), LoggerTypeOK', ReadsInBounds'
  PROVE  CyclePass
<1>1. /\ ~loggingInProgress /\ Minus(now', lastLogTime) >= LogInterval
      /\ logCycleStartTime' = now' /\ lastLogTime' = now'
      /\ ReadField(now', 0, 0, runStartMillis)
  BY DEF StartCycle, CycleDue
<1>2. 0 \in Servos /\ 0 \in Fields /\ Nth(0, 0) = 0
  BY Counts DEF Servos, Fields, Nth
<1>3. Aged(now', now', Nth(0, 0))
  BY <1>2, AgedNow
<1>4. \A r \in Servos, g \in Fields : ~(r < 0 \/ (r = 0 /\ g < 0))
  BY Counts DEF Servos, Fields
<1>5. row # NoRow => Gap(now', row.start)
  <2> SUFFICES ASSUME row # NoRow PROVE Gap(now', row.start)
    OBVIOUS
  <2>1. /\ row.start = lastLogTime /\ lastLogTime \in Time
        /\ \/ Minus(now, lastLogTime) < LogInterval
           \/ Minus(now, lastLogTime) <= (NServos * NFields - 1) * MaxPass
    BY <1>1 DEF CycleInv, LoggerTypeOK
  <2>2. d \in Nat /\ d <= MaxPass /\ MaxPass \in Nat
    BY Passes
  <2>3. Minus(now', lastLogTime) <= Minus(now, lastLogTime) + d
    BY <2>1, <2>2, Later
  <2>4. Minus(now', lastLogTime) \in Nat /\ Minus(now, lastLogTime) \in Nat
    BY <2>1, MinusType, Times
  <2> HIDE DEF MaxPass
  <2> DEFINE k == NServos * NFields
  <2>5. k \in Nat
    BY Counts
  <2> HIDE DEF k
  <2>6. (k - 1) * MaxPass = k * MaxPass - MaxPass /\ k * MaxPass \in Nat
    BY <2>2, <2>5
  <2>7. \/ Minus(now', lastLogTime) < LogInterval + MaxPass
        \/ Minus(now', lastLogTime) <= k * MaxPass
    BY <2>1, <2>2, <2>3, <2>4, <2>6, Counts DEF k
  <2> QED
    BY <1>1, <2>1, <2>7 DEF Gap, k
<1>6. /\ now' \in Time /\ lastLogTime' \in Time
  BY <1>1
<1>7. CASE /\ loggingInProgress' /\ row' = row
           /\ Nth(logServoIndex', logFieldIndex') >= 1
           /\ Aged(now', logCycleStartTime', Nth(logServoIndex', logFieldIndex') - 1)
           /\ \A r \in Servos, g \in Fields :
                IsRead(r, g)' => Aged(logBuffer'[r][g], logCycleStartTime', Nth(r, g))
  <2>1. row' # NoRow => Gap(lastLogTime', row'.start)
    BY <1>1, <1>5, <1>7
  <2> QED
    BY <1>1, <1>7, <2>1 DEF CycleInv, CyclePass, IsRead, Aged, Nth, Gap
<1>8. CASE /\ ~loggingInProgress' /\ row' \in Row
           /\ row'.start = logCycleStartTime'
           /\ row'.ts = Minus(logCycleStartTime', runStartMillis)
           /\ Minus(now', logCycleStartTime') <= (NServos * NFields - 1) * MaxPass
           /\ \A r \in Servos, g \in Fields :
                Aged(row'.samples[r][g], row'.start, Nth(r, g))
  <2>1. CycleInv'
    BY <1>1, <1>8 DEF CycleInv
  <2> QED
    BY <1>1, <1>5, <1>8, <2>1 DEF CyclePass
<1>9. LoggerTypeOK
  BY DEF CycleInv
<1> QED
  BY <1>1, <1>2, <1>3, <1>4, <1>7, <1>8, <1>9, ReadAges

LEMMA CycleGoesOn ==
  ASSUME CycleInv, now \in Time, runStartMillis \in Time, NEW d \in PassLengths,
         now' = (now + d) % ClockMod, now' \in Time, sdReady, sdReady' = sdReady,
         ContinueCycle(now', runStartMillis), LoggerTypeOK', ReadsInBounds'
  PROVE  CyclePass
<1> DEFINE s == logServoIndex
           f == logFieldIndex
<1>1. /\ loggingInProgress
      /\ logCycleStartTime' = lastLogTime /\ lastLogTime' = lastLogTime
      /\ lastLogTime \in Time
      /\ ReadField(now', s, f, runStartMillis)
      /\ LoggerTypeOK
  BY DEF ContinueCycle, CycleInv, LoggerTypeOK
<1>2. s \in Servos /\ f \in Fields
  BY <1>1 DEF CycleInv, ReadsInBounds, LoggerTypeOK
<1>3. Nth(s, f) \in Nat /\ Nth(s, f) - 1 \in Nat
  <2>1. Nth(s, f) \in Nat
    BY <1>1, <1>2, NextRead
  <2>2. Nth(s, f) >= 1
    BY <1>1 DEF CycleInv
  <2> HIDE DEF s, f
  <2> QED
    BY <2>1, <2>2
<1>4. Aged(now', logCycleStartTime', Nth(s, f))
  <2>1. Aged(now, lastLogTime, Nth(s, f) - 1)
    BY <1>1 DEF CycleInv
  <2>2. Aged(now', lastLogTime, (Nth(s, f) - 1) + 1)
    BY <1>1, <1>3, <2>1, AgedNext
  <2>3. (Nth(s, f) - 1) + 1 = Nth(s, f)
    BY <1>3
  <2> QED
    BY <1>1, <2>2, <2>3
<1>5. \A r \in Servos, g \in Fields :
        r < s \/ (r = s /\ g < f) => Aged(logBuffer[r][g], logCycleStartTime', Nth(r, g))
  BY <1>1 DEF CycleInv, IsRead
<1>6. row # NoRow => Gap(lastLogTime, row.start)
  BY <1>1 DEF CycleInv
<1> HIDE DEF s, f
<1>7. CASE /\ loggingInProgress' /\ row' = row
           /\ Nth(logServoIndex', logFieldIndex') >= 1
           /\ Aged(now', logCycleStartTime', Nth(logServoIndex', logFieldIndex') - 1)
           /\ \A r \in Servos, g \in Fields :
                IsRead(r, g)' => Aged(logBuffer'[r][g], logCycleStartTime', Nth(r, g))
  <2>1. row' # NoRow => Gap(lastLogTime', row'.start)
    BY <1>1, <1>6, <1>7
  <2> QED
    BY <1>1, <1>7, <2>1 DEF CycleInv, CyclePass, IsRead, Aged, Nth, Gap
<1>8. CASE /\ ~loggingInProgress' /\ row' \in Row
           /\ row'.start = logCycleStartTime'
           /\ row'.ts = Minus(logCycleStartTime', runStartMillis)
           /\ Minus(now', logCycleStartTime') <= (NServos * NFields - 1) * MaxPass
           /\ \A r \in Servos, g \in Fields :
                Aged(row'.samples[r][g], row'.start, Nth(r, g))
  <2>1. CycleInv'
    BY <1>1, <1>8 DEF CycleInv
  <2> QED
    BY <1>1, <1>6, <1>8, <2>1 DEF CyclePass
<1> QED
  BY <1>1, <1>2, <1>4, <1>5, <1>7, <1>8, ReadAges

LEMMA CycleStep ==
  ASSUME EaseInv, CycleInv, Pass
  PROVE  CyclePass
<1>1. /\ now \in Time /\ now' \in Time /\ runStartMillis \in Time
      /\ UpdateLogging(now', runStartMillis)
  BY PassTimes DEF EaseInv, Pass
<1>2. PICK d \in PassLengths : now' = (now + d) % ClockMod
  BY DEF Pass
<1>3. LoggerTypeOK' /\ ReadsInBounds'
  BY <1>1, UpdateLoggingType DEF CycleInv
<1>4. CASE sdReady /\ UNCHANGED sdReady /\ StartCycle(now', runStartMillis)
  BY <1>1, <1>2, <1>3, <1>4, CycleStarts
<1>5. CASE sdReady /\ UNCHANGED sdReady /\ ContinueCycle(now', runStartMillis)
  BY <1>1, <1>2, <1>3, <1>5, CycleGoesOn
<1>6. CASE /\ ~sdReady \/ ~(loggingInProgress \/ CycleDue(now'))
           /\ UNCHANGED loggerVars
  <2>1. /\ UNCHANGED <<sdReady, loggingInProgress, logServoIndex, logFieldIndex,
                       logCycleStartTime, lastLogTime, logBuffer, row>>
    BY <1>6 DEF loggerVars
  <2>2. ~loggingInProgress
    BY <1>6 DEF CycleInv
  <2>3. row # NoRow => Minus(now', lastLogTime) < LogInterval
    <3>1. lastLogTime \in Time
      BY DEF CycleInv, LoggerTypeOK
    <3>2. Minus(now', lastLogTime) \in Nat
      BY <1>1, <3>1, MinusType, Times
    <3>3. row # NoRow => sdReady
      BY DEF CycleInv
    <3> QED
      BY <1>6, <2>2, <3>2, <3>3, Counts DEF CycleDue
  <2>4. CycleInv'
    BY <1>3, <2>1, <2>2, <2>3 DEF CycleInv
  <2> QED
    BY <2>1, <2>4 DEF CyclePass
<1> QED
  BY <1>1, <1>4, <1>5, <1>6 DEF UpdateLogging

LEMMA CycleNext == EaseInv /\ CycleInv /\ [Next]_vars => CycleInv'
<1> SUFFICES ASSUME EaseInv, CycleInv, [Next]_vars PROVE CycleInv'
  OBVIOUS
<1>1. CASE Pass
  BY <1>1, CycleStep DEF CyclePass
<1>2. CASE UNCHANGED vars
  <2>1. UNCHANGED <<now, sdReady, loggingInProgress, logServoIndex, logFieldIndex,
                    logCycleStartTime, lastLogTime, logBuffer, row>>
    BY <1>2 DEF vars, loggerVars
  <2> QED
    BY <2>1 DEF CycleInv, LoggerTypeOK, ReadsInBounds, IsRead
<1> QED
  BY <1>1, <1>2 DEF Next

LEMMA CycleInvariant == Spec => [](EaseInv /\ CycleInv)
  BY EaseInit, EaseNext, CycleInit, CycleNext, PTL DEF Spec

LEMMA GaitTimes == ASSUME EaseInv, Pass PROVE GaitInTime
<1> DEFINE age == Minus(now', gaitStartTime)
<1>1. /\ now' \in Time /\ gaitStartTime \in Time
      /\ Age \in Nat /\ Duration(gaitIndex) \in Nat /\ Age <= Duration(gaitIndex)
      /\ Minus(now', now) \in Nat /\ Minus(now', now) <= MaxPass
      /\ age = Age + Minus(now', now)
  BY PassTimes DEF EaseInv
<1>2. MaxPass \in Nat
  BY Passes
<1> HIDE DEF MaxPass
<1>3. age \in Nat /\ age <= Duration(gaitIndex) + MaxPass
  BY <1>1, <1>2
<1>4. CASE GaitOver /\ NextGait
  <2>1. age > Duration(gaitIndex)
    BY <1>4 DEF GaitOver
  <2>2. now' # gaitStartTime
    <3>1. Minus(gaitStartTime, gaitStartTime) = 0
      BY <1>1, NoTime
    <3> QED
      BY <1>1, <2>1, <3>1
  <2> QED
    BY <1>3, <1>4, <2>1, <2>2 DEF NextGait, GaitInTime
<1>5. CASE ~GaitOver /\ UNCHANGED <<gaitIndex, gaitStartTime, switchPos>>
  <2>1. age <= Duration(gaitIndex)
    BY <1>1, <1>3, <1>5 DEF GaitOver
  <2> QED
    BY <1>5, <2>1 DEF GaitInTime
<1> QED
  BY <1>4, <1>5 DEF Pass

LEMMA RowTimes ==
  ASSUME EaseInv, CycleInv, Pass, row' # row
  PROVE  RowOfOneCycle(row') /\ (row # NoRow => InTurn(row', row))
<1>1. /\ row' \in Row
      /\ row'.ts = Minus(row'.start, runStartMillis)
      /\ \A r \in Servos, g \in Fields : Aged(row'.samples[r][g], row'.start, Nth(r, g))
      /\ row # NoRow => Gap(row'.start, row.start)
  BY CycleStep DEF CyclePass
<1>2. RowOfOneCycle(row')
  BY <1>1 DEF RowOfOneCycle, Aged, Nth
<1>3. row # NoRow => InTurn(row', row)
  BY <1>1 DEF InTurn, Gap
<1> QED
  BY <1>2, <1>3

(* Type correctness: the joints stay in the ranges of their gaits, and the  *)
(* logger's next read in ALL_MOTOR_IDS and logBuffer.                       *)
THEOREM TypeCorrect == Spec => []TypeOK
<1>1. EaseInv /\ CycleInv => TypeOK
  <2> SUFFICES ASSUME EaseInv, CycleInv PROVE TypeOK
    OBVIOUS
  <2> DEFINE Positions == (-Bend .. Bend) \cup (0 .. FinSwing)
  <2>1. \A j \in Joints : Reach(j) \subseteq Positions
    BY DEF Reach
  <2>2. now \in Time /\ gaitStartTime \in Time /\ gaitIndex \in Gaits
    BY DEF EaseInv
  <2>3. Age \in Nat
    BY <2>2, MinusType, Times DEF Age
  <2>4. \A j \in Joints : switchPos[j] \in Reach(j) /\ lastCommanded[j] \in Reach(j)
    <3>1. Age \in Int
      BY <2>3
    <3> QED
      BY <2>2, <3>1, EasedIn DEF EaseInv
  <2>5. \A j \in Joints : switchPos[j] \in Positions /\ lastCommanded[j] \in Positions
    BY <2>1, <2>4
  <2>6. switchPos \in [Joints -> Int] /\ lastCommanded \in [Joints -> Int]
    BY DEF EaseInv
  <2> HIDE DEF Positions
  <2>7. switchPos \in [Joints -> Positions] /\ lastCommanded \in [Joints -> Positions]
    BY <2>5, <2>6
  <2> QED
    BY <2>2, <2>7 DEF Positions, TypeOK, CycleInv, EaseInv
<1> QED
  BY <1>1, CycleInvariant, PTL

(* A gait lasts its duration and at most one pass, a row's samples are from *)
(* the passes of its own cycle one by one, and cycles start LOG_INTERVAL_MS *)
(* apart: for ever, since loop() and updateLogging() only take differences  *)
(* of clock values, and also when passes stall.                             *)
THEOREM TimesAreKept == Spec => KeepsTime
<1>1. EaseInv /\ CycleInv /\ [Next]_vars =>
        [/\ GaitInTime
         /\ row' # row => RowOfOneCycle(row') /\ (row # NoRow => InTurn(row', row))]_vars
  <2> SUFFICES ASSUME EaseInv, CycleInv, Pass
               PROVE  /\ GaitInTime
                      /\ row' # row => RowOfOneCycle(row') /\ (row # NoRow => InTurn(row', row))
    BY DEF Next
  <2> QED
    BY GaitTimes, RowTimes
<1> QED
  BY <1>1, CycleInvariant, PTL DEF Spec, KeepsTime
=============================================================================
