------------------------ MODULE RequestPredictorProofs ------------------------
(***************************************************************************)
(* The filter is bounded for any functions, rates and schedule.  The gain  *)
(* is never below 0.166, and the offset, the root of ten times the gain,   *)
(* is then never more than 7.8 times the gain: this is what makes the      *)
(* excess over the highest rate an invariant.  What is left in the filter  *)
(* above the rates it is given shrinks by a seventh with each of them: the *)
(* part of BurstsFade that needs no fairness.                              *)
(***************************************************************************)
EXTENDS RequestPredictor, TLAPS

(* Division by a positive number, rounded down.                            *)
LEMMA Quotient ==
    ASSUME NEW a \in Int, NEW b \in Nat \ {0}
    PROVE  a \div b \in Int /\ b * (a \div b) <= a /\ a < b * (a \div b) + b
OBVIOUS

LEMMA ProductMonotonic ==
    ASSUME NEW a \in Int, NEW b \in Int, a <= b, NEW c \in Nat
    PROVE  a * c <= b * c /\ c * a <= c * b
OBVIOUS

(* The gain, in thousandths.                                               *)
LEMMA GainBounds ==
    ASSUME NEW p \in Unit .. 10 * Unit
    PROVE  Gain(p) \in Int /\ 166 <= Gain(p) /\ Gain(p) <= 1000
<1> DEFINE d == p + 11000
           q == Gain(p)
<1>1. p \in Int /\ 1000 <= p /\ d \in Nat \ {0}
  BY DEF Unit
<1>2. q \in Int /\ d * q <= 1000 * (p + 1000) /\ 1000 * (p + 1000) < d * q + d
  <2>1. q = (1000 * (p + 1000)) \div d
    BY <1>1 DEF Gain, Predicted, Unit
  <2>2. 1000 * (p + 1000) \in Int
    BY <1>1
  <2> HIDE DEF d, q
  <2> QED
    BY <1>1, <2>1, <2>2, Quotient
<1> HIDE DEF q
<1>3. q >= 166
  <2>1. SUFFICES ASSUME q + 1 <= 166 PROVE FALSE
    BY <1>2
  <2>2. d * (q + 1) <= d * 166
    BY <1>1, <1>2, <2>1, ProductMonotonic
  <2>3. d * (q + 1) = d * q + d
    BY <1>1, <1>2
  <2> QED
    BY <1>1, <1>2, <2>2, <2>3
<1>4. q <= 1000
  <2>1. SUFFICES ASSUME 1001 <= q PROVE FALSE
    BY <1>2
  <2>2. d * 1001 <= d * q
    BY <1>1, <1>2, <2>1, ProductMonotonic
  <2> QED
    BY <1>1, <1>2, <2>2
<1> QED
  BY <1>2, <1>3, <1>4 DEF q

(* The offset is at most 7.8 times the gain.                               *)
LEMMA OffsetBound ==
    ASSUME NEW p \in Unit .. 10 * Unit, NEW s \in Offset(Updated(p))
    PROVE  s \in Nat /\ 1000 * s <= 78 * Gain(p)
<1> DEFINE k == Gain(p)
<1>1. k \in Int /\ 166 <= k
  BY GainBounds
<1>2. s \in Nat /\ 10 * s * s <= 10 * k
  BY DEF Offset, Updated
<1> HIDE DEF k
<1>3. s * s <= k
  <2>1. s * s \in Int /\ 10 * s * s = 10 * (s * s)
    BY <1>2
  <2> QED
    BY <1>1, <1>2, <2>1
<1>4. ASSUME s <= 12 PROVE 1000 * s <= 78 * k
  BY <1>1, <1>2, <1>4
<1>5. ASSUME 13 <= s PROVE 1000 * s <= 78 * k
  <2>1. 13 * s <= s * s
    BY <1>2, <1>5, ProductMonotonic
  <2> QED
    BY <1>1, <1>2, <1>3, <2>1
<1> QED
  BY <1>2, <1>4, <1>5 DEF k

(* What one update makes of an estimate: a correction c by the gain k and  *)
(* an offset s are added, unless that is too close to the measurement.     *)
Updates(e, m, new, k, c, s) ==
    /\ 166 <= k /\ k <= 1000
    /\ 1000 * s <= 78 * k
    /\ 1000 * c <= k * (m - e)
    /\ new = e + c + s \/ new = m + MinBuffer

LEMMA EstimateShape ==
    ASSUME NEW e \in Nat, NEW p \in Unit .. 10 * Unit, NEW m \in Nat,
           NEW new \in Estimate(e, p, m)
    PROVE  new \in Nat /\ \E k \in Nat, c \in Int, s \in Nat : Updates(e, m, new, k, c, s)
<1>1. PICK s \in Offset(Updated(p)) : new = Buffered(Corrected(e, Gain(p), m) + s, m)
  BY DEF Estimate
<1> DEFINE k == Gain(p)
           c == (k * (m - e)) \div 1000
<1>2. k \in Int /\ 166 <= k /\ k <= 1000
  BY GainBounds
<1>3. s \in Nat /\ 1000 * s <= 78 * k
  BY OffsetBound
<1>4. Corrected(e, Gain(p), m) = e + c
  BY DEF Corrected, Unit
<1> HIDE DEF k
<1>5. c \in Int /\ 1000 * c <= k * (m - e)
  <2>1. k * (m - e) \in Int
    BY <1>2
  <2> HIDE DEF c
  <2>2. c = (k * (m - e)) \div 1000
    BY DEF c
  <2> QED
    BY <2>1, <2>2, Quotient
<1> HIDE DEF c
<1>6. new \in Nat /\ (new = e + c + s \/ new = m + MinBuffer)
  BY <1>1, <1>3, <1>4, <1>5 DEF Buffered, MinBuffer
<1>7. k \in Nat /\ Updates(e, m, new, k, c, s)
  BY <1>2, <1>3, <1>5, <1>6 DEF Updates
<1> QED
  BY <1>3, <1>5, <1>6, <1>7

(* One update keeps the estimate within the margin of a rate that is not   *)
(* exceeded.                                                               *)
LEMMA EstimateBounds ==
    ASSUME NEW e \in Nat, NEW p \in Unit .. 10 * Unit, NEW m \in Nat, NEW top \in Nat,
           m <= top, e <= top + Margin,
           NEW new \in Estimate(e, p, m)
    PROVE  new \in Nat /\ new <= top + Margin
<1>1. PICK k \in Nat, c \in Int, s \in Nat : Updates(e, m, new, k, c, s)
  BY EstimateShape
<1> DEFINE t == top + 78 - e
<1>2. t \in Nat /\ m - e <= t - 78
  BY DEF Margin
<1> HIDE DEF t
<1>3. k * (m - e) <= k * (t - 78)
  BY <1>2, ProductMonotonic
<1>4. k * (t - 78) = k * t - 78 * k
  BY <1>2
<1>5. k * t <= 1000 * t
  BY <1>1, <1>2, ProductMonotonic DEF Updates
<1>6. k * t \in Int
  BY <1>2
<1>7. 1000 * c + 1000 * s <= 1000 * t
  BY <1>1, <1>2, <1>3, <1>4, <1>5, <1>6 DEF Updates
<1>8. e + c + s <= top + 78
  BY <1>2, <1>7 DEF t
<1> QED
  BY <1>1, <1>8, EstimateShape DEF Updates, MinBuffer, Margin

(* And takes at least a seventh away of what there is above that.          *)
LEMMA EstimateShrinks ==
    ASSUME NEW e \in Nat, NEW p \in Unit .. 10 * Unit, NEW m \in Nat, NEW top \in Nat,
           m <= top, e > top + Margin,
           NEW new \in Estimate(e, p, m)
    PROVE  7 * (new - top - Margin) <= 6 * (e - top - Margin)
<1>1. PICK k \in Nat, c \in Int, s \in Nat : Updates(e, m, new, k, c, s)
  BY EstimateShape
<1> DEFINE z == e - top - 78
<1>2. z \in Nat /\ m - e <= 0 - (z + 78) /\ e = z + top + 78
  BY DEF Margin
<1> HIDE DEF z
<1>3. k * (m - e) <= k * (0 - (z + 78))
  BY <1>2, ProductMonotonic
<1>4. k * (0 - (z + 78)) = 0 - k * z - 78 * k
  BY <1>2
<1>5. 166 * z <= k * z /\ k * z \in Int
  BY <1>1, <1>2, ProductMonotonic DEF Updates
<1>6. 1000 * c + 1000 * s <= 0 - 166 * z
  BY <1>1, <1>2, <1>3, <1>4, <1>5 DEF Updates
<1>7. CASE new = e + c + s
  BY <1>2, <1>6, <1>7 DEF Margin
<1>8. CASE new = m + MinBuffer
  BY <1>2, <1>8 DEF Margin, MinBuffer
<1> QED
  BY <1>1, <1>7, <1>8 DEF Updates

-----------------------------------------------------------------------------
Bounded == TypeOK /\ BoundedByPeak

LEMMA BoundedInit == Init => Bounded
BY RestartsAssumption DEF Init, Bounded, TypeOK, BoundedByPeak, InitialP, Unit, Margin

LEMMA MeasureStep ==
    ASSUME Bounded, NEW f \in Function, Measure(f)
    PROVE  Bounded'
<1>1. load[f] \in Nat /\ f \in Function
  BY RatesAssumption DEF Bounded, TypeOK
<1>2. /\ x \in Nat /\ P \in Unit .. 10 * Unit /\ peak \in Nat /\ x <= peak + Margin
      /\ x' \in Estimate(x, P, load[f]) /\ P' = Updated(P)
      /\ peak' = IF load[f] > peak THEN load[f] ELSE peak
  BY DEF Measure, Bounded, TypeOK, BoundedByPeak
<1>3. peak' \in Nat /\ load[f] <= peak' /\ x <= peak' + Margin
  BY <1>1, <1>2 DEF Margin
<1>4. x' \in Nat /\ x' <= peak' + Margin
  BY <1>1, <1>2, <1>3, EstimateBounds
<1>5. P' \in Unit .. 10 * Unit
  <2>1. Gain(P) \in Int /\ 166 <= Gain(P) /\ Gain(P) <= 1000
    BY <1>2, GainBounds
  <2>2. P' = 10 * Gain(P)
    BY <1>2 DEF Updated
  <2> QED
    BY <2>1, <2>2 DEF Unit
<1> QED
  BY <1>3, <1>4, <1>5 DEF Bounded, TypeOK, BoundedByPeak, Measure

LEMMA BoundedStep == Bounded /\ [Next]_vars => Bounded'
<1> SUFFICES ASSUME Bounded, [Next]_vars PROVE Bounded'
  OBVIOUS
<1> USE DEF Bounded, TypeOK, BoundedByPeak
<1>1. CASE Tick
  BY <1>1 DEF Tick
<1>2. CASE Restart
  BY <1>2, RestartsAssumption DEF Restart, InitialP, Unit, Margin
<1>3. ASSUME NEW f \in Function, Measure(f) PROVE Bounded'
  BY <1>3, MeasureStep
<1>4. ASSUME NEW f \in Function, Pass(f) PROVE Bounded'
  BY <1>4 DEF Pass
<1>5. ASSUME NEW f \in Function, LoadChanges(f) PROVE Bounded'
  BY <1>5 DEF LoadChanges
<1>6. ASSUME NEW f \in Function, Withdraw(f) PROVE Bounded'
  BY <1>6 DEF Withdraw
<1>7. CASE UNCHANGED vars
  BY <1>7 DEF vars
<1> QED
  BY <1>1, <1>2, <1>3, <1>4, <1>5, <1>6, <1>7 DEF Next

(* The variables hold what they are meant to hold; above all, the          *)
(* covariance stays where the gain is neither too small nor too large.     *)
THEOREM PredictorTypeCorrect == Spec => []TypeOK
<1>1. Bounded => TypeOK
  BY DEF Bounded
<1> QED
  BY <1>1, BoundedInit, BoundedStep, PTL DEF Spec

(* The estimate never leaves the margin above the highest rate.            *)
THEOREM PredictionsBounded == Spec => []BoundedByPeak
<1>1. Bounded => BoundedByPeak
  BY DEF Bounded
<1> QED
  BY <1>1, BoundedInit, BoundedStep, PTL DEF Spec

(* While the functions that are measured do not exceed a rate, an estimate *)
(* within the margin of it stays there, whatever step is taken.            *)
StaysBelow(m) ==
    x <= m + Margin /\ (\A f \in todo : load[f] <= m) => x' <= m + Margin

(* One that is above comes closer with every measurement.                  *)
ShrinksTo(m) ==
    \A f \in Function :
        Measure(f) /\ load[f] <= m /\ x > m + Margin
          => 7 * (x' - m - Margin) <= 6 * (x - m - Margin)

LEMMA FadingStep ==
    ASSUME Bounded, [Next]_vars, NEW m \in Nat
    PROVE  StaysBelow(m) /\ ShrinksTo(m)
<1>1. ASSUME NEW f \in Function, Measure(f), load[f] <= m
      PROVE  /\ x <= m + Margin => x' <= m + Margin
             /\ x > m + Margin => 7 * (x' - m - Margin) <= 6 * (x - m - Margin)
  <2>1. load[f] \in Nat
    BY RatesAssumption DEF Bounded, TypeOK
  <2>2. x \in Nat /\ P \in Unit .. 10 * Unit /\ x' \in Estimate(x, P, load[f])
    BY <1>1 DEF Measure, Bounded, TypeOK
  <2> QED
    BY <1>1, <2>1, <2>2, EstimateBounds, EstimateShrinks
<1>2. ASSUME \E f \in Function : Measure(f) PROVE StaysBelow(m)
  BY <1>1, <1>2 DEF StaysBelow, Measure
<1>3. ASSUME Restart PROVE StaysBelow(m)
  BY <1>3 DEF Restart, StaysBelow, Margin
<1>4. ASSUME x' = x PROVE StaysBelow(m)
  BY <1>4 DEF StaysBelow
<1>5. StaysBelow(m)
  BY <1>2, <1>3, <1>4 DEF Next, Tick, Pass, LoadChanges, Withdraw, vars
<1> QED
  BY <1>1, <1>5 DEF ShrinksTo

(* No step moves the shared filter away from the rates that it is given:   *)
(* above them it takes a seventh of the excess away with each measurement, *)
(* and what other functions have left in it never brings that back.        *)
THEOREM ExcessShrinks == Spec => [][\A m \in Nat : StaysBelow(m) /\ ShrinksTo(m)]_vars
<1>1. Bounded /\ [Next]_vars => [\A m \in Nat : StaysBelow(m) /\ ShrinksTo(m)]_vars
  BY FadingStep
<1> QED
  BY <1>1, BoundedInit, BoundedStep, PTL DEF Spec

===============================================================================
