------------------------- MODULE QueryWindowProofs -------------------------
(***************************************************************************)
(* What QueryWindow promises for every interval, duration, filter and      *)
(* time.                                                                   *)
(***************************************************************************)
EXTENDS QueryWindow, TLAPS

TypeOK == filter \in Filter /\ now \in Nat

USE WindowAssumption

\* Rounding down, to the last multiple of the interval.
LEMMA TruncateResult ==
    ASSUME NEW t \in Int
    PROVE  /\ Truncate(t) \in Int
           /\ Truncate(t) <= t
           /\ t < Truncate(t) + Interval
           /\ Truncate(t) = (t \div Interval) * Interval
           /\ t \div Interval \in Int
  BY DEF Truncate

\* Two multiples of the interval that are less than an interval apart are equal.
LEMMA MultiplesApart ==
    ASSUME NEW a \in Int, NEW b \in Int,
           a * Interval < b * Interval + Interval,
           b * Interval < a * Interval + Interval
    PROVE  a = b
  <1>1. ASSUME a < b
        PROVE  FALSE
    <2>1. (b - a) * Interval >= Interval
      BY <1>1
    <2> QED
      BY <2>1
  <1>2. ASSUME b < a
        PROVE  FALSE
    <2>1. (a - b) * Interval >= Interval
      BY <1>2
    <2> QED
      BY <2>1
  <1> QED
    BY <1>1, <1>2

\* A multiple of the interval at or above another lies some number of whole
\* intervals above it.
LEMMA MultiplesOrdered ==
    ASSUME NEW a \in Int, NEW b \in Int, a * Interval <= b * Interval
    PROVE  /\ b - a \in Nat
           /\ b * Interval = a * Interval + (b - a) * Interval
           /\ b - a <= b * Interval - a * Interval
  <1>1. ASSUME b < a
        PROVE  FALSE
    <2>1. (a - b) * Interval >= Interval
      BY <1>1
    <2> QED
      BY <2>1
  <1>2. b - a \in Nat
    BY <1>1
  <1>3. b * Interval = a * Interval + (b - a) * Interval
    OBVIOUS
  <1>4. b - a <= (b - a) * Interval
    BY <1>2
  <1> QED
    BY <1>2, <1>3, <1>4

\* Start and end of the window are multiples of the interval.
LEMMA WindowBorders ==
    ASSUME TypeOK
    PROVE  /\ endTime \in Int /\ startTime \in Int
           /\ \E a \in Int : startTime = a * Interval
           /\ \E b \in Int : endTime = b * Interval
  <1> DEFINE e == IF filter.end > 0 THEN filter.end ELSE now + (Interval \div 2)
             s == IF filter.start > 0 THEN filter.start ELSE endTime - Duration
  <1>1. filter.start \in Int /\ filter.end \in Int
    <2>1. filter \in [start : Stamps \cup {0}, end : Stamps \cup {0}]
      BY DEF TypeOK, Filter
    <2>2. filter.start \in Stamps \cup {0} /\ filter.end \in Stamps \cup {0}
      BY <2>1
    <2>3. \A x \in Stamps \cup {0} : x \in Int
      OBVIOUS
    <2> QED
      BY <2>2, <2>3
  <1>2. e \in Int
    BY <1>1 DEF TypeOK
  <1>3. endTime = Truncate(e) /\ startTime = Truncate(s)
    BY DEF endTime, startTime
  <1> HIDE DEF e
  <1>4. endTime \in Int /\ \E b \in Int : endTime = b * Interval
    BY <1>2, <1>3, TruncateResult
  <1>5. s \in Int
    BY <1>1, <1>4
  <1> HIDE DEF s
  <1>6. startTime \in Int /\ \E a \in Int : startTime = a * Interval
    BY <1>3, <1>5, TruncateResult
  <1> QED
    BY <1>4, <1>6

LEMMA CountedOnceHolds ==
    ASSUME TypeOK
    PROVE  CountedOnce
  <1> SUFFICES ASSUME ~Refused, NEW h \in Times, Selected(h)
               PROVE  /\ Bucket(h) \in Datapoints
                      /\ \A t \in Datapoints :
                           t <= h /\ h < t + Interval => t = Bucket(h)
    BY DEF CountedOnce
  <1>1. PICK a \in Int, b \in Int : startTime = a * Interval /\ endTime = b * Interval
    BY WindowBorders
  <1>2. PICK c \in Int : /\ Bucket(h) = c * Interval
                         /\ Bucket(h) <= h
                         /\ h < Bucket(h) + Interval
                         /\ Bucket(h) \in Int
    <2>1. h \in Int /\ h \div Interval \in Int
      BY TruncateResult
    <2> QED
      BY <2>1, TruncateResult DEF Bucket
  <1>3. startTime \in Int /\ endTime \in Int /\ startTime <= h /\ h < endTime
    BY WindowBorders DEF Selected
  <1>4. startTime <= Bucket(h)
    <2>1. ASSUME Bucket(h) < startTime
          PROVE  FALSE
      <3>1. c * Interval < a * Interval /\ a * Interval < c * Interval + Interval
        BY <1>1, <1>2, <1>3, <2>1
      <3>2. c * Interval \in Int /\ a * Interval \in Int
        OBVIOUS
      <3>3. c * Interval < a * Interval + Interval
        BY <3>1, <3>2
      <3> QED
        BY <3>1, <3>3, MultiplesApart
    <2> QED
      BY <1>2, <1>3, <2>1
  <1>5. Bucket(h) \in Datapoints
    <2>1. /\ c - a \in Nat
          /\ Bucket(h) = startTime + (c - a) * Interval
          /\ c - a <= Bucket(h) - startTime
      BY <1>1, <1>2, <1>4, MultiplesOrdered
    <2>2. c - a \in 0..(endTime - startTime)
      BY <1>2, <1>3, <2>1
    <2>3. Bucket(h) \in startTime..(endTime - 1)
      BY <1>2, <1>3, <1>4
    <2> QED
      BY <2>1, <2>2, <2>3 DEF Datapoints
  <1>6. ASSUME NEW t \in Datapoints, t <= h, h < t + Interval
        PROVE  t = Bucket(h)
    <2>1. PICK k \in Int : t = startTime + k * Interval
      BY <1>3 DEF Datapoints
    <2>2. t = (a + k) * Interval
      BY <1>1, <2>1
    <2>3. t \in Int
      BY <1>3 DEF Datapoints
    <2>4. t < Bucket(h) + Interval /\ Bucket(h) < t + Interval
      BY <1>2, <1>6, <2>3
    <2>5. a + k = c
      BY <1>2, <2>2, <2>4, MultiplesApart
    <2> QED
      BY <1>2, <2>2, <2>5
  <1> QED
    BY <1>5, <1>6

LEMMA WholeIntervalsHolds ==
    ASSUME TypeOK
    PROVE  WholeIntervals
  <1> SUFFICES ASSUME ~Refused, NEW h \in Times, Bucket(h) \in Datapoints
               PROVE  Selected(h)
    BY DEF WholeIntervals
  <1>1. PICK a \in Int, b \in Int : startTime = a * Interval /\ endTime = b * Interval
    BY WindowBorders
  <1>2. PICK c \in Int : /\ Bucket(h) = c * Interval
                         /\ Bucket(h) <= h
                         /\ h < Bucket(h) + Interval
                         /\ Bucket(h) \in Int
    <2>1. h \in Int /\ h \div Interval \in Int
      BY TruncateResult
    <2> QED
      BY <2>1, TruncateResult DEF Bucket
  <1>3. /\ startTime \in Int /\ endTime \in Int
        /\ startTime <= Bucket(h) /\ Bucket(h) < endTime
    BY <1>2, WindowBorders DEF Datapoints
  <1>4. ASSUME endTime <= h
        PROVE  FALSE
    <2>1. /\ c * Interval < b * Interval
          /\ b * Interval < c * Interval + Interval
          /\ b * Interval \in Int
      BY <1>1, <1>2, <1>3, <1>4
    <2>2. c * Interval < b * Interval + Interval
      BY <1>2, <2>1
    <2> QED
      BY <2>1, <2>2, MultiplesApart
  <1> QED
    BY <1>2, <1>3, <1>4 DEF Selected

LEMMA DefaultIsRecentHolds ==
    ASSUME TypeOK
    PROVE  DefaultIsRecent
  <1> SUFFICES ASSUME filter = [start |-> 0, end |-> 0]
               PROVE  /\ ~Refused
                      /\ \A h \in Times :
                           2 * (now - h) >= Interval
                             /\ now - h <= Duration - (Interval \div 2)
                               => Selected(h)
    BY DEF DefaultIsRecent
  <1>1. PICK half \in Nat : /\ half = Interval \div 2
                            /\ half < Interval
                            /\ Interval <= 2 * half + 1
    OBVIOUS
  <1>2. endTime = Truncate(now + half) /\ startTime = Truncate(endTime - Duration)
    BY <1>1 DEF endTime, startTime
  <1>3. /\ endTime \in Int
        /\ endTime <= now + half
        /\ now + half < endTime + Interval
    BY <1>1, <1>2, TruncateResult DEF TypeOK
  <1>4. /\ startTime \in Int
        /\ startTime <= endTime - Duration
    BY <1>2, <1>3, TruncateResult
  <1>5. ~Refused
    BY <1>3, <1>4 DEF Refused
  <1>6. ASSUME NEW h \in Times,
               2 * (now - h) >= Interval, now - h <= Duration - half
        PROVE  Selected(h)
    BY <1>1, <1>3, <1>4, <1>6 DEF Selected, TypeOK
  <1> QED
    BY <1>1, <1>5, <1>6

LEMMA TypeInvariance == Spec => []TypeOK
  <1>1. Init => TypeOK
    BY DEF Init, TypeOK
  <1>2. TypeOK /\ [Next]_vars => TypeOK'
    BY DEF TypeOK, Next, Ask, TimePasses, vars
  <1> QED
    BY <1>1, <1>2, PTL DEF Spec

\* No selected history is lost between the datapoints or counted in two, for
\* any filter at any time.
THEOREM HistoriesCountedOnce == Spec => []CountedOnce
  BY TypeInvariance, CountedOnceHolds, PTL

\* No datapoint is computed from a part of its interval's histories.
THEOREM DatapointsAreWhole == Spec => []WholeIntervals
  BY TypeInvariance, WholeIntervalsHolds, PTL

\* The default window is never refused and misses nothing but, at either end, what
\* lies within half an interval of now and of the duration before it.
THEOREM DefaultWindowIsRecent == Spec => []DefaultIsRecent
  BY TypeInvariance, DefaultIsRecentHolds, PTL
=============================================================================
