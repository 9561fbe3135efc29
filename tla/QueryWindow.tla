---------------------------- MODULE QueryWindow ----------------------------
(***************************************************************************)
(* The time window of ListClusterSnapshots and ListGpuUsages               *)
(* (getStartEndTime and the loops over intervals in                        *)
(* server/internal/server/cluster_snapshot.go and gpu_usages.go).  A       *)
(* client asks with a filter at any moment; the window is rounded to whole *)
(* intervals, the store selects the histories in it, every history is put  *)
(* in a bucket by its own rounded time, and the answer has one datapoint   *)
(* per interval of the window.  Times are Unix seconds.                    *)
(***************************************************************************)
EXTENDS Integers

CONSTANTS
    Interval,     \* defaultInterval, an hour
    Duration,     \* defaultDuration, a week
    Stamps,       \* the timestamps clients put in a filter; 0 is "not set"
    Times,        \* the times at which histories may have been created
    MaxNow        \* the clock is cut off here

ASSUME WindowAssumption ==
    /\ Interval \in Nat \ {0}
    /\ Duration \in Nat
    /\ Duration >= Interval
    /\ Stamps \subseteq Int
    /\ Times \subseteq Nat
    /\ MaxNow \in Nat

VARIABLES
    filter,    \* of the request being answered
    now        \* the server's clock

vars == <<filter, now>>

Filter == [start : Stamps \cup {0}, end : Stamps \cup {0}]

\* time.Time.Truncate rounds down, before 1970 too.
Truncate(t) == t - (t % Interval)

\* Definitions named Faulty... are mistakes the code could have made; no
\* behaviour of this specification uses them.
FaultyEndNotAhead == Truncate(IF filter.end > 0 THEN filter.end ELSE now)
FaultyEndNotTruncated ==
    IF filter.end > 0 THEN filter.end ELSE now + (Interval \div 2)

\* By default the window ends half an interval ahead.
endTime ==
    Truncate(IF filter.end > 0 THEN filter.end ELSE now + (Interval \div 2))

FaultyStartNotTruncated ==
    IF filter.start > 0 THEN filter.start ELSE endTime - Duration

startTime ==
    Truncate(IF filter.start > 0 THEN filter.start ELSE endTime - Duration)

\* The request is answered with InvalidArgument.
Refused == filter.end < 0 \/ filter.start < 0 \/ ~(startTime < endTime)

\* The histories the store returns, and the bucket each is put in.
Selected(h) == startTime <= h /\ h < endTime
Bucket(h) == Truncate(h)

\* for t := startTime; t.Before(endTime); t = t.Add(defaultInterval)
Datapoints ==
    {t \in startTime..(endTime - 1) :
        \E k \in 0..(endTime - startTime) : t = startTime + k * Interval}

Init == filter \in Filter /\ now = 0

Ask(f) ==
    /\ filter' = f
    /\ UNCHANGED now

TimePasses ==
    /\ now < MaxNow
    /\ now' = now + 1
    /\ UNCHANGED filter

Next == TimePasses \/ \E f \in Filter : Ask(f)

Spec == Init /\ [][Next]_vars

-----------------------------------------------------------------------------
(* Correctness.                                                            *)

\* Every history the store selects is counted in exactly one datapoint: none
\* falls between the buckets and the loop, whose steps start from startTime and
\* meet the buckets' rounded times only because both are rounded alike.
CountedOnce ==
    ~Refused => \A h \in Times : Selected(h) =>
        /\ Bucket(h) \in Datapoints
        /\ \A t \in Datapoints : t <= h /\ h < t + Interval => t = Bucket(h)

\* A datapoint never stands for a part of its interval: whatever belongs to its
\* bucket has been selected.
WholeIntervals ==
    ~Refused => \A h \in Times : Bucket(h) \in Datapoints => Selected(h)

\* Without a filter the query is answered, and whatever the minute misses nothing
\* whose age is between half an interval and the duration less half an interval.
\* Both margins are there, and no smaller ones would do: the end is half an
\* interval ahead and rounded down, and the start is the duration before it.
DefaultIsRecent ==
    filter = [start |-> 0, end |-> 0] =>
        /\ ~Refused
        /\ \A h \in Times :
             2 * (now - h) >= Interval /\ now - h <= Duration - (Interval \div 2)
                => Selected(h)

\* monitor_server.proto: "end_timestamp specifies the end time of the snapshot
\* histories (exclusive)."  What lies in the interval asked for is selected.
EndIsExclusive ==
    ~Refused /\ filter.start > 0 /\ filter.end > 0 =>
        \A h \in Times : filter.start <= h /\ h < filter.end => Selected(h)
=============================================================================
