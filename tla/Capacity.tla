------------------------------ MODULE Capacity ------------------------------
(***************************************************************************)
(* How an account's recorded demand and the provider's readings become     *)
(* measured limits, and how the demand is replayed against other limits    *)
(* (quota/capacity.go).  Times are integers; demand weights are integers;  *)
(* use of a limit is kept in units of demand, percent being use / capacity *)
(* * 100.  Demand arrives oldest first, as the query returns it.           *)
(***************************************************************************)
EXTENDS Quota, FiniteSetsExt

CONSTANTS
  FiveHourSpan, WeeklySpan,  \* lengths of the limit windows
  ResetSlack,                \* resets this close describe one window
  MinSampleUsed, Full,       \* percentages a sample lies between
  MinSampleCost,             \* least demand a sample needs
  MinFiveHourSamples,        \* samples a plan's own rate needs
  Multiples,                 \* the plans with a published multiple
  PlanOrder,                 \* the order of plan names
  SeriesMaxPoints            \* size a series is thinned to

ASSUME CapacityAssumption ==
  {FiveHourSpan, WeeklySpan, ResetSlack, MinSampleUsed, Full, MinSampleCost,
   SeriesMaxPoints \div 2} \subseteq Nat \ {0}

Unknown == ""   \* no plan
NoTime == -1    \* Go's zero time

Total(demand, Counts(_)) ==
  MapThenSumSet(LAMBDA i : demand[i].weight, {i \in DOMAIN demand : Counts(demand[i].at)})

-----------------------------------------------------------------------------
(* Demand in a sliding window. *)

\* Mutant: demand before the period is left out.
WithoutLookback(e, start, end, window) == e.weight > 0 /\ start <= e.at /\ e.at < end

\* Events before start supply the lookback.
Reaches(e, start, end, window) == e.weight > 0 /\ e.at < end /\ e.at + window > start

\* The spans of constant demand in (t - window, t], for t in [start, end).
Rolling(events, start, end, window) ==
  LET kept == {i \in DOMAIN events : Reaches(events[i], start, end, window)}
      Level(t) == MapThenSumSet(LAMBDA i : events[i].weight, {i \in kept : events[i].at <= t})
                  - MapThenSumSet(LAMBDA i : events[i].weight,
                                  {i \in kept : events[i].at + window <= t})
      changes == {events[i].at : i \in kept} \cup {events[i].at + window : i \in kept}
      starts == {start} \cup {t \in changes : start < t /\ t < end}
  IN  {[start |-> s, end |-> Min({t \in starts : t > s} \cup {end}), weight |-> Level(s)] : s \in starts}

Peak(spans) == Max({s.weight : s \in spans})

\* The weight that demand stays within for percent p of the time.
Percentile(spans, p) ==
  LET Length(S) == MapThenSumSet(LAMBDA s : s.end - s.start, S)
  IN  Min({w \in {s.weight : s \in spans} :
             Length({s \in spans : s.weight <= w}) * 100 >= Length(spans) * p})

-----------------------------------------------------------------------------
(* The windows that readings describe, and the sample each gives. *)

\* Mutant: a reading is compared with the first of its window.
NearFirst(group, r) == RoundedReset(r) - RoundedReset(Head(group)) <= ResetSlack

SameReset(group, r) == RoundedReset(r) - RoundedReset(Last(group)) <= ResetSlack

GroupByReset(readings) ==
  LET Add(groups, r) ==
        IF groups # <<>> /\ SameReset(Last(groups), r)
        THEN [groups EXCEPT ![Len(groups)] = Append(@, r)]
        ELSE Append(groups, <<r>>)
      groups == FoldLeft(Add, <<>>, SortedBy(readings, RoundedReset))
  IN  [g \in DOMAIN groups |-> SortedBy(groups[g], At)]

\* A window not excluded already gives a sample from its last reading below
\* Full: the figure is exact there.
Measure(w, readings, demand) ==
  LET Cost(r) == Total(demand, LAMBDA t : w.start <= t /\ t <= r.at)
      sample == SelectLastInSeq(readings, LAMBDA r : MinSampleUsed <= r.used /\ r.used < Full)
  IN  IF w.excluded # "" THEN w
      ELSE IF sample = 0 THEN [w EXCEPT !.excluded = "no_sample"]
      ELSE IF Cost(readings[sample]) < MinSampleCost THEN [w EXCEPT !.excluded = "low_cost"]
      ELSE [w EXCEPT !.sample = readings[sample].at, !.cost = Cost(readings[sample])]

NewWindow(start, resets, plan, excluded) ==
  [start |-> start, resets |-> resets, plan |-> plan, excluded |-> excluded,
   sample |-> NoTime, cost |-> 0]

IntervalAt(intervals, t) == {in \in intervals : in.from <= t /\ t < in.to}

PlanAt(intervals, t, snapshotPlan) ==
  LET covering == IntervalAt(intervals, t)
  IN  IF covering = {} THEN snapshotPlan ELSE (CHOOSE in \in covering : TRUE).plan

\* A window counts for the one plan it was seen to run under.
FiveHourWindows(readings, intervals, demand) ==
  LET WindowOf(group) ==
        LET resets == RoundedReset(Last(group))
            start == resets - FiveHourSpan
            plans == {PlanAt(intervals, start, Head(group).plan)} \cup
                     {PlanAt(intervals, group[i].at, group[i].plan) : i \in DOMAIN group}
            one == CHOOSE p \in plans : TRUE
            w == IF Cardinality(plans) > 1 THEN NewWindow(start, resets, Unknown, "plan_changed")
                 ELSE IF one = Unknown THEN NewWindow(start, resets, Unknown, "unknown_plan")
                 ELSE NewWindow(start, resets, one, "")
        IN  Measure(w, group, demand)
      groups == GroupByReset(readings)
  IN  {WindowOf(groups[g]) : g \in DOMAIN groups}

\* Mutant: every window starts with the week.
StartOfWeek(begin, in) == begin

StartUnder(begin, in) == Max({begin, in.from})

\* A plan change restarts the week's use with the reset time unchanged, so
\* each interval within a week is a window of its own.
WeeklyWindows(readings, intervals, demand) ==
  LET WindowOf(group, covering) ==
        LET resets == RoundedReset(Last(group))
            begin == resets - WeeklySpan
            in == CHOOSE in \in covering : TRUE
            w == IF covering = {} THEN NewWindow(begin, resets, Unknown, "unknown_plan")
                 ELSE NewWindow(StartUnder(begin, in), resets, in.plan, "")
        IN  Measure(w, SelectSeq(group, LAMBDA r : IntervalAt(intervals, r.at) = covering), demand)
      WindowsOf(group) ==
        {WindowOf(group, c) : c \in {IntervalAt(intervals, group[i].at) : i \in DOMAIN group}}
      groups == GroupByReset(readings)
  IN  UNION {WindowsOf(groups[g]) : g \in DOMAIN groups}

-----------------------------------------------------------------------------
(* The rate of a plan without enough samples of its own. *)

\* Mutant: among plans with as many samples the one met first stays.
MoreSamples(cal, p, best) == cal[p] > cal[best]

\* p has more samples than best, or as many and an earlier name.
Better(cal, p, best) ==
  cal[p] > cal[best] \/ (cal[p] = cal[best] /\ PlanOrder[p] < PlanOrder[best])

\* The plan kept after p is met: a plan without a published multiple is passed
\* over.
Preferred(cal, p, best) ==
  IF p \in Multiples /\ (best = Unknown \/ Better(cal, p, best)) THEN p ELSE best

\* The plan whose measured rate a plan's 5-hour rate is taken from, with the
\* calibrations met in some order; the rate is scaled by the plans' multiples.
FiveHourRate(plan, cal, order) ==
  LET best[i \in 0..Len(order)] ==
        IF i = 0 THEN Unknown ELSE Preferred(cal, order[i], best[i - 1])
      source == best[Len(order)]
  IN  IF plan \in DOMAIN cal /\ cal[plan] >= MinFiveHourSamples THEN [from |-> plan, basis |-> "measured"]
      ELSE IF plan \notin Multiples \/ source = Unknown THEN [from |-> Unknown, basis |-> "insufficient"]
      ELSE [from |-> source, basis |-> "derived"]

-----------------------------------------------------------------------------
(* Demand replayed against a limit. *)

Point(at, use) == [at |-> at, use |-> use]

NoSession == [end |-> NoTime, used |-> 0, counted |-> FALSE, hit |-> FALSE]
NoReplay == [session |-> NoSession, windows |-> 0, hits |-> 0, firstHit |-> NoTime,
             peak |-> 0, total |-> 0, blocked |-> 0, series |-> <<>>]

CloseSession(r) ==
  IF r.session.counted
  THEN [r EXCEPT !.peak = Max({@, r.session.used}), !.series = Append(@, Point(r.session.end, 0))]
  ELSE r

\* A session opens with the first request after the previous one ended.
OpenSession(r, d, window, from, to) ==
  IF r.session.end = NoTime \/ d.at >= r.session.end
  THEN LET counted == from <= d.at /\ d.at < to
       IN  [CloseSession(r) EXCEPT
              !.session = [end |-> d.at + window, used |-> 0, counted |-> counted, hit |-> FALSE],
              !.windows = @ + (IF counted THEN 1 ELSE 0)]
  ELSE r

\* Mutant: a limit that is just reached refuses what comes next.
PastWhenFull(used, capacity) == used >= capacity

Past(used, capacity) == used > capacity

\* The request that takes a session past capacity is the hit; demand after it
\* is blocked.
UseSession(r, d, capacity) ==
  LET used == r.session.used + d.weight
      hits == ~r.session.hit /\ Past(used, capacity)
  IN  IF ~r.session.counted THEN r
      ELSE [r EXCEPT !.total = @ + d.weight,
                     !.blocked = @ + (IF r.session.hit THEN d.weight ELSE 0),
                     !.session.used = used,
                     !.session.hit = @ \/ hits,
                     !.series = Append(@, Point(d.at, used)),
                     !.hits = @ + (IF hits THEN 1 ELSE 0),
                     !.firstHit = IF hits /\ @ = NoTime THEN d.at ELSE @]

\* Demand without weight is passed over.
ReplayOne(r, d, capacity, window, from, to) ==
  IF d.weight > 0 THEN UseSession(OpenSession(r, d, window, from, to), d, capacity) ELSE r

ReplaySessions(demand, capacity, window, from, to) ==
  LET after[i \in 0..Len(demand)] ==
        IF i = 0 THEN NoReplay ELSE ReplayOne(after[i - 1], demand[i], capacity, window, from, to)
  IN  IF capacity <= 0 THEN NoReplay ELSE CloseSession(after[Len(demand)])

\* Go's integer division goes towards zero.
Quotient(a, b) == IF a >= 0 THEN a \div b ELSE -((-a) \div b)

\* Mutant: the division is taken to go down.
StepsTowardsZero(anchor, from) == Quotient(from - anchor, WeeklySpan)

\* Whole weeks from anchor to the last reset not after from.
Steps(anchor, from) ==
  LET q == Quotient(from - anchor, WeeklySpan)
  IN  IF from - anchor - q * WeeklySpan < 0 THEN q - 1 ELSE q

\* The use at u of the week from start to end.
UsedBy(u, demand, start, end) == Total(demand, LAMBDA t : start <= t /\ t <= u /\ t < end)

\* The week that ends at a reset.
Week(demand, capacity, end) ==
  LET start == end - WeeklySpan
      past == {i \in DOMAIN demand :
                 /\ start <= demand[i].at /\ demand[i].at < end
                 /\ Past(UsedBy(demand[i].at, demand, start, end), capacity)}
  IN  [start |-> start, end |-> end, peak |-> UsedBy(end, demand, start, end),
       hitAt |-> IF past = {} THEN NoTime ELSE Min({demand[i].at : i \in past})]

\* The weeks that overlap [from, to), one reset after another.
ReplayWeekly(demand, capacity, anchor, from, to) ==
  LET first == anchor + (Steps(anchor, from) + 1) * WeeklySpan
      Starts(k) == first + (k - 1) * WeeklySpan - WeeklySpan < to
      n == Cardinality({k \in 1 .. (to - from) \div WeeklySpan + 2 : Starts(k)})
  IN  IF capacity <= 0 \/ to <= from THEN <<>>
      ELSE [k \in 1..n |-> Week(demand, capacity, first + (k - 1) * WeeklySpan)]

-----------------------------------------------------------------------------
(* Series of a limit's use, oldest point first. *)

\* The points of a series at some of its places.
Kept(points, places) ==
  FoldLeftDomain(LAMBDA out, i : IF i \in places THEN Append(out, points[i]) ELSE out, <<>>, points)

\* Mutant: only the highest point of a bucket is kept.
PeakOnly(points, bucket) ==
  LET Higher(i, j) == points[i].use > points[j].use \/ (points[i].use = points[j].use /\ i < j)
  IN  {i \in bucket : \A j \in bucket : i = j \/ Higher(i, j)}

PeakAndLast(points, bucket) ==
  LET Higher(i, j) == points[i].use > points[j].use \/ (points[i].use = points[j].use /\ i < j)
  IN  {i \in bucket : \A j \in bucket : i = j \/ Higher(i, j)} \cup {Max(bucket)}

ThinBy(points, width) ==
  LET Bucket(i) == {j \in DOMAIN points : points[j].at \div width = points[i].at \div width}
  IN  Kept(points, UNION {PeakAndLast(points, Bucket(i)) : i \in DOMAIN points})

ThinSeries(points) ==
  LET fine == ThinBy(points, Minute)
  IN  IF Len(fine) <= SeriesMaxPoints THEN fine
      ELSE ThinBy(fine, (Last(fine).at - Head(fine).at) \div (SeriesMaxPoints \div 2) + 1)

\* The use at from stands for what came before it.
ClipSeries(points, from, to) ==
  LET before == SelectLastInSeq(points, LAMBDA p : p.at < from)
      inside == SelectSeq(points, LAMBDA p : from <= p.at /\ p.at < to)
  IN  IF before # 0 /\ (inside = <<>> \/ Head(inside).at > from)
      THEN <<Point(from, points[before].use)>> \o inside
      ELSE inside
=============================================================================
