----------------------------- MODULE MCCapacity -----------------------------
(***************************************************************************)
(* Every small ledger of one account: the readings an overview draws on,   *)
(* the requests a replay draws on, or the readings that measure a plan.    *)
(* A ledger grows by one record at a time, and what Quota and Capacity     *)
(* compute from it is compared with what their comments promise.           *)
(***************************************************************************)
EXTENDS Capacity

CONSTANTS
  Times, Resets, Uses,            \* readings for the overview
  MaxSnaps,                       \* bound: how many
  Now, ShownSpan,                 \* when they are shown, and their window's length
  RequestTimes, Weights,          \* requests
  MaxRequests,                    \* bound: how many
  ReadTimes, WeekResets, Percents, Plans, \* readings that measure a plan
  MaxReadings,                    \* bound: how many
  Measured,                       \* plans that gave samples
  MaxSamples,                     \* bound: how many
  From, To,                       \* the period asked for
  Capacities, Anchors             \* limits and weekly resets to replay with

VARIABLES snaps, requests, readings, history, samples

demand == <<snaps, requests, readings, history, samples>>

NoSamples == [p \in Measured |-> 0]
MCPlanOrder == [p \in Measured |-> CASE p = "max 20x" -> 1 [] p = "max 5x" -> 2 [] OTHER -> 3]

\* An account's plan intervals, which never overlap: none, one plan, a
\* change of plan, and two plans with a gap between them.
Histories ==
  {{},
   {[from |-> 0, to |-> 100, plan |-> "pro"]},
   {[from |-> 0, to |-> 3, plan |-> "pro"], [from |-> 3, to |-> 100, plan |-> "max"]},
   {[from |-> 2, to |-> 3, plan |-> "pro"], [from |-> 4, to |-> 100, plan |-> "max"]}}

DemandInit ==
  /\ snaps = <<>> /\ requests = <<>> /\ readings = <<>>
  /\ history \in Histories
  /\ samples = NoSamples

\* Devices upload readings in any order.
AddSnapshot ==
  /\ Len(snaps) < MaxSnaps
  /\ requests = <<>> /\ readings = <<>> /\ history = {} /\ samples = NoSamples
  /\ \E s \in [at : Times, statusLine : BOOLEAN, resets : Resets, used : Uses] :
       snaps' = Append(snaps, s)
  /\ UNCHANGED <<requests, readings, history, samples>>

\* Requests come oldest first.
AddRequest ==
  /\ Len(requests) < MaxRequests
  /\ snaps = <<>> /\ readings = <<>> /\ history = {} /\ samples = NoSamples
  /\ \E r \in [at : RequestTimes, weight : Weights] :
       /\ requests # <<>> => Last(requests).at <= r.at
       /\ requests' = Append(requests, r)
  /\ UNCHANGED <<snaps, readings, history, samples>>

\* Readings come oldest first.
AddReading ==
  /\ Len(readings) < MaxReadings
  /\ snaps = <<>> /\ requests = <<>> /\ samples = NoSamples
  /\ \E r \in [at : ReadTimes, resets : WeekResets, used : Percents, plan : Plans] :
       /\ readings # <<>> => Last(readings).at <= r.at
       /\ readings' = Append(readings, r)
  /\ UNCHANGED <<snaps, requests, history, samples>>

\* A window gives a sample of its plan.
AddSample ==
  /\ snaps = <<>> /\ requests = <<>> /\ readings = <<>> /\ history = {}
  /\ \E p \in Measured :
       /\ samples[p] < MaxSamples
       /\ samples' = [samples EXCEPT ![p] = @ + 1]
  /\ UNCHANGED <<snaps, requests, readings, history>>

DemandNext == AddSnapshot \/ AddRequest \/ AddReading \/ AddSample

DemandSpec == DemandInit /\ [][DemandNext]_demand

-----------------------------------------------------------------------------
\* In which order devices uploaded their readings does not matter to the
\* value shown, unless two were taken at the same moment (quota.Latest).
LatestOrderFree ==
  LET n == Len(snaps)
  IN  Cardinality({snaps[i].at : i \in 1..n}) = n =>
        \A p \in Permutations(1..n) : Latest([i \in 1..n |-> snaps[p[i]]]) = Latest(snaps)

\* One more statusLine reading, whenever it was taken and however stale its
\* figure is, never takes the value shown back to an earlier window or to
\* less use of the same one ("It only replaces the current value when it is
\* newer and either reports more usage of the same window or a later
\* window", quota.go:115).
StaleNeverLowers ==
  Len(snaps) > 1 /\ Last(snaps).statusLine =>
    LET before == Latest(Front(snaps))
        now == Latest(snaps)
    IN  \/ now = before
        \/ now.resets - before.resets > SameWindowSlack
        \/ /\ now.resets - before.resets >= -SameWindowSlack
           /\ now.used >= before.used

\* The resets a chart shows, the current window's start among them, are oldest
\* first and at least half a window apart, since windows cannot overlap
\* (timeline).
ResetsApart ==
  snaps # <<>> =>
    LET resets == TimelineResets(snaps, 0, Now, ShownSpan)
    IN  /\ \A i \in DOMAIN resets : 0 < resets[i] /\ resets[i] <= Now
        /\ \A i, j \in DOMAIN resets : i < j => resets[j] - resets[i] >= ShownSpan \div 2

\* Where the reported times of a reset moved, the chart shows the one that
\* the most readings report (pastResets).
MostReportedShown ==
  LET merge == ShownSpan \div 2
      candidates == ResetCandidates(snaps, 0, Now, ShownSpan, merge)
  IN  \A c \in candidates :
        (\A d \in candidates : d # c /\ d.at - c.at \in -merge..merge => d.support < c.support)
          => \E i \in 1..Len(TimelineResets(snaps, 0, Now, ShownSpan)) :
               TimelineResets(snaps, 0, Now, ShownSpan)[i] = c.at

-----------------------------------------------------------------------------
\* The rate of a plan does not depend on the order the calibrations are met
\* in, which is that of a Go map, and is derived from a plan that no other
\* has more samples than (FiveHourRate).
RateDetermined ==
  LET met == {p \in Measured : samples[p] > 0}
      cal == [p \in met |-> samples[p]]
      n == Cardinality(met)
      orders == {o \in [1..n -> met] : Range(o) = met}
  IN  \A plan \in Measured :
        LET rates == {FiveHourRate(plan, cal, o) : o \in orders}
        IN  /\ Cardinality(rates) = 1
            /\ \A r \in rates : r.basis = "derived" =>
                 \A p \in met \cap Multiples : cal[p] <= cal[r.from]

-----------------------------------------------------------------------------
InWindow(t, window) == Total(requests, LAMBDA at : t - window < at /\ at <= t)

\* Rolling demand covers the period without gap or overlap, and at every
\* moment is the demand of the window that ends there; its peak and its
\* percentiles are those of the moments.
RollingIsDemand ==
  LET spans == Rolling(requests, From, To, FiveHourSpan)
      Moments(T(_)) == Cardinality({t \in From..To - 1 : T(InWindow(t, FiveHourSpan))})
  IN  /\ \A t \in From..To - 1 :
           /\ Cardinality({s \in spans : s.start <= t /\ t < s.end}) = 1
           /\ \A s \in spans : s.start <= t /\ t < s.end => s.weight = InWindow(t, FiveHourSpan)
      /\ Peak(spans) = Max({InWindow(t, FiveHourSpan) : t \in From..To - 1})
      /\ \A p \in {50, 90} :
           LET w == Percentile(spans, p)
           IN  /\ Moments(LAMBDA v : v <= w) * 100 >= p * (To - From)
               /\ Moments(LAMBDA v : v < w) * 100 < p * (To - From)

\* A replay refuses demand only in a session that went past its limit, what
\* it counts is the demand of disjoint sessions, and a larger limit is never
\* hit more often (ReplaySessions).
SessionsRefuse ==
  \A c \in Capacities :
    LET r == ReplaySessions(requests, c, FiveHourSpan, From, To)
        more == ReplaySessions(requests, c + 1, FiveHourSpan, From, To)
    IN  /\ r.hits > 0 <=> r.peak > c
        /\ r.hits > 0 <=> r.firstHit # NoTime
        /\ r.blocked <= r.total - (c + 1) * r.hits
        /\ r.blocked > 0 => r.hits > 0
        /\ more.hits <= r.hits /\ more.blocked <= r.blocked
        /\ <<more.windows, more.total, more.peak>> = <<r.windows, r.total, r.peak>>
        /\ r.total <= Total(requests, LAMBDA at : From <= at)

\* The weeks of a replay follow each other and cover the period, every
\* request in them counts in one, and neither depends on which of the weekly
\* resets the replay is anchored at (ReplayWeekly).
WeeksTile ==
  \A c \in Capacities, a \in Anchors :
    LET weeks == ReplayWeekly(requests, c, a, From, To)
        n == Len(weeks)
    IN  /\ n > 0
        /\ weeks[1].start <= From /\ From < weeks[1].end
        /\ weeks[n].start < To /\ To <= weeks[n].end
        /\ \A k \in 1..n - 1 : weeks[k].end = weeks[k + 1].start
        /\ MapThenSumSet(LAMBDA k : weeks[k].peak, 1..n)
             = Total(requests, LAMBDA at : weeks[1].start <= at /\ at < weeks[n].end)
        /\ \A k \in 1..n : weeks[k].peak > c <=> weeks[k].hitAt # NoTime
        /\ weeks = ReplayWeekly(requests, c, a + WeeklySpan, From, To)

\* The use a series shows at t.
UseAt(series, t) ==
  LET place == SelectLastInSeq(series, LAMBDA p : p.at <= t)
  IN  IF place = 0 THEN 0 ELSE series[place].use

\* What a chart shows of a replay: oldest first, no longer than the bound (two
\* points for the bucket the first falls into come on top), the use at the
\* end of the period, and the highest use of the clipped series (ThinSeries,
\* clipSeries).
SeriesShowsPeak ==
  \A c \in Capacities :
    LET whole == ReplaySessions(requests, c, FiveHourSpan, From, To).series
        clipped == ClipSeries(whole, From, To)
        thin == ThinSeries(clipped)
        Highest(s) == Max({s[i].use : i \in DOMAIN s} \cup {0})
    IN  /\ \A i \in 1..Len(thin) - 1 : thin[i].at <= thin[i + 1].at
        /\ \A t \in From..To - 1 : UseAt(clipped, t) = UseAt(whole, t)
        /\ Len(thin) <= SeriesMaxPoints + 2
        /\ Highest(thin) = Highest(clipped)
        /\ UseAt(thin, To) = UseAt(clipped, To)

-----------------------------------------------------------------------------
\* One unit of demand at every moment.
Steady == [t \in 1..20 |-> [at |-> t - 1, weight |-> 1]]

Near(r, s) ==
  LET d == RoundedReset(r) - RoundedReset(s) IN -ResetSlack <= d /\ d <= ResetSlack

\* Two readings describe one window exactly if their resets are connected
\* through readings whose resets are near each other, whatever the order they
\* were taken in (groupByReset).
GroupsAreWindows ==
  LET groups == GroupByReset(readings)
      Joins(S) == \A i \in S, j \in DOMAIN readings : Near(readings[i], readings[j]) => j \in S
      Connected(i, j) == \A S \in SUBSET DOMAIN readings : i \in S /\ Joins(S) => j \in S
  IN  /\ MapThenSumSet(LAMBDA g : Len(groups[g]), DOMAIN groups) = Len(readings)
      /\ \A i, j \in DOMAIN readings :
           Connected(i, j) <=>
             \E g \in DOMAIN groups : {readings[i], readings[j]} \subseteq Range(groups[g])

\* A sample ran under its plan throughout, from its start to its reading, and
\* the samples of one week, one for each plan it ran under, never count the
\* same demand twice (FiveHourWindows, WeeklyWindows).  The histories have no
\* plan that is left and taken up again: between readings the code would not
\* see it.
SamplesApart ==
  LET Samples == {w \in WeeklyWindows(readings, history, Steady) : w.excluded = ""}
      Windows == {w \in FiveHourWindows(readings, history, Steady) : w.excluded = ""}
      Read == CHOOSE p \in Plans : TRUE
  IN  /\ \A w \in Windows, t \in ReadTimes :
           w.start <= t /\ t <= w.sample => PlanAt(history, t, Read) = w.plan
      /\ \A w \in Samples, t \in ReadTimes :
           w.start <= t /\ t <= w.sample => PlanAt(history, t, Unknown) = w.plan
      /\ \A v, w \in Samples :
           v # w /\ v.resets = w.resets => w.sample < v.start \/ v.sample < w.start
=============================================================================
