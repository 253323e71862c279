------------------------------- MODULE Reports -------------------------------
(***************************************************************************)
(* What the server reports of its ledger: the overview of an account, with *)
(* a window's use divided among models, members and their devices, its     *)
(* chart, who is using it, and the usage reports of the console            *)
(* (query.Overview, query.Usage, attribution.Apportion and the storage     *)
(* queries they draw on).                                                  *)
(*                                                                         *)
(* A percentage is kept as its numerator over the total cost of its        *)
(* window, an allotment over the total weight, since the code divides      *)
(* floating-point numbers.  What is sorted in the code is a set here.      *)
(***************************************************************************)
EXTENDS Quota, FiniteSetsExt

CONSTANTS
  Now,
  Accounts,
  Persons,
  Owner,      \* device -> the member it belongs to
  NameOf,     \* device -> its name
  ProviderOf, \* account -> provider
  Price,      \* model -> what a token of it weighs
  Family,     \* model -> the family its limit is for
  Span,       \* limit -> length of its window
  FamilyOf,   \* limit -> the model family it is on, or Missing
  BinOf,      \* length of a window -> length of a bin of its chart
  FiveHours,  \* the window shown of an account without readings
  Lookback,   \* how far back readings are looked for
  ActiveFor   \* how recent a sign-in must be to count as in use

ASSUME ReportsAssumption ==
  /\ Now \in Nat /\ Lookback \in Nat /\ ActiveFor \in Nat
  /\ \A m \in DOMAIN Price : Price[m] \in Nat
  /\ \A d \in DOMAIN Owner : Owner[d] \in Persons
  /\ \A l \in DOMAIN Span : Span[l] > 0 /\ BinOf[Span[l]] > 0

VARIABLES
  events,   \* requests: [device, acct, model, gateway, third, at, tokens]
  snaps,    \* account -> limit -> its readings, oldest first
  weights,  \* account -> member -> share weight, Missing without membership
  signIns,  \* observations: [device, source, acct, at]
  revoked   \* devices

-----------------------------------------------------------------------------
\* Sums of an SQL query or a Go map: the totals of what has the same key.
TokensOf(es) == MapThenSumSet(LAMBDA e : e.tokens, es)
Grouped(es, Key(_)) ==
  LET Of(k) == {e \in es : Key(e) = k}
  IN  {[key |-> k, tokens |-> TokensOf(Of(k)), requests |-> Cardinality(Of(k))] : k \in {Key(e) : e \in es}}

ModelKey(e) == <<e.model, e.gateway>>

\* What a row would cost, in units that weigh models against each other.
Cost(r) == Price[r.key.model] * r.tokens
CostOf(rows) == MapThenSumSet(Cost, rows)

Within(acct, from, to) == {e \in events : e.acct = acct /\ from <= e.at /\ e.at <= to}

\* Mutant: third-party requests count.
EveryRequest(acct, from, to) ==
  Grouped(Within(acct, from, to),
          LAMBDA e : [person |-> Owner[e.device], name |-> NameOf[e.device], model |-> e.model, gateway |-> e.gateway])

\* Two devices of one member with one name are one row.
Usage(acct, from, to) ==
  Grouped({e \in Within(acct, from, to) : ~e.third},
          LAMBDA e : [person |-> Owner[e.device], name |-> NameOf[e.device], model |-> e.model, gateway |-> e.gateway])

ThirdPartyUsage(acct, from, to) == Grouped({e \in Within(acct, from, to) : e.third}, ModelKey)

UsageTimeline(acct, start, end, bin) ==
  Grouped({e \in Within(acct, start, end) : e.at < end},
          LAMBDA e : [bin |-> (e.at - start) \div bin, person |-> Owner[e.device], model |-> e.model,
                      third |-> e.third, gateway |-> e.gateway])

PersonUsage(person, since) ==
  Grouped({e \in events : Owner[e.device] = person /\ e.at >= since /\ ~e.third}, LAMBDA e : [model |-> e.model])

\* person is Missing in a report on everyone.
UsageSummary(since, person) ==
  Grouped({e \in events : e.at >= since /\ person \in {Missing, Owner[e.device]}},
          LAMBDA e : [person |-> Owner[e.device], device |-> e.device, acct |-> e.acct, model |-> e.model,
                      gateway |-> e.gateway, third |-> e.third])

Members(acct) == {p \in Persons : weights[acct][p] # Missing}

\* The newest sign-in of each app of a device that is not revoked, if it is
\* recent; two as recent stand for each other.
ActiveDevices(since) ==
  LET recent == {o \in signIns : o.device \notin revoked /\ o.at >= since}
      Same(o, p) == o.device = p.device /\ o.source = p.source /\ ProviderOf[o.acct] = ProviderOf[p.acct]
  IN  {o \in recent : \A p \in recent : Same(o, p) => p.at <= o.at}

HistoricalSnapshots(acct, limit, start, end) ==
  SelectSeq(snaps[acct][limit], LAMBDA s : start <= s.at /\ s.at < end)

-----------------------------------------------------------------------------
HasReset(b) == b.resets # Missing /\ Now >= b.resets

Window(b, length) ==
  IF b.resets = Missing THEN [start |-> Now - length, end |-> Now]
  ELSE [start |-> b.resets - length, end |-> IF b.resets < Now THEN b.resets ELSE Now]

\* Mutant: only those who are still members divide a window.
ApportionMembers(used, costs, shares) ==
  LET people == DOMAIN shares
      total == MapThenSumSet(LAMBDA p : costs[p], DOMAIN costs)
  IN  [shares |-> [p \in people |-> [allotted |-> shares[p],
                     used |-> IF p \in DOMAIN costs THEN used * costs[p] ELSE 0]],
       unattributed |-> IF total = 0 THEN used ELSE 0]

\* One window's use, divided in proportion to what each person's requests
\* cost.  With no cost at all it is no one's, and only members are listed.
Apportion(used, costs, shares) ==
  LET total == MapThenSumSet(LAMBDA p : costs[p], DOMAIN costs)
      people == DOMAIN shares \cup (IF total = 0 THEN {} ELSE DOMAIN costs)
  IN  [shares |-> [p \in people |->
                     [allotted |-> IF p \in DOMAIN shares THEN shares[p] ELSE 0,
                      used |-> IF p \in DOMAIN costs THEN used * costs[p] ELSE 0]],
       unattributed |-> IF total = 0 THEN used ELSE 0]

\* Nothing is known of a window that has closed since it was read.  Models and
\* devices are a member's when they cost something.
BucketOverview(b, acct, allRows) ==
  LET rows == IF HasReset(b) THEN {} ELSE allRows
      used == IF HasReset(b) \/ b.used = Missing THEN 0 ELSE b.used
      total == CostOf(rows)
      Part(rs) == IF total > 0 THEN used * CostOf(rs) ELSE 0
      Answered(rs) == MapThenSumSet(LAMBDA r : r.requests, rs)
      Of(p) == {r \in rows : r.key.person = p}
      models == {ModelKey(r.key) : r \in rows}
      Model(m) == {r \in rows : ModelKey(r.key) = m}
      split == Apportion(used, [p \in {r.key.person : r \in rows} |-> CostOf(Of(p))],
                         [p \in Members(acct) |-> weights[acct][p]])
      Member(p) ==
        [allotted |-> split.shares[p].allotted, used |-> split.shares[p].used, requests |-> Answered(Of(p)),
         models |-> {[model |-> m, used |-> Part(Of(p) \cap Model(m))] :
                       m \in {n \in models : CostOf(Of(p) \cap Model(n)) > 0}},
         devices |-> {[name |-> d, used |-> Part({r \in Of(p) : r.key.name = d})] :
                        d \in {n \in {r.key.name : r \in Of(p)} : CostOf({r \in Of(p) : r.key.name = n}) > 0}}]
  IN  [used |-> used, total |-> total, unattributed |-> split.unattributed,
       models |-> {[model |-> m, requests |-> Answered(Model(m)), tokens |-> TokensOf(Model(m)), used |-> Part(Model(m))] :
                     m \in models},
       members |-> [p \in DOMAIN split.shares |-> Member(p)]]

\* The chart covers one window length up to now, whatever the window is; one of
\* a model family shows no other's.
Timeline(acct, limit, window) ==
  LET bin == BinOf[window]
      bins == (window + bin - 1) \div bin
      start == (Now \div bin) * bin - (bins - 1) * bin
      rows == UsageTimeline(acct, start, Now, bin)
      family == IF limit = Missing THEN Missing ELSE FamilyOf[limit]
  IN  [start |-> start, bins |-> bins,
       points |-> {r \in rows : family = Missing \/ (~r.key.third /\ Family[r.key.model] = family)}]

InFamily(rows, limit) ==
  IF FamilyOf[limit] = Missing THEN rows ELSE {r \in rows : Family[r.key.model] = FamilyOf[limit]}

LimitOverview(acct, limit) ==
  LET b == Latest(HistoricalSnapshots(acct, limit, Now - Lookback, Now))
      w == Window(b, Span[limit])
      chart == Timeline(acct, limit, Span[limit])
  IN  [limit |-> limit, start |-> w.start, end |-> w.end, chart |-> chart,
       bucket |-> BucketOverview(b, acct, InFamily(Usage(acct, w.start, w.end), limit)),
       third |-> IF FamilyOf[limit] = Missing THEN ThirdPartyUsage(acct, chart.start, Now) ELSE {}]

\* An account without readings shows its last five hours, if it was used.
RecentUsage(acct) ==
  LET b == [resets |-> Missing, used |-> Missing]
      w == Window(b, FiveHours)
      rows == Usage(acct, w.start, w.end)
      third == ThirdPartyUsage(acct, w.start, w.end)
  IN  IF rows = {} /\ third = {} THEN {}
      ELSE {[limit |-> Missing, start |-> w.start, end |-> w.end, chart |-> Timeline(acct, Missing, FiveHours),
             bucket |-> BucketOverview(b, acct, rows), third |-> third]}

\* Each person once, with the names of their devices.
ActiveUsers(acct) ==
  LET active == {o \in ActiveDevices(Now - ActiveFor) : o.acct = acct}
  IN  {[person |-> p, devices |-> {NameOf[o.device] : o \in {q \in active : Owner[q.device] = p}}] :
         p \in {Owner[o.device] : o \in active}}

\* A member who left an account no longer sees it.
AccountOverview(acct) ==
  LET known == {l \in DOMAIN Span : HistoricalSnapshots(acct, l, Now - Lookback, Now) # <<>>}
  IN  [acct |-> acct, users |-> ActiveUsers(acct),
       limits |-> IF known # {} THEN {LimitOverview(acct, l) : l \in known} ELSE RecentUsage(acct)]

Totals(rows) ==
  [tokens |-> TokensOf(rows), requests |-> MapThenSumSet(LAMBDA r : r.requests, rows), cost |-> CostOf(rows)]

Overview(viewer, since) ==
  [accounts |-> {AccountOverview(a) : a \in {b \in Accounts : weights[b][viewer] # 0}},
   you |-> Totals(PersonUsage(viewer, since))]

-----------------------------------------------------------------------------
\* A usage report: official requests by member, account, model and device, and
\* the third-party ones apart.
UsageSince(since, person) ==
  LET rows == UsageSummary(since, person)
      official == {r \in rows : ~r.key.third}
      By(rs, Key(_)) == [k \in {Key(r.key) : r \in rs} |-> Totals({r \in rs : Key(r.key) = k})]
  IN  [total |-> Totals(official),
       members |-> By(official, LAMBDA k : k.person),
       accounts |-> By(official, LAMBDA k : k.acct),
       models |-> By(official, ModelKey),
       devices |-> By(official, LAMBDA k : k.device),
       thirdParty |-> LET third == By(rows \ official, ModelKey)
                      IN  [k \in DOMAIN third |-> [third[k] EXCEPT !.cost = 0]]]

MemberUsage(person, since) == UsageSince(since, person)
==============================================================================
