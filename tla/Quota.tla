-------------------------------- MODULE Quota --------------------------------
(***************************************************************************)
(* What an overview shows of one limit of an account, from the readings    *)
(* that any device reported: its current value (quota.Latest) and when it  *)
(* was reset (query.timeline).  Buckets do not influence each other, so    *)
(* one is kept.                                                            *)
(*                                                                         *)
(* A live reading is the provider's figure as of the moment it was read.   *)
(* A statusLine reading carries the figure of its session's last response, *)
(* which can be long out of date.                                          *)
(***************************************************************************)
EXTENDS Integers, Sequences, FiniteSets, SequencesExt

CONSTANTS
  SameWindowSlack,  \* jitter in a window's reported reset time
  Minute,           \* one minute in units of time
  ResetStarted,     \* how far into a window a reading must be
  Missing           \* an optional value a provider left out

ASSUME QuotaAssumption ==
  SameWindowSlack \in Nat /\ ResetStarted \in Nat /\ Minute \in Nat \ {0}

\* s in the order of Key, equal keys as they were.
SortedBy(s, Key(_)) ==
  LET Before(i, j) == Key(s[i]) < Key(s[j]) \/ (Key(s[i]) = Key(s[j]) /\ i < j)
      Place(i) == Cardinality({j \in DOMAIN s : Before(j, i)}) + 1
  IN  [k \in DOMAIN s |-> s[CHOOSE i \in DOMAIN s : Place(i) = k]]

At(r) == r.at

\* Mutant: more use counts, whichever window it is of.
ReplacesWhenMore(next, cur) ==
  /\ next.at > cur.at
  /\ \/ Missing \in {next.resets, cur.resets, next.used, cur.used}
     \/ next.used > cur.used

\* Mutant: as if the figure were as new as the reading.
ReplacesWhenNewer(next, cur) == next.at > cur.at

StatusLineReplaces(next, cur) ==
  /\ next.at > cur.at
  /\ \/ Missing \in {next.resets, cur.resets, next.used, cur.used}
     \/ next.resets - cur.resets > SameWindowSlack
     \/ /\ next.resets - cur.resets \in -SameWindowSlack .. SameWindowSlack
        /\ next.used > cur.used

\* The newest live reading, the first of equally new ones.
Newest(live) ==
  FoldLeft(LAMBDA cur, r : IF cur = Missing \/ r.at > cur.at THEN r ELSE cur, Missing, live)

\* Mutant: stale readings are taken as they come.
AsUploaded(stale) == stale

OldestFirst(stale) == SortedBy(stale, At)

Latest(readings) ==
  LET live == SelectSeq(readings, LAMBDA r : ~r.statusLine)
      stale == OldestFirst(SelectSeq(readings, LAMBDA r : r.statusLine))
  IN  FoldLeft(LAMBDA cur, r : IF cur = Missing \/ StatusLineReplaces(r, cur) THEN r ELSE cur,
               Newest(live), stale)

-----------------------------------------------------------------------------
RoundedReset(r) == ((r.resets + Minute \div 2) \div Minute) * Minute

\* A reading of a window that has not started reports its reset a full window
\* away.
Running(r, window) == r.resets - r.at <= window - ResetStarted

\* Mutant: of resets closer than merge the first stays.
MergeResetFirst(list, c, merge) ==
  IF list.out # <<>> /\ c.at - Last(list.out) < merge THEN list
  ELSE [out |-> Append(list.out, c.at), best |-> c.support]

\* Of resets closer than merge the one that the most readings report stays;
\* best is the support of the last one listed.
MergeReset(list, c, merge) ==
  IF list.out # <<>> /\ c.at - Last(list.out) < merge
  THEN IF c.support >= list.best
       THEN [out |-> Append(Front(list.out), c.at), best |-> c.support]
       ELSE list
  ELSE [out |-> Append(list.out, c.at), best |-> c.support]

\* The resets reported within (start, end], with the readings that report
\* each, unless more readings describe a window still running past it.
ResetCandidates(readings, start, end, window, merge) ==
  LET running == {i \in DOMAIN readings : Running(readings[i], window)}
      Support(at) == Cardinality({i \in running : RoundedReset(readings[i]) = at})
      Against(at) == Cardinality({i \in running :
                       LET resets == RoundedReset(readings[i])
                       IN  readings[i].at < at /\ resets - at > merge /\ resets - window < at})
      reported == {RoundedReset(readings[i]) : i \in running}
  IN  {[at |-> at, support |-> Support(at)] :
         at \in {t \in reported : start < t /\ t <= end /\ Support(t) >= Against(t)}}

PastResets(readings, start, end, window, merge) ==
  LET candidates == ResetCandidates(readings, start, end, window, merge)
      sorted == SetToSortSeq(candidates, LAMBDA c, d : c.at < d.at)
  IN  FoldLeft(LAMBDA list, c : MergeReset(list, c, merge), [out |-> <<>>, best |-> 0], sorted).out

\* Mutant: the current window's start is listed whatever is near it.
NearlyListed(at, past, merge) == at \in Range(past)

\* A reset already listed that is the same as at.
Listed(at, past, merge) ==
  \E i \in DOMAIN past : past[i] - at \in -(merge - 1) .. merge - 1

\* The resets of a chart over (start, now], the start of the current window
\* among them.
TimelineResets(readings, start, now, window) ==
  LET merge == window \div 2
      past == PastResets(readings, start, now, window, merge)
      b == Latest(readings)
      at == RoundedReset([resets |-> b.resets - window])
  IN  IF Running(b, window) /\ at > start /\ ~Listed(at, past, merge)
      THEN SortSeq(Append(past, at), <)
      ELSE past
==============================================================================
