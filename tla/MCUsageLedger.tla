---------------------------- MODULE MCUsageLedger ----------------------------
(***************************************************************************)
(* Two instances of UsageLedger in one, and what Capacity computes from    *)
(* such a ledger beside them.  In the scene "kept", two devices of one     *)
(* person and one of somebody else report a request through OpenCodex, few *)
(* times each, late duplicates included.  In "agree" the two devices of    *)
(* one person correct a plain request more often.  In "capacity" a ledger  *)
(* of one account grows (MCCapacity).                                      *)
(***************************************************************************)
EXTENDS UsageLedger, MCCapacity

CONSTANTS d1, d2, d3, p1, p2, s1, c1, c2, c3, g1, anthropic, openai

MCPersonOf == [d \in Devices |-> IF d = d3 THEN p2 ELSE p1]
MCSessOf == [d \in Devices |-> s1]
MCProviderOf == [a \in Accounts |-> IF a = g1 THEN openai ELSE anthropic]

\* The two devices of one person are alike.
Twins == Permutations({d1, d2})

\* Requests to Claude, attributed to any of three accounts.
Plain == [acct : {c1, c2, c3}, third : {FALSE}, gw : {FALSE}]

\* A request through OpenCodex: third-party with a Claude account, either of
\* two, for a client that cannot tell, with the ChatGPT account for one that can.
ThroughOpenCodex ==
  {[acct |-> c1, third |-> TRUE, gw |-> TRUE], [acct |-> c2, third |-> TRUE, gw |-> TRUE],
   [acct |-> g1, third |-> FALSE, gw |-> TRUE]}

CONSTANT MaxQueued  \* bound: reports the devices of "kept" queue together

VARIABLE scene

Agree == INSTANCE UsageLedger
           WITH Accounts <- {c1, c2, c3}, Readings <- Plain, Evidence <- {FALSE},
                MaxOut <- 1, MaxReads <- 4, MaxLate <- 0

\* The scenes begin in one state each, but for what they are about: the device
\* that reports for the record's owner, or the account's plans.
MCInit ==
  /\ Init /\ DemandInit
  /\ scene \in {"kept", "agree", "capacity"}
  /\ IF scene = "capacity" THEN by = d3 ELSE history = {}

MCNext ==
  /\ UNCHANGED scene
  /\ \/ /\ scene = "kept" /\ Next /\ Len(sent'[d1]) + Len(sent'[d2]) + Len(sent'[d3]) <= MaxQueued
        /\ UNCHANGED demand
     \/ /\ scene = "agree" /\ \E d \in {d1, d2} : Agree!ReadLog(d) \/ Agree!Deliver(d)
        /\ UNCHANGED demand
     \/ scene = "capacity" /\ DemandNext /\ UNCHANGED vars

MCSpec == MCInit /\ [][MCNext]_<<scene, vars, demand>>

-----------------------------------------------------------------------------
\* The value an overview shows of a limit is settled by the readings: by no
\* order they arrive in, and by no stale one (quota.Latest).
LatestSettled == scene = "capacity" => LatestOrderFree /\ StaleNeverLowers

\* The resets of a chart are apart, and the most reported ones are there
\* (pastResets, timeline).
ResetsShown == scene = "capacity" => ResetsApart /\ MostReportedShown

\* The two curves of a capacity report show the demand of every window and the
\* highest use (Rolling, ThinSeries).
CurvesTrue == scene = "capacity" => RollingIsDemand /\ SeriesShowsPeak

\* Replays of sessions and of weeks count demand once and refuse only past the
\* limit (ReplaySessions, ReplayWeekly).
ReplaysAddUp == scene = "capacity" => SessionsRefuse /\ WeeksTile

\* The windows readings give, the samples taken of them, and the rate derived
\* from samples (FiveHourWindows, WeeklyWindows, FiveHourRate).
RateMeasured == scene = "capacity" => GroupsAreWindows /\ SamplesApart /\ RateDetermined
=============================================================================
