------------------------------ MODULE MCParts -------------------------------
(***************************************************************************)
(* Four components that share no state, explored side by side: each        *)
(* behaviour is one of UsageProbe or StatusLine on a device, or of         *)
(* Accounts or Dashboard on the server, while the others stay as they      *)
(* begin.                                                                  *)
(***************************************************************************)
EXTENDS Naturals, FiniteSets, TLC

CONSTANTS
  None, MaxTime,
  Accounts, Fresh, MaxReadings,
  Lines, Exes, Nothing, NotSaved, MaxEdits, MaxFails,
  Admins, Bases, Tiers, MaxMoments, MaxWork,
  Visitors, Hints, Names, SessionTTL, CacheTTL, MaxLogins, MaxRestarts

ASSUME PartsConstants ==
  /\ None \notin Accounts \cup Tiers \cup Hints \cup Names
  /\ Nothing \notin Lines \cup Exes /\ NotSaved \notin Lines \cup Exes \cup {Nothing}
  /\ Lines \cap Exes = {}
  /\ {MaxTime, MaxMoments} \subseteq Nat \ {0}
  /\ {Fresh, MaxReadings, MaxEdits, MaxFails, MaxWork, SessionTTL, CacheTTL, MaxLogins, MaxRestarts} \subseteq Nat

VARIABLES
  part,
  now,
  provider, signedIn, valid, timeline, check, round, paused, switched, readings,
  file, disk, mem, exe, op, own, stale, edits, fails,
  rows, intervals, locks, tx, sent, arranged, work,
  hint, label, published, sessions, cookie, cache, visit, shown, ended, logins, restarts

vars == <<part, now, provider, signedIn, valid, timeline, check, round, paused, switched, readings,
          file, disk, mem, exe, op, own, stale, edits, fails,
          rows, intervals, locks, tx, sent, arranged, work,
          hint, label, published, sessions, cookie, cache, visit, shown, ended, logins, restarts>>

Probe == INSTANCE UsageProbe
Line == INSTANCE StatusLine
Acct == INSTANCE Accounts WITH MaxTime <- MaxMoments
Dash == INSTANCE Dashboard WITH MaxTime <- MaxMoments

\* None is no row, no admin and no number.
ASSUME PartsNone == None \notin Admins \cup Nat \cup Acct!Row

\* The parts never meet, so they name what is interchangeable alike: Accounts,
\* Lines and Visitors are one set, Exes, Admins and Hints another.
Symmetry == Permutations(Accounts) \cup Permutations(Admins)

probe == <<provider, signedIn, valid, timeline, check, round, paused, switched, readings>>
line == <<file, disk, mem, exe, op, own, stale, edits, fails>>
acct == <<rows, intervals, locks, tx, sent, arranged, work>>
dash == <<hint, label, published, sessions, cookie, cache, visit, shown, ended, logins, restarts>>

\* The parts that rest begin in one state, whichever it is.  Antigravity's
\* readings are Claude Code's that are never paused.
Init ==
  /\ part \in {"probe", "line", "acct", "dash"}
  /\ Probe!Init /\ Line!Init /\ Acct!Init /\ Dash!Init
  /\ provider = "anthropic"
  /\ part # "probe" => signedIn = None
  /\ part # "line" => file = Nothing /\ exe = CHOOSE e \in Exes : TRUE

\* Bound: an account's plan depends on its own readings, and one has them.
OnePlanned == Cardinality({a \in Accounts : sent'[a] # {}}) <= 1

Next ==
  \/ part = "probe" /\ Probe!Next /\ UNCHANGED <<part, line, acct, dash>>
  \/ part = "line" /\ Line!Next /\ UNCHANGED <<part, now, probe, acct, dash>>
  \/ part = "acct" /\ Acct!Next /\ OnePlanned /\ UNCHANGED <<part, now, probe, line, dash>>
  \/ part = "dash" /\ Dash!Next /\ UNCHANGED <<part, probe, line, acct>>

Spec == Init /\ [][Next]_vars

-----------------------------------------------------------------------------
\* Every part is well typed, and no shim is remembered as the user's line.
TypeOK ==
  /\ Line!TypeOK /\ Acct!TypeOK
  \* In each of these the clock has a last moment of its own.
  /\ part = "probe" => Probe!TypeOK
  /\ part = "dash" => Dash!TypeOK

\* A reading is recorded under another account than the credential's only
\* around a switch, or when the identity check failed (UsageProbe).
OwnReading == Probe!OwnReading

\* While a shim is installed the line the user chose last is remembered,
\* and turning the capture off puts it back (StatusLine).
OriginalKept == Line!OriginalKept
PutsBack == Line!PutsBack

\* An account's plan is that of its newest reading (Accounts).
PlanFollowsNewest == Acct!PlanFollowsNewest

\* Two admins at once: two plan intervals of an account never overlap, and the
\* accounts stand in the order saved last (Accounts).
AdminsApart == Acct!IntervalsApart /\ Acct!OneOrder

\* The dashboard shows no masked email, and unpublished only to an admin
\* (Dashboard).
NoEmailShown == Dash!NoEmailShown
PreviewIsAdmins == Dash!PreviewIsAdmins
=============================================================================
