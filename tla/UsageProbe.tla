----------------------------- MODULE UsageProbe -----------------------------
(***************************************************************************)
(* Reading the quota of the account another program is signed into: Claude *)
(* Code's with its own credential (probeClaudeCode), Antigravity's with    *)
(* that of agy (probeAntigravity).  The credential does not say whose it   *)
(* is, so a reading goes to the account of the latest identity check; a    *)
(* round checks again when that one is more than Fresh old.  The identity  *)
(* loop checks too, and the user may switch accounts between any two       *)
(* steps.                                                                  *)
(***************************************************************************)
EXTENDS Naturals, FiniteSets

CONSTANTS
  Accounts,    \* accounts the program may be signed into
  None,        \* signed out; no check under way; no reference
  Fresh,       \* moments a check counts as current: a minute
  MaxTime,     \* bound: moments
  MaxReadings  \* bound: readings recorded

Providers == {"anthropic", "google"}

VARIABLES
  provider,  \* which of the two programs is read
  now,       \* the device's clock
  signedIn,  \* the account of the credential on disk
  valid,     \* whether the credential's access token has not expired
  timeline,  \* identity checks stored, by moment
  check,     \* the identity loop's answer, not stored yet
  round,     \* the usage round under way
  paused,    \* accounts not to be read for a while
  switched,  \* history: the moment of the latest switch
  readings   \* readings recorded, with what the properties ask of them

vars == <<provider, now, signedIn, valid, timeline, check, round, paused, switched, readings>>
program == <<provider, signedIn, valid, switched>>

Times == 1..MaxTime
Refs == Accounts \cup {None}
Check == [at : Times, ref : Refs]
NoCheck == [at |-> 0, ref |-> None]
Round == [pc : {"idle", "check", "store", "reload", "read", "save"},
          began : 0..MaxTime, ref : Refs, owner : Refs, failed : BOOLEAN, answer : Check \cup {NoCheck}]
Idle == [pc |-> "idle", began |-> 0, ref |-> None, owner |-> None, failed |-> FALSE, answer |-> NoCheck]
Reading == [ref : Accounts, owner : Accounts, began : Times, failed : BOOLEAN, switched : 0..MaxTime]

TypeOK ==
  /\ provider \in Providers /\ now \in Times
  /\ signedIn \in Refs /\ valid \in BOOLEAN
  /\ timeline \subseteq Check
  /\ \A x, y \in timeline : x.at = y.at => x = y
  /\ check \in Check \cup {NoCheck}
  /\ round \in Round
  /\ round.pc = "idle" => round = Idle
  /\ round.pc \in {"read", "save"} => round.ref # None
  /\ round.pc = "save" => round.owner # None
  /\ paused \subseteq Accounts
  /\ provider = "google" => paused = {}
  /\ switched \in 0..MaxTime
  /\ readings \subseteq Reading

Init ==
  /\ provider \in Providers /\ now = 1
  /\ signedIn \in Refs /\ valid = TRUE
  /\ timeline = {} /\ check = NoCheck
  /\ round = Idle
  /\ paused = {} /\ switched = 0
  /\ readings = {}

-----------------------------------------------------------------------------
(***************************************************************************)
(* The world: the clock, the program's own sign-in, pauses running out.    *)
(***************************************************************************)
Tick ==
  /\ now < MaxTime
  /\ now' = now + 1
  /\ UNCHANGED <<program, timeline, check, round, paused, readings>>

\* The account file and the credential change together.
Switch ==
  /\ \E a \in Refs \ {signedIn} : signedIn' = a
  /\ valid' = TRUE
  /\ switched' = now
  /\ UNCHANGED <<provider, now, timeline, check, round, paused, readings>>

\* The access token expires; the program renews it when it next runs.
Expiry ==
  /\ valid' = ~valid
  /\ UNCHANGED <<provider, now, signedIn, switched, timeline, check, round, paused, readings>>

PauseOver ==
  /\ \E a \in paused : paused' = paused \ {a}
  /\ UNCHANGED <<program, now, timeline, check, round, readings>>

-----------------------------------------------------------------------------
(***************************************************************************)
(* Identity checks: the answer, then its row.                              *)
(***************************************************************************)
Latest(table) == {x \in table : \A y \in table : y.at <= x.at}

\* resolve at this moment: the latest check, if it found a pooled account.
Resolved(table) == {x.ref : x \in Latest(table)} \ {None}

\* Mutant: a row for each check.
StoredAgain(table, c) == table \cup {c}

\* AddObservation: one row for each moment.
Stored(table, c) == IF \E x \in table : x.at = c.at THEN table ELSE table \cup {c}

Answer == [at |-> now, ref |-> signedIn]

CheckAnswered ==
  /\ check = NoCheck
  /\ check' = Answer
  /\ UNCHANGED <<program, now, timeline, round, paused, readings>>

\* The row is written, or the database refuses it.
CheckStored ==
  /\ check # NoCheck
  /\ check' = NoCheck
  /\ timeline' \in {timeline, Stored(timeline, check)}
  /\ UNCHANGED <<program, now, round, paused, readings>>

-----------------------------------------------------------------------------
(***************************************************************************)
(* One round of the usage loop.                                            *)
(***************************************************************************)
\* Mutant: a check counts as current for twice as long.
CurrentTwice(table) == \E x \in table : now - x.at <= 2 * Fresh

Current(table) == \E x \in table : now - x.at <= Fresh

\* Where a round goes once it has an account to read, or has none.
Resolve(r) ==
  /\ \E ref \in Refs :
       /\ IF Resolved(timeline) = {} THEN ref = None ELSE ref \in Resolved(timeline)
       /\ round' = IF ref = None \/ ref \in paused THEN Idle
                   ELSE [r EXCEPT !.pc = "read", !.ref = ref]

RoundStarts ==
  /\ round.pc = "idle"
  /\ Cardinality(readings) < MaxReadings
  /\ LET r == [Idle EXCEPT !.began = now]
     IN  IF Current(timeline) THEN Resolve(r) ELSE round' = [r EXCEPT !.pc = "check"]
  /\ UNCHANGED <<program, now, timeline, check, paused, readings>>

\* observe: an error leaves the timeline as it is, and the round goes on.
RoundChecks ==
  /\ round.pc = "check"
  /\ \/ round' = [round EXCEPT !.pc = "store", !.answer = Answer]
     \/ round' = [round EXCEPT !.pc = "reload", !.failed = TRUE]
  /\ UNCHANGED <<program, now, timeline, check, paused, readings>>

RoundStores ==
  /\ round.pc = "store"
  /\ \/ /\ timeline' = Stored(timeline, round.answer)
        /\ round' = [round EXCEPT !.pc = "reload"]
     \/ /\ round' = [round EXCEPT !.pc = "reload", !.failed = TRUE]
        /\ UNCHANGED timeline
  /\ UNCHANGED <<program, now, check, paused, readings>>

RoundReloads ==
  /\ round.pc = "reload"
  /\ Resolve(round)
  /\ UNCHANGED <<program, now, timeline, check, paused, readings>>

\* Probe, Quota: nothing to read when signed out or expired; Anthropic may
\* ask to be left alone, which is kept under the account the round goes by.
RoundReads ==
  /\ round.pc = "read"
  /\ \/ /\ signedIn # None /\ valid
        /\ round' = [round EXCEPT !.pc = "save", !.owner = signedIn]
        /\ UNCHANGED paused
     \/ /\ provider = "anthropic" /\ signedIn # None /\ valid
        /\ round' = Idle
        /\ paused' = paused \cup {round.ref}
     \/ /\ round' = Idle
        /\ UNCHANGED paused
  /\ UNCHANGED <<program, now, timeline, check, readings>>

\* AddSnapshot, or an error; either way the round is over.
RoundSaves ==
  /\ round.pc = "save"
  /\ round' = Idle
  /\ \/ readings' = readings \cup {[ref |-> round.ref, owner |-> round.owner, began |-> round.began,
                                    failed |-> round.failed, switched |-> switched]}
     \/ UNCHANGED readings
  /\ UNCHANGED <<program, now, timeline, check, paused>>

-----------------------------------------------------------------------------
World == Tick \/ Switch \/ Expiry \/ PauseOver
Identity == CheckAnswered \/ CheckStored
Usage == RoundStarts \/ RoundChecks \/ RoundStores \/ RoundReloads \/ RoundReads \/ RoundSaves

Next == World \/ Identity \/ Usage

Spec == Init /\ [][Next]_vars

-----------------------------------------------------------------------------
\* probeClaudeCode: "the timeline must be current too, or a reading taken
\* just after an account switch lands on the previous account".  A reading
\* is recorded under another account than the credential's only if the
\* switch came less than Fresh before the round or during it, or the
\* round's identity check failed, whatever the identity loop stores beside it.
OwnReading ==
  \A r \in readings : r.ref # r.owner => r.failed \/ r.switched + Fresh >= r.began
=============================================================================
