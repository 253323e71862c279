---------------------------- MODULE MCParts_proofs ----------------------------
(***************************************************************************)
(* Proofs about the parts MCParts explores, for every value of the         *)
(* constants: the statusLine capture, the usage probes, the dashboard and  *)
(* the accounts.  Each is proved of the component's own specification, and *)
(* PartsImplement says that MCParts runs just those.                       *)
(***************************************************************************)
EXTENDS MCParts, TLAPS

\* A behaviour of the exploration is one of the part it is of, and of the
\* statusLine capture and the accounts whichever part that is: what is proved
\* of a component's specification holds of the runs.
THEOREM PartsImplement ==
  Spec => /\ Line!Spec /\ Acct!Spec
          /\ part = "probe" => Probe!Spec
          /\ part = "dash" => Dash!Spec
<1>1. Init => Line!Init /\ Acct!Init /\ Probe!Init /\ Dash!Init
  BY DEF Init
<1>2. [Next]_vars => [Line!Next]_(Line!vars)
  BY DEF Next, vars, line, Line!vars
<1>3. [Next]_vars => [Acct!Next]_(Acct!vars)
  BY DEF Next, vars, acct, Acct!vars
<1>4. part = "probe" /\ [Next]_vars => (part = "probe")' /\ [Probe!Next]_(Probe!vars)
  BY DEF Next, vars, probe, Probe!vars
<1>5. part = "dash" /\ [Next]_vars => (part = "dash")' /\ [Dash!Next]_(Dash!vars)
  BY DEF Next, vars, dash, Dash!vars
<1>6. Spec => Line!Spec /\ Acct!Spec
  BY <1>1, <1>2, <1>3, PTL DEF Spec, Line!Spec, Acct!Spec
<1>7. Spec => (part = "probe" => Probe!Spec)
  BY <1>1, <1>4, PTL DEF Spec, Probe!Spec
<1>8. Spec => (part = "dash" => Dash!Spec)
  BY <1>1, <1>5, PTL DEF Spec, Dash!Spec
<1> QED BY <1>6, <1>7, <1>8, PTL

-----------------------------------------------------------------------------
(***************************************************************************)
(* StatusLine: what is remembered is the user's line.                      *)
(***************************************************************************)
\* The typed state of a change: on its way to the file it carries a line of
\* the user's own when it puts one back, a shim when it installs one.
LineTyped ==
  /\ Line!TypeOK
  /\ op.pc \in {"apply", "write"} /\ op.restore => op.next \in Line!Own
  /\ op.pc \in {"save", "apply", "write"} /\ ~op.restore => op.next \in Exes
  /\ op.pc = "forget" => op.restore

\* The strengthening of OriginalKept: the file never holds a line that is
\* neither a shim nor the user's own, and, unless a restart found the line
\* forgotten under a shim, what is remembered, and what a restore carries, is
\* the user's.
LineKept ==
  /\ file \in Exes \/ file = own
  /\ op.pc = "forget" => file \notin Exes
  /\ op.pc = "save" /\ op.restore => file \notin Exes /\ mem = NotSaved
  /\ ~stale =>
       /\ mem \in {own, NotSaved} /\ disk \in {own, NotSaved}
       /\ op.pc = "save" /\ ~op.restore => mem = own
       /\ op.pc \in {"apply", "write"} /\ op.restore => op.next = own
       /\ file \in Exes \/ op.pc \in {"apply", "write"} => mem = own /\ disk = own

\* A change that goes on to its next step keeps what it carries.
LEMMA MovedOp ==
  ASSUME NEW o \in Line!Op, NEW p \in {"idle", "repair", "save", "apply", "write", "forget"}
  PROVE  /\ [o EXCEPT !.pc = p] \in Line!Op
         /\ [o EXCEPT !.pc = p].pc = p
         /\ [o EXCEPT !.pc = p].prev = o.prev
         /\ [o EXCEPT !.pc = p].next = o.next
         /\ [o EXCEPT !.pc = p].restore = o.restore
BY DEF Line!Op

\* No change under way is a well typed change.
LEMMA IdleOp == Line!Idle \in Line!Op /\ Line!Idle.pc = "idle"
BY DEF Line!Op, Line!Idle, Line!Own

\* Installing either finds its shim in place or remembers a line and begins
\* to write.
LEMMA InstallOp ==
  ASSUME LineTyped, Line!Install
  PROVE  /\ op' \in Line!Op /\ mem' \in Line!Own \cup {NotSaved}
         /\ \/ op'.pc = "idle" /\ mem' = mem
            \/ op'.pc = "save" /\ ~op'.restore /\ op'.next \in Exes
<1>1. CASE file = exe
  BY <1>1, IdleOp DEF LineTyped, Line!TypeOK, Line!Install
<1>2. CASE file # exe
  <2>1. op' \in Line!Op /\ op'.pc = "save" /\ ~op'.restore /\ op'.next \in Exes
    <3>1. op' = [pc |-> "save", prev |-> file, next |-> exe, restore |-> FALSE]
      BY <1>2 DEF Line!Install
    <3>2. file \in Line!Own \cup Exes /\ exe \in Exes
      BY DEF LineTyped, Line!TypeOK
    <3> QED BY <3>1, <3>2 DEF Line!Op
  <2>2. mem' \in Line!Own \cup {NotSaved}
    BY <1>2 DEF LineTyped, Line!TypeOK, Line!Install, Line!Remembered, Line!IsShim
  <2> QED BY <2>1, <2>2
<1> QED BY <1>1, <1>2

\* Every step keeps the types.
LEMMA LineSteps == LineTyped /\ [Line!Next]_(Line!vars) => LineTyped'
<1> SUFFICES ASSUME LineTyped, [Line!Next]_(Line!vars) PROVE LineTyped'
  OBVIOUS
<1> USE PartsConstants DEF LineTyped, Line!TypeOK
<1>1. CASE Line!InstallStatusLine
  BY <1>1, InstallOp DEF Line!InstallStatusLine
<1>2. CASE Line!RepairInstalledPaths
  BY <1>2, InstallOp, IdleOp DEF Line!RepairInstalledPaths
<1>3. CASE Line!RestoreStatusLine
  BY <1>3 DEF Line!RestoreStatusLine, Line!RestorePlan, Line!Op, Line!Own
<1>4. CASE Line!Save
  <2>1. fails' \in 0..MaxFails
    BY <1>4 DEF Line!Save, Line!Fails
  <2> DEFINE moved == [op EXCEPT !.pc = "apply"]
  <2>2. moved \in Line!Op /\ moved.pc = "apply" /\ moved.restore = op.restore /\ moved.next = op.next
    BY MovedOp
  <2>3. op' = Line!Idle \/ (op' = moved /\ ~op.restore)
    BY <1>4 DEF Line!Save
  <2>4. op' \in Line!Op /\ op'.pc \in {"idle", "apply"} /\ (op'.pc # "idle" => ~op'.restore /\ op'.next \in Exes)
    BY <1>4, <2>2, <2>3, IdleOp DEF Line!Save
  <2> QED BY <1>4, <2>1, <2>4 DEF Line!Save
<1>5. CASE Line!ApplyReads
  <2> DEFINE moved == [op EXCEPT !.pc = "write"]
  <2>1. moved \in Line!Op /\ moved.pc = "write" /\ moved.restore = op.restore /\ moved.next = op.next
    BY MovedOp
  <2> QED BY <1>5, <2>1, IdleOp DEF Line!ApplyReads
<1>6. CASE Line!ApplyWrites
  <2>1. fails' \in 0..MaxFails
    BY <1>6 DEF Line!ApplyWrites, Line!Fails
  <2>2. op' \in Line!Op /\ (op'.pc = "idle" \/ (op'.pc = "forget" /\ op'.restore))
    <3> DEFINE moved == [op EXCEPT !.pc = "forget"]
    <3>1. moved \in Line!Op /\ moved.pc = "forget" /\ moved.restore = op.restore
      BY MovedOp
    <3>2. op' = Line!Idle \/ (op' = moved /\ op.restore)
      BY <1>6 DEF Line!ApplyWrites
    <3> QED BY <3>1, <3>2, IdleOp
  <2>3. file' \in Line!Own \cup Exes /\ own' \in Line!Own
    BY <1>6 DEF Line!ApplyWrites, Line!Op
  <2> QED BY <1>6, <2>1, <2>2, <2>3 DEF Line!ApplyWrites
<1>7. CASE Line!Forget
  <2> DEFINE moved == [op EXCEPT !.pc = "save"]
  <2>1. moved \in Line!Op /\ moved.pc = "save" /\ moved.restore = op.restore
    BY MovedOp
  <2> QED BY <1>7, <2>1 DEF Line!Forget
<1>8. CASE Line!UserEdits
  BY <1>8 DEF Line!UserEdits
<1>9. CASE Line!Restart
  <2>1. fails' \in 0..MaxFails
    BY <1>9 DEF Line!Restart, Line!Fails
  <2>2. op' \in Line!Op /\ op'.pc = "repair"
    BY <1>9, IdleOp, MovedOp DEF Line!Restart
  <2> QED BY <1>9, <2>1, <2>2 DEF Line!Restart
<1>10. CASE UNCHANGED Line!vars
  BY <1>10 DEF Line!vars
<1> QED
  BY <1>1, <1>2, <1>3, <1>4, <1>5, <1>6, <1>7, <1>8, <1>9, <1>10 DEF Line!Next

\* Every step keeps what the invariant says of the remembered line.
LEMMA LineKeeps == LineTyped /\ LineKept /\ [Line!Next]_(Line!vars) => LineKept'
<1> SUFFICES ASSUME LineTyped, LineKept, [Line!Next]_(Line!vars) PROVE LineKept'
  OBVIOUS
<1> USE PartsConstants DEF LineKept
<1>1. ASSUME Line!Install, UNCHANGED <<file, disk, exe, own, stale, edits, fails>>
      PROVE  LineKept'
  <2>1. CASE file = exe
    BY <1>1, <2>1, IdleOp DEF Line!Install, LineTyped, Line!TypeOK
  <2>2. CASE file # exe
    <3>1. op'.pc = "save" /\ ~op'.restore
      BY <1>1, <2>2 DEF Line!Install
    <3>2. ~stale => mem' = own
      BY <1>1, <2>2 DEF Line!Install, Line!Remembered, Line!IsShim
    <3> QED BY <1>1, <3>1, <3>2 DEF LineTyped, Line!TypeOK, Line!Own
  <2> QED BY <2>1, <2>2
<1>2. CASE Line!InstallStatusLine
  BY <1>1, <1>2 DEF Line!InstallStatusLine
<1>3. CASE Line!RepairInstalledPaths
  BY <1>1, <1>3, IdleOp DEF Line!RepairInstalledPaths
<1>4. CASE Line!RestoreStatusLine
  BY <1>4 DEF Line!RestoreStatusLine, Line!RestorePlan, Line!IsShim, LineTyped, Line!TypeOK, Line!Own
<1>5. CASE Line!Save
  <2> DEFINE moved == [op EXCEPT !.pc = "apply"]
  <2>1. moved.pc = "apply" /\ moved.restore = op.restore
    BY MovedOp DEF LineTyped, Line!TypeOK
  <2>2. CASE op' = Line!Idle /\ disk' = mem /\ op.restore /\ ~stale'
    BY <1>5, <2>2, IdleOp DEF Line!Save
  <2>3. CASE op' = moved /\ disk' = mem /\ ~op.restore /\ stale' = stale
    BY <1>5, <2>1, <2>3 DEF Line!Save
  <2>4. CASE op' = Line!Idle /\ UNCHANGED <<disk, stale>>
    BY <1>5, <2>4, IdleOp DEF Line!Save
  <2> QED BY <1>5, <2>2, <2>3, <2>4 DEF Line!Save, LineTyped, Line!TypeOK
<1>6. CASE Line!ApplyReads
  <2> DEFINE moved == [op EXCEPT !.pc = "write"]
  <2>1. moved.pc = "write" /\ moved.restore = op.restore /\ moved.next = op.next
    BY MovedOp DEF LineTyped, Line!TypeOK
  <2> QED BY <1>6, <2>1, IdleOp DEF Line!ApplyReads
<1>7. CASE Line!ApplyWrites
  <2> DEFINE moved == [op EXCEPT !.pc = "forget"]
  <2>1. moved.pc = "forget"
    BY MovedOp DEF LineTyped, Line!TypeOK
  <2>2. CASE file' = op.next /\ op.restore /\ op' = moved /\ own' = op.next
    BY <1>7, <2>1, <2>2 DEF Line!ApplyWrites, LineTyped, Line!Own
  <2>3. CASE file' = op.next /\ ~op.restore /\ op' = Line!Idle /\ own' = own
    BY <1>7, <2>3, IdleOp DEF Line!ApplyWrites, LineTyped
  <2>4. CASE op' = Line!Idle /\ UNCHANGED <<file, own>>
    BY <1>7, <2>4, IdleOp DEF Line!ApplyWrites
  <2> QED BY <1>7, <2>2, <2>3, <2>4 DEF Line!ApplyWrites
<1>8. CASE Line!Forget
  <2> DEFINE moved == [op EXCEPT !.pc = "save"]
  <2>1. moved.pc = "save" /\ moved.restore = op.restore
    BY MovedOp DEF LineTyped, Line!TypeOK
  <2> QED BY <1>8, <2>1 DEF Line!Forget, LineTyped
<1>9. CASE Line!UserEdits
  BY <1>9 DEF Line!UserEdits, LineTyped, Line!TypeOK, Line!Own
<1>10. CASE Line!Restart
  <2>1. op'.pc = "repair"
    BY <1>10, IdleOp, MovedOp DEF Line!Restart
  <2>2. CASE UNCHANGED <<disk, stale>>
    BY <1>10, <2>1, <2>2 DEF Line!Restart
  <2>3. CASE disk' = NotSaved /\ stale' = (stale \/ file \in Exes)
    BY <1>10, <2>1, <2>3 DEF Line!Restart
  <2> QED BY <1>10, <2>2, <2>3 DEF Line!Restart, Line!IsShim
<1>11. CASE UNCHANGED Line!vars
  BY <1>11 DEF Line!vars
<1> QED
  BY <1>2, <1>3, <1>4, <1>5, <1>6, <1>7, <1>8, <1>9, <1>10, <1>11 DEF Line!Next

\* The invariant holds of a device that was never touched.
LEMMA LineInitially == Line!Init => LineTyped /\ LineKept
<1> SUFFICES ASSUME Line!Init PROVE LineTyped /\ LineKept
  OBVIOUS
<1>1. 0 \in 0..MaxEdits /\ 0 \in 0..MaxFails
  BY PartsConstants
<1>2. LineTyped
  BY <1>1, IdleOp DEF Line!Init, LineTyped, Line!TypeOK
<1>3. LineKept
  BY PartsConstants, IdleOp DEF Line!Init, LineKept, Line!Own
<1> QED BY <1>2, <1>3

\* The statusLine capture is well typed, whatever lines and shims there are.
THEOREM LineTypeCorrect == Line!Spec => []Line!TypeOK
<1>1. LineTyped => Line!TypeOK
  BY DEF LineTyped
<1> QED BY <1>1, LineInitially, LineSteps, PTL DEF Line!Spec

\* The whole invariant holds in every reachable state.
THEOREM LineAlwaysKept == Line!Spec => [](LineTyped /\ LineKept)
BY LineInitially, LineSteps, LineKeeps, PTL DEF Line!Spec

\* While a shim is installed the line the user chose last is remembered
\* (internal/client/statusline), for any number of edits, failures and
\* restarts.
THEOREM OriginalRemembered == Line!Spec => []OriginalKept
<1>1. LineKept => OriginalKept
  BY DEF LineKept, OriginalKept, Line!OriginalKept, Line!IsShim
<1> QED BY <1>1, LineAlwaysKept, PTL

\* A restore that writes puts the line the user chose last back.
THEOREM OriginalPutBack == Line!Spec => PutsBack
<1>1. LineTyped /\ LineKept /\ [Line!Next]_(Line!vars) =>
        [op.pc = "write" /\ op.restore /\ op.next = file' /\ ~stale => file' = own]_(Line!vars)
  BY DEF LineKept
<1> QED BY <1>1, LineAlwaysKept, PTL DEF PutsBack, Line!PutsBack, Line!Spec

-----------------------------------------------------------------------------
(***************************************************************************)
(* UsageProbe: a reading goes to the account it was read for.              *)
(***************************************************************************)
\* The typed state of a round: it has an identity answer while it stores one
\* and knows when it began while it runs.
ProbeTyped ==
  /\ Probe!TypeOK
  /\ round.pc = "store" => round.answer \in Probe!Check
  /\ round.pc # "idle" => round.began \in Probe!Times

\* The strengthening of OwnReading: what the timeline, the check and a round
\* know of another account than the one signed in was learned before the last
\* switch, and a round that trusts the timeline has an entry of its own time
\* in it.
ProbeOwn ==
  /\ switched <= now
  /\ \A x \in timeline : x.at <= now /\ (x.ref = signedIn \/ x.at <= switched)
  /\ check # Probe!NoCheck => check.at <= now /\ (check.ref = signedIn \/ check.at <= switched)
  /\ round.pc # "idle" => round.began <= now
  /\ round.pc = "store" =>
       /\ round.answer.at <= now /\ round.answer.at >= round.began
       /\ round.answer.ref = signedIn \/ round.answer.at <= switched
  /\ round.pc = "reload" /\ ~round.failed => \E x \in timeline : x.at >= round.began
  /\ round.pc = "read" /\ round.ref # signedIn => round.failed \/ switched + Fresh >= round.began
  /\ round.pc = "save" /\ round.ref # round.owner => round.failed \/ switched + Fresh >= round.began
  /\ OwnReading

\* The bounds are numbers.
LEMMA ProbeBounds == MaxTime \in Nat /\ Fresh \in Nat /\ MaxReadings \in Nat
BY PartsConstants

\* No round under way is a well typed round.
LEMMA IdleRound == Probe!Idle \in Probe!Round /\ Probe!Idle.pc = "idle"
BY ProbeBounds DEF Probe!Idle, Probe!Round, Probe!NoCheck, Probe!Refs

\* What resolving the signed-in account makes of a round: it ends, or goes on
\* to read for the account of the timeline's newest entry.
Resolved(r) ==
  \/ round' = Probe!Idle
  \/ /\ round' \in Probe!Round /\ round'.pc = "read"
     /\ round'.began = r.began /\ round'.failed = r.failed
     /\ round'.ref \in Accounts
     /\ \E x \in timeline : x.ref = round'.ref /\ \A y \in timeline : y.at <= x.at

\* Resolving does just that.
LEMMA ResolvedRound ==
  ASSUME ProbeTyped, NEW r \in Probe!Round, Probe!Resolve(r)
  PROVE  Resolved(r)
<1>1. CASE round' = Probe!Idle
  BY <1>1 DEF Resolved
<1>2. CASE round' # Probe!Idle
  <2>1. PICK ref \in Probe!Resolved(timeline) : round' = [r EXCEPT !.pc = "read", !.ref = ref] /\ ref # None
    BY Zenon, <1>2 DEF Probe!Resolve
  <2>2. PICK x \in timeline : x.ref = ref /\ \A y \in timeline : y.at <= x.at
    BY <2>1 DEF Probe!Resolved, Probe!Latest
  <2>3. ref \in Accounts
    BY <2>1, <2>2 DEF ProbeTyped, Probe!TypeOK, Probe!Check, Probe!Refs
  <2>4. /\ round' \in Probe!Round /\ round'.pc = "read" /\ round'.ref = ref
        /\ round'.began = r.began /\ round'.failed = r.failed
    BY <2>1, <2>3 DEF Probe!Round, Probe!Refs
  <2> QED BY <2>2, <2>3, <2>4 DEF Resolved
<1> QED BY <1>1, <1>2 DEF Resolved

\* Resolving keeps the types.
LEMMA ResolvedTyped ==
  ASSUME ProbeTyped, NEW r, r.began \in Probe!Times, Resolved(r),
         UNCHANGED <<provider, now, signedIn, valid, timeline, check, paused, switched, readings>>
  PROVE  ProbeTyped'
<1>1. CASE round' = Probe!Idle
  BY <1>1, IdleRound DEF ProbeTyped, Probe!TypeOK
<1>2. CASE round' # Probe!Idle
  <2>1. /\ round' \in Probe!Round /\ round'.pc = "read"
        /\ round'.began \in Probe!Times /\ round'.ref \in Accounts
    BY <1>2 DEF Resolved
  <2>2. round'.ref # None
    BY <2>1, PartsConstants
  <2> QED BY <2>1, <2>2 DEF ProbeTyped, Probe!TypeOK
<1> QED BY <1>1, <1>2

\* Every step keeps the types.
LEMMA ProbeTypes == ProbeTyped /\ [Probe!Next]_(Probe!vars) => ProbeTyped'
<1> SUFFICES ASSUME ProbeTyped, [Probe!Next]_(Probe!vars) PROVE ProbeTyped'
  OBVIOUS
<1> USE ProbeBounds, IdleRound DEF ProbeTyped, Probe!TypeOK, Probe!program
<1>1. CASE Probe!Tick
  BY <1>1 DEF Probe!Tick, Probe!Times
<1>2. CASE Probe!Switch
  BY <1>2 DEF Probe!Switch, Probe!Times
<1>3. CASE Probe!Expiry
  BY <1>3 DEF Probe!Expiry
<1>4. CASE Probe!PauseOver
  BY <1>4 DEF Probe!PauseOver
<1>5. CASE Probe!CheckAnswered
  BY <1>5 DEF Probe!CheckAnswered, Probe!Answer, Probe!Check
<1>6. CASE Probe!CheckStored
  BY <1>6 DEF Probe!CheckStored, Probe!Stored
<1>7. CASE Probe!RoundStarts
  <2> DEFINE r == [Probe!Idle EXCEPT !.began = now]
  <2>1. r \in Probe!Round /\ r.began = now
    <3>1. now \in 0..MaxTime
      BY DEF Probe!Times
    <3> QED BY <3>1 DEF Probe!Round
  <2>2. CASE Probe!Resolve(r)
    <3> HIDE DEF r
    <3>1. Resolved(r)
      BY <2>1, <2>2, ResolvedRound
    <3>2. r.began \in Probe!Times
      BY <2>1
    <3> QED BY <1>7, <3>1, <3>2, ResolvedTyped DEF Probe!RoundStarts
  <2>3. CASE round' = [r EXCEPT !.pc = "check"]
    <3>1. round' \in Probe!Round /\ round'.pc = "check" /\ round'.began = now
      BY <2>1, <2>3 DEF Probe!Round
    <3> QED BY <1>7, <3>1 DEF Probe!RoundStarts
  <2> QED BY <1>7, <2>2, <2>3 DEF Probe!RoundStarts
<1>8. CASE Probe!RoundChecks
  <2> DEFINE a == [round EXCEPT !.pc = "store", !.answer = Probe!Answer]
             b == [round EXCEPT !.pc = "reload", !.failed = TRUE]
  <2>1. a \in Probe!Round /\ a.pc = "store" /\ a.answer \in Probe!Check /\ a.began = round.began
    BY DEF Probe!Round, Probe!Answer, Probe!Check
  <2>2. b \in Probe!Round /\ b.pc = "reload" /\ b.began = round.began
    BY DEF Probe!Round
  <2> QED BY <1>8, <2>1, <2>2 DEF Probe!RoundChecks
<1>9. CASE Probe!RoundStores
  <2> DEFINE a == [round EXCEPT !.pc = "reload"]
             b == [round EXCEPT !.pc = "reload", !.failed = TRUE]
  <2>1. a \in Probe!Round /\ a.pc = "reload" /\ b \in Probe!Round /\ b.pc = "reload" /\ a.began = round.began /\ b.began = round.began
    BY DEF Probe!Round
  <2>2. timeline' \in {timeline, Probe!Stored(timeline, round.answer)} /\ round' \in {a, b}
    BY <1>9 DEF Probe!RoundStores
  <2>3. timeline' \subseteq Probe!Check /\ \A x, y \in timeline' : x.at = y.at => x = y
    BY <1>9, <2>2 DEF Probe!RoundStores, Probe!Stored
  <2> HIDE DEF a, b
  <2> QED BY <1>9, <2>1, <2>2, <2>3 DEF Probe!RoundStores
<1>10. CASE Probe!RoundReloads
  <2>1. Resolved(round)
    BY <1>10, ResolvedRound DEF Probe!RoundReloads
  <2> QED BY <1>10, <2>1, ResolvedTyped DEF Probe!RoundReloads
<1>11. CASE Probe!RoundReads
  <2> DEFINE a == [round EXCEPT !.pc = "save", !.owner = signedIn]
  <2>1. a \in Probe!Round /\ a.pc = "save" /\ a.ref = round.ref /\ a.owner = signedIn /\ a.began = round.began
    BY DEF Probe!Round
  <2> QED BY <1>11, <2>1 DEF Probe!RoundReads, Probe!Round, Probe!Refs
<1>12. CASE Probe!RoundSaves
  <2> DEFINE r == [ref |-> round.ref, owner |-> round.owner, began |-> round.began,
                   failed |-> round.failed, switched |-> switched]
  <2>1. r \in Probe!Reading
    BY <1>12 DEF Probe!RoundSaves, Probe!Round, Probe!Reading, Probe!Refs
  <2> QED BY <1>12, <2>1 DEF Probe!RoundSaves
<1>13. CASE UNCHANGED Probe!vars
  BY <1>13 DEF Probe!vars
<1> QED
  BY <1>1, <1>2, <1>3, <1>4, <1>5, <1>6, <1>7, <1>8, <1>9, <1>10, <1>11, <1>12, <1>13
     DEF Probe!Next, Probe!World, Probe!Identity, Probe!Usage

\* Resolving keeps the invariant: an entry newer than the round's beginning,
\* less the time an answer counts as fresh, is of the account signed in or of
\* before the switch.
LEMMA ResolvedOwn ==
  ASSUME ProbeTyped, ProbeOwn, NEW r, r.began \in Probe!Times, r.began <= now, Resolved(r),
         r.failed \/ \E x \in timeline : x.at + Fresh >= r.began,
         UNCHANGED <<provider, now, signedIn, valid, timeline, check, paused, switched, readings>>
  PROVE  ProbeOwn'
<1>1. CASE round' = Probe!Idle
  BY <1>1, IdleRound DEF ProbeOwn, OwnReading, Probe!OwnReading
<1>2. CASE round' # Probe!Idle
  <2>1. /\ round'.pc = "read" /\ round'.began = r.began /\ round'.failed = r.failed
    BY <1>2 DEF Resolved
  <2>2. PICK x \in timeline : x.ref = round'.ref /\ \A y \in timeline : y.at <= x.at
    BY <1>2 DEF Resolved
  <2>3. x.ref = signedIn \/ x.at <= switched
    BY DEF ProbeOwn
  <2>4. round'.ref # signedIn => r.failed \/ switched + Fresh >= r.began
    <3> SUFFICES ASSUME round'.ref # signedIn, ~r.failed PROVE switched + Fresh >= r.began
      OBVIOUS
    <3>1. PICK y \in timeline : y.at + Fresh >= r.began
      OBVIOUS
    <3>2. x.at \in Nat /\ y.at \in Nat /\ switched \in Nat /\ Fresh \in Nat /\ r.began \in Nat
      BY ProbeBounds DEF ProbeTyped, Probe!TypeOK, Probe!Check, Probe!Times
    <3>3. y.at <= x.at /\ x.at <= switched
      BY <2>2, <2>3
    <3> QED BY <3>1, <3>2, <3>3
  <2> QED BY <2>1, <2>4 DEF ProbeOwn, OwnReading, Probe!OwnReading
<1> QED BY <1>1, <1>2

\* Every step keeps the invariant.
LEMMA ProbeKeepsOwn == ProbeTyped /\ ProbeOwn /\ [Probe!Next]_(Probe!vars) => ProbeOwn'
<1> SUFFICES ASSUME ProbeTyped, ProbeOwn, [Probe!Next]_(Probe!vars) PROVE ProbeOwn'
  OBVIOUS
<1> USE ProbeBounds, IdleRound DEF ProbeOwn, Probe!program, OwnReading, Probe!OwnReading
<1>1. now \in Nat /\ switched \in Nat
  BY DEF ProbeTyped, Probe!TypeOK, Probe!Times
<1>2. CASE Probe!Tick
  BY <1>1, <1>2 DEF Probe!Tick, ProbeTyped, Probe!TypeOK, Probe!Check, Probe!Times, Probe!NoCheck, Probe!Round
<1>3. CASE Probe!Switch
  BY <1>1, <1>3 DEF Probe!Switch, ProbeTyped, Probe!TypeOK, Probe!Check, Probe!Times, Probe!NoCheck, Probe!Round
<1>4. CASE Probe!Expiry
  BY <1>4 DEF Probe!Expiry
<1>5. CASE Probe!PauseOver
  BY <1>5 DEF Probe!PauseOver
<1>6. CASE Probe!CheckAnswered
  BY <1>1, <1>6 DEF Probe!CheckAnswered, Probe!Answer
<1>7. CASE Probe!CheckStored
  BY <1>7 DEF Probe!CheckStored, Probe!Stored
<1>8. CASE Probe!RoundStarts
  <2> DEFINE r == [Probe!Idle EXCEPT !.began = now]
  <2>1. r \in Probe!Round /\ r.began = now
    <3>1. now \in 0..MaxTime
      BY DEF Probe!Times, ProbeTyped, Probe!TypeOK
    <3> QED BY <3>1 DEF Probe!Round
  <2>2. CASE Probe!Resolve(r) /\ Probe!Current(timeline)
    <3> HIDE DEF r
    <3>1. Resolved(r)
      BY <2>1, <2>2, ResolvedRound
    <3>2. r.began \in Probe!Times
      BY <2>1 DEF ProbeTyped, Probe!TypeOK
    <3>3. \E x \in timeline : x.at + Fresh >= r.began
      BY <1>1, <2>1, <2>2 DEF Probe!Current, ProbeTyped, Probe!TypeOK, Probe!Check, Probe!Times
    <3>4. r.began <= now
      BY <1>1, <2>1
    <3> QED BY <1>8, <3>1, <3>2, <3>3, <3>4, ResolvedOwn DEF Probe!RoundStarts
  <2>3. CASE round' = [r EXCEPT !.pc = "check"]
    <3>1. round' \in Probe!Round /\ round'.pc = "check" /\ round'.began = now
      BY <2>1, <2>3 DEF Probe!Round
    <3> QED BY <1>1, <1>8, <3>1 DEF Probe!RoundStarts
  <2> QED BY <1>8, <2>2, <2>3 DEF Probe!RoundStarts
<1>9. CASE Probe!RoundChecks
  <2> DEFINE a == [round EXCEPT !.pc = "store", !.answer = Probe!Answer]
             b == [round EXCEPT !.pc = "reload", !.failed = TRUE]
  <2>1. a.pc = "store" /\ a.answer = [at |-> now, ref |-> signedIn] /\ a.began = round.began
    BY DEF Probe!Round, Probe!Answer, ProbeTyped, Probe!TypeOK
  <2>2. b.pc = "reload" /\ b.began = round.began /\ b.failed
    BY DEF Probe!Round, ProbeTyped, Probe!TypeOK
  <2>3. round.began <= now
    BY <1>9 DEF Probe!RoundChecks
  <2>4. CASE round' = a
    <3> HIDE DEF a
    <3> QED BY <1>1, <1>9, <2>1, <2>3, <2>4 DEF Probe!RoundChecks
  <2>5. CASE round' = b
    BY <1>9, <2>2, <2>3, <2>5 DEF Probe!RoundChecks
  <2> QED BY <1>9, <2>4, <2>5 DEF Probe!RoundChecks
<1>10. CASE Probe!RoundStores
  <2> DEFINE a == [round EXCEPT !.pc = "reload"]
             b == [round EXCEPT !.pc = "reload", !.failed = TRUE]
  <2>1. a.pc = "reload" /\ a.began = round.began
    BY DEF Probe!Round, ProbeTyped, Probe!TypeOK
  <2>2. b.pc = "reload" /\ b.began = round.began /\ b.failed
    BY DEF Probe!Round, ProbeTyped, Probe!TypeOK
  <2>3. CASE round' = a /\ timeline' = Probe!Stored(timeline, round.answer)
    <3> HIDE DEF a
    <3>1. \E x \in timeline' : x.at = round.answer.at
      BY <2>3 DEF Probe!Stored
    <3>2. \A x \in timeline' : x \in timeline \/ x = round.answer
      BY <2>3 DEF Probe!Stored
    <3> QED BY <1>10, <2>1, <2>3, <3>1, <3>2 DEF Probe!RoundStores
  <2>4. CASE round' = b /\ timeline' = timeline
    <3> HIDE DEF b
    <3> QED BY <1>10, <2>2, <2>4 DEF Probe!RoundStores
  <2> QED BY <1>10, <2>3, <2>4 DEF Probe!RoundStores
<1>11. CASE Probe!RoundReloads
  <2>1. Resolved(round) /\ round.pc = "reload"
    BY <1>11, ResolvedRound DEF Probe!RoundReloads, ProbeTyped, Probe!TypeOK
  <2>2. round.began \in Probe!Times /\ round.began <= now
    BY <2>1 DEF ProbeTyped
  <2>3. round.failed \/ \E x \in timeline : x.at + Fresh >= round.began
    BY <2>1, <2>2 DEF ProbeTyped, Probe!TypeOK, Probe!Check, Probe!Times
  <2> QED BY <1>11, <2>1, <2>2, <2>3, ResolvedOwn DEF Probe!RoundReloads
<1>12. CASE Probe!RoundReads
  <2> DEFINE a == [round EXCEPT !.pc = "save", !.owner = signedIn]
  <2>1. a.pc = "save" /\ a.ref = round.ref /\ a.owner = signedIn /\ a.began = round.began /\ a.failed = round.failed
    BY DEF Probe!Round, ProbeTyped, Probe!TypeOK
  <2>2. CASE round' = a
    <3> HIDE DEF a
    <3> QED BY <1>12, <2>1, <2>2 DEF Probe!RoundReads
  <2>3. CASE round' = Probe!Idle
    BY <1>12, <2>3 DEF Probe!RoundReads
  <2> QED BY <1>12, <2>2, <2>3 DEF Probe!RoundReads
<1>13. CASE Probe!RoundSaves
  BY <1>13 DEF Probe!RoundSaves
<1>14. CASE UNCHANGED Probe!vars
  BY <1>14 DEF Probe!vars
<1> QED
  BY <1>2, <1>3, <1>4, <1>5, <1>6, <1>7, <1>8, <1>9, <1>10, <1>11, <1>12, <1>13, <1>14
     DEF Probe!Next, Probe!World, Probe!Identity, Probe!Usage

\* The invariant holds before the first check.
LEMMA ProbeInitially == Probe!Init => ProbeTyped /\ ProbeOwn
<1> SUFFICES ASSUME Probe!Init PROVE ProbeTyped /\ ProbeOwn
  OBVIOUS
<1>1. ProbeTyped
  BY ProbeBounds, IdleRound, PartsConstants DEF Probe!Init, ProbeTyped, Probe!TypeOK, Probe!Times
<1>2. ProbeOwn
  BY IdleRound DEF Probe!Init, ProbeOwn, OwnReading, Probe!OwnReading
<1> QED BY <1>1, <1>2

\* The usage probes are well typed.
THEOREM ProbeTypeCorrect == Probe!Spec => []Probe!TypeOK
<1>1. ProbeTyped => Probe!TypeOK
  BY DEF ProbeTyped
<1> QED BY <1>1, ProbeInitially, ProbeTypes, PTL DEF Probe!Spec

\* A reading is recorded under another account than the credential's only
\* around a switch or after a failed identity check
\* (internal/client/agent/usage.go), for any accounts and any freshness.
THEOREM OwnReadings == Probe!Spec => []OwnReading
<1>1. ProbeOwn => OwnReading
  BY DEF ProbeOwn
<1> QED BY <1>1, ProbeInitially, ProbeTypes, ProbeKeepsOwn, PTL DEF Probe!Spec

-----------------------------------------------------------------------------
(***************************************************************************)
(* Dashboard: what a page shows, and to whom.                              *)
(***************************************************************************)
\* What has left the two queries is no masked email.

\* The strengthening of NoEmailShown: no masked email is in the kept
\* overview, on a page under way or on one shown.
DashNamed ==
  /\ cache # None => cache.label \notin Hints
  /\ \A v \in Visitors : visit[v].pc = "page" => visit[v].label \notin Hints
  /\ NoEmailShown

\* What a session's number and expiry say: no cookie is from a login to come,
\* no session outlasts its time, and one that was ended is not open.
DashSessions ==
  /\ \A s \in ended : s <= logins
  /\ \A v \in Visitors : cookie[v] # None => cookie[v] <= logins
  /\ \A s \in Dash!SessionIds :
       /\ sessions[s] <= now + SessionTTL
       /\ sessions[s] > 0 => s \notin ended

\* The bounds are numbers, and no masked email is another label.
LEMMA DashBounds ==
  /\ MaxMoments \in Nat \ {0} /\ SessionTTL \in Nat /\ CacheTTL \in Nat
  /\ MaxLogins \in Nat /\ MaxRestarts \in Nat
  /\ None \notin Hints
BY PartsConstants

\* A request of a visitor.
Visit == [pc : {"away", "get", "build", "page"}, label : Dash!Labels, public : BOOLEAN]

\* Replacing one visitor's request keeps the table of requests typed.
LEMMA MovedVisit ==
  ASSUME Dash!TypeOK, NEW v \in Visitors, NEW x \in Visit, visit' = [visit EXCEPT ![v] = x],
         UNCHANGED <<hint, label, published>>
  PROVE  visit' \in [Visitors -> Visit] /\ visit'[v] = x /\ \A w \in Visitors \ {v} : visit'[w] = visit[w]
BY DEF Dash!TypeOK, Visit

\* Every step keeps the types.
LEMMA DashTypes == Dash!TypeOK /\ [Dash!Next]_(Dash!vars) => Dash!TypeOK'
<1> SUFFICES ASSUME Dash!TypeOK, [Dash!Next]_(Dash!vars) PROVE Dash!TypeOK'
  OBVIOUS
<1> USE DashBounds DEF Dash!account, Dash!console
<1>0. /\ now \in Nat /\ logins \in Nat
      /\ visit \in [Visitors -> Visit]
  BY DEF Dash!TypeOK, Dash!Times, Visit
<1>1. ASSUME UNCHANGED visit,
             now' \in Dash!Times, hint' \in Hints \cup {None}, label' \in Dash!Labels,
             published' \in BOOLEAN, sessions' \in [Dash!SessionIds -> 0..(MaxMoments + SessionTTL)],
             cookie' \in [Visitors -> Dash!SessionIds \cup {None}], ended' \subseteq Dash!SessionIds,
             logins' \in 0..MaxLogins,
             UNCHANGED <<cache, shown, restarts>>
      PROVE  Dash!TypeOK'
  BY <1>1 DEF Dash!TypeOK
<1>2. CASE Dash!Tick
  BY <1>1, <1>2 DEF Dash!Tick, Dash!Times, Dash!TypeOK
<1>3. CASE Dash!Upload
  BY <1>1, <1>3 DEF Dash!Upload, Dash!Labels, Dash!TypeOK
<1>4. CASE Dash!Restart
  <2>1. \A v \in Visitors : visit'[v].pc = "away"
    BY <1>4 DEF Dash!Restart, Dash!Away
  <2>4. visit' \in [Visitors -> Visit]
    BY <1>4 DEF Dash!Restart, Dash!Away, Visit, Dash!Labels
  <2>5. sessions' \in [Dash!SessionIds -> 0..(MaxMoments + SessionTTL)]
    BY <1>4 DEF Dash!Restart
  <2>6. ended' \subseteq Dash!SessionIds /\ restarts' \in 0..MaxRestarts /\ cache' = None
    BY <1>4 DEF Dash!Restart, Dash!TypeOK
  <2> QED BY <1>4, <2>1, <2>4, <2>5, <2>6 DEF Dash!Restart, Dash!TypeOK, Visit
<1>5. ASSUME NEW v \in Visitors, Dash!Admin(v) PROVE Dash!TypeOK'
  <2>1. CASE Dash!Login(v)
    <3>1. sessions' \in [Dash!SessionIds -> 0..(MaxMoments + SessionTTL)]
      BY <2>1, <1>0 DEF Dash!Login, Dash!TypeOK, Dash!Times
    <3>2. logins' \in 0..MaxLogins /\ logins' \in Dash!SessionIds
      BY <2>1, <1>0 DEF Dash!Login, Dash!SessionIds, Dash!TypeOK
    <3> QED BY <1>1, <2>1, <3>1, <3>2 DEF Dash!Login, Dash!TypeOK
  <2>2. CASE Dash!Logout(v)
    BY <1>1, <2>2 DEF Dash!Logout, Dash!TypeOK
  <2>3. CASE Dash!SetLabel(v)
    BY <1>1, <2>3 DEF Dash!SetLabel, Dash!TypeOK, Dash!Labels
  <2>4. CASE Dash!SaveSettings(v)
    BY <1>1, <2>4 DEF Dash!SaveSettings, Dash!TypeOK
  <2> QED BY <1>5, <2>1, <2>2, <2>3, <2>4 DEF Dash!Admin
<1>6. ASSUME NEW v \in Visitors, Dash!Visit(v) PROVE Dash!TypeOK'
  <2>1. UNCHANGED <<now, hint, label, published, sessions, cookie, ended, logins, restarts>>
    BY <1>6 DEF Dash!Visit, Dash!Open, Dash!GetKept, Dash!BuildOverview, Dash!BuildHints, Dash!Page
  <2>2. ASSUME NEW x \in Visit, visit' = [visit EXCEPT ![v] = x],
               x.pc = "build" => ~Dash!Building,
               cache' \in Dash!Entry \cup {None},
               shown' \subseteq [label : Dash!Labels, public : BOOLEAN, session : Dash!SessionIds \cup {None}]
        PROVE  Dash!TypeOK'
    <3>1. visit' \in [Visitors -> Visit] /\ visit'[v] = x /\ \A w \in Visitors \ {v} : visit'[w] = visit[w]
      BY <2>1, <2>2, MovedVisit DEF Dash!TypeOK
    <3>2. \A u, w \in Visitors : visit'[u].pc = "build" /\ visit'[w].pc = "build" => u = w
      BY <2>2, <3>1 DEF Dash!Building, Dash!TypeOK
    <3> QED BY <2>1, <2>2, <3>1, <3>2 DEF Dash!TypeOK, Visit
  <2>3. CASE Dash!Open(v)
    <3>1. [pc |-> "get", label |-> None, public |-> published] \in Visit
      BY DEF Visit, Dash!Labels, Dash!TypeOK
    <3> QED BY <2>2, <2>3, <3>1 DEF Dash!Open, Dash!TypeOK
  <2>4. CASE Dash!GetKept(v)
    <3> DEFINE x == [visit[v] EXCEPT !.pc = "page", !.label = cache.label]
    <3>1. x \in Visit /\ x.pc = "page"
      BY <1>0, <2>4 DEF Visit, Dash!GetKept, Dash!Kept, Dash!Entry, Dash!TypeOK
    <3>2. visit' = [visit EXCEPT ![v] = x]
      BY <1>0, <2>4 DEF Dash!GetKept, Visit
    <3> HIDE DEF x
    <3> QED BY <2>2, <2>4, <3>1, <3>2 DEF Dash!GetKept, Dash!TypeOK
  <2>5. CASE Dash!BuildOverview(v)
    <3> DEFINE x == [visit[v] EXCEPT !.pc = "build", !.label = label]
    <3>1. x \in Visit
      BY <1>0, <2>5 DEF Visit, Dash!TypeOK
    <3>2. visit' = [visit EXCEPT ![v] = x]
      BY <1>0, <2>5 DEF Dash!BuildOverview, Visit
    <3>3. ~Dash!Building
      BY <2>5 DEF Dash!BuildOverview
    <3> HIDE DEF x
    <3> QED BY <2>2, <2>5, <3>1, <3>2, <3>3 DEF Dash!BuildOverview, Dash!TypeOK
  <2>6. CASE Dash!BuildHints(v)
    <3> DEFINE name == Dash!PublicLabel(visit[v].label)
               x == [visit[v] EXCEPT !.pc = "page", !.label = name]
    <3>1. name \in Dash!Labels
      BY <1>0 DEF Dash!PublicLabel, Visit, Dash!Labels
    <3>2. CASE cache' = [at |-> now, label |-> name] /\ visit' = [visit EXCEPT ![v].pc = "page", ![v].label = cache'.label]
      <4>1. x \in Visit /\ x.pc = "page"
        BY <1>0, <3>1 DEF Visit
      <4>2. visit' = [visit EXCEPT ![v] = x]
        BY <1>0, <3>2 DEF Visit
      <4>3. cache' \in Dash!Entry
        BY <3>1, <3>2 DEF Dash!Entry, Dash!TypeOK
      <4> HIDE DEF x
      <4> QED BY <2>2, <2>6, <4>1, <4>2, <4>3 DEF Dash!BuildHints, Dash!TypeOK
    <3>3. CASE visit' = [visit EXCEPT ![v] = Dash!Away] /\ UNCHANGED cache
      <4>1. Dash!Away \in Visit /\ Dash!Away.pc = "away"
        BY DEF Dash!Away, Visit, Dash!Labels
      <4> QED BY <2>2, <2>6, <3>3, <4>1 DEF Dash!BuildHints, Dash!TypeOK
    <3> QED BY <2>6, <3>2, <3>3 DEF Dash!BuildHints
  <2>7. CASE Dash!Page(v)
    <3>1. Dash!Away \in Visit /\ Dash!Away.pc = "away"
      BY DEF Dash!Away, Visit, Dash!Labels
    <3>2. shown' \subseteq [label : Dash!Labels, public : BOOLEAN, session : Dash!SessionIds \cup {None}]
      BY <1>0, <2>7 DEF Dash!Page, Visit, Dash!TypeOK
    <3> QED BY <2>2, <2>7, <3>1, <3>2 DEF Dash!Page, Dash!TypeOK
  <2> QED BY <1>6, <2>3, <2>4, <2>5, <2>6, <2>7 DEF Dash!Visit
<1>7. CASE UNCHANGED Dash!vars
  BY <1>1, <1>7 DEF Dash!vars, Dash!TypeOK
<1> QED
  BY <1>2, <1>3, <1>4, <1>5, <1>6, <1>7 DEF Dash!Next

\* A public label is no masked email, whatever the label it is made of.
LEMMA Unnamed == \A l : Dash!PublicLabel(l) \notin Hints
BY DashBounds DEF Dash!PublicLabel

\* Every step keeps masked emails inside.
LEMMA DashNames == Dash!TypeOK /\ DashNamed /\ [Dash!Next]_(Dash!vars) => DashNamed'
<1> SUFFICES ASSUME Dash!TypeOK, DashNamed, [Dash!Next]_(Dash!vars) PROVE DashNamed'
  OBVIOUS
<1> USE DashBounds DEF DashNamed, NoEmailShown, Dash!NoEmailShown
<1>0. visit \in [Visitors -> Visit]
  BY DEF Dash!TypeOK, Visit
<1>1. CASE UNCHANGED <<visit, cache, shown>>
  BY <1>1
<1>2. CASE Dash!Restart
  BY <1>2 DEF Dash!Restart, Dash!Away
<1>3. ASSUME NEW v \in Visitors, Dash!Visit(v) PROVE DashNamed'
  <2>1. ASSUME NEW x \in Visit, visit' = [visit EXCEPT ![v] = x],
               x.pc = "page" => x.label \notin Hints,
               cache' # None => cache'.label \notin Hints,
               \A p \in shown' : p.label \notin Hints
        PROVE  DashNamed'
    BY <1>0, <2>1
  <2>2. Dash!Away \in Visit /\ Dash!Away.pc = "away"
    BY DEF Dash!Away, Visit, Dash!Labels
  <2>3. CASE Dash!Open(v)
    <3>1. [pc |-> "get", label |-> None, public |-> published] \in Visit
      BY DEF Visit, Dash!Labels, Dash!TypeOK
    <3> QED BY <2>1, <2>3, <3>1 DEF Dash!Open
  <2>4. CASE Dash!GetKept(v)
    <3> DEFINE x == [visit[v] EXCEPT !.pc = "page", !.label = cache.label]
    <3>1. x \in Visit /\ x.label = cache.label
      BY <1>0, <2>4 DEF Visit, Dash!GetKept, Dash!Kept, Dash!Entry, Dash!TypeOK
    <3>2. visit' = [visit EXCEPT ![v] = x]
      BY <1>0, <2>4 DEF Dash!GetKept, Visit
    <3> HIDE DEF x
    <3> QED BY <2>1, <2>4, <3>1, <3>2 DEF Dash!GetKept, Dash!Kept
  <2>5. CASE Dash!BuildOverview(v)
    <3> DEFINE x == [visit[v] EXCEPT !.pc = "build", !.label = label]
    <3>1. x \in Visit /\ x.pc = "build"
      BY <1>0, <2>5 DEF Visit, Dash!TypeOK
    <3>2. visit' = [visit EXCEPT ![v] = x]
      BY <1>0, <2>5 DEF Dash!BuildOverview, Visit
    <3> HIDE DEF x
    <3> QED BY <2>1, <2>5, <3>1, <3>2 DEF Dash!BuildOverview
  <2>6. CASE Dash!BuildHints(v)
    <3> DEFINE name == Dash!PublicLabel(visit[v].label)
               x == [visit[v] EXCEPT !.pc = "page", !.label = name]
    <3>1. name \in Dash!Labels /\ name \notin Hints
      BY <1>0, Unnamed DEF Dash!PublicLabel, Visit, Dash!Labels
    <3>2. CASE cache' = [at |-> now, label |-> name] /\ visit' = [visit EXCEPT ![v].pc = "page", ![v].label = cache'.label]
      <4>1. x \in Visit /\ x.label = name
        BY <1>0, <3>1 DEF Visit
      <4>2. visit' = [visit EXCEPT ![v] = x]
        BY <1>0, <3>2 DEF Visit
      <4>3. cache'.label = name
        BY <3>2
      <4> HIDE DEF x, name
      <4> QED BY <2>1, <2>6, <3>1, <4>1, <4>2, <4>3 DEF Dash!BuildHints
    <3>3. CASE visit' = [visit EXCEPT ![v] = Dash!Away] /\ UNCHANGED cache
      BY <2>1, <2>2, <2>6, <3>3 DEF Dash!BuildHints
    <3> QED BY <2>6, <3>2, <3>3 DEF Dash!BuildHints
  <2>7. CASE Dash!Page(v)
    BY <2>1, <2>2, <2>7 DEF Dash!Page
  <2> QED BY <1>3, <2>3, <2>4, <2>5, <2>6, <2>7 DEF Dash!Visit
<1>4. ASSUME NEW v \in Visitors, Dash!Admin(v) PROVE DashNamed'
  BY <1>1, <1>4 DEF Dash!Admin, Dash!Login, Dash!Logout, Dash!SetLabel, Dash!SaveSettings
<1> QED
  BY <1>1, <1>2, <1>3, <1>4 DEF Dash!Next, Dash!Tick, Dash!Upload, Dash!vars

\* Every step keeps what is known of the sessions.
LEMMA DashOpens == Dash!TypeOK /\ DashSessions /\ [Dash!Next]_(Dash!vars) => DashSessions'
<1> SUFFICES ASSUME Dash!TypeOK, DashSessions, [Dash!Next]_(Dash!vars) PROVE DashSessions'
  OBVIOUS
<1> USE DashBounds DEF DashSessions, Dash!console, Dash!SessionIds
<1>0. /\ now \in Nat /\ logins \in Nat
      /\ \A s \in Dash!SessionIds : sessions[s] \in Nat
      /\ sessions \in [Dash!SessionIds -> 0..(MaxMoments + SessionTTL)]
      /\ cookie \in [Visitors -> Dash!SessionIds \cup {None}]
  BY DEF Dash!TypeOK, Dash!Times
<1>1. CASE now' \in Nat /\ now' >= now /\ UNCHANGED <<sessions, cookie, ended, logins>>
  BY <1>0, <1>1
<1>2. CASE Dash!Restart
  <2>1. now' = now /\ logins' = logins /\ cookie' = cookie
    BY <1>2 DEF Dash!Restart
  <2>2. \A s \in ended' : s <= logins'
    BY <1>0, <1>2, <2>1 DEF Dash!Restart
  <2>3. \A s \in Dash!SessionIds : sessions'[s] = 0
    BY <1>2 DEF Dash!Restart
  <2>4. \A s \in Dash!SessionIds : sessions'[s] <= now' + SessionTTL /\ ~(sessions'[s] > 0)
    BY <1>0, <2>1, <2>3
  <2>5. \A w \in Visitors : cookie'[w] # None => cookie'[w] <= logins'
    BY <2>1
  <2> QED BY <2>2, <2>4, <2>5
<1>3. ASSUME NEW v \in Visitors, Dash!Login(v) PROVE DashSessions'
  <2>1. \A s \in Dash!SessionIds :
          sessions'[s] = IF s = logins + 1 THEN now + SessionTTL ELSE IF sessions[s] < now THEN 0 ELSE sessions[s]
    BY <1>3 DEF Dash!Login
  <2>2. \A w \in Visitors : cookie'[w] # None => cookie'[w] <= logins'
    BY <1>0, <1>3 DEF Dash!Login
  <2>3. now' = now /\ ended' = ended /\ logins' = logins + 1
    BY <1>3 DEF Dash!Login
  <2>4. \A s \in ended' : s <= logins' /\ s # logins + 1
    BY <1>0, <2>3 DEF Dash!TypeOK
  <2>5. \A s \in Dash!SessionIds : sessions'[s] <= now' + SessionTTL /\ (sessions'[s] > 0 => s \notin ended')
    BY <1>0, <2>1, <2>3, <2>4
  <2> QED BY <2>2, <2>4, <2>5
<1>4. ASSUME NEW v \in Visitors, Dash!Logout(v) PROVE DashSessions'
  <2>1. cookie[v] \in Dash!SessionIds /\ cookie[v] <= logins
    BY <1>0, <1>4 DEF Dash!Logout
  <2>2. /\ sessions' = [sessions EXCEPT ![cookie[v]] = 0] /\ ended' = ended \cup {cookie[v]}
        /\ UNCHANGED <<now, cookie, logins>>
    BY <1>4 DEF Dash!Logout
  <2>3. \A s \in ended' : s <= logins'
    BY <1>0, <2>1, <2>2
  <2>c. \A w \in Visitors : cookie'[w] # None => cookie'[w] <= logins'
    BY <2>2
  <2>4. \A s \in Dash!SessionIds : sessions'[s] = IF s = cookie[v] THEN 0 ELSE sessions[s]
    BY <1>0, <2>1, <2>2
  <2>5. \A s \in Dash!SessionIds : sessions'[s] <= now' + SessionTTL /\ (sessions'[s] > 0 => s \notin ended')
    BY <1>0, <2>1, <2>2, <2>4
  <2> QED BY <2>c, <2>3, <2>5
<1>5. ASSUME NEW v \in Visitors, Dash!Admin(v) PROVE DashSessions'
  BY <1>0, <1>1, <1>3, <1>4, <1>5 DEF Dash!Admin, Dash!SetLabel, Dash!SaveSettings
<1>6. ASSUME NEW v \in Visitors, Dash!Visit(v) PROVE DashSessions'
  BY <1>0, <1>1, <1>6 DEF Dash!Visit, Dash!Open, Dash!GetKept, Dash!BuildOverview, Dash!BuildHints, Dash!Page
<1>7. CASE Dash!Tick \/ Dash!Upload \/ UNCHANGED Dash!vars
  BY <1>0, <1>1, <1>7 DEF Dash!Tick, Dash!Upload, Dash!vars
<1> QED BY <1>2, <1>5, <1>6, <1>7 DEF Dash!Next

\* A visitor's page is begun by opening it and in no other way.
LEMMA OnlyOpen ==
  ASSUME Dash!TypeOK, [Dash!Next]_(Dash!vars),
         NEW v \in Visitors, visit[v].pc = "away", visit'[v].pc = "get"
  PROVE  Dash!Open(v)
<1>0. visit \in [Visitors -> Visit]
  BY DEF Dash!TypeOK, Visit
<1>1. CASE UNCHANGED visit
  BY <1>1
<1>2. CASE Dash!Restart
  BY <1>2 DEF Dash!Restart, Dash!Away
<1>3. ASSUME NEW w \in Visitors, Dash!Visit(w) PROVE Dash!Open(v)
  <2>1. CASE w = v
    BY <1>0, <1>3, <2>1 DEF Dash!Visit, Dash!GetKept, Dash!BuildOverview, Dash!BuildHints, Dash!Page
  <2>2. CASE w # v
    <3>1. visit'[v] = visit[v]
      BY <1>0, <1>3, <2>2 DEF Dash!Visit, Dash!Open, Dash!GetKept, Dash!BuildOverview, Dash!BuildHints, Dash!Page
    <3> QED BY <3>1
  <2> QED BY <2>1, <2>2
<1>4. ASSUME NEW w \in Visitors, Dash!Admin(w) PROVE Dash!Open(v)
  BY <1>1, <1>4 DEF Dash!Admin, Dash!Login, Dash!Logout, Dash!SetLabel, Dash!SaveSettings
<1> QED
  BY <1>1, <1>2, <1>3, <1>4 DEF Dash!Next, Dash!Tick, Dash!Upload, Dash!vars

\* All of it holds of a server that has just started.
LEMMA DashInitially == Dash!Init => Dash!TypeOK /\ DashNamed /\ DashSessions
<1> SUFFICES ASSUME Dash!Init PROVE Dash!TypeOK /\ DashNamed /\ DashSessions
  OBVIOUS
<1> USE DashBounds DEF Dash!Init, Dash!Away
<1>1. Dash!TypeOK
  <2>1. visit \in [Visitors -> Visit] /\ \A v \in Visitors : visit[v].pc = "away"
    BY DEF Visit, Dash!Labels
  <2>2. sessions \in [Dash!SessionIds -> 0..(MaxMoments + SessionTTL)]
    OBVIOUS
  <2>3. now \in Dash!Times /\ hint \in Hints \cup {None} /\ label \in Dash!Labels /\ logins \in 0..MaxLogins
    BY DEF Dash!Times, Dash!Labels
  <2>4. restarts \in 0..MaxRestarts /\ cookie \in [Visitors -> Dash!SessionIds \cup {None}]
    OBVIOUS
  <2> QED BY <2>1, <2>2, <2>3, <2>4 DEF Dash!TypeOK, Visit
<1>2. DashNamed
  BY DEF DashNamed, NoEmailShown, Dash!NoEmailShown
<1>3. DashSessions
  BY DEF DashSessions
<1> QED BY <1>1, <1>2, <1>3

\* The dashboard is well typed, and one visitor at most builds it.
THEOREM DashTypeCorrect == Dash!Spec => []Dash!TypeOK
BY DashInitially, DashTypes, PTL DEF Dash!Spec

\* The dashboard shows no masked email (internal/server/query), to any number
\* of visitors and whatever is cached.
THEOREM EmailsStayInside == Dash!Spec => []NoEmailShown
<1>1. DashNamed => NoEmailShown
  BY DEF DashNamed
<1> QED BY <1>1, DashInitially, DashTypes, DashNames, PTL DEF Dash!Spec

\* While the dashboard is unpublished a page of it is begun only with the
\* cookie of a session that is neither ended nor expired
\* (internal/server/admin), for any lifetime of sessions.
THEOREM PreviewsAreAdmins == Dash!Spec => PreviewIsAdmins
<1>1. Dash!TypeOK /\ DashSessions /\ [Dash!Next]_(Dash!vars) =>
        [\A v \in Visitors :
           visit[v].pc = "away" /\ visit'[v].pc = "get" /\ ~published
             => /\ cookie[v] \in Dash!SessionIds \ ended
                /\ sessions[cookie[v]] \in now..(now + SessionTTL)]_(Dash!vars)
  <2> SUFFICES ASSUME Dash!TypeOK, DashSessions, [Dash!Next]_(Dash!vars),
                      NEW v \in Visitors, visit[v].pc = "away", visit'[v].pc = "get", ~published
               PROVE  /\ cookie[v] \in Dash!SessionIds \ ended
                      /\ sessions[cookie[v]] \in now..(now + SessionTTL)
    OBVIOUS
  <2>1. cookie[v] # None /\ sessions[cookie[v]] >= now
    BY OnlyOpen DEF Dash!Open, Dash!Valid
  <2>2. cookie[v] \in Dash!SessionIds
    BY <2>1 DEF Dash!TypeOK
  <2>3. now \in Nat /\ now > 0 /\ sessions[cookie[v]] \in Nat
    BY <2>2, DashBounds DEF Dash!TypeOK, Dash!Times
  <2> QED BY <2>1, <2>2, <2>3, DashBounds DEF DashSessions
<1> QED BY <1>1, DashInitially, DashTypes, DashOpens, PTL DEF PreviewIsAdmins, Dash!PreviewIsAdmins, Dash!Spec

-----------------------------------------------------------------------------
(***************************************************************************)
(* Accounts: admins at once, each change a transaction that takes row      *)
(* locks, and uploads in between.                                          *)
(***************************************************************************)
\* The orders of account numbers a request may carry.
Orders == UNION {[D -> Nat] : D \in SUBSET (Nat \ {0})}

\* A request of an admin, with the interval it may have chosen.
Request == [pc : {"idle", "order", "ordered", "save", "check", "write", "delete", "deleted", "gone"},
            id : Nat, order : Orders, interval : Acct!Interval \cup {None}]

\* The typed state of the accounts.
AcctTyped ==
  /\ Acct!TypeOK
  /\ tx \in [Admins -> Request]

\* Numbers are handed out once: none in use is newer than the last one, and
\* an order names no account twice.
AcctNumbered ==
  /\ \A a \in Accounts : rows[a] # None => rows[a].id <= work
  /\ \A i \in DOMAIN arranged : i \in Nat /\ arranged[i] \in Nat /\ arranged[i] <= work
  /\ \A d \in Admins :
       /\ tx[d].id <= work
       /\ \A i \in DOMAIN tx[d].order : tx[d].order[i] <= work
       /\ \A i, j \in DOMAIN tx[d].order : tx[d].order[i] = tx[d].order[j] => i = j

\* A row is locked by the admin that changes it: a request that checks or
\* writes an interval holds the lock of that account's row.
AcctLocked ==
  /\ \A a \in Accounts : locks[a] # None => rows[a] # None
  /\ \A d \in Admins : tx[d].pc \in {"check", "write"} =>
       /\ tx[d].interval.account = tx[d].id
       /\ \E a \in Accounts : locks[a] = d /\ rows[a].id = tx[d].id
       /\ \A a \in Accounts : rows[a] # None /\ rows[a].id = tx[d].id => locks[a] = d
  /\ \A d \in Admins : tx[d].pc = "save" => tx[d].interval \in Acct!Interval /\ tx[d].interval.account = tx[d].id

\* One admin saves an order at a time: the others' rows have lost their
\* position and are not in the order, and the saved order is the rows'
\* positions.
AcctOrdered ==
  /\ \A d, e \in Admins, a, b \in Accounts :
       tx[d].pc = "ordered" /\ tx[e].pc = "ordered" /\ locks[a] = d /\ locks[b] = e => d = e
  /\ \A d \in Admins, a, b \in Accounts :
       tx[d].pc = "ordered" /\ locks[a] = d /\ rows[b] # None /\ locks[b] # d =>
         /\ rows[b].position = None
         /\ \A i \in DOMAIN tx[d].order : tx[d].order[i] # rows[b].id
  /\ Acct!OneOrder

\* An interval about to be written overlaps no stored one of its account, and
\* no two stored ones overlap.
AcctApart ==
  /\ \A d \in Admins : tx[d].pc = "write" =>
       \A x \in intervals : x.account = tx[d].id /\ x.id # tx[d].interval.id => ~Acct!Overlap(x, tx[d].interval)
  /\ Acct!IntervalsApart

\* An account's plan is that of the newest reading sent, its row as old as
\* that reading.
AcctPlanned ==
  \A a \in Accounts :
    /\ rows[a] = None => sent[a] = {}
    /\ rows[a] # None /\ sent[a] = {} => rows[a].planAt = 0
    /\ sent[a] # {} =>
         \E r \in sent[a] : /\ \A x \in sent[a] : x.at <= r.at
                            /\ r.at = rows[a].planAt
                            /\ rows[a].plan.base = r.plan.base
                            /\ rows[a].plan.tier = r.plan.tier \/ r.plan.tier = None

\* The bounds are numbers, and None is no row.
LEMMA AcctBounds ==
  /\ MaxMoments \in Nat \ {0} /\ MaxWork \in Nat
  /\ None \notin Admins /\ None \notin Nat /\ None \notin Acct!Row
BY PartsConstants, PartsNone

\* No request under way is a well typed request.
LEMMA IdleRequest == Acct!Idle \in Request /\ Acct!Idle.pc = "idle" /\ Acct!Idle.id = 0 /\ Acct!Idle.order = <<>>
<1>1. <<>> \in [{} -> Nat]
  OBVIOUS
<1>2. <<>> \in Orders
  BY <1>1 DEF Orders
<1> QED BY <1>2 DEF Acct!Idle, Request

\* A request that goes on to its next step keeps what it carries.
LEMMA MovedRequest ==
  ASSUME NEW o \in Request,
         NEW p \in {"idle", "order", "ordered", "save", "check", "write", "delete", "deleted", "gone"}
  PROVE  /\ [o EXCEPT !.pc = p] \in Request
         /\ [o EXCEPT !.pc = p].pc = p
         /\ [o EXCEPT !.pc = p].id = o.id
         /\ [o EXCEPT !.pc = p].order = o.order
         /\ [o EXCEPT !.pc = p].interval = o.interval
BY DEF Request

\* Admin d's request becomes x; the others' are left alone.
Moves(d, x) == x \in Request /\ tx' \in [Admins -> Request] /\ tx'[d] = x /\ \A e \in Admins \ {d} : tx'[e] = tx[e]

\* Admin d's request goes on to another step with what it carries.
MovesTo(d, pc) ==
  \E x \in Request : /\ Moves(d, x) /\ x.pc = pc
                     /\ x.id = tx[d].id /\ x.order = tx[d].order /\ x.interval = tx[d].interval

\* Ending a request is such a change.
LEMMA MovesIdle ==
  ASSUME AcctTyped, NEW d \in Admins, tx' = [tx EXCEPT ![d] = Acct!Idle]
  PROVE  Moves(d, Acct!Idle)
BY IdleRequest DEF AcctTyped, Moves

\* Going on to another step is such a change.
LEMMA MovesOn ==
  ASSUME AcctTyped, NEW d \in Admins,
         NEW p \in {"idle", "order", "ordered", "save", "check", "write", "delete", "deleted", "gone"},
         tx' = [tx EXCEPT ![d].pc = p]
  PROVE  MovesTo(d, p)
<1> DEFINE x == [tx[d] EXCEPT !.pc = p]
<1>1. tx[d] \in Request
  BY DEF AcctTyped
<1>2. x \in Request /\ x.pc = p /\ x.id = tx[d].id /\ x.order = tx[d].order /\ x.interval = tx[d].interval
  BY Zenon, <1>1, MovedRequest
<1>3. tx' = [tx EXCEPT ![d] = x]
  OBVIOUS
<1> HIDE DEF x
<1> QED BY <1>2, <1>3 DEF AcctTyped, Moves, MovesTo

\* A request's order is of numbers.
LEMMA RequestOrder ==
  ASSUME NEW o \in Request
  PROVE  o.id \in Nat /\ \A i \in DOMAIN o.order : i \in Nat /\ o.order[i] \in Nat
<1>1. PICK D \in SUBSET (Nat \ {0}) : o.order \in [D -> Nat]
  BY DEF Request, Orders
<1> QED BY <1>1 DEF Request

\* A position in a sequence is positive.
LEMMA Positive == ASSUME NEW n, NEW i \in 1..n PROVE i \in Nat /\ i > 0
OBVIOUS

\* A sequence of a set's members is an order without repetition.
LEMMA OrderOf ==
  ASSUME NEW S \in SUBSET Nat, NEW s \in Acct!SetToSeqs(S)
  PROVE  /\ s \in Orders
         /\ \A i \in DOMAIN s : s[i] \in S
         /\ \A i, j \in DOMAIN s : s[i] = s[j] => i = j
<1>1. s \in [DOMAIN s -> S] /\ DOMAIN s \subseteq Nat \ {0} /\ \A i, j \in DOMAIN s : s[i] = s[j] => i = j
  BY Positive DEF Acct!SetToSeqs
<1>2. s \in [DOMAIN s -> Nat]
  BY <1>1
<1> QED BY <1>1, <1>2 DEF Orders

\* The inductive invariant.
AcctInv == AcctTyped /\ AcctNumbered /\ AcctLocked /\ AcctOrdered /\ AcctApart /\ AcctPlanned

\* A request may begin, or go on before it takes a lock, without touching
\* what the others hold.
LEMMA Quiet ==
  ASSUME AcctInv, NEW d \in Admins, NEW x \in Request, Moves(d, x),
         UNCHANGED <<rows, intervals, locks, sent, arranged>>,
         work' \in 0..MaxWork, work' >= work,
         tx[d].pc \in {"idle", "order", "save", "delete", "deleted"},
         x.pc \in {"idle", "order", "save", "delete", "deleted"},
         x.id <= work',
         \A i \in DOMAIN x.order : x.order[i] <= work',
         \A i, j \in DOMAIN x.order : x.order[i] = x.order[j] => i = j,
         x.pc = "save" => x.interval \in Acct!Interval /\ x.interval.account = x.id
  PROVE  AcctInv'
<1> USE AcctBounds DEF AcctInv, Moves
<1>0. work \in Nat /\ \A a \in Accounts : rows[a] # None => rows[a].id \in Nat
  BY DEF AcctTyped, Acct!TypeOK, Acct!Row, Acct!Ids
<1>1. AcctTyped'
  BY DEF AcctTyped, Acct!TypeOK
<1>2. AcctNumbered'
  <2>1. \A e \in Admins : tx[e].id \in Nat /\ \A i \in DOMAIN tx[e].order : tx[e].order[i] \in Nat
    BY RequestOrder DEF AcctTyped
  <2>2. work' \in Nat
    OBVIOUS
  <2>3. ASSUME NEW e \in Admins
        PROVE  /\ tx'[e].id <= work'
               /\ \A i \in DOMAIN tx'[e].order : tx'[e].order[i] <= work'
               /\ \A i, j \in DOMAIN tx'[e].order : tx'[e].order[i] = tx'[e].order[j] => i = j
    <3>1. CASE e = d
      BY <3>1
    <3>2. CASE e # d
      <4>1. tx'[e] = tx[e]
        BY <3>2
      <4> QED BY <1>0, <2>1, <2>2, <4>1 DEF AcctNumbered
    <3> QED BY <3>1, <3>2
  <2>4. \A i \in DOMAIN arranged' : i \in Nat /\ arranged'[i] \in Nat /\ arranged'[i] <= work'
    BY <1>0, <2>2 DEF AcctNumbered
  <2>5. \A a \in Accounts : rows'[a] # None => rows'[a].id <= work'
    BY <1>0, <2>2 DEF AcctNumbered
  <2> QED BY <2>3, <2>4, <2>5 DEF AcctNumbered
<1>3. AcctLocked'
  BY DEF AcctLocked, AcctTyped
<1>4. AcctOrdered'
  BY DEF AcctOrdered, Acct!OneOrder, Acct!Exists
<1>5. AcctApart'
  BY DEF AcctApart, Acct!IntervalsApart, Acct!Overlap
<1>6. AcctPlanned'
  BY DEF AcctPlanned
<1> QED BY <1>1, <1>2, <1>3, <1>4, <1>5, <1>6

\* Taking the locks of rows nobody holds: all of them for an order, the
\* account's for an interval, one to delete it.
LEMMA Locks ==
  ASSUME AcctInv, NEW d \in Admins, NEW x \in Request, Moves(d, x),
         x.id = tx[d].id, x.order = tx[d].order, x.interval = tx[d].interval,
         UNCHANGED <<rows, intervals, sent, arranged, work>>,
         NEW S \in SUBSET Accounts, \A a \in S : rows[a] # None /\ locks[a] = None,
         locks' = [a \in Accounts |-> IF a \in S THEN d ELSE locks[a]],
         \/ tx[d].pc = "order" /\ x.pc = "ordered" /\ \A a \in Accounts \ S : rows[a] = None
         \/ /\ tx[d].pc = "save" /\ x.pc = "check"
            /\ S # {} /\ \A a \in Accounts : a \in S <=> rows[a] # None /\ rows[a].id = x.id
         \/ tx[d].pc = "deleted" /\ x.pc = "gone"
  PROVE  AcctInv'
<1> USE AcctBounds DEF AcctInv, Moves
<1>0. /\ \A a \in Accounts : a \in S => locks'[a] = d
      /\ \A a \in Accounts : a \notin S => locks'[a] = locks[a]
      /\ \A a \in Accounts : locks[a] # d
      /\ locks' \in [Accounts -> Admins \cup {None}]
  BY DEF AcctTyped, Acct!TypeOK
<1>1. AcctTyped'
  BY <1>0 DEF AcctTyped, Acct!TypeOK, AcctLocked
<1>2. AcctNumbered'
  BY DEF AcctNumbered, AcctTyped
<1>3. AcctLocked'
  <2>1. \A a \in Accounts : locks'[a] # None => rows'[a] # None
    BY <1>0 DEF AcctLocked
  <2>2. ASSUME NEW e \in Admins, tx'[e].pc \in {"check", "write"}
        PROVE  /\ tx'[e].interval.account = tx'[e].id
               /\ \E a \in Accounts : locks'[a] = e /\ rows'[a].id = tx'[e].id
               /\ \A a \in Accounts : rows'[a] # None /\ rows'[a].id = tx'[e].id => locks'[a] = e
    <3>1. CASE e = d
      BY <1>0, <2>2, <3>1 DEF AcctLocked
    <3>2. CASE e # d
      <4>1. tx'[e] = tx[e]
        BY <3>2
      <4> QED BY <1>0, <2>2, <3>2, <4>1 DEF AcctLocked
    <3> QED BY <3>1, <3>2
  <2>3. ASSUME NEW e \in Admins, tx'[e].pc = "save"
        PROVE  tx'[e].interval \in Acct!Interval /\ tx'[e].interval.account = tx'[e].id
    BY <2>3 DEF AcctLocked
  <2> QED BY <2>1, <2>2, <2>3 DEF AcctLocked
<1>4. AcctOrdered'
  <2>1. Acct!OneOrder'
    BY DEF AcctOrdered, Acct!OneOrder, Acct!Exists
  <2>2. ASSUME NEW e \in Admins, NEW f \in Admins, NEW a \in Accounts, NEW b \in Accounts,
               tx'[e].pc = "ordered", tx'[f].pc = "ordered", locks'[a] = e, locks'[b] = f
        PROVE  e = f
    BY <1>0, <2>2 DEF AcctOrdered, AcctLocked
  <2>3. ASSUME NEW e \in Admins, NEW a \in Accounts, NEW b \in Accounts,
               tx'[e].pc = "ordered", locks'[a] = e, rows'[b] # None, locks'[b] # e
        PROVE  rows'[b].position = None /\ \A i \in DOMAIN tx'[e].order : tx'[e].order[i] # rows'[b].id
    <3>1. e # d
      BY <1>0, <2>3
    <3>2. tx'[e] = tx[e] /\ locks[a] = e /\ locks[b] # e
      BY <1>0, <2>3, <3>1
    <3> QED BY <2>3, <3>2 DEF AcctOrdered
  <2> QED BY <2>1, <2>2, <2>3 DEF AcctOrdered
<1>5. AcctApart'
  BY DEF AcctApart, Acct!IntervalsApart, Acct!Overlap
<1>6. AcctPlanned'
  BY DEF AcctPlanned
<1> QED BY <1>1, <1>2, <1>3, <1>4, <1>5, <1>6

\* Releasing gives back every lock of the admin and no other.
LEMMA Released ==
  ASSUME AcctTyped, NEW d \in Admins, Acct!Release(d)
  PROVE  /\ locks' \in [Accounts -> Admins \cup {None}]
         /\ \A a \in Accounts : locks'[a] # d
         /\ \A a \in Accounts : locks[a] # d => locks'[a] = locks[a]
         /\ \A a \in Accounts : locks[a] = d => locks'[a] = None
BY AcctBounds DEF AcctTyped, Acct!TypeOK, Acct!Release

\* A request that ends with its rows unchanged, gone or put in order leaves
\* the rest of the invariant.
LEMMA Frees ==
  ASSUME AcctInv, NEW d \in Admins, Moves(d, Acct!Idle), Acct!Release(d),
         UNCHANGED work,
         tx[d].pc \in {"check", "write", "ordered", "gone"},
         rows' \in [Accounts -> Acct!Row \cup {None}],
         \A a \in Accounts : locks[a] # d => rows'[a] = rows[a],
         \A a \in Accounts : rows'[a] # None => rows[a] # None /\ rows'[a].id = rows[a].id,
         \/ arranged' = arranged /\ \A a \in Accounts : rows'[a] \in {rows[a], None}
         \/ tx[d].pc = "ordered" /\ arranged' = tx[d].order /\ \E a \in Accounts : locks[a] = d,
         Acct!OneOrder'
  PROVE  AcctNumbered' /\ AcctLocked' /\ AcctOrdered'
<1> USE AcctBounds DEF AcctInv, Moves
<1>0. /\ \A e \in Admins \ {d} : tx'[e] = tx[e]
      /\ tx'[d].pc = "idle" /\ tx'[d].id = 0 /\ tx'[d].order = <<>>
      /\ work \in Nat
  BY IdleRequest DEF AcctTyped, Acct!TypeOK
<1>2. AcctNumbered'
  <2>1. \A i \in DOMAIN arranged' : i \in Nat /\ arranged'[i] \in Nat /\ arranged'[i] <= work'
    BY RequestOrder DEF AcctNumbered, AcctTyped
  <2>2. \A a \in Accounts : rows'[a] # None => rows'[a].id <= work'
    BY DEF AcctNumbered
  <2> QED BY <1>0, <2>1, <2>2 DEF AcctNumbered
<1>3. AcctLocked'
  <2>1. \A a \in Accounts : locks'[a] # None => rows'[a] # None
    BY Released DEF AcctLocked
  <2>2. ASSUME NEW e \in Admins, tx'[e].pc \in {"check", "write"}
        PROVE  /\ tx'[e].interval.account = tx'[e].id
               /\ \E a \in Accounts : locks'[a] = e /\ rows'[a].id = tx'[e].id
               /\ \A a \in Accounts : rows'[a] # None /\ rows'[a].id = tx'[e].id => locks'[a] = e
    <3>1. e # d /\ tx'[e] = tx[e]
      BY <1>0, <2>2
    <3>2. PICK a \in Accounts : locks[a] = e /\ rows[a].id = tx[e].id
      BY <2>2, <3>1 DEF AcctLocked
    <3>3. locks'[a] = e /\ rows'[a].id = tx[e].id
      BY <3>1, <3>2, Released
    <3> QED BY <2>2, <3>1, <3>3, Released DEF AcctLocked
  <2>3. ASSUME NEW e \in Admins, tx'[e].pc = "save"
        PROVE  tx'[e].interval \in Acct!Interval /\ tx'[e].interval.account = tx'[e].id
    BY <1>0, <2>3 DEF AcctLocked
  <2> QED BY <2>1, <2>2, <2>3 DEF AcctLocked
<1>4. AcctOrdered'
  <2>2. ASSUME NEW e \in Admins, NEW f \in Admins, NEW a \in Accounts, NEW b \in Accounts,
               tx'[e].pc = "ordered", tx'[f].pc = "ordered", locks'[a] = e, locks'[b] = f
        PROVE  e = f
    BY <1>0, <2>2, Released DEF AcctOrdered
  <2>3. ASSUME NEW e \in Admins, NEW a \in Accounts, NEW b \in Accounts,
               tx'[e].pc = "ordered", locks'[a] = e, rows'[b] # None, locks'[b] # e
        PROVE  rows'[b].position = None /\ \A i \in DOMAIN tx'[e].order : tx'[e].order[i] # rows'[b].id
    <3>1. e # d /\ tx'[e] = tx[e] /\ locks[a] = e /\ locks[b] # e /\ rows[b] # None
      BY <1>0, <2>3, Released
    <3>2. rows'[b] = rows[b]
      BY <2>3, <3>1 DEF AcctOrdered
    <3> QED BY <2>3, <3>1, <3>2 DEF AcctOrdered
  <2> QED BY <2>2, <2>3 DEF AcctOrdered
<1> QED BY <1>2, <1>3, <1>4

\* Saving the accounts' order keeps the invariant.
LEMMA OrderKeeps ==
  ASSUME AcctInv, NEW d \in Admins, Acct!Order(d)
  PROVE  AcctInv'
<1> USE AcctBounds
<1>0. work \in Nat /\ AcctTyped
  BY DEF AcctInv, AcctTyped, Acct!TypeOK
<1>1. CASE Acct!OrderRead(d)
  <2>1. PICK refs \in SUBSET {a \in Accounts : Acct!Exists(a)} :
          \E seq \in Acct!SetToSeqs({rows[a].id : a \in refs}) :
            tx' = [tx EXCEPT ![d] = [Acct!Idle EXCEPT !.pc = "order", !.order = seq]]
    BY Zenon, <1>1 DEF Acct!OrderRead
  <2> DEFINE ids == {rows[a].id : a \in refs}
  <2>2. PICK seq \in Acct!SetToSeqs(ids) :
          tx' = [tx EXCEPT ![d] = [Acct!Idle EXCEPT !.pc = "order", !.order = seq]]
    BY Zenon, <2>1
  <2> DEFINE x == [Acct!Idle EXCEPT !.pc = "order", !.order = seq]
  <2>3. ids \in SUBSET Nat /\ \A i \in ids : i <= work
    BY DEF AcctInv, AcctTyped, AcctNumbered, Acct!TypeOK, Acct!Row, Acct!Ids, Acct!Exists
  <2> HIDE DEF ids
  <2>4. /\ seq \in Orders
        /\ \A i \in DOMAIN seq : seq[i] \in ids
        /\ \A i, j \in DOMAIN seq : seq[i] = seq[j] => i = j
    BY <2>3, OrderOf
  <2>5. x \in Request /\ x.pc = "order" /\ x.order = seq /\ x.id = 0
    BY <2>4, IdleRequest DEF Request
  <2>6. work' \in 0..MaxWork /\ work' = work + 1
    BY <1>0, <1>1 DEF Acct!OrderRead, Acct!Begin
  <2>7. \A i \in DOMAIN x.order : x.order[i] <= work'
    BY <1>0, <2>3, <2>4, <2>5, <2>6
  <2> HIDE DEF x
  <2>8. Moves(d, x)
    BY <1>0, <2>2, <2>5 DEF AcctTyped, Moves, x
  <2>9. UNCHANGED <<rows, intervals, locks, sent, arranged>> /\ tx[d].pc = "idle"
    BY <1>1 DEF Acct!OrderRead
  <2> QED BY <1>0, <2>4, <2>5, <2>6, <2>7, <2>8, <2>9, Quiet
<1>2. CASE Acct!OrderClear(d)
  <2>1. PICK x \in Request : Moves(d, x) /\ x.pc = "ordered" /\ x.id = tx[d].id /\ x.order = tx[d].order /\ x.interval = tx[d].interval
    BY Zenon, <1>0, <1>2, MovesOn DEF Acct!OrderClear, MovesTo
  <2> DEFINE S == {a \in Accounts : rows[a] # None}
  <2>2. /\ \A a \in S : rows[a] # None /\ locks[a] = None
        /\ locks' = [a \in Accounts |-> IF a \in S THEN d ELSE locks[a]]
        /\ \A a \in Accounts \ S : rows[a] = None
    BY <1>2 DEF Acct!OrderClear, Acct!Exists
  <2> HIDE DEF S
  <2>3. UNCHANGED <<rows, intervals, sent, arranged, work>> /\ tx[d].pc = "order"
    BY <1>2 DEF Acct!OrderClear
  <2>4. S \in SUBSET Accounts
    BY DEF S
  <2> QED BY <2>1, <2>2, <2>3, <2>4, Locks
<1>3. CASE Acct!OrderCommit(d)
  <2>0. Moves(d, Acct!Idle)
    BY <1>0, <1>3, MovesIdle DEF Acct!OrderCommit
  <2>1. \A a \in Accounts : rows'[a] = IF locks[a] = d THEN Acct!Arranged(rows[a], tx[d].order) ELSE rows[a]
    BY <1>3 DEF Acct!OrderCommit
  <2>2. ASSUME NEW a \in Accounts, locks[a] = d
        PROVE  /\ rows[a] # None /\ rows'[a] \in Acct!Row /\ rows'[a].id = rows[a].id
               /\ rows'[a].plan = rows[a].plan /\ rows'[a].planAt = rows[a].planAt
               /\ {i \in DOMAIN tx[d].order : tx[d].order[i] = rows'[a].id} = {rows'[a].position} \ {None}
    <3>1. rows[a] \in Acct!Row
      BY <1>0, <2>2 DEF AcctInv, AcctTyped, AcctLocked, Acct!TypeOK
    <3> DEFINE p == IF \E i \in DOMAIN tx[d].order : tx[d].order[i] = rows[a].id
                    THEN CHOOSE i \in DOMAIN tx[d].order : tx[d].order[i] = rows[a].id ELSE None
               row == [rows[a] EXCEPT !.position = p]
    <3>2. /\ p \in Nat \cup {None}
          /\ {i \in DOMAIN tx[d].order : tx[d].order[i] = rows[a].id} = {p} \ {None}
      <4>1. tx[d] \in Request
        BY <1>0 DEF AcctTyped
      <4>2. CASE \E i \in DOMAIN tx[d].order : tx[d].order[i] = rows[a].id
        <5>1. p \in DOMAIN tx[d].order /\ tx[d].order[p] = rows[a].id
          BY <4>2
        <5> HIDE DEF p
        <5>2. \A i \in DOMAIN tx[d].order : tx[d].order[i] = rows[a].id => i = p
          BY <5>1 DEF AcctInv, AcctNumbered
        <5>3. p \in Nat /\ p # None
          BY <4>1, <5>1, RequestOrder
        <5> QED BY <5>1, <5>2, <5>3
      <4>3. CASE ~ \E i \in DOMAIN tx[d].order : tx[d].order[i] = rows[a].id
        BY <4>3
      <4> QED BY <4>2, <4>3
    <3>3. rows'[a] = row
      BY <2>1, <2>2 DEF Acct!Arranged
    <3> HIDE DEF p
    <3>4. /\ row \in Acct!Row /\ row.id = rows[a].id /\ row.plan = rows[a].plan
          /\ row.planAt = rows[a].planAt /\ row.position = p
      BY <3>1, <3>2 DEF Acct!Row
    <3> HIDE DEF row
    <3> QED BY <1>0, <2>2, <3>1, <3>2, <3>3, <3>4
  <2>3. Acct!OneOrder'
    <3>1. CASE \E a \in Accounts : locks[a] = d
      <4>1. arranged' = tx[d].order
        BY <1>3, <3>1 DEF Acct!OrderCommit
      <4>2. ASSUME NEW a \in Accounts, rows'[a] # None
            PROVE  {i \in DOMAIN arranged' : arranged'[i] = rows'[a].id} = {rows'[a].position} \ {None}
        <5>1. CASE locks[a] = d
          BY <2>2, <4>1, <5>1
        <5>2. CASE locks[a] # d
          <6>1. rows'[a] = rows[a]
            BY <2>1, <5>2
          <6>2. rows[a].position = None /\ \A i \in DOMAIN tx[d].order : tx[d].order[i] # rows[a].id
            BY <1>3, <3>1, <4>2, <5>2, <6>1 DEF AcctInv, AcctOrdered, Acct!OrderCommit
          <6> QED BY <4>1, <6>1, <6>2
        <5> QED BY <5>1, <5>2
      <4> QED BY <4>2 DEF Acct!OneOrder, Acct!Exists
    <3>2. CASE ~ \E a \in Accounts : locks[a] = d
      <4>1. arranged' = arranged /\ \A a \in Accounts : rows'[a] = rows[a]
        BY <1>3, <2>1, <3>2 DEF Acct!OrderCommit
      <4> QED BY <4>1 DEF AcctInv, AcctOrdered, Acct!OneOrder, Acct!Exists
    <3> QED BY <3>1, <3>2
  <2>4. rows' \in [Accounts -> Acct!Row \cup {None}]
    <3>1. DOMAIN rows' = Accounts /\ rows' = [a \in Accounts |-> rows'[a]]
      BY <1>3 DEF Acct!OrderCommit
    <3>2. \A a \in Accounts : rows'[a] \in Acct!Row \cup {None}
      BY <1>0, <2>1, <2>2 DEF AcctTyped, Acct!TypeOK
    <3> QED BY <3>1, <3>2
  <2>5. UNCHANGED <<intervals, sent, work>> /\ Acct!Release(d) /\ tx[d].pc = "ordered"
    BY <1>3 DEF Acct!OrderCommit
  <2>6. \/ arranged' = arranged /\ \A a \in Accounts : rows'[a] \in {rows[a], None}
        \/ arranged' = tx[d].order /\ \E a \in Accounts : locks[a] = d
    BY <1>3, <2>1 DEF Acct!OrderCommit
  <2>7. \A a \in Accounts : rows'[a] # None => rows[a] # None /\ rows'[a].id = rows[a].id
    BY <2>1, <2>2
  <2>8. AcctNumbered' /\ AcctLocked' /\ AcctOrdered'
    BY <2>0, <2>1, <2>3, <2>4, <2>5, <2>6, <2>7, Frees
  <2>9. AcctTyped'
    <3>1. \A i, j \in DOMAIN arranged' : arranged'[i] = arranged'[j] => i = j
      BY <1>0, <2>6 DEF AcctInv, AcctTyped, AcctNumbered, Acct!TypeOK
    <3>2. locks' \in [Accounts -> Admins \cup {None}]
      BY <1>0, <2>5, Released
    <3>3. \A e \in Admins :
            /\ tx'[e].pc \in {"idle", "order", "ordered", "save", "check", "write", "delete", "deleted", "gone"}
            /\ tx'[e].pc \in {"idle", "order", "save", "delete", "deleted"} => \A a \in Accounts : locks'[a] # e
            /\ tx'[e].pc \in {"check", "write"} => tx'[e].interval \in Acct!Interval
      <4>1. ASSUME NEW a \in Accounts, NEW e \in Admins, locks[a] # e PROVE locks'[a] # e
        BY <1>0, <2>5, <4>1, Released
      <4> QED BY <1>0, <2>0, <2>5, <4>1, Released, IdleRequest DEF AcctTyped, Acct!TypeOK, Moves
    <3> QED BY <1>0, <2>0, <2>4, <2>5, <3>1, <3>2, <3>3 DEF AcctTyped, Acct!TypeOK, Moves
  <2>10. AcctApart'
    BY <2>0, <2>5, IdleRequest DEF AcctInv, AcctApart, Acct!IntervalsApart, Acct!Overlap, Moves
  <2>11. AcctPlanned'
    <3>1. \A a \in Accounts : /\ rows'[a] # None <=> rows[a] # None
                              /\ rows'[a].plan = rows[a].plan /\ rows'[a].planAt = rows[a].planAt
      BY <2>1, <2>2
    <3> QED BY <2>5, <3>1 DEF AcctInv, AcctPlanned
  <2> QED BY <2>8, <2>9, <2>10, <2>11 DEF AcctInv
<1> QED BY <1>1, <1>2, <1>3 DEF Acct!Order

\* Saving a plan interval keeps it.
LEMMA SaveKeeps ==
  ASSUME AcctInv, NEW d \in Admins, Acct!Save(d)
  PROVE  AcctInv'
<1> USE AcctBounds
<1>0. work \in Nat /\ AcctTyped /\ tx[d] \in Request
  BY DEF AcctInv, AcctTyped, Acct!TypeOK
<1>1. CASE Acct!SaveForm(d)
  <2>1. PICK a \in Accounts, from \in Acct!Times, to \in 2..(MaxMoments + 1) :
          /\ rows[a] # None /\ from < to
          /\ \E id \in {work'} \cup {x.id : x \in {y \in intervals : y.account = rows[a].id}} :
               tx' = [tx EXCEPT ![d] = [Acct!Idle EXCEPT !.pc = "save", !.id = rows[a].id,
                        !.interval = [id |-> id, account |-> rows[a].id, from |-> from, to |-> to]]]
    BY Zenon, <1>1 DEF Acct!SaveForm, Acct!Exists
  <2>2. PICK id \in {work'} \cup {x.id : x \in {y \in intervals : y.account = rows[a].id}} :
          tx' = [tx EXCEPT ![d] = [Acct!Idle EXCEPT !.pc = "save", !.id = rows[a].id,
                   !.interval = [id |-> id, account |-> rows[a].id, from |-> from, to |-> to]]]
    BY Zenon, <2>1
  <2> DEFINE in == [id |-> id, account |-> rows[a].id, from |-> from, to |-> to]
             x == [Acct!Idle EXCEPT !.pc = "save", !.id = rows[a].id, !.interval = in]
  <2>3. work' \in 0..MaxWork /\ work' = work + 1
    BY <1>0, <1>1 DEF Acct!SaveForm, Acct!Begin
  <2>4. rows[a].id \in Acct!Ids /\ rows[a].id <= work'
    BY <1>0, <2>1, <2>3 DEF AcctInv, AcctTyped, AcctNumbered, Acct!TypeOK, Acct!Row, Acct!Ids
  <2>5. id \in Acct!Ids
    BY <1>0, <2>3 DEF AcctTyped, Acct!TypeOK, Acct!Interval, Acct!Ids
  <2>6. in \in Acct!Interval /\ in.account = rows[a].id
    BY <2>4, <2>5 DEF Acct!Interval
  <2> HIDE DEF in
  <2>7. x \in Request /\ x.pc = "save" /\ x.id = rows[a].id /\ x.interval = in /\ x.order = <<>>
    <3>1. rows[a].id \in Nat
      BY <2>4 DEF Acct!Ids
    <3> QED BY <2>6, <3>1, IdleRequest DEF Request
  <2> HIDE DEF x
  <2>8. Moves(d, x)
    BY <1>0, <2>2, <2>7 DEF AcctTyped, Moves, x, in
  <2>9. UNCHANGED <<rows, intervals, locks, sent, arranged>> /\ tx[d].pc = "idle"
    BY <1>1 DEF Acct!SaveForm
  <2>10. work' >= work /\ \A i \in DOMAIN x.order : FALSE
    BY <1>0, <2>3, <2>7
  <2> QED BY <2>3, <2>4, <2>6, <2>7, <2>8, <2>9, <2>10, Quiet
<1>2. CASE Acct!SaveLocks(d)
  <2>1. UNCHANGED <<rows, intervals, sent, arranged, work>> /\ tx[d].pc = "save"
    BY <1>2 DEF Acct!SaveLocks
  <2>2. CASE Acct!Present(tx[d].id) = {}
    <3>1. Moves(d, Acct!Idle) /\ UNCHANGED locks
      BY <1>0, <1>2, <2>2, MovesIdle DEF Acct!SaveLocks
    <3>2. work' \in 0..MaxWork /\ work' >= work
      BY <1>0, <2>1 DEF AcctTyped, Acct!TypeOK
    <3> QED BY <1>0, <2>1, <3>1, <3>2, IdleRequest, Quiet
  <2>3. CASE Acct!Present(tx[d].id) # {}
    <3>1. PICK x \in Request : Moves(d, x) /\ x.pc = "check" /\ x.id = tx[d].id /\ x.order = tx[d].order /\ x.interval = tx[d].interval
      BY <1>0, <1>2, <2>3, MovesOn DEF Acct!SaveLocks, MovesTo
    <3> DEFINE S == Acct!Present(tx[d].id)
    <3>2. /\ S \in SUBSET Accounts /\ S # {}
          /\ \A a \in Accounts : a \in S <=> rows[a] # None /\ rows[a].id = x.id
      BY <2>3, <3>1 DEF Acct!Present, Acct!Exists
    <3>3. /\ \A a \in S : rows[a] # None /\ locks[a] = None
          /\ locks' = [a \in Accounts |-> IF a \in S THEN d ELSE locks[a]]
      BY <1>2, <2>3, <3>2 DEF Acct!SaveLocks
    <3> HIDE DEF S
    <3> QED BY <2>1, <3>1, <3>2, <3>3, Locks
  <2> QED BY <2>2, <2>3
<1>3. CASE Acct!SaveChecks(d)
  <2>1. UNCHANGED <<rows, intervals, sent, arranged, work>> /\ tx[d].pc = "check"
    BY <1>3 DEF Acct!SaveChecks
  <2> DEFINE clear == \A x \in intervals : x.account = tx[d].interval.account /\ x.id # tx[d].interval.id
                                             => ~Acct!Overlap(x, tx[d].interval)
  <2>2. CASE ~clear
    <3>1. Moves(d, Acct!Idle) /\ Acct!Release(d)
      BY <1>0, <1>3, <2>2, MovesIdle DEF Acct!SaveChecks
    <3>2. rows' \in [Accounts -> Acct!Row \cup {None}] /\ Acct!OneOrder'
      BY <1>0, <2>1 DEF AcctInv, AcctOrdered, AcctTyped, Acct!TypeOK, Acct!OneOrder, Acct!Exists
    <3>3. AcctNumbered' /\ AcctLocked' /\ AcctOrdered'
      BY <2>1, <3>1, <3>2, Frees
    <3>4. AcctTyped'
      BY <1>0, <2>1, <3>1, Released, IdleRequest DEF AcctTyped, Acct!TypeOK, Moves
    <3>5. AcctApart'
      BY <2>1, <3>1, IdleRequest DEF AcctInv, AcctApart, Acct!IntervalsApart, Acct!Overlap, Moves
    <3>6. AcctPlanned'
      BY <2>1 DEF AcctInv, AcctPlanned
    <3> QED BY <3>3, <3>4, <3>5, <3>6 DEF AcctInv
  <2>3. CASE clear
    <3>1. PICK x \in Request : Moves(d, x) /\ x.pc = "write" /\ x.id = tx[d].id /\ x.order = tx[d].order /\ x.interval = tx[d].interval
      BY <1>0, <1>3, <2>3, MovesOn DEF Acct!SaveChecks, MovesTo
    <3>2. UNCHANGED locks
      BY <1>3, <2>3 DEF Acct!SaveChecks
    <3>3. AcctTyped'
      BY <1>0, <2>1, <3>1, <3>2 DEF AcctTyped, Acct!TypeOK, Moves
    <3>4. AcctNumbered'
      BY <2>1, <3>1 DEF AcctInv, AcctNumbered, Moves
    <3>5. AcctLocked'
      BY <2>1, <3>1, <3>2 DEF AcctInv, AcctLocked, Moves
    <3>6. AcctOrdered'
      BY <2>1, <3>1, <3>2 DEF AcctInv, AcctOrdered, Acct!OneOrder, Acct!Exists, Moves
    <3>7. AcctApart'
      <4>1. ASSUME NEW e \in Admins, tx'[e].pc = "write"
            PROVE  \A y \in intervals' : y.account = tx'[e].id /\ y.id # tx'[e].interval.id
                                           => ~Acct!Overlap(y, tx'[e].interval)
        <5>1. CASE e = d
          BY <2>1, <2>3, <3>1, <5>1 DEF AcctInv, AcctLocked, Moves
        <5>2. CASE e # d
          BY <2>1, <3>1, <4>1, <5>2 DEF AcctInv, AcctApart, Moves
        <5> QED BY <5>1, <5>2
      <4> QED BY <2>1, <4>1 DEF AcctInv, AcctApart, Acct!IntervalsApart, Acct!Overlap
    <3>8. AcctPlanned'
      BY <2>1 DEF AcctInv, AcctPlanned
    <3> QED BY <3>3, <3>4, <3>5, <3>6, <3>7, <3>8 DEF AcctInv
  <2> QED BY <2>2, <2>3
<1>4. CASE Acct!SaveWrites(d)
  <2> DEFINE in == tx[d].interval
             old == {x \in intervals : x.id = in.id}
  <2>1. UNCHANGED <<rows, sent, arranged, work>> /\ tx[d].pc = "write" /\ Acct!Release(d)
    BY <1>4 DEF Acct!SaveWrites
  <2>2. Moves(d, Acct!Idle)
    BY <1>0, <1>4, MovesIdle DEF Acct!SaveWrites
  <2>3. rows' \in [Accounts -> Acct!Row \cup {None}] /\ Acct!OneOrder'
    BY <1>0, <2>1 DEF AcctInv, AcctOrdered, AcctTyped, Acct!TypeOK, Acct!OneOrder, Acct!Exists
  <2>4. AcctNumbered' /\ AcctLocked' /\ AcctOrdered'
    BY <2>1, <2>2, <2>3, Frees
  <2>5. intervals' = intervals \/ intervals' = (intervals \ old) \cup {in}
    BY <1>4 DEF Acct!SaveWrites
  <2>6. in \in Acct!Interval /\ in.account = tx[d].id
    BY <1>0, <2>1 DEF AcctInv, AcctTyped, AcctLocked, Acct!TypeOK
  <2>8. AcctTyped'
    <3>1. intervals' \subseteq Acct!Interval /\ \A x, y \in intervals' : x.id = y.id => x = y
      BY <1>0, <2>5, <2>6 DEF AcctTyped, Acct!TypeOK
    <3> QED BY <1>0, <2>1, <2>2, <3>1, Released, IdleRequest DEF AcctTyped, Acct!TypeOK, Moves
  <2>9. AcctApart'
    <3>1. ASSUME NEW e \in Admins, tx'[e].pc = "write"
          PROVE  \A y \in intervals' : y.account = tx'[e].id /\ y.id # tx'[e].interval.id
                                         => ~Acct!Overlap(y, tx'[e].interval)
      <4>1. e # d /\ tx'[e] = tx[e]
        BY <2>2, <3>1, IdleRequest DEF Moves
      <4>2. tx[e].id # tx[d].id
        BY <2>1, <3>1, <4>1 DEF AcctInv, AcctLocked
      <4> QED BY <2>5, <2>6, <3>1, <4>1, <4>2 DEF AcctInv, AcctApart
    <3>2. \A x \in intervals : x.account = in.account /\ x.id # in.id => ~Acct!Overlap(x, in) /\ ~Acct!Overlap(in, x)
      BY <2>1, <2>6 DEF AcctInv, AcctApart, Acct!Overlap
    <3>3. Acct!IntervalsApart'
      <4>1. \A x, y \in intervals' : x # y /\ x.account = y.account => ~Acct!Overlap(x, y)
        BY <2>5, <3>2 DEF AcctInv, AcctApart, Acct!IntervalsApart
      <4> QED BY <4>1 DEF Acct!IntervalsApart, Acct!Overlap
    <3> QED BY <3>1, <3>3 DEF AcctApart, Acct!Overlap
  <2>10. AcctPlanned'
    BY <2>1 DEF AcctInv, AcctPlanned
  <2> QED BY <2>4, <2>8, <2>9, <2>10 DEF AcctInv
<1> QED BY <1>1, <1>2, <1>3, <1>4 DEF Acct!Save

\* Deleting an account keeps it.
LEMMA DeleteKeeps ==
  ASSUME AcctInv, NEW d \in Admins, Acct!Delete(d)
  PROVE  AcctInv'
<1> USE AcctBounds
<1>0. work \in 0..MaxWork /\ work \in Nat /\ AcctTyped /\ tx[d] \in Request
  BY DEF AcctInv, AcctTyped, Acct!TypeOK
<1>1. CASE Acct!DeleteForm(d)
  <2>1. PICK a \in Accounts :
          /\ rows[a] # None
          /\ tx' = [tx EXCEPT ![d] = [Acct!Idle EXCEPT !.pc = "delete", !.id = rows[a].id]]
    BY Zenon, <1>1 DEF Acct!DeleteForm, Acct!Exists
  <2> DEFINE x == [Acct!Idle EXCEPT !.pc = "delete", !.id = rows[a].id]
  <2>2. work' \in 0..MaxWork /\ work' = work + 1
    BY <1>0, <1>1 DEF Acct!DeleteForm, Acct!Begin
  <2>3. rows[a].id \in Nat /\ rows[a].id <= work'
    BY <1>0, <2>1, <2>2 DEF AcctInv, AcctTyped, AcctNumbered, Acct!TypeOK, Acct!Row, Acct!Ids
  <2>4. x \in Request /\ x.pc = "delete" /\ x.id = rows[a].id /\ x.order = <<>>
    BY <2>3, IdleRequest DEF Request
  <2> HIDE DEF x
  <2>5. Moves(d, x)
    BY <1>0, <2>1, <2>4 DEF AcctTyped, Moves, x
  <2>6. UNCHANGED <<rows, intervals, locks, sent, arranged>> /\ tx[d].pc = "idle"
    BY <1>1 DEF Acct!DeleteForm
  <2>7. work' >= work /\ \A i \in DOMAIN x.order : FALSE
    BY <1>0, <2>2, <2>4
  <2> QED BY <2>2, <2>3, <2>4, <2>5, <2>6, <2>7, Quiet
<1>2. CASE Acct!DeleteRecords(d)
  <2>1. PICK x \in Request : Moves(d, x) /\ x.pc = "deleted" /\ x.id = tx[d].id /\ x.order = tx[d].order /\ x.interval = tx[d].interval
    BY Zenon, <1>0, <1>2, MovesOn DEF Acct!DeleteRecords, MovesTo
  <2>2. UNCHANGED <<rows, intervals, locks, sent, arranged, work>> /\ tx[d].pc = "delete"
    BY <1>2 DEF Acct!DeleteRecords
  <2>3. /\ x.id <= work' /\ \A i \in DOMAIN x.order : x.order[i] <= work'
        /\ \A i, j \in DOMAIN x.order : x.order[i] = x.order[j] => i = j
    BY <2>1, <2>2 DEF AcctInv, AcctNumbered
  <2> QED BY <1>0, <2>1, <2>2, <2>3, Quiet
<1>3. CASE Acct!DeleteRow(d)
  <2>1. UNCHANGED <<rows, intervals, sent, arranged, work>> /\ tx[d].pc = "deleted"
    BY <1>3 DEF Acct!DeleteRow
  <2>2. CASE Acct!Present(tx[d].id) = {}
    <3>1. Moves(d, Acct!Idle) /\ UNCHANGED locks
      BY <1>0, <1>3, <2>2, MovesIdle DEF Acct!DeleteRow
    <3> QED BY <1>0, <2>1, <3>1, IdleRequest, Quiet
  <2>3. CASE Acct!Present(tx[d].id) # {}
    <3>1. PICK x \in Request : Moves(d, x) /\ x.pc = "gone" /\ x.id = tx[d].id /\ x.order = tx[d].order /\ x.interval = tx[d].interval
      BY <1>0, <1>3, <2>3, MovesOn DEF Acct!DeleteRow, MovesTo
    <3> DEFINE S == Acct!Present(tx[d].id)
    <3>2. S \in SUBSET Accounts
      BY DEF Acct!Present
    <3>3. /\ \A a \in S : rows[a] # None /\ locks[a] = None
          /\ locks' = [a \in Accounts |-> IF a \in S THEN d ELSE locks[a]]
      BY <1>3, <2>3 DEF Acct!DeleteRow, Acct!Present, Acct!Exists
    <3> HIDE DEF S
    <3> QED BY <2>1, <3>1, <3>2, <3>3, Locks
  <2> QED BY <2>2, <2>3
<1>4. CASE Acct!DeleteCommit(d)
  <2>1. /\ UNCHANGED <<arranged, work>> /\ tx[d].pc = "gone" /\ Acct!Release(d)
        /\ intervals' \subseteq intervals
    BY <1>4 DEF Acct!DeleteCommit
  <2>2. Moves(d, Acct!Idle)
    BY <1>0, <1>4, MovesIdle DEF Acct!DeleteCommit
  <2>3. /\ rows' = [a \in Accounts |-> IF locks[a] = d THEN None ELSE rows[a]]
        /\ sent' = [a \in Accounts |-> IF locks[a] = d THEN {} ELSE sent[a]]
    BY <1>4 DEF Acct!DeleteCommit
  <2>4. /\ \A a \in Accounts : rows'[a] = IF locks[a] = d THEN None ELSE rows[a]
        /\ \A a \in Accounts : sent'[a] = IF locks[a] = d THEN {} ELSE sent[a]
    BY <2>3
  <2>5. rows' \in [Accounts -> Acct!Row \cup {None}] /\ Acct!OneOrder'
    BY <1>0, <2>1, <2>3 DEF AcctInv, AcctOrdered, AcctTyped, Acct!TypeOK, Acct!OneOrder, Acct!Exists
  <2>6. AcctNumbered' /\ AcctLocked' /\ AcctOrdered'
    BY <2>1, <2>2, <2>4, <2>5, Frees
  <2>7. AcctTyped'
    <3>1. intervals' \subseteq Acct!Interval /\ \A x, y \in intervals' : x.id = y.id => x = y
      BY <1>0, <2>1 DEF AcctTyped, Acct!TypeOK
    <3>2. sent' \in [Accounts -> SUBSET Acct!PlanReading]
      BY <1>0, <2>3 DEF AcctTyped, Acct!TypeOK
    <3> QED BY <1>0, <2>1, <2>2, <2>5, <3>1, <3>2, Released, IdleRequest DEF AcctTyped, Acct!TypeOK, Moves
  <2>8. AcctApart'
    BY <2>1, <2>2, IdleRequest DEF AcctInv, AcctApart, Acct!IntervalsApart, Acct!Overlap, Moves
  <2>9. AcctPlanned'
    BY <2>4 DEF AcctInv, AcctPlanned
  <2> QED BY <2>6, <2>7, <2>8, <2>9 DEF AcctInv
<1> QED BY <1>1, <1>2, <1>3, <1>4 DEF Acct!Delete

\* Deleting a plan interval keeps it.
LEMMA DeleteIntervalKeeps ==
  ASSUME AcctInv, Acct!DeletePlanInterval
  PROVE  AcctInv'
<1> USE AcctBounds
<1>1. UNCHANGED <<rows, locks, tx, sent, arranged>> /\ intervals' \subseteq intervals
  BY DEF Acct!DeletePlanInterval
<1>2. work \in Nat /\ work' = work + 1 /\ work' \in 0..MaxWork
  BY DEF AcctInv, AcctTyped, Acct!TypeOK, Acct!DeletePlanInterval, Acct!Begin
<1>3. AcctTyped'
  BY <1>1, <1>2 DEF AcctInv, AcctTyped, Acct!TypeOK
<1>4. AcctNumbered'
  <2>1. \A a \in Accounts : rows[a] # None => rows[a].id \in Nat
    BY DEF AcctInv, AcctTyped, Acct!TypeOK, Acct!Row, Acct!Ids
  <2>2. \A e \in Admins : tx[e].id \in Nat /\ \A i \in DOMAIN tx[e].order : tx[e].order[i] \in Nat
    BY RequestOrder DEF AcctInv, AcctTyped
  <2> QED BY <1>1, <1>2, <2>1, <2>2 DEF AcctInv, AcctNumbered
<1>5. AcctLocked'
  BY <1>1 DEF AcctInv, AcctLocked
<1>6. AcctOrdered'
  BY <1>1 DEF AcctInv, AcctOrdered, Acct!OneOrder, Acct!Exists
<1>7. AcctApart'
  BY <1>1 DEF AcctInv, AcctApart, Acct!IntervalsApart, Acct!Overlap
<1>8. AcctPlanned'
  BY <1>1 DEF AcctInv, AcctPlanned
<1> QED BY <1>3, <1>4, <1>5, <1>6, <1>7, <1>8 DEF AcctInv

\* Merging a plan reading into a row: the newer one's plan is kept, a reading
\* without a tier leaving the tier of a plan of the same base.
LEMMA UpsertedRow ==
  ASSUME NEW row \in Acct!Row, NEW r \in Acct!PlanReading
  PROVE  /\ Acct!Upserted(row, r) \in Acct!Row
         /\ Acct!Upserted(row, r).id = row.id /\ Acct!Upserted(row, r).position = row.position
         /\ Acct!Upserted(row, r).planAt = IF row.planAt > r.at THEN row.planAt ELSE r.at
         /\ \/ Acct!Upserted(row, r).plan = r.plan /\ row.planAt <= r.at
            \/ Acct!Upserted(row, r).plan = row.plan /\ r.at < row.planAt
            \/ /\ Acct!Upserted(row, r).plan = row.plan /\ row.planAt <= r.at
               /\ r.plan.tier = None /\ r.plan.base = row.plan.base
<1> USE AcctBounds
<1> DEFINE p == IF \/ r.at < row.planAt
                   \/ row.plan # None /\ r.plan.tier = None /\ row.plan.tier # None /\ row.plan.base = r.plan.base
                THEN row.plan ELSE r.plan
           n == IF row.planAt > r.at THEN row.planAt ELSE r.at
           u == [row EXCEPT !.plan = p, !.planAt = n]
<1>0. r.plan \in Acct!Plan /\ r.at \in 1..MaxMoments /\ row.plan \in Acct!Plan \cup {None} /\ row.planAt \in 0..MaxMoments
  BY DEF Acct!PlanReading, Acct!Times, Acct!Row
<1>1. Acct!Upserted(row, r) = u
  BY DEF Acct!Upserted, Acct!Later
<1>2. p \in Acct!Plan \cup {None} /\ n \in 0..MaxMoments
  BY <1>0
<1>3. \/ p = r.plan /\ row.planAt <= r.at
      \/ p = row.plan /\ r.at < row.planAt
      \/ p = row.plan /\ row.planAt <= r.at /\ r.plan.tier = None /\ r.plan.base = row.plan.base
  BY <1>0
<1> HIDE DEF p
<1>4. n = IF row.planAt > r.at THEN row.planAt ELSE r.at
  OBVIOUS
<1> HIDE DEF n
<1>5. u \in Acct!Row /\ u.id = row.id /\ u.position = row.position /\ u.plan = p /\ u.planAt = n
  BY <1>2 DEF Acct!Row
<1> HIDE DEF u
<1> QED BY <1>1, <1>3, <1>4, <1>5

\* An upload, which may add the account and undo its deletion, keeps it.
LEMMA UploadKeeps ==
  ASSUME AcctInv, NEW a \in Accounts, Acct!Upload(a)
  PROVE  AcctInv'
<1> USE AcctBounds
<1>0. AcctTyped /\ work \in Nat
  BY DEF AcctInv, AcctTyped, Acct!TypeOK
<1>1. /\ work' = work + 1 /\ work' \in 1..MaxWork /\ work' \in Nat
      /\ locks[a] = None /\ UNCHANGED <<intervals, locks, arranged>>
  BY <1>0 DEF Acct!Upload, Acct!Begin
<1>2. /\ tx' \in [Admins -> Request]
      /\ \A d \in Admins : tx'[d] = tx[d] \/ (tx'[d] = Acct!Idle /\ tx[d].pc = "deleted")
  <2> DEFINE undone == {d \in Admins : tx[d].pc = "deleted" /\ Acct!Exists(a) /\ tx[d].id = rows[a].id}
  <2>1. tx' = [d \in Admins |-> IF d \in undone THEN Acct!Idle ELSE tx[d]]
    BY DEF Acct!Upload, Acct!UndoDeletion
  <2>2. \A d \in undone : tx[d].pc = "deleted"
    OBVIOUS
  <2> HIDE DEF undone
  <2> QED BY <1>0, <2>1, <2>2, IdleRequest DEF AcctTyped
<1> DEFINE row == IF rows[a] # None THEN rows[a] ELSE Acct!NewRow
<1>3. /\ row \in Acct!Row
      /\ rows[a] # None => row = rows[a]
      /\ rows[a] = None => row.id = work' /\ row.position = None /\ row.planAt = 0
  <2>1. CASE rows[a] # None
    BY <1>0, <2>1 DEF AcctTyped, Acct!TypeOK
  <2>2. CASE rows[a] = None
    BY <1>1, <2>2 DEF Acct!NewRow, Acct!Row, Acct!Ids
  <2> QED BY <2>1, <2>2
<1>4. PICK r \in Acct!PlanReading \cup {None} :
        IF r = None
        THEN rows' = [rows EXCEPT ![a] = row] /\ UNCHANGED sent
        ELSE /\ rows' = [rows EXCEPT ![a] = Acct!Upserted(row, r)]
             /\ sent' = [sent EXCEPT ![a] = @ \cup {r}]
  BY DEF Acct!Upload, Acct!Exists
<1> HIDE DEF row
<1>5. PICK u \in Acct!Row :
        /\ rows' = [rows EXCEPT ![a] = u] /\ u.id = row.id /\ u.position = row.position
        /\ r = None => u = row
        /\ r # None => u = Acct!Upserted(row, r)
  <2>1. CASE r = None
    BY <1>3, <1>4, <2>1
  <2>2. CASE r # None
    BY <1>3, <1>4, <2>2, UpsertedRow
  <2> QED BY <2>1, <2>2
<1>6. /\ rows' \in [Accounts -> Acct!Row \cup {None}]
      /\ rows'[a] = u /\ rows'[a] # None
      /\ \A b \in Accounts \ {a} : rows'[b] = rows[b]
  BY <1>0, <1>5 DEF AcctTyped, Acct!TypeOK
<1>7. \A b \in Accounts : rows'[b] # None =>
        \/ rows[b] # None /\ rows'[b].id = rows[b].id /\ rows'[b].position = rows[b].position
        \/ rows[b] = None /\ b = a /\ rows'[b].id = work' /\ rows'[b].position = None
  BY <1>3, <1>5, <1>6
<1>8. AcctTyped'
  <2>1. sent' \in [Accounts -> SUBSET Acct!PlanReading]
    BY <1>0, <1>4 DEF AcctTyped, Acct!TypeOK
  <2>2. \A d \in Admins :
          /\ tx'[d].pc \in {"idle", "order", "ordered", "save", "check", "write", "delete", "deleted", "gone"}
          /\ tx'[d].pc \in {"idle", "order", "save", "delete", "deleted"} => \A b \in Accounts : locks'[b] # d
          /\ tx'[d].pc \in {"check", "write"} => tx'[d].interval \in Acct!Interval
    BY <1>0, <1>1, <1>2, IdleRequest DEF AcctTyped, Acct!TypeOK
  <2>3. work' \in 0..MaxWork
    BY <1>1
  <2> QED BY <1>0, <1>1, <1>2, <1>6, <2>1, <2>2, <2>3 DEF AcctTyped, Acct!TypeOK
<1>9. AcctNumbered'
  <2>1. \A b \in Accounts : rows'[b] # None => rows'[b].id <= work'
    BY <1>0, <1>1, <1>7 DEF AcctInv, AcctNumbered, AcctTyped, Acct!TypeOK, Acct!Row, Acct!Ids
  <2>2. \A d \in Admins : tx[d].id \in Nat /\ \A i \in DOMAIN tx[d].order : tx[d].order[i] \in Nat
    BY <1>0, RequestOrder DEF AcctTyped
  <2>3. ASSUME NEW d \in Admins
        PROVE  /\ tx'[d].id <= work'
               /\ \A i \in DOMAIN tx'[d].order : tx'[d].order[i] <= work'
               /\ \A i, j \in DOMAIN tx'[d].order : tx'[d].order[i] = tx'[d].order[j] => i = j
    <3>1. CASE tx'[d] = tx[d]
      BY <1>0, <1>1, <2>2, <3>1 DEF AcctInv, AcctNumbered
    <3>2. CASE tx'[d] = Acct!Idle
      BY <1>0, <1>1, <3>2, IdleRequest
    <3> QED BY <1>2, <3>1, <3>2
  <2>4. \A i \in DOMAIN arranged' : i \in Nat /\ arranged'[i] \in Nat /\ arranged'[i] <= work'
    BY <1>0, <1>1 DEF AcctInv, AcctNumbered
  <2> QED BY <2>1, <2>3, <2>4 DEF AcctNumbered
<1>10. AcctLocked'
  <2>1. \A b \in Accounts : locks'[b] # None => rows'[b] # None
    BY <1>1, <1>6 DEF AcctInv, AcctLocked
  <2>2. ASSUME NEW d \in Admins, tx'[d].pc \in {"check", "write"}
        PROVE  /\ tx'[d].interval.account = tx'[d].id
               /\ \E b \in Accounts : locks'[b] = d /\ rows'[b].id = tx'[d].id
               /\ \A b \in Accounts : rows'[b] # None /\ rows'[b].id = tx'[d].id => locks'[b] = d
    <3>1. tx'[d] = tx[d]
      BY <1>2, <2>2, IdleRequest
    <3>2. PICK b \in Accounts : locks[b] = d /\ rows[b].id = tx[d].id
      BY <2>2, <3>1 DEF AcctInv, AcctLocked
    <3>3. b # a /\ rows'[b] = rows[b]
      BY <1>1, <1>6, <3>2
    <3>4. tx[d].id < work'
      BY <1>0, <1>1, RequestOrder DEF AcctInv, AcctNumbered, AcctTyped
    <3>5. tx[d].id # work'
      BY <1>1, <3>4
    <3> QED BY <1>1, <1>7, <2>2, <3>1, <3>2, <3>3, <3>5 DEF AcctInv, AcctLocked
  <2>3. ASSUME NEW d \in Admins, tx'[d].pc = "save"
        PROVE  tx'[d].interval \in Acct!Interval /\ tx'[d].interval.account = tx'[d].id
    BY <1>2, <2>3, IdleRequest DEF AcctInv, AcctLocked
  <2> QED BY <2>1, <2>2, <2>3 DEF AcctLocked
<1>11. AcctOrdered'
  <2>1. \A i \in DOMAIN arranged : arranged[i] # work'
    BY <1>0, <1>1 DEF AcctInv, AcctNumbered
  <2>2. ASSUME NEW b \in Accounts, rows'[b] # None
        PROVE  {i \in DOMAIN arranged' : arranged'[i] = rows'[b].id} = {rows'[b].position} \ {None}
    BY <1>1, <1>7, <2>1, <2>2 DEF AcctInv, AcctOrdered, Acct!OneOrder, Acct!Exists
  <2>3. ASSUME NEW d \in Admins, tx'[d].pc = "ordered" PROVE tx'[d] = tx[d]
    BY <1>2, <2>3, IdleRequest
  <2>4. ASSUME NEW d \in Admins, NEW b \in Accounts, NEW c \in Accounts,
               tx'[d].pc = "ordered", locks'[b] = d, rows'[c] # None, locks'[c] # d
        PROVE  rows'[c].position = None /\ \A i \in DOMAIN tx'[d].order : tx'[d].order[i] # rows'[c].id
    <3>1. \A i \in DOMAIN tx[d].order : tx[d].order[i] # work'
      BY <1>0, <1>1, RequestOrder DEF AcctInv, AcctNumbered, AcctTyped
    <3> QED BY <1>1, <1>7, <2>3, <2>4, <3>1 DEF AcctInv, AcctOrdered
  <2>5. ASSUME NEW d \in Admins, NEW e \in Admins, NEW b \in Accounts, NEW c \in Accounts,
               tx'[d].pc = "ordered", tx'[e].pc = "ordered", locks'[b] = d, locks'[c] = e
        PROVE  d = e
    BY <1>1, <2>3, <2>5 DEF AcctInv, AcctOrdered
  <2> QED BY <2>2, <2>4, <2>5 DEF AcctOrdered, Acct!OneOrder, Acct!Exists
<1>12. AcctApart'
  <2>1. \A d \in Admins : tx'[d].pc = "write" => tx'[d] = tx[d]
    BY <1>2, IdleRequest
  <2> QED BY <1>1, <2>1 DEF AcctInv, AcctApart, Acct!IntervalsApart, Acct!Overlap
<1>13. AcctPlanned'
  <2>0. sent \in [Accounts -> SUBSET Acct!PlanReading]
    BY <1>0 DEF AcctTyped, Acct!TypeOK
  <2>1. ASSUME NEW b \in Accounts \ {a}
        PROVE  /\ rows'[b] = None => sent'[b] = {}
               /\ rows'[b] # None /\ sent'[b] = {} => rows'[b].planAt = 0
               /\ sent'[b] # {} =>
                    \E s \in sent'[b] : /\ \A x \in sent'[b] : x.at <= s.at
                                        /\ s.at = rows'[b].planAt
                                        /\ rows'[b].plan.base = s.plan.base
                                        /\ rows'[b].plan.tier = s.plan.tier \/ s.plan.tier = None
    <3>1. sent'[b] = sent[b] /\ rows'[b] = rows[b]
      BY <1>4, <1>6, <2>0
    <3> QED BY <3>1 DEF AcctInv, AcctPlanned
  <2>2. /\ sent[a] = {} => row.planAt = 0
        /\ sent[a] # {} => row = rows[a]
    BY <1>3 DEF AcctInv, AcctPlanned
  <2>3. CASE r = None
    <3>1. rows'[a] = row /\ sent' = sent
      BY <1>4, <1>5, <1>6, <2>3
    <3> QED BY <1>6, <2>1, <2>2, <3>1 DEF AcctInv, AcctPlanned
  <2>4. CASE r # None
    <3>1. sent'[a] = sent[a] \cup {r} /\ r \in Acct!PlanReading
      BY <1>4, <2>0, <2>4
    <3>2. /\ u.planAt = IF row.planAt > r.at THEN row.planAt ELSE r.at
          /\ \/ u.plan = r.plan /\ row.planAt <= r.at
             \/ u.plan = row.plan /\ r.at < row.planAt
             \/ u.plan = row.plan /\ row.planAt <= r.at /\ r.plan.tier = None /\ r.plan.base = row.plan.base
      BY <1>3, <1>5, <2>4, <3>1, UpsertedRow
    <3>3. r.at \in Nat /\ row.planAt \in Nat /\ \A x \in sent[a] : x.at \in Nat
      BY <1>3, <2>0, <3>1 DEF Acct!PlanReading, Acct!Times, Acct!Row
    <3>4. \A x \in sent[a] : x.at <= row.planAt
      <4>1. CASE sent[a] = {}
        BY <4>1
      <4>2. CASE sent[a] # {}
        BY <2>2, <3>3, <4>2 DEF AcctInv, AcctPlanned
      <4> QED BY <4>1, <4>2
    <3>5. \E s \in sent'[a] : /\ \A x \in sent'[a] : x.at <= s.at
                              /\ s.at = u.planAt /\ u.plan.base = s.plan.base
                              /\ u.plan.tier = s.plan.tier \/ s.plan.tier = None
      <4>1. CASE row.planAt <= r.at
        <5>1. r \in sent'[a] /\ r.at = u.planAt /\ u.plan.base = r.plan.base
          BY <3>1, <3>2, <3>3, <4>1
        <5>2. u.plan.tier = r.plan.tier \/ r.plan.tier = None
          BY <3>2, <3>3, <4>1
        <5>3. \A x \in sent'[a] : x.at <= r.at
          BY <3>1, <3>3, <3>4, <4>1
        <5> QED BY <5>1, <5>2, <5>3
      <4>2. CASE r.at < row.planAt
        <5>1. u.plan = row.plan /\ u.planAt = row.planAt
          BY <3>2, <3>3, <4>2
        <5>2. sent[a] # {} /\ row = rows[a]
          BY <2>2, <3>3, <4>2
        <5>3. PICK s \in sent[a] : /\ \A x \in sent[a] : x.at <= s.at
                                   /\ s.at = rows[a].planAt
                                   /\ rows[a].plan.base = s.plan.base
                                   /\ rows[a].plan.tier = s.plan.tier \/ s.plan.tier = None
          BY <5>2 DEF AcctInv, AcctPlanned
        <5>4. \A x \in sent'[a] : x.at <= s.at
          BY <3>1, <3>3, <4>2, <5>2, <5>3
        <5> QED BY <3>1, <5>1, <5>2, <5>3, <5>4
      <4> QED BY <3>3, <4>1, <4>2
    <3> QED BY <1>6, <2>1, <3>1, <3>5 DEF AcctPlanned
  <2> QED BY <2>3, <2>4
<1> QED BY <1>8, <1>9, <1>10, <1>11, <1>12, <1>13 DEF AcctInv

\* It holds of an empty server.
LEMMA AcctInitially == Acct!Init => AcctInv
<1> SUFFICES ASSUME Acct!Init PROVE AcctInv
  OBVIOUS
<1> USE AcctBounds DEF Acct!Init
<1>1. \A d \in Admins : tx[d] = Acct!Idle
  OBVIOUS
<1>2. 0 \in 0..MaxWork /\ DOMAIN arranged = {}
  OBVIOUS
<1>3. AcctTyped
  BY <1>1, <1>2, IdleRequest DEF AcctTyped, Acct!TypeOK
<1>4. AcctNumbered
  BY <1>1, <1>2, IdleRequest DEF AcctNumbered
<1>5. AcctLocked /\ AcctOrdered
  BY <1>1, <1>2, IdleRequest DEF AcctLocked, AcctOrdered, Acct!OneOrder, Acct!Exists
<1>6. AcctApart /\ AcctPlanned
  BY <1>1, IdleRequest DEF AcctApart, Acct!IntervalsApart, AcctPlanned
<1> QED BY <1>3, <1>4, <1>5, <1>6 DEF AcctInv

\* A step of something else keeps it.
LEMMA AcctStutters == AcctInv /\ UNCHANGED Acct!vars => AcctInv'
BY DEF Acct!vars, AcctInv, AcctTyped, Acct!TypeOK, AcctNumbered, AcctLocked, AcctOrdered, Acct!OneOrder, Acct!Exists,
       AcctApart, Acct!IntervalsApart, Acct!Overlap, AcctPlanned

\* The invariant holds in every reachable state.
THEOREM AcctAlways == Acct!Spec => []AcctInv
<1>1. AcctInv /\ [Acct!Next]_(Acct!vars) => AcctInv'
  BY UploadKeeps, OrderKeeps, SaveKeeps, DeleteKeeps, DeleteIntervalKeeps, AcctStutters DEF Acct!Next
<1> QED BY <1>1, AcctInitially, PTL DEF Acct!Spec

\* The accounts are well typed.
THEOREM AcctTypeCorrect == Acct!Spec => []Acct!TypeOK
<1>1. AcctInv => Acct!TypeOK
  BY DEF AcctInv, AcctTyped
<1> QED BY <1>1, AcctAlways, PTL

\* An account's plan is that of its newest reading (internal/server/storage,
\* ingest), in whatever order readings of any number of devices arrive.
THEOREM PlansFollow == Acct!Spec => []PlanFollowsNewest
<1>1. AcctInv => PlanFollowsNewest
  BY DEF AcctInv, AcctPlanned, PlanFollowsNewest, Acct!PlanFollowsNewest
<1> QED BY <1>1, AcctAlways, PTL

\* For any number of admins at once, two plan intervals of an account never
\* overlap, and the accounts stand in the order saved last
\* (internal/server/storage).
THEOREM AdminsKeptApart == Acct!Spec => []AdminsApart
<1>1. AcctInv => AdminsApart
  BY DEF AcctInv, AcctApart, AcctOrdered, AdminsApart
<1> QED BY <1>1, AcctAlways, PTL

-----------------------------------------------------------------------------
\* Whichever part a behaviour is of, that part is well typed, and so are the
\* statusLine capture and the accounts.
THEOREM TypeCorrect == Spec => []TypeOK
<1>1. part = "probe" /\ [Next]_vars => (part = "probe")'
  BY DEF Next, vars
<1>2. ~(part = "probe") /\ [Next]_vars => ~(part = "probe")'
  BY DEF Next, vars
<1>3. part = "dash" /\ [Next]_vars => (part = "dash")'
  BY DEF Next, vars
<1>4. ~(part = "dash") /\ [Next]_vars => ~(part = "dash")'
  BY DEF Next, vars
<1>5. Spec => [](part = "probe" => Probe!TypeOK)
  BY <1>1, <1>2, PartsImplement, ProbeTypeCorrect, PTL DEF Spec
<1>6. Spec => [](part = "dash" => Dash!TypeOK)
  BY <1>3, <1>4, PartsImplement, DashTypeCorrect, PTL DEF Spec
<1>7. Line!TypeOK /\ Acct!TypeOK /\ (part = "probe" => Probe!TypeOK) /\ (part = "dash" => Dash!TypeOK) => TypeOK
  BY DEF TypeOK
<1> QED BY <1>5, <1>6, <1>7, PartsImplement, LineTypeCorrect, AcctTypeCorrect, PTL

\* What the parts promise holds of them side by side, whichever of them a
\* behaviour is about.
THEOREM PartsKeepPromises ==
  Spec => /\ []OriginalKept /\ PutsBack
          /\ []PlanFollowsNewest /\ []AdminsApart
          /\ part = "probe" => []OwnReading
          /\ part = "dash" => []NoEmailShown /\ PreviewIsAdmins
<1> QED
  BY PartsImplement, OriginalRemembered, OriginalPutBack, PlansFollow, AdminsKeptApart, OwnReadings,
     EmailsStayInside, PreviewsAreAdmins, PTL
=============================================================================
