----------------------------- MODULE StatusLine -----------------------------
(***************************************************************************)
(* Claude Code's statusLine setting.  ShareCodex points it at a shim of    *)
(* its own and remembers the user's own line, which the shim runs in turn  *)
(* and turning the capture off puts back.  The user edits the file beside  *)
(* it, a write may fail, and the app may stop anywhere and start again     *)
(* from another place, whose path the setting then has to follow.          *)
(***************************************************************************)
EXTENDS Naturals

CONSTANTS
  Lines,      \* statusLine settings of the user's own
  Exes,       \* places the app is started from; a shim is named by its own
  Nothing,    \* no statusLine setting
  NotSaved,   \* no line remembered
  MaxEdits,   \* bound: edits by the user
  MaxFails    \* bound: failed writes, restarts, removals of the app's data

VARIABLES
  file,   \* statusLine in Claude Code's settings.json
  disk,   \* SavedStatusLine in the app's settings file
  mem,    \* the same in the app's memory
  exe,    \* where the running app was started from
  op,     \* the change under way
  own,    \* history: the user's line, as chosen last or put back
  stale,  \* history: whether that was while another line was remembered
  edits, fails

vars == <<file, disk, mem, exe, op, own, stale, edits, fails>>

Own == Lines \cup {Nothing}
Idle == [pc |-> "idle", prev |-> Nothing, next |-> Nothing, restore |-> FALSE]
Op == [pc : {"idle", "repair", "save", "apply", "write", "forget"},
       prev : Own \cup Exes, next : Own \cup Exes, restore : BOOLEAN]

TypeOK ==
  /\ file \in Own \cup Exes
  \* A shim is never what the shim runs.
  /\ disk \in Own \cup {NotSaved} /\ mem \in Own \cup {NotSaved}
  /\ exe \in Exes /\ op \in Op
  /\ own \in Own /\ stale \in BOOLEAN
  /\ edits \in 0..MaxEdits /\ fails \in 0..MaxFails

Init ==
  /\ file \in Own
  /\ disk = NotSaved /\ mem = NotSaved
  /\ exe \in Exes /\ op = Idle
  /\ own = file /\ stale = FALSE
  /\ edits = 0 /\ fails = 0

-----------------------------------------------------------------------------
IsShim(line) == line \in Exes

Fails == fails < MaxFails /\ fails' = fails + 1

\* Mutant: a shim of another place is remembered like any line.
RememberedShim(prev) == IF mem = NotSaved THEN prev ELSE mem

\* Mutant: re-pointing an older shim starts from what it finds.
RememberedAnew(prev) == IF IsShim(prev) THEN NotSaved ELSE prev

\* "When re-pointing an older shim, keep the original saved at first install."
Remembered(prev) == IF mem = NotSaved /\ ~IsShim(prev) THEN prev ELSE mem

\* PlanInstall, and the user's line remembered under the lock.
Install ==
  IF file = exe THEN op' = Idle /\ UNCHANGED mem
  ELSE /\ mem' = Remembered(file)
       /\ op' = [pc |-> "save", prev |-> file, next |-> exe, restore |-> FALSE]

InstallStatusLine ==
  /\ op.pc = "idle"
  /\ Install
  /\ UNCHANGED <<file, disk, exe, own, stale, edits, fails>>

\* RepairInstalledPaths, when the app starts: a shim of another place.
RepairInstalledPaths ==
  /\ op.pc = "repair"
  /\ IF IsShim(file) THEN Install ELSE op' = Idle /\ UNCHANGED mem
  /\ UNCHANGED <<file, disk, exe, own, stale, edits, fails>>

\* Mutant: the line is put back from what is remembered after the save.
RestorePlanForgotten(original) ==
  [pc |-> IF IsShim(file) THEN "apply" ELSE "forget", prev |-> file, restore |-> TRUE, next |-> Nothing]

\* PlanRestore: nothing to write when the user changed it, theirs wins.
RestorePlan(original) ==
  [pc |-> IF IsShim(file) THEN "apply" ELSE "forget", prev |-> file, restore |-> TRUE,
   next |-> IF original = NotSaved THEN Nothing ELSE original]

RestoreStatusLine ==
  /\ op.pc = "idle"
  /\ op' = RestorePlan(mem)
  /\ UNCHANGED <<file, disk, mem, exe, own, stale, edits, fails>>

\* settings.Save, of an install before the setting changes, of a restore
\* after it; an error ends either.
Save ==
  /\ op.pc = "save"
  /\ \/ /\ disk' = mem
        /\ op' = IF op.restore THEN Idle ELSE [op EXCEPT !.pc = "apply"]
        /\ stale' = (stale /\ ~op.restore)
        /\ UNCHANGED fails
     \/ /\ Fails
        /\ op' = Idle
        /\ UNCHANGED <<disk, stale>>
  /\ UNCHANGED <<file, mem, exe, own, edits>>

\* Apply reads the file again, and gives up if the setting changed since.
ApplyReads ==
  /\ op.pc = "apply"
  /\ op' = IF file = op.prev THEN [op EXCEPT !.pc = "write"] ELSE Idle
  /\ UNCHANGED <<file, disk, mem, exe, own, stale, edits, fails>>

\* What was read, with the setting replaced, becomes the file in one rename.
ApplyWrites ==
  /\ op.pc = "write"
  /\ \/ /\ file' = op.next
        /\ op' = IF op.restore THEN [op EXCEPT !.pc = "forget"] ELSE Idle
        /\ own' = IF op.restore THEN op.next ELSE own
        /\ UNCHANGED fails
     \/ /\ Fails
        /\ op' = Idle
        /\ UNCHANGED <<file, own>>
  /\ UNCHANGED <<disk, mem, exe, stale, edits>>

\* RestoreStatusLine's end: nothing is remembered any longer.
Forget ==
  /\ op.pc = "forget"
  /\ mem' = NotSaved
  /\ op' = [op EXCEPT !.pc = "save"]
  /\ UNCHANGED <<file, disk, exe, own, stale, edits, fails>>

-----------------------------------------------------------------------------
UserEdits ==
  /\ edits < MaxEdits
  /\ edits' = edits + 1
  /\ \E l \in Own \ {file} : file' = l /\ own' = l
  /\ stale' = (stale \/ mem # NotSaved \/ disk # NotSaved)
  /\ UNCHANGED <<disk, mem, exe, op, fails>>

\* The app stops at any point and is started from some place, with its
\* settings as it left them or removed.
Restart ==
  /\ Fails
  /\ \/ UNCHANGED <<disk, stale>>
     \/ disk' = NotSaved /\ stale' = (stale \/ IsShim(file))
  /\ mem' = disk'
  /\ exe' \in Exes
  /\ op' = [Idle EXCEPT !.pc = "repair"]
  /\ UNCHANGED <<file, own, edits>>

Next == InstallStatusLine \/ RepairInstalledPaths \/ RestoreStatusLine \/ Save
        \/ ApplyReads \/ ApplyWrites \/ Forget \/ UserEdits \/ Restart

Spec == Init /\ [][Next]_vars

-----------------------------------------------------------------------------
\* SavedStatusLine: "the shim chains to it and Restore puts it back".  While
\* a shim is installed the app's settings hold the line the user chose last,
\* whatever failed, wherever the app was restarted from, unless it was
\* chosen while another one was remembered or the settings were removed.
OriginalKept == IsShim(file) /\ ~stale => disk = own

\* RestoreStatusLine: with the same exceptions, turning the capture off
\* leaves the line the user chose last, an edit made between Apply's look at
\* the file and its write apart.
PutsBack ==
  [][op.pc = "write" /\ op.restore /\ op.next = file' /\ ~stale => file' = own]_vars
=============================================================================
