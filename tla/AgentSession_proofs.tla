------------------------- MODULE AgentSession_proofs -------------------------
(***************************************************************************)
(* Proofs about AgentSession: its type invariant, and that while the       *)
(* operations of the user interface do not overlap the settings file never *)
(* names a device whose token is gone, whatever fails or restarts.         *)
(***************************************************************************)
EXTENDS AgentSession, TLAPS

LEMMA AtRestTyped == AtRest \in Operations /\ Fresh \in Settings
<1>1. 0 \in 0..MaxPrefs
  BY SessionConstants
<1> QED
  BY <1>1 DEF AtRest, Operations, Fresh, Settings

LEMMA InitTyped == Init => TypeOK
<1>1. 0 \in 0..MaxFails /\ 0 \in 0..MaxCrashes
  BY SessionConstants
<1>2. AtRest.pc = "idle"
  BY DEF AtRest
<1> QED
  BY <1>1, <1>2, AtRestTyped DEF Init, TypeOK, NoSync

\* Every step keeps every variable in its type.
LEMMA NextTyped == TypeOK /\ [Next]_vars => TypeOK'
<1> SUFFICES ASSUME TypeOK, [Next]_vars PROVE TypeOK'
  OBVIOUS
<1> USE SessionConstants DEF NoSync, memory, disk, server, faults
<1>1. ASSUME NEW t \in Tasks, JoinPair(t) PROVE TypeOK'
  <2>1. \A d \in Devices : [pc |-> "paired", dev |-> d, st |-> Fresh] \in Operations
    BY AtRestTyped DEF Operations
  <2>2. ui' \in [Tasks -> Operations]
    BY <1>1, <2>1 DEF TypeOK, JoinPair
  <2>3. \A u \in Tasks : ui'[u].pc \in {"paired", "keyed"} => ui'[u].dev \in issued'
    BY <1>1 DEF TypeOK, JoinPair, Operations, AtRest
  <2> QED
    BY <1>1, <2>2, <2>3 DEF TypeOK, JoinPair
<1>2. ASSUME NEW t \in Tasks, JoinToken(t) PROVE TypeOK'
  <2>1. ui[t].dev \in Devices
    BY <1>2 DEF TypeOK, JoinToken
  <2> QED
    BY <1>2, <2>1 DEF TypeOK, JoinToken, Operations
<1>3. ASSUME NEW t \in Tasks, JoinSwitch(t) PROVE TypeOK'
  BY <1>3, AtRestTyped DEF TypeOK, JoinSwitch, Operations, Settings
<1>4. ASSUME NEW t \in Tasks, LeaveClear(t) PROVE TypeOK'
  BY <1>4, AtRestTyped DEF TypeOK, LeaveClear, Operations, Settings
<1>5. ASSUME NEW t \in Tasks, SaveSwitch(t) PROVE TypeOK'
  BY <1>5, AtRestTyped DEF TypeOK, SaveSwitch, Operations, Settings
<1>6. ASSUME NEW t \in Tasks, DeleteToken(t) PROVE TypeOK'
  BY <1>6, AtRestTyped DEF TypeOK, DeleteToken, AtRest
<1>7. ASSUME NEW t \in Tasks, SetPreference(t) PROVE TypeOK'
  BY <1>7, AtRestTyped DEF TypeOK, SetPreference, Operations, Settings
<1>8. ASSUME NEW t \in Tasks, SavePreference(t) PROVE TypeOK'
  BY <1>8, AtRestTyped DEF TypeOK, SavePreference, Operations, AtRest
<1>9. ASSUME NEW t \in Tasks, WriteFails(t) PROVE TypeOK'
  BY <1>9, AtRestTyped DEF TypeOK, WriteFails, AtRest
<1>10. CASE SyncStart
  BY <1>10 DEF TypeOK, SyncStart
<1>11. CASE SyncUploaded
  BY <1>11 DEF TypeOK, SyncUploaded
<1>12. CASE SyncRejected
  BY <1>12 DEF TypeOK, SyncRejected
<1>13. CASE SyncOverview
  BY <1>13 DEF TypeOK, SyncOverview
<1>14. CASE SyncError
  BY <1>14 DEF TypeOK, SyncError
<1>15. ASSUME NEW d \in Devices, Revoke(d) PROVE TypeOK'
  BY <1>15 DEF TypeOK, Revoke
<1>16. CASE Restart
  <2>1. crashes' \in 0..MaxCrashes
    BY <1>16 DEF TypeOK, Restart
  <2>2. ui' \in [Tasks -> Operations] /\ \A t \in Tasks : ui'[t].pc = "idle"
    BY <1>16, AtRestTyped DEF Restart, AtRest
  <2> QED
    BY <1>16, <2>1, <2>2 DEF TypeOK, Restart, Settings
<1>17. CASE UNCHANGED vars
  BY <1>17 DEF TypeOK, vars
<1> QED
  BY <1>1, <1>2, <1>3, <1>4, <1>5, <1>6, <1>7, <1>8, <1>9, <1>10, <1>11, <1>12,
     <1>13, <1>14, <1>15, <1>16, <1>17 DEF Next

\* Every reachable state of the settings, the credential store, the agent's
\* memory and the operations under way is well typed (settings.Settings, Agent).
THEOREM TypeCorrect == Spec => []TypeOK
<1> QED
  BY InitTyped, NextTyped, PTL DEF Spec

-----------------------------------------------------------------------------
(***************************************************************************)
(* The order of the writes.  An operation holds a copy of memory that      *)
(* stays what memory holds, whose device has a token, and the device it    *)
(* will forget is not the one in that copy.                                *)
(***************************************************************************)
\* One operation at a time.
OneAtATime == \A t, u \in Tasks : ui[t].pc # "idle" /\ ui[u].pc # "idle" => t = u

\* What is on disk or in memory was issued, and has its token.
HeldIsKeyed ==
  /\ {mem.device, file.device} \subseteq issued \cup {None}
  /\ {mem.device, file.device} \subseteq keys \cup {None}

\* How far each operation has come.
Held(t) ==
  /\ ui[t].pc = "idle" => ui[t] = AtRest
  /\ ui[t].pc \in {"paired", "keyed"} =>
       /\ ui[t].dev \in issued
       /\ ui[t].dev \notin {mem.device, file.device}
  /\ ui[t].pc = "keyed" => ui[t].dev \in keys
  /\ ui[t].pc \in {"switched", "saved", "changed"} => ui[t].st = mem
  /\ ui[t].pc \in {"switched", "saved"} => ui[t].dev # mem.device \/ ui[t].dev = None
  /\ ui[t].pc = "saved" => file = mem

Ordered == OneAtATime /\ HeldIsKeyed /\ \A t \in Tasks : Held(t)

OInv == TypeOK /\ Ordered

LEMMA InitOrdered == Init => Ordered
BY SessionConstants DEF Init, Ordered, OneAtATime, HeldIsKeyed, Held, AtRest, Fresh

\* Every step of operations that do not overlap keeps the order.
LEMMA NextOrdered ==
  ASSUME Overlap = FALSE, TypeOK, Ordered, [Next]_vars
  PROVE  Ordered'
<1> USE SessionConstants DEF Settings, Fresh, AtRest, memory, disk, server, faults
<1>1. ASSUME NEW t \in Tasks, JoinPair(t) PROVE Ordered'
  <2>1. PICK d \in Devices \ issued :
           /\ issued' = issued \cup {d}
           /\ \/ ui' = [ui EXCEPT ![t] = [pc |-> "paired", dev |-> d, st |-> Fresh]]
              \/ UNCHANGED ui
    BY <1>1 DEF JoinPair
  <2>2. d \notin {mem.device, file.device}
    BY <2>1 DEF Ordered, HeldIsKeyed
  <2>3. \A u \in Tasks : ui[u] = AtRest
    BY <1>1 DEF JoinPair, Ready
  <2>4. OneAtATime' /\ HeldIsKeyed'
    BY <1>1, <2>1, <2>3 DEF TypeOK, Ordered, OneAtATime, HeldIsKeyed, JoinPair
  <2>5. ASSUME NEW u \in Tasks PROVE Held(u)'
    <3>1. ui'[u] = AtRest \/ (ui'[u].pc = "paired" /\ ui'[u].dev = d)
      BY <2>1, <2>3 DEF TypeOK
    <3>2. UNCHANGED <<mem, file, keys>>
      BY <1>1 DEF JoinPair
    <3> QED
      BY <2>1, <2>2, <3>1, <3>2 DEF Held
  <2> QED
    BY <2>4, <2>5 DEF Ordered
<1>2. ASSUME NEW t \in Tasks, JoinToken(t) PROVE Ordered'
  BY <1>2 DEF TypeOK, Ordered, OneAtATime, HeldIsKeyed, Held, JoinToken
<1>3. ASSUME NEW t \in Tasks, JoinSwitch(t) PROVE Ordered'
  BY <1>3 DEF TypeOK, Ordered, OneAtATime, HeldIsKeyed, Held, JoinSwitch
<1>4. ASSUME NEW t \in Tasks, LeaveClear(t) PROVE Ordered'
  BY <1>4 DEF TypeOK, Ordered, OneAtATime, HeldIsKeyed, Held, LeaveClear, Ready
<1>5. ASSUME NEW t \in Tasks, SaveSwitch(t) PROVE Ordered'
  BY <1>5 DEF TypeOK, Ordered, OneAtATime, HeldIsKeyed, Held, SaveSwitch
<1>6. ASSUME NEW t \in Tasks, DeleteToken(t) PROVE Ordered'
  BY <1>6 DEF TypeOK, Ordered, OneAtATime, HeldIsKeyed, Held, DeleteToken
<1>7. ASSUME NEW t \in Tasks, SetPreference(t) PROVE Ordered'
  BY <1>7 DEF TypeOK, Ordered, OneAtATime, HeldIsKeyed, Held, SetPreference, Ready
<1>8. ASSUME NEW t \in Tasks, SavePreference(t) PROVE Ordered'
  BY <1>8 DEF TypeOK, Ordered, OneAtATime, HeldIsKeyed, Held, SavePreference
<1>9. ASSUME NEW t \in Tasks, WriteFails(t) PROVE Ordered'
  BY <1>9 DEF TypeOK, Ordered, OneAtATime, HeldIsKeyed, Held, WriteFails
<1>10. CASE SyncStart \/ SyncUploaded \/ SyncRejected \/ SyncOverview \/ SyncError
  BY <1>10 DEF Ordered, OneAtATime, HeldIsKeyed, Held,
               SyncStart, SyncUploaded, SyncRejected, SyncOverview, SyncError
<1>11. ASSUME NEW d \in Devices, Revoke(d) PROVE Ordered'
  BY <1>11 DEF Ordered, OneAtATime, HeldIsKeyed, Held, Revoke
<1>12. CASE Restart
  BY <1>12 DEF TypeOK, Ordered, OneAtATime, HeldIsKeyed, Held, Restart
<1>13. CASE UNCHANGED vars
  BY <1>13 DEF Ordered, OneAtATime, HeldIsKeyed, Held, vars
<1> QED
  BY <1>1, <1>2, <1>3, <1>4, <1>5, <1>6, <1>7, <1>8, <1>9, <1>10, <1>11, <1>12, <1>13
  DEF Next

\* For any number of devices, failed writes and restarts, the settings an app
\* starts from name a device whose token is stored, as long as the operations
\* of the user interface run one after another (Agent.Join, Agent.Leave).
THEOREM TokenKept == Overlap = FALSE => (Spec => []TokenForSettings)
<1> SUFFICES ASSUME Overlap = FALSE PROVE Spec => []TokenForSettings
  BY Zenon
<1>1. Init => OInv
  BY InitTyped, InitOrdered DEF OInv
<1>2. OInv /\ [Next]_vars => OInv'
  BY Zenon, NextTyped, NextOrdered DEF OInv
<1>3. OInv => TokenForSettings
  BY DEF OInv, Ordered, HeldIsKeyed, TokenForSettings
<1> QED
  BY <1>1, <1>2, <1>3, PTL DEF Spec

-----------------------------------------------------------------------------
(***************************************************************************)
(* The tokens.  Until a write fails or the app stops, the credential store *)
(* holds the token of the device in the settings and, while an operation   *)
(* is under way, of the device it pairs or forgets.                        *)
(***************************************************************************)
Only(S) == keys = S \ {None}

\* What each operation has stored and not forgotten yet.
Stored(t) ==
  /\ ui[t].pc \in {"paired", "changed"} => Only({file.device}) /\ mem.device = file.device
  /\ ui[t].pc = "keyed" => Only({file.device, ui[t].dev}) /\ mem.device = file.device
  /\ ui[t].pc = "switched" => Only({mem.device, ui[t].dev}) /\ file.device = ui[t].dev
  /\ ui[t].pc = "saved" => Only({mem.device, ui[t].dev})

Accounted ==
  fails = 0 /\ crashes = 0 =>
    /\ Settled => Only({file.device}) /\ mem.device = file.device
    /\ \A t \in Tasks : Stored(t)

\* Every step of operations that do not overlap accounts for the tokens.
LEMMA NextAccounted ==
  ASSUME Overlap = FALSE, TypeOK, Ordered, Accounted, [Next]_vars
  PROVE  Accounted'
<1> USE SessionConstants DEF Settings, Fresh, AtRest, memory, disk, server, faults, Accounted, Stored, Only, Settled
<1>1. ASSUME NEW t \in Tasks, JoinPair(t) PROVE Accounted'
  BY <1>1 DEF TypeOK, JoinPair, Ready
<1>2. ASSUME NEW t \in Tasks, JoinToken(t) PROVE Accounted'
  BY <1>2 DEF TypeOK, Ordered, OneAtATime, JoinToken
<1>3. ASSUME NEW t \in Tasks, JoinSwitch(t) PROVE Accounted'
  BY <1>3 DEF TypeOK, Ordered, OneAtATime, JoinSwitch
<1>4. ASSUME NEW t \in Tasks, LeaveClear(t) PROVE Accounted'
  BY <1>4 DEF TypeOK, LeaveClear, Ready
<1>5. ASSUME NEW t \in Tasks, SaveSwitch(t) PROVE Accounted'
  BY <1>5 DEF TypeOK, Ordered, OneAtATime, Held, SaveSwitch
<1>6. ASSUME NEW t \in Tasks, DeleteToken(t) PROVE Accounted'
  BY <1>6 DEF TypeOK, Ordered, OneAtATime, Held, DeleteToken
<1>7. ASSUME NEW t \in Tasks, SetPreference(t) PROVE Accounted'
  BY <1>7 DEF TypeOK, SetPreference, Ready
<1>8. ASSUME NEW t \in Tasks, SavePreference(t) PROVE Accounted'
  BY <1>8 DEF TypeOK, Ordered, OneAtATime, Held, SavePreference
<1>9. ASSUME NEW t \in Tasks, WriteFails(t) PROVE Accounted'
  BY <1>9 DEF TypeOK, WriteFails
<1>10. CASE SyncStart \/ SyncUploaded \/ SyncRejected \/ SyncOverview \/ SyncError
  BY <1>10 DEF SyncStart, SyncUploaded, SyncRejected, SyncOverview, SyncError
<1>11. ASSUME NEW d \in Devices, Revoke(d) PROVE Accounted'
  BY <1>11 DEF Revoke
<1>12. CASE Restart
  BY <1>12 DEF TypeOK, Restart
<1>13. CASE UNCHANGED vars
  BY <1>13 DEF vars
<1> QED
  BY <1>1, <1>2, <1>3, <1>4, <1>5, <1>6, <1>7, <1>8, <1>9, <1>10, <1>11, <1>12, <1>13
  DEF Next

\* Joining, leaving and joining another server, one after another and any
\* number of times, leave exactly the token of the device the settings name in
\* the credential store, until a write fails or the app stops half way
\* (Agent.Join, Agent.Leave).
THEOREM TokensAccounted == Overlap = FALSE => (Spec => []NoTokenLeft)
<1> SUFFICES ASSUME Overlap = FALSE PROVE Spec => []NoTokenLeft
  BY Zenon
<1>1. Init => TypeOK /\ Ordered /\ Accounted
  <2>1. Init => Accounted
    BY DEF Init, Accounted, Stored, Only, Settled, AtRest, Fresh
  <2> QED BY <2>1, InitTyped, InitOrdered
<1>2. TypeOK /\ Ordered /\ Accounted /\ [Next]_vars => (TypeOK /\ Ordered /\ Accounted)'
  BY Zenon, NextTyped, NextOrdered, NextAccounted
<1>3. Accounted => NoTokenLeft
  BY DEF Accounted, NoTokenLeft, Only
<1> QED
  BY <1>1, <1>2, <1>3, PTL DEF Spec
=============================================================================
