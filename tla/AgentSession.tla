----------------------------- MODULE AgentSession -----------------------------
(***************************************************************************)
(* What a device knows of its server: the settings file, the token in the  *)
(* credential store and the agent's memory, updated one after another by   *)
(* joining, leaving and changing a preference, while the sync loop talks   *)
(* to the server with the client it picked up before.                      *)
(*                                                                         *)
(* The agent copies its settings under its lock and saves the copy after   *)
(* letting go of it.  The app may stop at any point; it then starts from   *)
(* the file and the credential store.                                      *)
(***************************************************************************)
EXTENDS Naturals, FiniteSets

CONSTANTS
  Devices,     \* ids the server gives to paired devices, one per pairing
  None,        \* no device: not joined
  Tasks,       \* user interface operations that may run at once
  Overlap,     \* whether operations of the user interface overlap
  MaxPrefs,    \* bound: preference changes
  MaxFails,    \* bound: failed writes
  MaxCrashes,  \* bound: restarts of the app
  MaxRevokes   \* bound: devices the admin revokes

ASSUME SessionConstants ==
  /\ None \notin Devices
  /\ Overlap \in BOOLEAN
  /\ {MaxPrefs, MaxFails, MaxCrashes, MaxRevokes} \subseteq Nat

VARIABLES
  mem,        \* Agent.settings
  client,     \* Agent.client: the device it authenticates as
  revoked,    \* Agent.revoked
  overview,   \* Agent.overview: the device whose overview is on screen
  file,       \* settings.json
  keys,       \* devices with a token in the credential store
  issued,     \* server: devices paired so far
  dead,       \* server: devices revoked
  ui,         \* the operations under way
  syncer,     \* the sync under way and the client it captured
  fails,      \* failed writes so far
  crashes     \* restarts so far

vars == <<mem, client, revoked, overview, file, keys, issued, dead, ui, syncer, fails, crashes>>
memory == <<mem, client, revoked, overview>>
disk == <<file, keys>>
server == <<issued, dead>>
faults == <<fails, crashes>>

\* The join and how many preference changes it goes with.
Settings == [device : Devices \cup {None}, prefs : 0..MaxPrefs]
Fresh == [device |-> None, prefs |-> 0]

\* How far an operation is, the device it pairs or forgets and the settings
\* it copied to save.
Operations == [pc : {"idle", "paired", "keyed", "switched", "saved", "changed"},
               dev : Devices \cup {None}, st : Settings]

AtRest == [pc |-> "idle", dev |-> None, st |-> Fresh]
NoSync == [pc |-> "idle", as |-> None]

Init ==
  /\ mem = Fresh
  /\ client = None
  /\ revoked = FALSE
  /\ overview = None
  /\ file = Fresh
  /\ keys = {}
  /\ issued = {}
  /\ dead = {}
  /\ ui = [t \in Tasks |-> AtRest]
  /\ syncer = NoSync
  /\ fails = 0
  /\ crashes = 0

Ready(t) ==
  /\ ui[t] = AtRest
  /\ Overlap \/ \A u \in Tasks : ui[u] = AtRest

-----------------------------------------------------------------------------
(***************************************************************************)
(* Joining: pair, store the token, switch over in memory, save the         *)
(* settings, forget the previous token.                                    *)
(***************************************************************************)
\* The reply may be lost: the server then has a device nobody uses.
JoinPair(t) ==
  /\ Ready(t)
  /\ \E d \in Devices \ issued :
       /\ issued' = issued \cup {d}
       /\ \/ ui' = [ui EXCEPT ![t] = [pc |-> "paired", dev |-> d, st |-> Fresh]]
          \/ UNCHANGED ui
  /\ UNCHANGED <<memory, disk, dead, syncer, faults>>

JoinToken(t) ==
  /\ ui[t].pc = "paired"
  /\ keys' = keys \cup {ui[t].dev}
  /\ ui' = [ui EXCEPT ![t].pc = "keyed"]
  /\ UNCHANGED <<memory, file, server, syncer, faults>>

\* Mutant: the previous token is forgotten before the settings are saved.
JoinSwitchForgetting(t) ==
  LET d == ui[t].dev
      st == [mem EXCEPT !.device = d]
  IN  /\ ui[t].pc = "keyed"
      /\ mem' = st
      /\ client' = d
      /\ revoked' = FALSE
      /\ overview' = None
      /\ keys' = keys \ {mem.device}
      /\ ui' = [ui EXCEPT ![t] = [pc |-> "switched", dev |-> mem.device, st |-> st]]
      /\ UNCHANGED <<file, server, syncer, faults>>

\* The task goes on with the device the new one replaces.
JoinSwitch(t) ==
  LET d == ui[t].dev
      st == [mem EXCEPT !.device = d]
  IN  /\ ui[t].pc = "keyed"
      /\ mem' = st
      /\ client' = d
      /\ revoked' = FALSE
      /\ overview' = None
      /\ ui' = [ui EXCEPT ![t] = [pc |-> "switched", dev |-> mem.device, st |-> st]]
      /\ UNCHANGED <<disk, server, syncer, faults>>

(***************************************************************************)
(* Leaving: forget in memory, save the settings, forget the token.         *)
(***************************************************************************)
LeaveClear(t) ==
  LET st == [mem EXCEPT !.device = None]
  IN  /\ Ready(t)
      /\ mem.device # None
      /\ mem' = st
      /\ client' = None
      /\ revoked' = FALSE
      /\ overview' = None
      /\ ui' = [ui EXCEPT ![t] = [pc |-> "switched", dev |-> mem.device, st |-> st]]
      /\ UNCHANGED <<disk, server, syncer, faults>>

\* Save the settings as they were copied, for a join or a leave.
SaveSwitch(t) ==
  /\ ui[t].pc = "switched"
  /\ file' = ui[t].st
  /\ ui' = [ui EXCEPT ![t].pc = "saved"]
  /\ UNCHANGED <<memory, keys, server, syncer, faults>>

\* Mutant: the token of the device left or replaced stays.
KeepToken(t) ==
  /\ ui[t].pc = "saved"
  /\ ui' = [ui EXCEPT ![t] = AtRest]
  /\ UNCHANGED <<memory, disk, server, syncer, faults>>

\* Forget the token of the device left or replaced.
DeleteToken(t) ==
  /\ ui[t].pc = "saved"
  /\ keys' = keys \ {ui[t].dev}
  /\ ui' = [ui EXCEPT ![t] = AtRest]
  /\ UNCHANGED <<memory, file, server, syncer, faults>>

(***************************************************************************)
(* Every other setting: change it in memory, save the settings.            *)
(***************************************************************************)
SetPreference(t) ==
  LET st == [mem EXCEPT !.prefs = @ + 1]
  IN  /\ Ready(t)
      /\ mem.prefs < MaxPrefs
      /\ mem' = st
      /\ ui' = [ui EXCEPT ![t] = [pc |-> "changed", dev |-> None, st |-> st]]
      /\ UNCHANGED <<client, revoked, overview, disk, server, syncer, faults>>

SavePreference(t) ==
  /\ ui[t].pc = "changed"
  /\ file' = ui[t].st
  /\ ui' = [ui EXCEPT ![t] = AtRest]
  /\ UNCHANGED <<memory, keys, server, syncer, faults>>

\* A write to the credential store or the settings fails: the operation ends
\* there, and memory keeps what it has.
WriteFails(t) ==
  /\ ui[t].pc \in {"paired", "switched", "saved", "changed"}
  /\ fails < MaxFails
  /\ fails' = fails + 1
  /\ ui' = [ui EXCEPT ![t] = AtRest]
  /\ UNCHANGED <<memory, disk, server, syncer, crashes>>

-----------------------------------------------------------------------------
(***************************************************************************)
(* The sync loop: capture the client, upload, fetch the overview.  Memory  *)
(* is only locked to read the client and to write the outcome.             *)
(***************************************************************************)
\* Mutant: a device that never joined syncs too.
SyncStartUnjoined ==
  /\ syncer = NoSync
  /\ ~revoked
  /\ syncer' = [pc |-> "uploading", as |-> client]
  /\ UNCHANGED <<memory, disk, server, ui, faults>>

SyncStart ==
  /\ syncer = NoSync
  /\ client # None
  /\ ~revoked
  /\ syncer' = [pc |-> "uploading", as |-> client]
  /\ UNCHANGED <<memory, disk, server, ui, faults>>

\* With nothing to upload no request is sent, so this may be a revoked device.
SyncUploaded ==
  /\ syncer.pc = "uploading"
  /\ syncer' = [syncer EXCEPT !.pc = "fetching"]
  /\ UNCHANGED <<memory, disk, server, ui, faults>>

\* The server answers an upload with 401; only an upload finds out.
SyncRejected ==
  /\ syncer.pc = "uploading"
  /\ syncer.as \in dead
  /\ revoked' = TRUE
  /\ syncer' = NoSync
  /\ UNCHANGED <<mem, client, overview, disk, server, ui, faults>>

\* Mutant: the loop gives up after an overview.
SyncOverviewStuck ==
  /\ syncer.pc = "fetching"
  /\ syncer.as \notin dead
  /\ overview' = syncer.as
  /\ UNCHANGED <<mem, client, revoked, disk, server, ui, syncer, faults>>

SyncOverview ==
  /\ syncer.pc = "fetching"
  /\ syncer.as \notin dead
  /\ overview' = syncer.as
  /\ syncer' = NoSync
  /\ UNCHANGED <<mem, client, revoked, disk, server, ui, faults>>

\* The network fails, or the overview does; the loop tries again later.
SyncError ==
  /\ syncer # NoSync
  /\ syncer' = NoSync
  /\ UNCHANGED <<memory, disk, server, ui, faults>>

-----------------------------------------------------------------------------
\* An admin revokes the device, or deletes its person.
Revoke(d) ==
  /\ d \in issued \ dead
  /\ Cardinality(dead) < MaxRevokes
  /\ dead' = dead \cup {d}
  /\ UNCHANGED <<memory, disk, issued, ui, syncer, faults>>

\* The app stops and starts again from the settings file; without the token
\* of the device it is joined as, it does not sync.
Restart ==
  /\ crashes < MaxCrashes
  /\ crashes' = crashes + 1
  /\ mem' = file
  /\ client' = IF file.device \in keys THEN file.device ELSE None
  /\ revoked' = FALSE
  /\ overview' = None
  /\ ui' = [t \in Tasks |-> AtRest]
  /\ syncer' = NoSync
  /\ UNCHANGED <<disk, server, fails>>

Next ==
  \/ \E t \in Tasks :
       \/ JoinPair(t)
       \/ JoinToken(t)
       \/ JoinSwitch(t)
       \/ LeaveClear(t)
       \/ SaveSwitch(t)
       \/ DeleteToken(t)
       \/ SetPreference(t)
       \/ SavePreference(t)
       \/ WriteFails(t)
  \/ SyncStart
  \/ SyncUploaded
  \/ SyncRejected
  \/ SyncOverview
  \/ SyncError
  \/ \E d \in Devices : Revoke(d)
  \/ Restart

Spec == Init /\ [][Next]_vars

\* syncLoop runs for as long as the app does and tries again after errors.
Fairness == WF_vars(SyncStart) /\ SF_vars(SyncUploaded) /\ SF_vars(SyncOverview)

FairSpec == Spec /\ Fairness

-----------------------------------------------------------------------------
TypeOK ==
  /\ mem \in Settings
  /\ client \in Devices \cup {None}
  /\ revoked \in BOOLEAN
  /\ overview \in Devices \cup {None}
  /\ file \in Settings
  /\ keys \subseteq Devices
  /\ issued \subseteq Devices
  /\ dead \subseteq issued
  /\ ui \in [Tasks -> Operations]
  /\ \A t \in Tasks : ui[t].pc \in {"paired", "keyed"} => ui[t].dev \in issued
  /\ \/ syncer = NoSync
     \/ syncer \in [pc : {"uploading", "fetching"}, as : Devices]
  /\ fails \in 0..MaxFails
  /\ crashes \in 0..MaxCrashes

Settled == \A t \in Tasks : ui[t] = AtRest

\* Wherever the app stops, the settings it starts from name a device whose
\* token is in the credential store, so a joined device keeps syncing
\* (agent.go:171-178, the order of Join and Leave).
TokenForSettings == file.device # None => file.device \in keys

\* Nothing of a device left or replaced stays in the credential store, unless
\* a write failed or the app stopped half way.
NoTokenLeft == Settled /\ fails = 0 /\ crashes = 0 => keys = {file.device} \ {None}

\* Unless an admin revokes a device, a device that stays joined shows its own
\* overview in the end, whatever client the sync under way held when it joined
\* (syncing.go:34-43; RevokedIsTrue says what a revocation can do).
JoinedSyncs ==
  \A d \in Devices : client = d ~> overview = d \/ client # d \/ dead # {}

(***************************************************************************)
(* What the texts of the program say and it does not do.                   *)
(***************************************************************************)
\* "This device was revoked. Ask an admin for a new join link."
\* (i18n.svelte.ts:21): the banner is about the device the app is joined as.
\* While it shows, the app does not sync.
RevokedIsTrue == revoked /\ client # None => client \in dead
=============================================================================
