------------------------------- MODULE Members -------------------------------
(***************************************************************************)
(* A member's devices, join links, records and share of an account on the  *)
(* server, from being added to being deleted.                              *)
(*                                                                         *)
(* Pairing, ingesting and deleting are PostgreSQL transactions at READ     *)
(* COMMITTED that run concurrently: a statement sees what is committed,    *)
(* waits for a row another transaction holds, and fails when it would      *)
(* leave a row without the device or person it refers to.  What a          *)
(* transaction wrote is kept beside it until it commits.                   *)
(*                                                                         *)
(* Members do not influence each other's rows, so there is one; an         *)
(* account stands for all of them.                                         *)
(***************************************************************************)
EXTENDS Naturals, Sequences

CONSTANTS
  Devices,   \* ids of devices
  Invites,   \* join links
  Pairers,   \* concurrent pairing requests
  Kinds,     \* tables of records that refer to a device: usage, readings, ...
  Cleared,   \* those DeletePerson empties, in order
  None       \* no invite, no device

ASSUME MembersConstants ==
  /\ Cleared \in Seq(Kinds)
  /\ Kinds \cap {"invites", "memberships", "devices", "persons"} = {}
  /\ None \notin Devices \cup Invites

VARIABLES
  person,    \* the row in persons
  invite,    \* the rows in invites
  device,    \* the rows in devices
  via,       \* the invite each device was paired with
  rows,      \* the records in the tables of Kinds, by device
  share,     \* the row in memberships: in the allotment, left, or none
  pairing,   \* pairing transactions
  upload,    \* sync requests, one per device
  removal,   \* the transaction of DeletePerson
  refused,   \* devices that were answered 401
  failed     \* a removal failed though nothing ran beside it

vars == <<person, invite, device, via, rows, share, pairing, upload, removal, refused, failed>>
tables == <<person, invite, device, via, rows, share>>

NoPairing == [pc |-> "idle", inv |-> None, dev |-> None]
NoUpload == [pc |-> "idle", joins |-> FALSE, rows |-> {}]
NoRemoval == [step |-> 0, rows |-> {}, invites |-> {}, share |-> FALSE, devices |-> {},
              alone |-> TRUE]

Init ==
  /\ person = "none"
  /\ invite = [i \in Invites |-> "none"]
  /\ device = [d \in Devices |-> "none"]
  /\ via = [d \in Devices |-> None]
  /\ rows = {}
  /\ share = "none"
  /\ pairing = [p \in Pairers |-> NoPairing]
  /\ upload = [d \in Devices |-> NoUpload]
  /\ removal = NoRemoval
  /\ refused = {}
  /\ failed = FALSE

-----------------------------------------------------------------------------
(***************************************************************************)
(* The statements of DeletePerson and what its open transaction holds.     *)
(***************************************************************************)
\* Mutant: the devices go before the links they were paired with.
DevicesFirst == Cleared \o <<"devices", "invites", "memberships", "persons">>

Statements == Cleared \o <<"invites", "memberships", "devices", "persons">>

Removing == removal.step > 0
At(s) == Removing /\ removal.step <= Len(Statements) /\ Statements[removal.step] = s
PersonDeleted == removal.step > Len(Statements)

\* Another transaction runs while a member is being deleted.
Disturbed == [removal EXCEPT !.alone = ~Removing]

Held(i) == \E p \in Pairers : pairing[p].inv = i
InTx(d) == upload[d].pc = "ingesting"

\* Live rows.
Paired(d) == device[d] \in {"active", "revoked"}
Linked(i) == invite[i] \in {"open", "expired", "used"}

-----------------------------------------------------------------------------
AddPerson ==
  /\ person = "none"
  /\ person' = "member"
  /\ UNCHANGED <<invite, device, via, rows, share, pairing, upload, removal, refused, failed>>

\* By an admin, or by one of the member's devices.
CreateInvite(i) ==
  /\ person = "member" /\ ~PersonDeleted
  /\ invite[i] = "none"
  /\ invite' = [invite EXCEPT ![i] = "open"]
  /\ removal' = Disturbed
  /\ UNCHANGED <<person, device, via, rows, share, pairing, upload, refused, failed>>

\* InviteTTL passes.
Expire(i) ==
  /\ invite[i] = "open"
  /\ invite' = [invite EXCEPT ![i] = "expired"]
  /\ UNCHANGED <<person, device, via, rows, share, pairing, upload, removal, refused, failed>>

\* An admin sets the member's weight in the account, or the member leaves
\* it; the membership stays with weight 0.
SetShare(w) ==
  /\ person = "member" /\ ~PersonDeleted
  /\ ~removal.share
  /\ \A d \in Devices : ~upload[d].joins
  /\ share' = w
  /\ removal' = Disturbed
  /\ UNCHANGED <<person, invite, device, via, rows, pairing, upload, refused, failed>>

AdminRestores == SetShare("in")
Leave == SetShare("out")

RevokeDevice(d) ==
  /\ device[d] = "active"
  /\ d \notin removal.devices
  /\ device' = [device EXCEPT ![d] = "revoked"]
  /\ UNCHANGED <<person, invite, via, rows, share, pairing, upload, removal, refused, failed>>

(***************************************************************************)
(* Pairing: lock an open invite, insert the device, mark the invite used.  *)
(***************************************************************************)
\* Mutant: the invite is read without FOR UPDATE.
PairReads(p) ==
  /\ pairing[p] = NoPairing
  /\ \E i \in Invites :
       /\ invite[i] = "open"
       /\ pairing' = [pairing EXCEPT ![p] = [pc |-> "locked", inv |-> i, dev |-> None]]
  /\ removal' = Disturbed
  /\ UNCHANGED <<tables, upload, refused, failed>>

PairLock(p) ==
  /\ pairing[p] = NoPairing
  /\ \E i \in Invites :
       /\ invite[i] = "open"
       /\ ~Held(i) /\ i \notin removal.invites
       /\ pairing' = [pairing EXCEPT ![p] = [pc |-> "locked", inv |-> i, dev |-> None]]
  /\ removal' = Disturbed
  /\ UNCHANGED <<tables, upload, refused, failed>>

PairInsert(p) ==
  /\ pairing[p].pc = "locked"
  /\ ~PersonDeleted
  /\ \E d \in Devices :
       /\ device[d] = "none"
       /\ \A q \in Pairers : pairing[q].dev # d
       /\ pairing' = [pairing EXCEPT ![p].pc = "inserted", ![p].dev = d]
  /\ UNCHANGED <<tables, upload, removal, refused, failed>>

PairCommit(p) ==
  LET d == pairing[p].dev
      i == pairing[p].inv
  IN  /\ pairing[p].pc = "inserted"
      /\ device' = [device EXCEPT ![d] = "active"]
      /\ via' = [via EXCEPT ![d] = i]
      /\ invite' = [invite EXCEPT ![i] = "used"]
      /\ pairing' = [pairing EXCEPT ![p] = NoPairing]
      /\ UNCHANGED <<person, rows, share, upload, removal, refused, failed>>

\* A statement fails or the server stops.
PairAbort(p) ==
  /\ pairing[p] # NoPairing
  /\ pairing' = [pairing EXCEPT ![p] = NoPairing]
  /\ UNCHANGED <<tables, upload, removal, refused, failed>>

(***************************************************************************)
(* Ingesting: authenticate, then in a transaction of its own make the      *)
(* owner a member of the account and insert records.  The account's row    *)
(* is locked from then on, so one transaction at a time gets that far.     *)
(***************************************************************************)
UploadAuth(d) ==
  /\ upload[d].pc = "idle"
  /\ device[d] = "active"
  /\ d \notin removal.devices
  /\ upload' = [upload EXCEPT ![d].pc = "authed"]
  /\ UNCHANGED <<tables, pairing, removal, refused, failed>>

\* Mutant: a device row that is locked counts as missing.
UploadRefusedWhenLocked(d) ==
  /\ upload[d].pc = "idle"
  /\ device[d] \in {"revoked", "gone"} \/ d \in removal.devices
  /\ refused' = refused \cup {d}
  /\ UNCHANGED <<tables, pairing, upload, removal, failed>>

UploadRefused(d) ==
  /\ upload[d].pc = "idle"
  /\ device[d] \in {"revoked", "gone"}
  /\ refused' = refused \cup {d}
  /\ UNCHANGED <<tables, pairing, upload, removal, failed>>

\* ensureAccount: ON CONFLICT DO NOTHING, which waits for a row being deleted.
UploadJoin(d) ==
  /\ upload[d].pc = "authed"
  /\ \A e \in Devices : ~InTx(e)
  /\ ~removal.share
  /\ share = "none" => person = "member" /\ ~PersonDeleted
  /\ upload' = [upload EXCEPT ![d] = [pc |-> "ingesting", joins |-> share = "none", rows |-> {}]]
  /\ removal' = Disturbed
  /\ UNCHANGED <<tables, pairing, refused, failed>>

\* Mutant: records do not refer to devices.
UploadAnyway(d, k) ==
  /\ InTx(d)
  /\ upload' = [upload EXCEPT ![d].rows = @ \cup {k}]
  /\ UNCHANGED <<tables, pairing, removal, refused, failed>>

\* The record refers to the device and the person, which it keeps from going.
UploadInsert(d, k) ==
  /\ InTx(d)
  /\ Paired(d) /\ d \notin removal.devices
  /\ person = "member" /\ ~PersonDeleted
  /\ upload' = [upload EXCEPT ![d].rows = @ \cup {k}]
  /\ UNCHANGED <<tables, pairing, removal, refused, failed>>

\* Mutant: a sync puts its sender back into the account.
UploadCommitRejoining(d) ==
  /\ InTx(d)
  /\ rows' = rows \cup {<<d, k>> : k \in upload[d].rows}
  /\ share' = "in"
  /\ upload' = [upload EXCEPT ![d] = NoUpload]
  /\ UNCHANGED <<person, invite, device, via, pairing, removal, refused, failed>>

UploadCommit(d) ==
  /\ InTx(d)
  /\ rows' = rows \cup {<<d, k>> : k \in upload[d].rows}
  /\ share' = IF upload[d].joins THEN "in" ELSE share
  /\ upload' = [upload EXCEPT ![d] = NoUpload]
  /\ UNCHANGED <<person, invite, device, via, pairing, removal, refused, failed>>

\* A reference is gone, the transactions deadlock, or the server stops.
UploadAbort(d) ==
  /\ upload[d] # NoUpload
  /\ upload' = [upload EXCEPT ![d] = NoUpload]
  /\ UNCHANGED <<tables, pairing, removal, refused, failed>>

-----------------------------------------------------------------------------
(***************************************************************************)
(* DeletePerson, one statement after another.                              *)
(***************************************************************************)
RemoveBegin ==
  /\ person = "member"
  /\ ~Removing
  /\ removal' = [NoRemoval EXCEPT !.step = 1,
                   !.alone = (\A p \in Pairers : pairing[p] = NoPairing) /\ (\A d \in Devices : ~InTx(d))]
  /\ UNCHANGED <<tables, pairing, upload, refused, failed>>

RemoveRecords(k) ==
  /\ At(k)
  /\ removal' = [removal EXCEPT !.step = @ + 1, !.rows = @ \cup {r \in rows : r[2] = k}]
  /\ UNCHANGED <<tables, pairing, upload, refused, failed>>

\* Waits for pairings under way.
RemoveInvites ==
  /\ At("invites")
  /\ \A i \in Invites : ~Held(i)
  /\ removal' = [removal EXCEPT !.step = @ + 1, !.invites = {i \in Invites : Linked(i)}]
  /\ UNCHANGED <<tables, pairing, upload, refused, failed>>

RemoveMemberships ==
  /\ At("memberships")
  /\ removal' = [removal EXCEPT !.step = @ + 1, !.share = (share # "none")]
  /\ UNCHANGED <<tables, pairing, upload, refused, failed>>

\* What still refers to a device, and to the person.
DeviceInUse ==
  \/ rows \ removal.rows # {}
  \/ \E i \in Invites : invite[i] = "used" /\ i \notin removal.invites

PersonInUse ==
  \/ \E d \in Devices : Paired(d) /\ d \notin removal.devices
  \/ \E i \in Invites : Linked(i) /\ i \notin removal.invites
  \/ share # "none" /\ ~removal.share
  \/ rows \ removal.rows # {}

\* Waits for records being inserted, which hold their device.
RemoveDevices ==
  /\ At("devices")
  /\ \A d \in Devices : upload[d].rows = {}
  /\ ~DeviceInUse
  /\ removal' = [removal EXCEPT !.step = @ + 1, !.devices = {d \in Devices : Paired(d)}]
  /\ UNCHANGED <<tables, pairing, upload, refused, failed>>

\* Waits for everything being inserted that refers to the person.
Unreferenced ==
  /\ \A d \in Devices : upload[d].rows = {} /\ ~upload[d].joins
  /\ \A p \in Pairers : pairing[p].pc # "inserted"

RemovePerson ==
  /\ At("persons")
  /\ Unreferenced
  /\ ~PersonInUse
  /\ removal' = [removal EXCEPT !.step = @ + 1]
  /\ UNCHANGED <<tables, pairing, upload, refused, failed>>

\* A row still refers to a device or to the person: everything is undone.
RemoveFails ==
  /\ \/ At("devices") /\ (\A d \in Devices : upload[d].rows = {}) /\ DeviceInUse
     \/ At("persons") /\ Unreferenced /\ PersonInUse
  /\ failed' = (failed \/ removal.alone)
  /\ removal' = NoRemoval
  /\ UNCHANGED <<tables, pairing, upload, refused>>

\* Mutant: the transaction is committed but not ended.
RemoveCommitUnended ==
  /\ PersonDeleted
  /\ person' = "gone"
  /\ rows' = rows \ removal.rows
  /\ removal' = [removal EXCEPT !.step = @ + 1]
  /\ UNCHANGED <<invite, device, share, via, pairing, upload, refused, failed>>

RemoveCommit ==
  /\ PersonDeleted
  /\ person' = "gone"
  /\ rows' = rows \ removal.rows
  /\ invite' = [i \in Invites |-> IF i \in removal.invites THEN "gone" ELSE invite[i]]
  /\ device' = [d \in Devices |-> IF d \in removal.devices THEN "gone" ELSE device[d]]
  /\ share' = "none"
  /\ removal' = NoRemoval
  /\ UNCHANGED <<via, pairing, upload, refused, failed>>

\* The transactions deadlock, the request is cancelled or the server stops.
RemoveAbort ==
  /\ Removing
  /\ removal' = NoRemoval
  /\ UNCHANGED <<tables, pairing, upload, refused, failed>>

-----------------------------------------------------------------------------
Next ==
  \/ AddPerson
  \/ \E i \in Invites : CreateInvite(i)
  \/ \E i \in Invites : Expire(i)
  \/ AdminRestores
  \/ Leave
  \/ \E d \in Devices : RevokeDevice(d)
  \/ \E p \in Pairers : PairLock(p)
  \/ \E p \in Pairers : PairInsert(p)
  \/ \E p \in Pairers : PairCommit(p)
  \/ \E p \in Pairers : PairAbort(p)
  \/ \E d \in Devices : UploadAuth(d)
  \/ \E d \in Devices : UploadRefused(d)
  \/ \E d \in Devices : UploadJoin(d)
  \/ \E d \in Devices, k \in Kinds : UploadInsert(d, k)
  \/ \E d \in Devices : UploadCommit(d)
  \/ \E d \in Devices : UploadAbort(d)
  \/ RemoveBegin
  \/ \E k \in Kinds : RemoveRecords(k)
  \/ RemoveInvites
  \/ RemoveMemberships
  \/ RemoveDevices
  \/ RemovePerson
  \/ RemoveFails
  \/ RemoveCommit
  \/ RemoveAbort

Spec == Init /\ [][Next]_vars

-----------------------------------------------------------------------------
TypeOK ==
  /\ person \in {"none", "member", "gone"}
  /\ invite \in [Invites -> {"none", "open", "expired", "used", "gone"}]
  /\ device \in [Devices -> {"none", "active", "revoked", "gone"}]
  /\ via \in [Devices -> Invites \cup {None}]
  /\ rows \subseteq Devices \X Kinds
  /\ share \in {"none", "in", "out"}
  /\ pairing \in [Pairers -> [pc : {"idle", "locked", "inserted"}, inv : Invites \cup {None},
                              dev : Devices \cup {None}]]
  /\ upload \in [Devices -> [pc : {"idle", "authed", "ingesting"}, joins : BOOLEAN,
                             rows : SUBSET Kinds]]
  /\ removal \in [step : 0..(Len(Statements) + 1), rows : SUBSET (Devices \X Kinds),
                  invites : SUBSET Invites, share : BOOLEAN, devices : SUBSET Devices,
                  alone : BOOLEAN]
  /\ refused \subseteq Devices
  /\ failed \in BOOLEAN

\* A join link pairs one device, however many requests redeem it at once
\* ("CreateInvite returns a one-time code", storage.go:155; Pair's FOR UPDATE).
InviteOnce == \A d, e \in Devices : via[d] # None /\ via[d] = via[e] => d = e

\* Nothing of a deleted member comes back or stays: a record has its device, a
\* device, link or membership its member, whatever was authenticated, paired
\* or ingested while the member was being deleted (storage.go:123-150).
NothingOrphaned ==
  /\ \A r \in rows : Paired(r[1])
  /\ person # "member" =>
       /\ \A d \in Devices : ~Paired(d)
       /\ \A i \in Invites : ~Linked(i)
       /\ share = "none"

\* A device that was answered 401 is never accepted again, which is why the
\* client stops syncing until it joins anew (syncing.go:45-50).
RefusedForGood == \A d \in refused : device[d] # "active"

\* "Signing in to the account again does not add them back; an admin can
\* restore the weight" (httpapi.go:296-297, memberships in 00001_init.sql).
LeftStaysOut ==
  [][share = "out" => share' = "out" \/ person' = "gone" \/ AdminRestores]_vars

\* "DeletePerson removes a member with their devices, join links and
\* memberships, and everything their devices uploaded" (storage.go:123-125):
\* with nothing else running it does not fail.
RemovesEverything == ~failed

\* What it does promise: its statements come in an order that leaves nothing
\* behind but records of tables it does not name, so with nothing else running
\* it fails on one of those or not at all (storage.go:128-148, and the foreign
\* keys of the migrations).
FailsOnUnnamed ==
  [][~failed /\ failed' => \E r \in rows : \A i \in 1..Len(Cleared) : Cleared[i] # r[2]]_vars
=============================================================================
