---------------------------- MODULE Members_proofs ----------------------------
(***************************************************************************)
(* Proofs about Members: its type invariant, that a join link pairs one    *)
(* device, and that nothing outlives or escapes the deletion of a member,  *)
(* for any number of devices, links and requests at once.                  *)
(***************************************************************************)
EXTENDS Members, TLAPS

\* The deletion of the person is the last statement and no other is.
LEMMA LastStatement ==
  /\ Len(Statements) \in Nat \ {0}
  /\ \A s : At(s) /\ s # "persons" /\ removal.step \in Nat => removal.step < Len(Statements)
<1>1. Cleared \in Seq(Kinds)
  BY MembersConstants
<1>2. Len(Statements) = Len(Cleared) + 4 /\ Statements[Len(Cleared) + 4] = "persons"
  BY <1>1 DEF Statements
<1>3. Len(Cleared) \in Nat
  BY <1>1
<1> QED
  BY <1>2, <1>3 DEF At

\* No table of records is called persons.
LEMMA RecordsNotPersons == \A k \in Kinds : k # "persons"
BY MembersConstants

LEMMA InitTyped == Init => TypeOK
<1>1. 0 \in 0..(Len(Statements) + 1)
  BY LastStatement
<1>2. NoRemoval.step = 0 /\ NoRemoval \in
        [step : 0..(Len(Statements) + 1), rows : SUBSET (Devices \X Kinds),
         invites : SUBSET Invites, share : BOOLEAN, devices : SUBSET Devices, alone : BOOLEAN]
  BY <1>1 DEF NoRemoval
<1>3. /\ NoPairing \in [pc : {"idle", "locked", "inserted"}, inv : Invites \cup {None},
                        dev : Devices \cup {None}]
      /\ NoUpload \in [pc : {"idle", "authed", "ingesting"}, joins : BOOLEAN, rows : SUBSET Kinds]
  BY DEF NoPairing, NoUpload
<1>4. ASSUME Init PROVE TypeOK
  <2>1. removal = NoRemoval /\ rows = {} /\ refused = {} /\ failed = FALSE
    BY <1>4 DEF Init
  <2>2. /\ pairing = [p \in Pairers |-> NoPairing] /\ upload = [d \in Devices |-> NoUpload]
        /\ via = [d \in Devices |-> None]
    BY <1>4 DEF Init
  <2>3. /\ person = "none" /\ share = "none"
        /\ invite = [i \in Invites |-> "none"] /\ device = [d \in Devices |-> "none"]
    BY <1>4 DEF Init
  <2> QED
    BY <1>2, <1>3, <2>1, <2>2, <2>3 DEF TypeOK
<1> QED
  BY <1>4

\* Every step keeps every variable in its type.
LEMMA NextTyped == TypeOK /\ [Next]_vars => TypeOK'
<1> SUFFICES ASSUME TypeOK, [Next]_vars PROVE TypeOK'
  OBVIOUS
<1>0. /\ removal.step \in Nat /\ Len(Statements) \in Nat
      /\ \A s : At(s) => removal.step + 1 \in 0..(Len(Statements) + 1)
      /\ 0 \in 0..(Len(Statements) + 1) /\ 1 \in 0..(Len(Statements) + 1)
  BY LastStatement DEF TypeOK, At
<1>d. Disturbed \in [step : 0..(Len(Statements) + 1), rows : SUBSET (Devices \X Kinds),
                     invites : SUBSET Invites, share : BOOLEAN, devices : SUBSET Devices,
                     alone : BOOLEAN]
  BY DEF TypeOK, Disturbed, Removing
<1>n. NoRemoval \in [step : 0..(Len(Statements) + 1), rows : SUBSET (Devices \X Kinds),
                     invites : SUBSET Invites, share : BOOLEAN, devices : SUBSET Devices,
                     alone : BOOLEAN]
  BY <1>0 DEF NoRemoval
<1> USE DEF tables
<1>1. CASE AddPerson
  BY <1>1 DEF TypeOK, AddPerson
<1>2. ASSUME NEW i \in Invites, CreateInvite(i) PROVE TypeOK'
  BY <1>2, <1>d DEF TypeOK, CreateInvite
<1>3. ASSUME NEW i \in Invites, Expire(i) PROVE TypeOK'
  BY <1>3 DEF TypeOK, Expire
<1>4. CASE AdminRestores \/ Leave
  BY <1>4, <1>d DEF TypeOK, AdminRestores, Leave, SetShare
<1>5. ASSUME NEW d \in Devices, RevokeDevice(d) PROVE TypeOK'
  BY <1>5 DEF TypeOK, RevokeDevice
<1>6. ASSUME NEW p \in Pairers, PairLock(p) PROVE TypeOK'
  BY <1>6, <1>d DEF TypeOK, PairLock
<1>7. ASSUME NEW p \in Pairers, PairInsert(p) PROVE TypeOK'
  BY <1>7 DEF TypeOK, PairInsert
<1>8. ASSUME NEW p \in Pairers, PairCommit(p) PROVE TypeOK'
  BY <1>8 DEF TypeOK, PairCommit, NoPairing
<1>9. ASSUME NEW p \in Pairers, PairAbort(p) PROVE TypeOK'
  BY <1>9 DEF TypeOK, PairAbort, NoPairing
<1>10. ASSUME NEW d \in Devices, UploadAuth(d) PROVE TypeOK'
  BY <1>10 DEF TypeOK, UploadAuth
<1>11. ASSUME NEW d \in Devices, UploadRefused(d) PROVE TypeOK'
  BY <1>11 DEF TypeOK, UploadRefused
<1>12. ASSUME NEW d \in Devices, UploadJoin(d) PROVE TypeOK'
  BY <1>12, <1>d DEF TypeOK, UploadJoin
<1>13. ASSUME NEW d \in Devices, NEW k \in Kinds, UploadInsert(d, k) PROVE TypeOK'
  BY <1>13 DEF TypeOK, UploadInsert
<1>14. ASSUME NEW d \in Devices, UploadCommit(d) PROVE TypeOK'
  BY <1>14 DEF TypeOK, UploadCommit, NoUpload
<1>15. ASSUME NEW d \in Devices, UploadAbort(d) PROVE TypeOK'
  BY <1>15 DEF TypeOK, UploadAbort, NoUpload
<1>16. CASE RemoveBegin
  BY Zenon, <1>16, <1>0, <1>n DEF TypeOK, RemoveBegin
<1>17. ASSUME NEW k \in Kinds, RemoveRecords(k) PROVE TypeOK'
  BY Zenon, <1>17, <1>0 DEF TypeOK, RemoveRecords
<1>18. CASE RemoveInvites
  BY Zenon, <1>18, <1>0 DEF TypeOK, RemoveInvites
<1>19. CASE RemoveMemberships
  BY <1>19, <1>0 DEF TypeOK, RemoveMemberships
<1>20. CASE RemoveDevices
  BY Zenon, <1>20, <1>0 DEF TypeOK, RemoveDevices
<1>21. CASE RemovePerson
  BY <1>21, <1>0 DEF TypeOK, RemovePerson
<1>22. CASE RemoveFails
  BY <1>22, <1>n DEF TypeOK, RemoveFails
<1>23. CASE RemoveCommit
  BY <1>23, <1>n DEF TypeOK, RemoveCommit
<1>24. CASE RemoveAbort
  BY <1>24, <1>n DEF TypeOK, RemoveAbort
<1>25. CASE UNCHANGED vars
  BY <1>25 DEF TypeOK, vars
<1> QED
  BY <1>1, <1>2, <1>3, <1>4, <1>5, <1>6, <1>7, <1>8, <1>9, <1>10, <1>11, <1>12, <1>13,
     <1>14, <1>15, <1>16, <1>17, <1>18, <1>19, <1>20, <1>21, <1>22, <1>23, <1>24, <1>25
     DEF Next

\* Every reachable state of the tables and the transactions under way is well
\* typed (the schema in 00001_init.sql, Store.Pair, Ingest and DeletePerson).
THEOREM TypeCorrect == Spec => []TypeOK
<1> QED
  BY InitTyped, NextTyped, PTL DEF Spec

-----------------------------------------------------------------------------
(***************************************************************************)
(* One device per link.  A pairing under way has a link that was not used, *)
(* which no other pairing has and DeletePerson has not deleted.            *)
(***************************************************************************)
PairingsApart ==
  \A p, q \in Pairers :
    /\ pairing[p].inv # None /\ pairing[p].inv = pairing[q].inv => p = q
    /\ pairing[p].dev # None /\ pairing[p].dev = pairing[q].dev => p = q

HasLink(p) ==
  /\ pairing[p].pc = "idle" => pairing[p] = NoPairing
  /\ pairing[p].pc # "idle" =>
       /\ pairing[p].inv \in Invites /\ pairing[p].inv \notin removal.invites
       /\ invite[pairing[p].inv] \in {"open", "expired"}
  /\ pairing[p].pc = "locked" => pairing[p].dev = None
  /\ pairing[p].pc = "inserted" => pairing[p].dev \in Devices /\ device[pairing[p].dev] = "none"

ViaUsed ==
  \A d \in Devices : via[d] # None => device[d] # "none" /\ invite[via[d]] \in {"used", "gone"}

DeletedArePaired == \A d \in removal.devices : Paired(d)

Links ==
  /\ PairingsApart
  /\ \A p \in Pairers : HasLink(p)
  /\ ViaUsed
  /\ InviteOnce
  /\ DeletedArePaired

LEMMA InitLinks == Init => Links
BY DEF Init, Links, PairingsApart, HasLink, ViaUsed, InviteOnce, DeletedArePaired, NoPairing, NoRemoval

\* Every step keeps the links to one device each.
LEMMA NextLinks == TypeOK /\ Links /\ [Next]_vars => Links'
<1> SUFFICES ASSUME TypeOK, Links, [Next]_vars PROVE Links'
  OBVIOUS
<1> USE MembersConstants DEF tables, Links, DeletedArePaired, Paired
<1>a. Disturbed.invites = removal.invites /\ Disturbed.devices = removal.devices
  BY DEF TypeOK, Disturbed
<1>b. NoPairing.inv = None /\ NoPairing.dev = None /\ NoPairing.pc = "idle" /\ NoRemoval.invites = {} /\ NoRemoval.devices = {}
  BY DEF NoPairing, NoRemoval
<1>u. ASSUME UNCHANGED <<invite, device, via, pairing>>, removal'.invites \subseteq removal.invites,
             removal'.devices \subseteq removal.devices
      PROVE Links'
  BY <1>u DEF PairingsApart, HasLink, ViaUsed, InviteOnce
<1>2. ASSUME NEW i \in Invites, CreateInvite(i) PROVE Links'
  BY <1>2, <1>a DEF TypeOK, CreateInvite, PairingsApart, HasLink, ViaUsed, InviteOnce
<1>3. ASSUME NEW i \in Invites, Expire(i) PROVE Links'
  BY <1>3 DEF TypeOK, Expire, PairingsApart, HasLink, ViaUsed, InviteOnce
<1>4. CASE AdminRestores \/ Leave
  BY <1>4, <1>a, <1>u DEF AdminRestores, Leave, SetShare
<1>5. ASSUME NEW d \in Devices, RevokeDevice(d) PROVE Links'
  BY <1>5 DEF TypeOK, RevokeDevice, PairingsApart, HasLink, ViaUsed, InviteOnce
<1>6. ASSUME NEW p \in Pairers, PairLock(p) PROVE Links'
  BY <1>6, <1>a, <1>b DEF TypeOK, PairLock, Held, PairingsApart, HasLink, ViaUsed, InviteOnce
<1>7. ASSUME NEW p \in Pairers, PairInsert(p) PROVE Links'
  BY <1>7 DEF TypeOK, PairInsert, PairingsApart, HasLink, ViaUsed, InviteOnce
<1>8. ASSUME NEW p \in Pairers, PairCommit(p) PROVE Links'
  <2>1. \A q \in Pairers : q # p => pairing'[q] = pairing[q]
    BY <1>8 DEF TypeOK, PairCommit
  <2>2. pairing'[p] = NoPairing
    BY <1>8 DEF TypeOK, PairCommit
  <2>3. PairingsApart'
    BY <2>1, <2>2, <1>b DEF PairingsApart
  <2>4. \A q \in Pairers : HasLink(q)'
    BY <1>8, <2>1, <2>2, <1>b DEF TypeOK, PairCommit, PairingsApart, HasLink
  <2>5. ViaUsed' /\ InviteOnce'
    BY <1>8 DEF TypeOK, PairCommit, HasLink, ViaUsed, InviteOnce
  <2>6. DeletedArePaired'
    BY <1>8 DEF TypeOK, PairCommit
  <2> QED
    BY <2>3, <2>4, <2>5, <2>6
<1>9. ASSUME NEW p \in Pairers, PairAbort(p) PROVE Links'
  BY <1>9, <1>b DEF TypeOK, PairAbort, PairingsApart, HasLink, ViaUsed, InviteOnce
<1>10. ASSUME NEW d \in Devices, UploadAuth(d) \/ UploadRefused(d) \/ UploadCommit(d) \/ UploadAbort(d)
       PROVE Links'
  BY <1>10, <1>u DEF UploadAuth, UploadRefused, UploadCommit, UploadAbort
<1>11. ASSUME NEW d \in Devices, UploadJoin(d) PROVE Links'
  BY <1>11, <1>a, <1>u DEF UploadJoin
<1>12. ASSUME NEW d \in Devices, NEW k \in Kinds, UploadInsert(d, k) PROVE Links'
  BY <1>12, <1>u DEF UploadInsert
<1>13. CASE RemoveBegin \/ RemoveFails \/ RemoveAbort
  BY <1>13, <1>u, <1>b DEF RemoveBegin, RemoveFails, RemoveAbort, TypeOK, NoRemoval
<1>14. ASSUME NEW k \in Kinds, RemoveRecords(k) PROVE Links'
  BY <1>14, <1>u DEF RemoveRecords, TypeOK
<1>15. CASE RemoveInvites
  BY <1>15, <1>b DEF RemoveInvites, Held, TypeOK, PairingsApart, HasLink, ViaUsed, InviteOnce
<1>16. CASE RemoveMemberships \/ RemovePerson
  BY <1>16, <1>u DEF RemoveMemberships, RemovePerson, TypeOK
<1>19. CASE RemoveDevices
  BY <1>19 DEF RemoveDevices, TypeOK, PairingsApart, HasLink, ViaUsed, InviteOnce
<1>17. CASE RemoveCommit
  <2>1. \A p \in Pairers : HasLink(p)'
    BY <1>17, <1>b DEF RemoveCommit, TypeOK, HasLink, Paired
  <2> QED
    BY <1>17, <2>1, <1>b DEF RemoveCommit, TypeOK, PairingsApart, ViaUsed, InviteOnce
<1>18. CASE AddPerson \/ UNCHANGED vars
  BY <1>18, <1>u DEF AddPerson, vars
<1> QED
  BY <1>2, <1>3, <1>4, <1>5, <1>6, <1>7, <1>8, <1>9, <1>10, <1>11, <1>12, <1>13, <1>14,
     <1>15, <1>16, <1>17, <1>18, <1>19 DEF Next

\* However many requests redeem a join link at once, and whatever is aborted
\* or deleted meanwhile, it pairs one device (Store.Pair).
THEOREM OneDevicePerLink == Spec => []InviteOnce
<1>1. Init => TypeOK /\ Links
  BY InitTyped, InitLinks
<1>2. TypeOK /\ Links /\ [Next]_vars => (TypeOK /\ Links)'
  BY NextTyped, NextLinks
<1>3. TypeOK /\ Links => InviteOnce
  BY DEF Links
<1> QED
  BY <1>1, <1>2, <1>3, PTL DEF Spec

-----------------------------------------------------------------------------
(***************************************************************************)
(* Nothing orphaned.  A transaction that inserted a row holds what the row *)
(* refers to: DeletePerson is not past it.  Once DeletePerson has deleted  *)
(* the person's row, it has deleted everything that refers to it.          *)
(***************************************************************************)
\* A sync that inserted records holds its device and its member.
UploadHolds(d) ==
  /\ upload[d].rows # {} => Paired(d) /\ d \notin removal.devices
  /\ upload[d].rows # {} \/ upload[d].joins => person = "member" /\ ~PersonDeleted

\* A pairing that inserted its device holds its member.
PairingHolds(p) == pairing[p].pc = "inserted" => person = "member" /\ ~PersonDeleted

\* What an open DeletePerson has deleted so far.
RemovalHolds ==
  /\ Removing => person = "member"
  /\ \A r \in rows : r[1] \in removal.devices => r \in removal.rows
  /\ PersonDeleted =>
       /\ \A d \in Devices : Paired(d) => d \in removal.devices
       /\ \A i \in Invites : Linked(i) => i \in removal.invites
       /\ share # "none" => removal.share
       /\ rows \subseteq removal.rows

Holding ==
  /\ \A d \in Devices : UploadHolds(d)
  /\ \A p \in Pairers : PairingHolds(p)
  /\ RemovalHolds
  /\ NothingOrphaned

LEMMA InitHolding == Init => Holding
<1> SUFFICES ASSUME Init PROVE Holding
  OBVIOUS
<1>1. NoUpload.rows = {} /\ ~NoUpload.joins /\ NoPairing.pc = "idle"
  BY DEF NoUpload, NoPairing
<1>2. removal.step = 0 /\ ~PersonDeleted
  BY LastStatement DEF Init, NoRemoval, PersonDeleted
<1> QED
  BY <1>1, <1>2 DEF Init, Holding, UploadHolds, PairingHolds, RemovalHolds, NothingOrphaned,
     Removing, Paired, Linked, NoRemoval

\* Every step keeps what is held.
LEMMA NextHolding == TypeOK /\ Links /\ Holding /\ [Next]_vars => Holding'
<1> SUFFICES ASSUME TypeOK, Links, Holding, [Next]_vars PROVE Holding'
  OBVIOUS
<1> USE DEF tables
<1>r. /\ removal.step \in Nat /\ Len(Statements) \in Nat
      /\ ~PersonDeleted <=> removal.step <= Len(Statements)
  BY LastStatement DEF TypeOK, PersonDeleted
<1>a. /\ Disturbed.invites = removal.invites /\ Disturbed.devices = removal.devices
      /\ Disturbed.rows = removal.rows /\ Disturbed.share = removal.share
      /\ Disturbed.step = removal.step
  BY DEF TypeOK, Disturbed
<1>n. /\ NoRemoval.devices = {} /\ NoRemoval.step = 0
      /\ NoUpload.rows = {} /\ ~NoUpload.joins /\ NoPairing.pc = "idle"
  BY DEF NoRemoval, NoUpload, NoPairing
\* A step that leaves the tables alone, inserts nothing and deletes nothing
\* that is held.
<1>u. ASSUME UNCHANGED tables,
             \A d \in Devices : upload'[d].rows \subseteq upload[d].rows
                                /\ (upload'[d].joins => upload[d].joins),
             \A p \in Pairers : pairing'[p].pc = "inserted" => pairing[p].pc = "inserted",
             removal'.step \in Nat,
             \/ /\ removal'.step = removal.step
                /\ removal'.devices = removal.devices /\ removal'.invites = removal.invites
                /\ removal'.share = removal.share /\ removal'.rows = removal.rows
             \/ /\ removal'.step <= Len(Statements)
                /\ removal'.step > 0 => person = "member"
                /\ removal'.devices = {}
             \/ /\ removal.step > 0 /\ removal'.step <= Len(Statements)
                /\ removal'.devices = removal.devices /\ removal.rows \subseteq removal'.rows
      PROVE Holding'
  <2>1. PersonDeleted' <=> removal'.step > Len(Statements)
    BY DEF PersonDeleted, Statements
  <2>2. \A d \in Devices : UploadHolds(d)'
    BY <1>u, <1>r, <2>1 DEF Holding, UploadHolds, Paired, TypeOK
  <2>3. \A p \in Pairers : PairingHolds(p)'
    BY <1>u, <1>r, <2>1 DEF Holding, PairingHolds
  <2>4. NothingOrphaned'
    BY <1>u DEF Holding, NothingOrphaned, Paired, Linked
  <2>5. RemovalHolds'
    BY <1>u, <1>r, <2>1 DEF Holding, RemovalHolds, Removing, PersonDeleted, Paired, Linked
  <2> QED
    BY <2>2, <2>3, <2>4, <2>5 DEF Holding
<1>1. CASE AddPerson
  BY <1>1, <1>r DEF AddPerson, Holding, UploadHolds, PairingHolds, RemovalHolds, NothingOrphaned,
     Removing, PersonDeleted, Paired, Linked
<1>2. ASSUME NEW i \in Invites, CreateInvite(i) PROVE Holding'
  BY <1>2, <1>a DEF CreateInvite, Holding, UploadHolds, PairingHolds, RemovalHolds,
     NothingOrphaned, Removing, PersonDeleted, Statements, Paired, Linked
<1>3. ASSUME NEW i \in Invites, Expire(i) PROVE Holding'
  BY <1>3 DEF TypeOK, Expire, Holding, UploadHolds, PairingHolds, RemovalHolds, NothingOrphaned,
     Removing, PersonDeleted, Statements, Paired, Linked
<1>4. CASE AdminRestores \/ Leave
  BY <1>4, <1>a DEF AdminRestores, Leave, SetShare, Holding, UploadHolds, PairingHolds,
     RemovalHolds, NothingOrphaned, Removing, PersonDeleted, Statements, Paired, Linked
<1>5. ASSUME NEW d \in Devices, RevokeDevice(d) PROVE Holding'
  <2>1. \A e \in Devices : Paired(e)' <=> Paired(e)
    BY <1>5 DEF TypeOK, RevokeDevice, Paired
  <2>2. UNCHANGED <<person, invite, rows, share, pairing, upload, removal>>
    BY <1>5 DEF RevokeDevice
  <2>3. NothingOrphaned' /\ RemovalHolds'
    BY <2>1, <2>2 DEF TypeOK, Holding, RemovalHolds, NothingOrphaned, Removing, PersonDeleted,
       Statements, Linked
  <2>4. (\A e \in Devices : UploadHolds(e)') /\ (\A p \in Pairers : PairingHolds(p)')
    BY <2>1, <2>2 DEF Holding, UploadHolds, PairingHolds, PersonDeleted, Statements
  <2> QED
    BY <2>3, <2>4 DEF Holding
<1>6. ASSUME NEW p \in Pairers, PairLock(p) PROVE Holding'
  BY <1>6, <1>a, <1>r, <1>u DEF PairLock, TypeOK
<1>7. ASSUME NEW p \in Pairers, PairInsert(p) PROVE Holding'
  <2>1. person = "member"
    BY <1>7 DEF PairInsert, Links, HasLink, Holding, NothingOrphaned, Linked
  <2> QED
    BY <1>7, <2>1 DEF TypeOK, PairInsert, Holding, UploadHolds, PairingHolds, RemovalHolds,
       NothingOrphaned, Removing, PersonDeleted, Statements, Paired, Linked
<1>8. ASSUME NEW p \in Pairers, PairCommit(p) PROVE Holding'
  <2>1. person = "member" /\ ~PersonDeleted
    BY <1>8 DEF PairCommit, Holding, PairingHolds
  <2>2. \A e \in Devices : Paired(e) => Paired(e)'
    BY <1>8 DEF PairCommit, TypeOK, Paired
  <2>3. UNCHANGED <<person, rows, share, upload, removal>> /\ ~PersonDeleted'
    BY <1>8, <2>1 DEF PairCommit, PersonDeleted, Statements
  <2>4. (\A e \in Devices : UploadHolds(e)') /\ (\A q \in Pairers : PairingHolds(q)')
    BY <2>1, <2>2, <2>3 DEF Holding, UploadHolds, PairingHolds
  <2>5. NothingOrphaned' /\ RemovalHolds'
    BY <2>1, <2>2, <2>3 DEF TypeOK, Holding, RemovalHolds, NothingOrphaned, Removing
  <2> QED
    BY <2>4, <2>5 DEF Holding
<1>9. ASSUME NEW p \in Pairers, PairAbort(p) PROVE Holding'
  BY <1>9, <1>n, <1>r, <1>u DEF PairAbort, TypeOK
<1>10. ASSUME NEW d \in Devices, UploadAuth(d) \/ UploadRefused(d) \/ UploadAbort(d) PROVE Holding'
  BY <1>10, <1>n, <1>r, <1>u DEF UploadAuth, UploadRefused, UploadAbort, TypeOK
<1>11. ASSUME NEW d \in Devices, UploadJoin(d) PROVE Holding'
  BY <1>11, <1>a DEF TypeOK, UploadJoin, Holding, UploadHolds, PairingHolds, RemovalHolds,
     NothingOrphaned, Removing, PersonDeleted, Statements, Paired, Linked
<1>12. ASSUME NEW d \in Devices, NEW k \in Kinds, UploadInsert(d, k) PROVE Holding'
  BY <1>12 DEF TypeOK, UploadInsert, Holding, UploadHolds, PairingHolds, RemovalHolds,
     NothingOrphaned, Removing, PersonDeleted, Statements, Paired, Linked
<1>13. ASSUME NEW d \in Devices, UploadCommit(d) PROVE Holding'
  <2>1. /\ UNCHANGED <<person, invite, device, pairing, removal>>
        /\ PersonDeleted' <=> PersonDeleted
        /\ \A e \in Devices : upload'[e].rows \subseteq upload[e].rows
                              /\ (upload'[e].joins => upload[e].joins)
    BY <1>13, <1>n DEF UploadCommit, TypeOK, PersonDeleted, Statements
  <2>2. \A r \in rows' : r \in rows \/ (r[1] = d /\ upload[d].rows # {})
    BY <1>13 DEF UploadCommit
  <2>3. share' = share \/ upload[d].joins
    BY <1>13 DEF UploadCommit
  <2>4. (\A e \in Devices : UploadHolds(e)') /\ (\A q \in Pairers : PairingHolds(q)')
    BY <2>1 DEF Holding, UploadHolds, PairingHolds, Paired
  <2>5. NothingOrphaned'
    BY <2>1, <2>2, <2>3 DEF Holding, UploadHolds, NothingOrphaned, Paired, Linked
  <2>6. RemovalHolds'
    BY <2>1, <2>2, <2>3 DEF Holding, UploadHolds, RemovalHolds, Removing, Paired, Linked
  <2> QED
    BY <2>4, <2>5, <2>6 DEF Holding
<1>14. CASE RemoveBegin
  <2>1. removal'.step = 1 /\ removal'.devices = {} /\ person = "member"
    BY <1>14, <1>n DEF RemoveBegin, NoRemoval
  <2> QED
    BY <1>14, <2>1, <1>r, <1>u, LastStatement DEF RemoveBegin
<1>15. ASSUME NEW k \in Kinds, RemoveRecords(k) PROVE Holding'
  <2>1. removal.step < Len(Statements) /\ removal.step > 0
    BY <1>15, <1>r, LastStatement, RecordsNotPersons DEF RemoveRecords, At, Removing
  <2> QED
    BY <1>15, <2>1, <1>r, <1>u DEF RemoveRecords, TypeOK
<1>16. CASE RemoveInvites \/ RemoveMemberships
  <2>1. removal.step < Len(Statements) /\ removal.step > 0
    BY <1>16, <1>r, LastStatement DEF RemoveInvites, RemoveMemberships, At, Removing
  <2>2. /\ removal'.step = removal.step + 1 /\ removal'.devices = removal.devices
        /\ removal'.rows = removal.rows
    BY <1>16 DEF RemoveInvites, RemoveMemberships, TypeOK
  <2>3. UNCHANGED <<tables, upload, pairing>>
    BY <1>16 DEF RemoveInvites, RemoveMemberships
  <2> QED
    BY <2>1, <2>2, <2>3, <1>r, <1>u
<1>17. CASE RemoveDevices
  <2>1. removal.step < Len(Statements) /\ removal.step > 0
    BY <1>17, <1>r, LastStatement DEF RemoveDevices, At, Removing
  <2>2. /\ removal'.step = removal.step + 1 /\ removal'.rows = removal.rows
        /\ ~PersonDeleted /\ ~PersonDeleted'
    BY <1>17, <2>1, <1>r DEF RemoveDevices, TypeOK, PersonDeleted, Statements
  <2>3. \A d \in Devices : upload'[d].rows = {}
    BY <1>17 DEF RemoveDevices
  <2>4. (\A d \in Devices : UploadHolds(d)') /\ (\A p \in Pairers : PairingHolds(p)')
    BY <1>17, <2>2, <2>3 DEF RemoveDevices, Holding, UploadHolds, PairingHolds
  <2>5. RemovalHolds' /\ NothingOrphaned'
    BY <1>17, <2>1, <2>2 DEF RemoveDevices, DeviceInUse, Holding, RemovalHolds, NothingOrphaned,
       Removing, Paired, Linked
  <2> QED
    BY <2>4, <2>5 DEF Holding
<1>18. CASE RemovePerson
  <2>1. removal.step > 0 /\ ~PersonDeleted
    BY <1>18, <1>r DEF RemovePerson, At, Removing
  <2>2. /\ removal'.step > 0 /\ removal'.rows = removal.rows /\ removal'.devices = removal.devices
        /\ removal'.invites = removal.invites /\ removal'.share = removal.share
    BY <1>18, <1>r DEF RemovePerson, TypeOK
  <2>3. (\A d \in Devices : UploadHolds(d)') /\ (\A p \in Pairers : PairingHolds(p)')
    BY <1>18 DEF RemovePerson, Unreferenced, UploadHolds, PairingHolds
  <2>4. RemovalHolds' /\ NothingOrphaned'
    BY <1>18, <2>1, <2>2 DEF RemovePerson, PersonInUse, Holding, RemovalHolds, NothingOrphaned,
       Removing, Paired, Linked
  <2> QED
    BY <2>3, <2>4 DEF Holding
<1>19. CASE RemoveFails \/ RemoveAbort
  BY <1>19, <1>n, <1>r, <1>u DEF RemoveFails, RemoveAbort
<1>20. CASE RemoveCommit
  <2>1. /\ \A d \in Devices : upload'[d].rows = {} /\ ~upload'[d].joins
        /\ \A p \in Pairers : pairing'[p].pc # "inserted"
    BY <1>20 DEF RemoveCommit, Holding, UploadHolds, PairingHolds
  <2>2. removal'.step = 0 /\ removal'.devices = {} /\ ~PersonDeleted'
    BY <1>20, <1>n, <1>r DEF RemoveCommit, PersonDeleted, Statements
  <2>3. NothingOrphaned'
    BY <1>20 DEF RemoveCommit, Holding, RemovalHolds, NothingOrphaned, Paired, Linked, TypeOK
  <2> QED
    BY <2>1, <2>2, <2>3 DEF Holding, UploadHolds, PairingHolds, RemovalHolds, Removing
<1>21. CASE UNCHANGED vars
  BY <1>21, <1>r, <1>u DEF vars
<1> QED
  BY <1>1, <1>2, <1>3, <1>4, <1>5, <1>6, <1>7, <1>8, <1>9, <1>10, <1>11, <1>12, <1>13, <1>14,
     <1>15, <1>16, <1>17, <1>18, <1>19, <1>20, <1>21 DEF Next

\* However authentication, pairing, ingesting and deleting interleave, no
\* record is without its device and nothing is without its member
\* (Store.DeletePerson with the references in 00001_init.sql).
THEOREM NoOrphans == Spec => []NothingOrphaned
<1>1. Init => TypeOK /\ Links /\ Holding
  BY InitTyped, InitLinks, InitHolding
<1>2. TypeOK /\ Links /\ Holding /\ [Next]_vars => (TypeOK /\ Links /\ Holding)'
  BY NextTyped, NextLinks, NextHolding
<1>3. Holding => NothingOrphaned
  BY DEF Holding
<1> QED
  BY <1>1, <1>2, <1>3, PTL DEF Spec

-----------------------------------------------------------------------------
(***************************************************************************)
(* What was refused or left stays so.  Only a pairing makes a device       *)
(* active, and it makes a new one.  A sync makes its member one of the     *)
(* account only if there was no membership, and keeps others from making   *)
(* one until it commits.                                                   *)
(***************************************************************************)
\* What was answered 401 was revoked or deleted.
RefusedAreOver == \A d \in refused : device[d] \in {"revoked", "gone"}

\* One sync at a time is past ensureAccount, and one that makes a membership
\* found none.
JoinsApart ==
  /\ \A d \in Devices : upload[d].joins => InTx(d) /\ share = "none"
  /\ \A d, e \in Devices : InTx(d) /\ InTx(e) => d = e

Standing == RefusedAreOver /\ JoinsApart

LEMMA InitStanding == Init => Standing
BY DEF Init, Standing, RefusedAreOver, JoinsApart, InTx, NoUpload

\* Every step keeps who was refused and who joins.
LEMMA NextStanding == TypeOK /\ Links /\ Standing /\ [Next]_vars => Standing'
<1> SUFFICES ASSUME TypeOK, Links, Standing, [Next]_vars PROVE Standing'
  OBVIOUS
<1> USE DEF Standing, RefusedAreOver, JoinsApart, InTx
<1>n. NoUpload.pc = "idle" /\ ~NoUpload.joins
  BY DEF NoUpload
<1>1. CASE UNCHANGED <<device, share, upload, refused>>
  BY <1>1
<1>2. CASE AdminRestores \/ Leave
  BY <1>2 DEF AdminRestores, Leave, SetShare
<1>3. ASSUME NEW d \in Devices, RevokeDevice(d) PROVE Standing'
  BY <1>3 DEF TypeOK, RevokeDevice
<1>4. ASSUME NEW p \in Pairers, PairCommit(p) PROVE Standing'
  BY <1>4 DEF TypeOK, PairCommit, Links, HasLink
<1>5. ASSUME NEW d \in Devices, UploadAuth(d) PROVE Standing'
  BY <1>5 DEF TypeOK, tables, UploadAuth
<1>6. ASSUME NEW d \in Devices, UploadRefused(d) PROVE Standing'
  BY <1>6 DEF TypeOK, tables, UploadRefused
<1>7. ASSUME NEW d \in Devices, UploadJoin(d) PROVE Standing'
  BY <1>7 DEF TypeOK, tables, UploadJoin
<1>8. ASSUME NEW d \in Devices, NEW k \in Kinds, UploadInsert(d, k) PROVE Standing'
  BY <1>8 DEF TypeOK, tables, UploadInsert
<1>9. ASSUME NEW d \in Devices, UploadCommit(d) PROVE Standing'
  BY <1>9, <1>n DEF TypeOK, UploadCommit
<1>10. ASSUME NEW d \in Devices, UploadAbort(d) PROVE Standing'
  BY <1>10, <1>n DEF TypeOK, tables, UploadAbort
<1>11. CASE RemoveCommit
  BY <1>11 DEF TypeOK, RemoveCommit
<1> QED
  BY Zenon, <1>1, <1>2, <1>3, <1>4, <1>5, <1>6, <1>7, <1>8, <1>9, <1>10, <1>11
  DEF Next, vars, tables, AddPerson, CreateInvite, Expire, PairLock, PairInsert, PairAbort, RemoveBegin,
      RemoveRecords, RemoveInvites, RemoveMemberships, RemoveDevices, RemovePerson, RemoveFails, RemoveAbort

LEMMA AlwaysStanding == Spec => [](TypeOK /\ Links /\ Standing)
<1>1. Init => TypeOK /\ Links /\ Standing
  BY InitTyped, InitLinks, InitStanding
<1>2. TypeOK /\ Links /\ Standing /\ [Next]_vars => (TypeOK /\ Links /\ Standing)'
  BY NextTyped, NextLinks, NextStanding
<1> QED
  BY <1>1, <1>2, PTL DEF Spec

\* A device that was answered 401 is never accepted again, whatever is paired,
\* revoked or deleted afterwards, so the client may stop for good
\* (Store.DeviceByToken, syncing.go).
THEOREM RefusedStaysRefused == Spec => []RefusedForGood
<1>1. Standing => RefusedForGood
  BY DEF Standing, RefusedAreOver, RefusedForGood
<1> QED
  BY <1>1, AlwaysStanding, PTL

\* Only an admin gives a member who left an account a share of it again: no
\* sync does, even one that began before the member left (ensureAccount).
THEOREM LeaversStayOut == Spec => LeftStaysOut
<1>1. Standing /\ [Next]_vars =>
        [share = "out" => share' = "out" \/ person' = "gone" \/ AdminRestores]_vars
  <2> SUFFICES ASSUME Standing, [Next]_vars, share = "out", share' # "out", person' # "gone"
               PROVE  AdminRestores
    BY DEF AdminRestores
  <2>1. CASE Leave
    BY <2>1 DEF Leave, SetShare
  <2>2. ASSUME NEW d \in Devices, UploadCommit(d) PROVE FALSE
    BY <2>2 DEF UploadCommit, Standing, JoinsApart
  <2>3. CASE RemoveCommit
    BY <2>3 DEF RemoveCommit
  <2> QED
    BY Zenon, <2>1, <2>2, <2>3
    DEF Next, vars, tables, AddPerson, CreateInvite, Expire, RevokeDevice, PairLock, PairInsert, PairCommit, PairAbort,
        UploadAuth, UploadRefused, UploadJoin, UploadInsert, UploadAbort, RemoveBegin, RemoveRecords,
        RemoveInvites, RemoveMemberships, RemoveDevices, RemovePerson, RemoveFails, RemoveAbort
<1> QED
  BY <1>1, AlwaysStanding, PTL DEF LeftStaysOut, Spec

-----------------------------------------------------------------------------
(***************************************************************************)
(* A removal on its own.  While nothing runs beside DeletePerson, what its *)
(* statements so far were about is deleted.                                *)
(***************************************************************************)
\* The statements, by their place.
LEMMA StatementAt ==
  ASSUME TypeOK
  PROVE  /\ Len(Cleared) \in Nat /\ Len(Statements) = Len(Cleared) + 4
         /\ \A k \in Kinds : At(k) => removal.step \in 1..Len(Cleared) /\ Cleared[removal.step] = k
         /\ At("invites") => removal.step = Len(Cleared) + 1
         /\ At("memberships") => removal.step = Len(Cleared) + 2
         /\ At("devices") => removal.step = Len(Cleared) + 3
         /\ At("persons") => removal.step = Len(Cleared) + 4
<1> DEFINE n == Len(Cleared)
<1>1. Cleared \in Seq(Kinds) /\ n \in Nat
  BY MembersConstants
<1>2. /\ Len(Statements) = n + 4
      /\ \A i \in 1..n : Statements[i] = Cleared[i] /\ Cleared[i] \in Kinds
      /\ Statements[n + 1] = "invites" /\ Statements[n + 2] = "memberships"
      /\ Statements[n + 3] = "devices" /\ Statements[n + 4] = "persons"
  BY <1>1 DEF Statements
<1>3. ASSUME NEW s, At(s)
      PROVE  /\ removal.step \in 1..n \/ removal.step = n + 1 \/ removal.step = n + 2
                  \/ removal.step = n + 3 \/ removal.step = n + 4
             /\ Statements[removal.step] = s
  BY <1>1, <1>2, <1>3 DEF At, Removing, TypeOK
<1> HIDE DEF n
<1>4. ASSUME NEW k \in Kinds, At(k) PROVE removal.step \in 1..n /\ Cleared[removal.step] = k
  BY <1>2, <1>3, <1>4, MembersConstants
<1>5. /\ At("invites") => removal.step = n + 1
      /\ At("memberships") => removal.step = n + 2
      /\ At("devices") => removal.step = n + 3
      /\ At("persons") => removal.step = n + 4
  BY <1>2, <1>3, MembersConstants
<1> QED
  BY <1>1, <1>2, <1>4, <1>5 DEF n

\* Nothing that could get in the way is under way.
Undisturbed ==
  /\ \A p \in Pairers : pairing[p] = NoPairing
  /\ \A d \in Devices : ~InTx(d)

\* What the statements so far have deleted.
Deleted ==
  /\ \A i \in 1..Len(Cleared) : i < removal.step => \A r \in rows : r[2] = Cleared[i] => r \in removal.rows
  /\ removal.step > Len(Cleared) + 1 => \A i \in Invites : Linked(i) => i \in removal.invites
  /\ removal.step > Len(Cleared) + 2 => share = "none" \/ removal.share
  /\ removal.step > Len(Cleared) + 3 => \A d \in Devices : Paired(d) => d \in removal.devices

\* A removal that nothing disturbed has met nothing it did not delete.
Alone == Removing /\ removal.alone => Undisturbed /\ Deleted

\* Such a removal fails on a record of a table that it does not empty.
LEMMA AloneFails ==
  ASSUME TypeOK, Alone, RemoveFails, removal.alone
  PROVE  \E r \in rows : \A i \in 1..Len(Cleared) : Cleared[i] # r[2]
<1> SUFFICES ASSUME \A r \in rows : \E i \in 1..Len(Cleared) : Cleared[i] = r[2] PROVE FALSE
  OBVIOUS
<1>1. removal.step \in Nat /\ Len(Cleared) \in Nat
  BY StatementAt DEF TypeOK
<1>2. Removing /\ (At("devices") \/ At("persons"))
  BY DEF RemoveFails, At
<1>3. removal.step \in {Len(Cleared) + 3, Len(Cleared) + 4} /\ Deleted
  BY <1>2, StatementAt DEF Alone
<1>4. rows \subseteq removal.rows
  <2> SUFFICES ASSUME NEW r \in rows PROVE r \in removal.rows
    OBVIOUS
  <2>1. PICK i \in 1..Len(Cleared) : Cleared[i] = r[2]
    OBVIOUS
  <2> QED BY <1>1, <1>3, <2>1 DEF Deleted
<1>5. \A i \in Invites : Linked(i) => i \in removal.invites
  BY <1>1, <1>3 DEF Deleted
<1>6. ~DeviceInUse
  BY <1>4, <1>5 DEF DeviceInUse, Linked
<1>7. CASE At("persons") /\ PersonInUse
  <2>1. removal.step = Len(Cleared) + 4
    BY <1>7, StatementAt
  <2> QED BY <1>1, <1>3, <1>4, <1>5, <1>7, <2>1 DEF Deleted, PersonInUse
<1> QED BY <1>6, <1>7 DEF RemoveFails

\* Every step of the server keeps it.
LEMMA NextAlone ==
  ASSUME TypeOK, Alone, [Next]_vars
  PROVE  Alone'
<1> USE DEF Alone, Removing
<1>0. removal.step \in Nat /\ Len(Cleared) \in Nat /\ removal.alone \in BOOLEAN
  BY StatementAt DEF TypeOK
<1>1. ASSUME UNCHANGED <<rows, share, removal>>, Undisturbed => Undisturbed',
             \A i \in Invites : Linked(i)' => Linked(i), \A d \in Devices : Paired(d)' => Paired(d)
      PROVE  Alone'
  BY <1>1 DEF Deleted
<1>2. ASSUME removal' = Disturbed, Removing \/ removal.step = 0 PROVE Alone'
  BY <1>0, <1>2 DEF Disturbed, TypeOK
<1>3. CASE \/ AdminRestores \/ Leave
           \/ \E i \in Invites : CreateInvite(i)
           \/ \E p \in Pairers : PairLock(p)
           \/ \E d \in Devices : UploadJoin(d)
  BY <1>0, <1>2, <1>3 DEF AdminRestores, Leave, SetShare, CreateInvite, PairLock, UploadJoin
<1>4. ASSUME NEW i \in Invites, Expire(i) PROVE Alone'
  BY <1>1, <1>4 DEF TypeOK, Expire, Linked, Paired, Undisturbed, InTx
<1>5. ASSUME NEW d \in Devices, RevokeDevice(d) PROVE Alone'
  BY <1>1, <1>5 DEF TypeOK, RevokeDevice, Linked, Paired, Undisturbed, InTx
<1>6. ASSUME NEW p \in Pairers, PairInsert(p) \/ PairCommit(p) \/ PairAbort(p) PROVE Alone'
  <2>1. pairing[p] # NoPairing /\ UNCHANGED <<removal>>
    BY <1>6 DEF PairInsert, PairCommit, PairAbort, NoPairing
  <2> QED BY <2>1 DEF Undisturbed
<1>7. ASSUME NEW d \in Devices, UploadAuth(d) \/ UploadRefused(d) \/ UploadAbort(d) PROVE Alone'
  <2>1. UNCHANGED <<tables, pairing, removal>>
    BY <1>7 DEF UploadAuth, UploadRefused, UploadAbort
  <2>2. \A e \in Devices : InTx(e)' => InTx(e)
    <3>1. /\ \/ UNCHANGED upload
             \/ upload' = [upload EXCEPT ![d].pc = "authed"]
             \/ upload' = [upload EXCEPT ![d] = NoUpload]
          /\ \A e \in Devices : upload[e] \in [pc : {"idle", "authed", "ingesting"}, joins : BOOLEAN, rows : SUBSET Kinds]
      BY <1>7 DEF TypeOK, UploadAuth, UploadRefused, UploadAbort
    <3>2. DOMAIN upload = Devices
      BY DEF TypeOK
    <3> QED BY <3>1, <3>2 DEF NoUpload, InTx
  <2> QED BY <1>1, <2>1, <2>2 DEF tables, Linked, Paired, Undisturbed
<1>8. ASSUME NEW d \in Devices, UploadCommit(d) \/ (\E k \in Kinds : UploadInsert(d, k)) PROVE Alone'
  <2>1. InTx(d) /\ UNCHANGED <<removal>>
    BY <1>8 DEF UploadCommit, UploadInsert
  <2> QED BY <2>1 DEF Undisturbed
<1>9. CASE RemoveBegin
  <2>1. /\ removal'.step = 1
        /\ removal'.alone <=> Undisturbed
        /\ UNCHANGED <<tables, pairing, upload>>
    BY <1>9 DEF RemoveBegin, NoRemoval, Undisturbed
  <2>2. Undisturbed => Undisturbed'
    BY <2>1 DEF Undisturbed, InTx
  <2> QED BY <1>0, <2>1, <2>2 DEF Deleted
<1>10. ASSUME NEW k \in Kinds, RemoveRecords(k) PROVE Alone'
  <2>1. removal.step \in 1..Len(Cleared) /\ Cleared[removal.step] = k
    BY <1>10, StatementAt DEF RemoveRecords
  <2>2. /\ removal'.step = removal.step + 1 /\ removal'.alone = removal.alone
        /\ removal'.rows = removal.rows \cup {r \in rows : r[2] = k}
        /\ UNCHANGED <<tables, pairing, upload>>
    BY <1>10 DEF RemoveRecords, TypeOK
  <2>3. Deleted => Deleted'
    BY <1>0, <2>1, <2>2 DEF Deleted, tables
  <2> QED BY <1>0, <2>1, <2>2, <2>3 DEF Undisturbed, InTx
<1>11. CASE RemoveInvites
  <2>1. removal.step = Len(Cleared) + 1
    BY <1>11, StatementAt DEF RemoveInvites
  <2>2. /\ removal'.step = removal.step + 1 /\ removal'.alone = removal.alone /\ removal'.rows = removal.rows
        /\ removal'.invites = {i \in Invites : Linked(i)}
        /\ UNCHANGED <<tables, pairing, upload>>
    BY <1>11 DEF RemoveInvites, TypeOK
  <2>3. Deleted => Deleted'
    BY <1>0, <2>1, <2>2 DEF Deleted, tables, Linked
  <2> QED BY <1>0, <2>1, <2>2, <2>3 DEF Undisturbed, InTx
<1>12. CASE RemoveMemberships
  <2>1. removal.step = Len(Cleared) + 2
    BY <1>12, StatementAt DEF RemoveMemberships
  <2>2. /\ removal'.step = removal.step + 1 /\ removal'.alone = removal.alone /\ removal'.rows = removal.rows
        /\ removal'.invites = removal.invites /\ (share # "none" => removal'.share)
        /\ UNCHANGED <<tables, pairing, upload>>
    BY <1>12 DEF RemoveMemberships, TypeOK
  <2>3. Deleted => Deleted'
    BY <1>0, <2>1, <2>2 DEF Deleted, tables, Linked
  <2> QED BY <1>0, <2>1, <2>2, <2>3 DEF Undisturbed, InTx
<1>13. CASE RemoveDevices
  <2>1. removal.step = Len(Cleared) + 3
    BY <1>13, StatementAt DEF RemoveDevices
  <2>2. /\ removal'.step = removal.step + 1 /\ removal'.alone = removal.alone /\ removal'.rows = removal.rows
        /\ removal'.invites = removal.invites /\ removal'.share = removal.share
        /\ removal'.devices = {d \in Devices : Paired(d)}
        /\ UNCHANGED <<tables, pairing, upload>>
    BY <1>13 DEF RemoveDevices, TypeOK
  <2>3. Deleted => Deleted'
    BY <1>0, <2>1, <2>2 DEF Deleted, tables, Linked, Paired
  <2> QED BY <1>0, <2>1, <2>2, <2>3 DEF Undisturbed, InTx
<1>14. CASE RemovePerson
  <2>1. removal.step = Len(Cleared) + 4
    BY <1>14, StatementAt DEF RemovePerson
  <2>2. /\ removal'.step = removal.step + 1 /\ removal'.alone = removal.alone /\ removal'.rows = removal.rows
        /\ removal'.invites = removal.invites /\ removal'.share = removal.share
        /\ removal'.devices = removal.devices
        /\ UNCHANGED <<tables, pairing, upload>>
    BY <1>14 DEF RemovePerson, TypeOK
  <2>3. Deleted => Deleted'
    BY <1>0, <2>1, <2>2 DEF Deleted, tables, Linked, Paired
  <2> QED BY <1>0, <2>1, <2>2, <2>3 DEF Undisturbed, InTx
<1>15. CASE RemoveFails
  BY <1>15 DEF RemoveFails, NoRemoval
<1>16. CASE RemoveCommit \/ RemoveAbort
  BY <1>16 DEF RemoveCommit, RemoveAbort, NoRemoval
<1>17. CASE AddPerson \/ UNCHANGED vars
  BY <1>1, <1>17 DEF AddPerson, vars, Linked, Paired, Undisturbed, InTx
<1> QED
  BY <1>3, <1>4, <1>5, <1>6, <1>7, <1>8, <1>9, <1>10, <1>11, <1>12, <1>13, <1>14, <1>15, <1>16, <1>17 DEF Next

\* DeletePerson empties the tables in an order that leaves no reference behind
\* but those of records in tables it does not name: with nothing else running
\* it fails on such a record, as it does on those of limit_events, or not at
\* all, for any number of devices, links, records and tables
\* (Store.DeletePerson).
THEOREM RemovalFailsOnUnnamed == Spec => FailsOnUnnamed
<1>1. Init => TypeOK /\ Alone
  <2>1. Init => Alone
    BY DEF Init, Alone, Removing, NoRemoval
  <2> QED BY <2>1, InitTyped
<1>2. TypeOK /\ Alone /\ [Next]_vars => (TypeOK /\ Alone)'
  BY NextTyped, NextAlone
<1>3. TypeOK /\ Alone /\ [Next]_vars =>
        [~failed /\ failed' => \E r \in rows : \A i \in 1..Len(Cleared) : Cleared[i] # r[2]]_vars
  <2> SUFFICES ASSUME TypeOK, Alone, [Next]_vars, ~failed, failed'
               PROVE  \E r \in rows : \A i \in 1..Len(Cleared) : Cleared[i] # r[2]
    OBVIOUS
  <2>1. RemoveFails /\ removal.alone
    BY DEF Next, vars, tables, AddPerson, CreateInvite, Expire, AdminRestores, Leave, SetShare, RevokeDevice,
           PairLock, PairInsert, PairCommit, PairAbort, UploadAuth, UploadRefused, UploadJoin, UploadInsert,
           UploadCommit, UploadAbort, RemoveBegin, RemoveRecords, RemoveInvites, RemoveMemberships,
           RemoveDevices, RemovePerson, RemoveFails, RemoveCommit, RemoveAbort
  <2> QED BY <2>1, AloneFails
<1> QED
  BY <1>1, <1>2, <1>3, PTL DEF Spec, FailsOnUnnamed
==============================================================================
