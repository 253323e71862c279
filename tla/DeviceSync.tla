----------------------------- MODULE DeviceSync -----------------------------
(***************************************************************************)
(* One device and the server's copy of its usage ledger.                   *)
(*                                                                         *)
(* The device keeps a sign-in timeline (observations), the responses it    *)
(* read from session logs (events) and an outbox, all in one SQLite store. *)
(* The identity checks, the scanner and the uploads run concurrently; only *)
(* the scanner and a resync exclude each other (ledgerMu).  The server     *)
(* ingests one batch per transaction.  Requests and replies get lost, a    *)
(* request its client gave up on may still be ingested, and the app may    *)
(* stop between any two steps.                                             *)
(*                                                                         *)
(* A log file stands for one response: KeyOf names its dedupe key, so two  *)
(* files with one key are two copies of a response (a resumed session).    *)
(* Output counts stand for every field that only grows.                    *)
(***************************************************************************)
EXTENDS Naturals, FiniteSets

CONSTANTS
  Files,       \* session log files
  Keys,        \* dedupe keys of the responses in them
  Sessions,    \* session ids (with the originator, which never varies alone)
  Accounts,    \* hashed account references
  NoRef,       \* "": signed out, not a pooled account, or no previous account
  NoRow,       \* a dedupe key without a row
  NoObs,       \* an identity check that is not under way
  Nobody,      \* no ingest transaction is open
  Observers,   \* concurrent identity checks (identityLoop, scanLoop, Resync)
  Uploaders,   \* concurrent uploads (syncLoop, Resync)
  Orphan,      \* the sender of a request its client gave up on
  KeyOf,       \* the response each file holds
  SessOf,      \* the session that wrote each file
  BornAt,      \* when each response was logged
  BatchSize,   \* items per sync request
  MaxOut,      \* bound: output count of a response
  MaxTime,     \* bound: clock
  MaxId,       \* bound: outbox ids
  MaxResets,   \* bound: resyncs
  MaxOrphans   \* bound: requests that outlive their client's patience

ASSUME ConstantsAssumption ==
  /\ KeyOf \in [Files -> Keys]
  /\ SessOf \in [Files -> Sessions]
  /\ BornAt \in [Keys -> Nat]
  /\ BatchSize \in Nat \ {0}
  /\ {MaxOut, MaxTime, MaxId, MaxResets, MaxOrphans} \subseteq Nat
  /\ NoRef \notin Accounts
  /\ Orphan \notin Uploaders
  /\ Nobody \notin Uploaders \cup {Orphan}

(***************************************************************************)
(* Records.                                                                *)
(***************************************************************************)
Outs == 1..MaxOut
Times == 0..MaxTime
Refs == Accounts \cup {NoRef}

Observation == [at : Times, ref : Refs]
Row == [acct : Accounts, out : Outs, sess : Sessions]
EventBody == [key : Keys, acct : Accounts, out : Outs, sess : Sessions, prev : Refs]

ASSUME MarkersAssumption == NoRow \notin Row /\ NoObs \notin Observation

\* An outbox item: its AUTOINCREMENT id and the payload to upload.
Item == [id : Nat, payload : EventBody \cup Observation]

VARIABLES
  now,        \* the clock
  timeline,   \* table observations
  checking,   \* per identity check, the answer not yet stored
  log,        \* on disk: output count each file shows, 0 before it exists
  seen,       \* table files: the state of each file when last listed, 0 unknown
  reviewed,   \* the setting that says every file was read under today's rules
  local,      \* table events
  outbox,     \* table outbox
  nextId,     \* next outbox id
  scan,       \* the pass holding ledgerMu
  up,         \* per upload, where it is and the batch it sent
  orphans,    \* batches still on their way whose client gave up
  tx,         \* the ingest transaction under way
  row,        \* table usage_events
  srvObs,     \* table observations of the server
  resets,     \* resyncs so far
  gaveUp      \* requests turned into orphans so far

deviceVars ==
  <<now, timeline, checking, log, seen, reviewed, local, outbox, nextId, scan, resets>>
wireVars == <<up, orphans, gaveUp>>
serverVars == <<tx, row, srvObs>>
vars == <<deviceVars, wireVars, serverVars>>
store == <<timeline, seen, reviewed, local, outbox, nextId>>

NoScan == [pc |-> "idle", todo |-> {}, stat |-> [f \in Files |-> 0], view |-> {}]
NoTx == [by |-> Nobody, batch |-> {}, todo |-> {}, rows |-> [k \in Keys |-> NoRow], obs |-> {}]
Idle == [pc |-> "idle", batch |-> {}]

Init ==
  /\ now = 0
  /\ timeline = {}
  /\ checking = [o \in Observers |-> NoObs]
  /\ log = [f \in Files |-> 0]
  /\ seen = [f \in Files |-> 0]
  /\ reviewed = FALSE
  /\ local = [k \in Keys |-> NoRow]
  /\ outbox = {}
  /\ nextId = 1
  /\ scan = NoScan
  /\ up = [u \in Uploaders |-> Idle]
  /\ orphans = {}
  /\ tx = NoTx
  /\ row = [k \in Keys |-> NoRow]
  /\ srvObs = {}
  /\ resets = 0
  /\ gaveUp = 0

-----------------------------------------------------------------------------
(***************************************************************************)
(* Shared helpers.                                                         *)
(***************************************************************************)
IsEvent(i) == i.payload \in EventBody
\* Mutant: a larger count is added to the smaller one.
LargerAdded(a, b) == a + b

Larger(a, b) == IF a > b THEN a ELSE b

\* The account a timeline gives for usage at t: the latest observation at or
\* before t, NoRef when there is none or it names no pooled account.
ResolveAt(view, t) ==
  LET past == {o \in view : o.at <= t}
      last == {o \in past : \A p \in past : p.at <= o.at}
  IN  IF last = {} THEN NoRef ELSE (CHOOSE o \in last : TRUE).ref

\* Nothing is read before the device was seen on a pooled account.
Pooled(view) == \E o \in view : o.ref # NoRef

\* Mutant: the newest items are sent first.
NewestOutbox == {i \in outbox : Cardinality({j \in outbox : j.id > i.id}) < BatchSize}

\* The oldest items of the outbox, at most BatchSize.
PendingOutbox == {i \in outbox : Cardinality({j \in outbox : j.id < i.id}) < BatchSize}

-----------------------------------------------------------------------------
(***************************************************************************)
(* The world: time passes, sessions log responses.  A streamed response    *)
(* shows a growing output count.                                           *)
(***************************************************************************)
Tick ==
  /\ now < MaxTime
  /\ now' = now + 1
  /\ UNCHANGED <<timeline, checking, log, seen, reviewed, local, outbox, nextId, scan, resets>>
  /\ UNCHANGED <<wireVars, serverVars>>

LogGrows(f) ==
  /\ now >= BornAt[KeyOf[f]]
  /\ log[f] < MaxOut
  /\ \E n \in (log[f] + 1)..MaxOut : log' = [log EXCEPT ![f] = n]
  /\ UNCHANGED <<now, timeline, checking, seen, reviewed, local, outbox, nextId, scan, resets>>
  /\ UNCHANGED <<wireVars, serverVars>>

(***************************************************************************)
(* Identity checks.  The CLI answers at one instant and the answer is      *)
(* stored at a later one; AddObservation ignores a second answer of the    *)
(* same instant and queues only pooled accounts.                           *)
(***************************************************************************)
ObserveAnswer(c) ==
  /\ checking[c] = NoObs
  /\ \E r \in Refs : checking' = [checking EXCEPT ![c] = [at |-> now, ref |-> r]]
  /\ UNCHANGED <<now, log, scan, resets, store, wireVars, serverVars>>

ObserveStore(c) ==
  LET o == checking[c]
  IN  /\ o # NoObs
      /\ checking' = [checking EXCEPT ![c] = NoObs]
      /\ \/ /\ \E p \in timeline : p.at = o.at
            /\ UNCHANGED <<timeline, outbox, nextId>>
         \/ /\ \A p \in timeline : p.at # o.at
            /\ timeline' = timeline \cup {o}
            /\ IF o.ref = NoRef
               THEN UNCHANGED <<outbox, nextId>>
               ELSE /\ nextId <= MaxId
                    /\ outbox' = outbox \cup {[id |-> nextId, payload |-> o]}
                    /\ nextId' = nextId + 1
      /\ UNCHANGED <<now, log, seen, reviewed, local, scan, resets, wireVars, serverVars>>

\* The CLI is missing or answers with an error.
ObserveFail(c) ==
  /\ checking[c] # NoObs
  /\ checking' = [checking EXCEPT ![c] = NoObs]
  /\ UNCHANGED <<now, log, scan, resets, store, wireVars, serverVars>>

(***************************************************************************)
(* Scanning.  A pass holds ledgerMu; it reads the timeline and lists the   *)
(* files first, then reads and stores one file per transaction, with the   *)
(* listed state and the timeline it started with.                          *)
(***************************************************************************)
\* The files to read: the changed ones, and once after an upgrade all known.
ToRead(stat) == {f \in Files : stat[f] # seen[f] \/ (~reviewed /\ seen[f] # 0)}

ScanStart ==
  /\ scan.pc \in {"idle", "reset"}
  /\ Pooled(timeline)
  /\ ToRead(log) # {}
  /\ scan' = [pc |-> "reading", todo |-> ToRead(log), stat |-> log, view |-> timeline]
  /\ UNCHANGED <<now, checking, log, resets, store, wireVars, serverVars>>

\* With a new file and an old last observation the pass checks the identity
\* itself (an ObserveAnswer and ObserveStore) and reads the timeline again.
ScanReload ==
  /\ scan.pc = "reading"
  /\ scan.todo = ToRead(scan.stat)
  /\ \E f \in scan.todo : seen[f] = 0
  /\ scan.view # timeline
  /\ scan' = [scan EXCEPT !.view = timeline]
  /\ UNCHANGED <<now, checking, log, resets, store, wireVars, serverVars>>

\* A pass that finds nothing to read settles the review.
ScanNothing ==
  /\ scan.pc \in {"idle", "reset"}
  /\ Pooled(timeline)
  /\ ToRead(log) = {}
  /\ ~reviewed
  /\ reviewed' = TRUE
  /\ scan' = NoScan
  /\ UNCHANGED <<now, checking, log, timeline, seen, local, outbox, nextId, resets>>
  /\ UNCHANGED <<wireVars, serverVars>>

\* Mutant: a copy in another session may correct the account too.
SupersedesAcrossSessions(e, cur) ==
  \/ cur = NoRow
  \/ cur # NoRow /\ (e.acct # cur.acct \/ e.out > cur.out)

\* Whether a parsed response changes the stored one.
Supersedes(e, cur) ==
  \/ cur = NoRow
  \/ /\ cur # NoRow
     /\ \/ e.acct = cur.acct /\ e.out > cur.out
        \/ e.acct # cur.acct /\ e.sess = cur.sess

\* The stored row after a parsed response changed it.
Merged(e, cur) ==
  IF cur = NoRow
  THEN [acct |-> e.acct, out |-> e.out, sess |-> e.sess]
  ELSE [acct |-> e.acct, out |-> Larger(cur.out, e.out), sess |-> cur.sess]

\* Mutant: a correction does not say what it corrects.
NoPreviousAccount(e, cur) == NoRef

\* The account a correction names as the one it replaces.
PreviousAccount(e, cur) == IF cur # NoRow /\ cur.acct # e.acct THEN cur.acct ELSE NoRef

IngestFile(f) ==
  LET k == KeyOf[f]
      acct == ResolveAt(scan.view, BornAt[k])
      cur == local[k]
      e == [acct |-> acct, out |-> log[f], sess |-> SessOf[f]]
  IN  /\ scan.pc = "reading"
      /\ f \in scan.todo
      /\ scan' = [scan EXCEPT !.todo = @ \ {f}]
      /\ seen' = [seen EXCEPT ![f] = scan.stat[f]]
      /\ \/ /\ acct # NoRef
            /\ Supersedes(e, cur)
            /\ nextId <= MaxId
            /\ local' = [local EXCEPT ![k] = Merged(e, cur)]
            /\ outbox' = outbox \cup
                 {[id |-> nextId,
                   payload |-> [key |-> k, acct |-> acct, out |-> log[f], sess |-> SessOf[f],
                                prev |-> PreviousAccount(e, cur)]]}
            /\ nextId' = nextId + 1
         \/ /\ acct = NoRef \/ ~Supersedes(e, cur)
            /\ UNCHANGED <<local, outbox, nextId>>
      /\ UNCHANGED <<now, timeline, checking, log, reviewed, resets, wireVars, serverVars>>

\* Every file was read: the review is settled.
ScanDone ==
  /\ scan.pc = "reading"
  /\ scan.todo = {}
  /\ reviewed' = TRUE
  /\ scan' = NoScan
  /\ UNCHANGED <<now, checking, log, timeline, seen, local, outbox, nextId, resets>>
  /\ UNCHANGED <<wireVars, serverVars>>

\* A file fails to parse or to store, or a resync finds nothing to read: the
\* rest waits for the next pass, and so does the review.
ScanStop ==
  /\ scan.pc \in {"reading", "reset"}
  /\ scan' = NoScan
  /\ UNCHANGED <<now, checking, log, resets, store, wireVars, serverVars>>

\* Mutant: a resync queues nothing again.
RequeuedNothing == {}

\* A resync empties the ledger and queues the pooled observations again, in
\* the order they were made; the pass that reads every file follows under
\* the same lock.
Requeued ==
  LET pooled == {o \in timeline : o.ref # NoRef}
      rank(o) == Cardinality({p \in pooled : p.at < o.at})
  IN  {[id |-> nextId + rank(o), payload |-> o] : o \in pooled}

\* Mutant: outbox ids start over (a plain INTEGER PRIMARY KEY).
ResetLedgerReusingIds ==
  /\ resets < MaxResets
  /\ scan.pc = "idle"
  /\ local' = [k \in Keys |-> NoRow]
  /\ seen' = [f \in Files |-> 0]
  /\ outbox' = {}
  /\ nextId' = 1
  /\ scan' = [NoScan EXCEPT !.pc = "reset"]
  /\ resets' = resets + 1
  /\ UNCHANGED <<now, timeline, checking, log, reviewed, wireVars, serverVars>>

ResetLedger ==
  /\ resets < MaxResets
  /\ scan.pc = "idle"
  /\ nextId + Cardinality(timeline) <= MaxId
  /\ local' = [k \in Keys |-> NoRow]
  /\ seen' = [f \in Files |-> 0]
  /\ outbox' = Requeued
  /\ nextId' = nextId + Cardinality({o \in timeline : o.ref # NoRef})
  /\ scan' = [NoScan EXCEPT !.pc = "reset"]
  /\ resets' = resets + 1
  /\ UNCHANGED <<now, timeline, checking, log, reviewed, wireVars, serverVars>>

-----------------------------------------------------------------------------
(***************************************************************************)
(* Uploads.  One batch at a time: read, send, and delete through its last  *)
(* id once the server has answered.                                        *)
(***************************************************************************)
UploadRead(u) ==
  /\ up[u].pc = "idle"
  /\ outbox # {}
  /\ up' = [up EXCEPT ![u] = [pc |-> "sent", batch |-> PendingOutbox]]
  /\ UNCHANGED <<orphans, gaveUp, deviceVars, serverVars>>

\* Mutant: an accepted batch empties the outbox.
DeleteWholeOutbox(u) ==
  /\ up[u].pc = "answered"
  /\ outbox' = {}
  /\ up' = [up EXCEPT ![u] = Idle]
  /\ UNCHANGED <<now, timeline, checking, log, seen, reviewed, local, nextId, scan, resets>>
  /\ UNCHANGED <<orphans, gaveUp, serverVars>>

\* The reply arrives.
DeleteOutboxThrough(u) ==
  /\ up[u].pc = "answered"
  /\ outbox' = {i \in outbox : ~\E j \in up[u].batch : i.id <= j.id}
  /\ up' = [up EXCEPT ![u] = Idle]
  /\ UNCHANGED <<now, timeline, checking, log, seen, reviewed, local, nextId, scan, resets>>
  /\ UNCHANGED <<orphans, gaveUp, serverVars>>

\* The request or its reply is lost, or the client's patience ran out.  The
\* items stay.  A request still on its way or in its transaction may be
\* processed all the same.
UploadFail(u) ==
  /\ up[u].pc \in {"sent", "working", "answered"}
  /\ up' = [up EXCEPT ![u] = Idle]
  /\ \/ /\ up[u].pc \in {"sent", "answered"}
        /\ UNCHANGED <<orphans, gaveUp, tx>>
     \/ /\ up[u].pc = "sent"
        /\ gaveUp < MaxOrphans
        /\ orphans' = orphans \cup {up[u].batch}
        /\ gaveUp' = gaveUp + 1
        /\ UNCHANGED tx
     \/ /\ up[u].pc = "working"
        /\ tx' = [tx EXCEPT !.by = Orphan]
        /\ UNCHANGED <<orphans, gaveUp>>
  /\ UNCHANGED <<deviceVars, row, srvObs>>

\* The app stops and starts again: what is not in the store is gone.
Crash ==
  /\ scan' = NoScan
  /\ checking' = [c \in Observers |-> NoObs]
  /\ up' = [u \in Uploaders |-> Idle]
  /\ tx' = IF tx.by \in Uploaders THEN [tx EXCEPT !.by = Orphan] ELSE tx
  /\ UNCHANGED <<now, log, resets, store, orphans, gaveUp, row, srvObs>>

-----------------------------------------------------------------------------
(***************************************************************************)
(* The server's ingest transaction: observations first, then the events    *)
(* one by one in the order they were queued.                               *)
(***************************************************************************)
TxOpen(by, batch) ==
  /\ tx.by = Nobody
  /\ tx' = [by |-> by, batch |-> batch, todo |-> {i \in batch : IsEvent(i)}, rows |-> row,
            obs |-> srvObs \cup {i.payload : i \in {j \in batch : ~IsEvent(j)}}]
  /\ UNCHANGED <<row, srvObs>>

TxBegin(u) ==
  /\ up[u].pc = "sent"
  /\ TxOpen(u, up[u].batch)
  /\ up' = [up EXCEPT ![u].pc = "working"]
  /\ UNCHANGED <<orphans, gaveUp, deviceVars>>

TxBeginOrphan(b) ==
  /\ b \in orphans
  /\ TxOpen(Orphan, b)
  /\ orphans' = orphans \ {b}
  /\ UNCHANGED <<up, gaveUp, deviceVars>>

\* Whether an uploaded event changes the row the server holds: it shows more
\* output of the same account, or corrects the account it names.
Updates(e, cur) ==
  \/ e.acct = cur.acct /\ e.out > cur.out
  \/ /\ e.acct # cur.acct
     /\ e.sess = cur.sess
     /\ e.prev # NoRef
     /\ e.prev = cur.acct

Ingested(e, cur) ==
  IF cur = NoRow THEN [acct |-> e.acct, out |-> e.out, sess |-> e.sess]
  ELSE IF Updates(e, cur)
       THEN [acct |-> e.acct, out |-> Larger(cur.out, e.out), sess |-> cur.sess]
       ELSE cur

TxIngest(i) ==
  LET e == i.payload
  IN  /\ tx.by # Nobody
      /\ i \in tx.todo
      /\ \A j \in tx.todo : i.id <= j.id
      /\ tx' = [tx EXCEPT !.todo = @ \ {i}, !.rows[e.key] = Ingested(e, @)]
      /\ UNCHANGED <<row, srvObs, deviceVars, wireVars>>

TxCommit ==
  /\ tx.by # Nobody
  /\ tx.todo = {}
  /\ row' = tx.rows
  /\ srvObs' = tx.obs
  /\ tx' = NoTx
  /\ up' = IF tx.by \in Uploaders THEN [up EXCEPT ![tx.by].pc = "answered"] ELSE up
  /\ UNCHANGED <<orphans, gaveUp, deviceVars>>

\* The transaction fails or the server restarts: nothing of it stays.
TxAbort ==
  /\ tx.by # Nobody
  /\ tx' = NoTx
  /\ up' = IF tx.by \in Uploaders THEN [up EXCEPT ![tx.by] = Idle] ELSE up
  /\ UNCHANGED <<orphans, gaveUp, deviceVars, row, srvObs>>

-----------------------------------------------------------------------------
Next ==
  \/ Tick
  \/ \E f \in Files : LogGrows(f)
  \/ \E c \in Observers : ObserveAnswer(c)
  \/ \E c \in Observers : ObserveStore(c)
  \/ \E c \in Observers : ObserveFail(c)
  \/ ScanStart
  \/ ScanReload
  \/ ScanNothing
  \/ \E f \in Files : IngestFile(f)
  \/ ScanDone
  \/ ScanStop
  \/ ResetLedger
  \/ \E u \in Uploaders : UploadRead(u)
  \/ \E u \in Uploaders : DeleteOutboxThrough(u)
  \/ \E u \in Uploaders : UploadFail(u)
  \/ Crash
  \/ \E u \in Uploaders : TxBegin(u)
  \/ \E b \in orphans : TxBeginOrphan(b)
  \/ \E i \in tx.todo : TxIngest(i)
  \/ TxCommit
  \/ TxAbort

Spec == Init /\ [][Next]_vars

-----------------------------------------------------------------------------
(***************************************************************************)
(* Safety.                                                                 *)
(***************************************************************************)
\* The type invariant: what every variable of the device, the wire and the
\* server may hold.
TypeOK ==
  /\ now \in Times
  /\ timeline \subseteq Observation
  /\ checking \in [Observers -> Observation \cup {NoObs}]
  /\ log \in [Files -> 0..MaxOut]
  /\ seen \in [Files -> 0..MaxOut]
  /\ reviewed \in BOOLEAN
  /\ local \in [Keys -> Row \cup {NoRow}]
  /\ outbox \subseteq Item
  /\ nextId \in Nat
  /\ scan \in [pc : {"idle", "reset", "reading"}, todo : SUBSET Files,
               stat : [Files -> 0..MaxOut], view : SUBSET Observation]
  /\ up \in [Uploaders -> [pc : {"idle", "sent", "working", "answered"}, batch : SUBSET Item]]
  /\ orphans \subseteq SUBSET Item
  /\ tx \in [by : Uploaders \cup {Orphan, Nobody}, batch : SUBSET Item, todo : SUBSET Item,
             rows : [Keys -> Row \cup {NoRow}], obs : SUBSET Observation]
  /\ row \in [Keys -> Row \cup {NoRow}]
  /\ srvObs \subseteq Observation
  /\ resets \in Nat
  /\ gaveUp \in Nat

Pending(k) == \E i \in outbox : IsEvent(i) /\ i.payload.key = k

\* A response in the device's ledger is on the server or waiting in the
\* outbox, however uploads, resyncs, crashes and lost replies interleave:
\* deleting through the last id of an accepted batch never takes an item the
\* server has not stored (syncing.go:21-24, storage.go DeleteOutboxThrough).
EventsKept == \A k \in Keys : local[k] # NoRow /\ row[k] = NoRow => Pending(k)

\* The same of the sign-in timeline, which a resync queues again instead of
\* reading anew (storage.go ResetLedger, requeueObservations).
ObservationsKept ==
  \A o \in timeline : o.ref # NoRef /\ o \notin srvObs => \E i \in outbox : i.payload = o

\* Once nothing of a response waits in the outbox, the server's row of it is
\* the device's: its account after every correction, its largest output.
\* Holds until a resync: what is uploaded after it names no previous account,
\* and the server keeps the account it has (resync.go:17 says otherwise).
LedgerAgrees ==
  resets = 0 => \A k \in Keys : local[k] # NoRow /\ ~Pending(k) => row[k] = local[k]

-----------------------------------------------------------------------------
(***************************************************************************)
(* Liveness.  The loops run forever (syncLoop retries after every error),  *)
(* so a step that stays possible is taken; of the steps a fault can spoil, *)
(* one that is possible again and again is taken once.                     *)
(***************************************************************************)
TxOwned == tx.by \in Uploaders
IngestOf(n) == TxOwned /\ Cardinality(tx.todo) = n /\ \E i \in tx.todo : TxIngest(i)
CommitOwned == TxOwned /\ TxCommit
OrphanTxEnds == tx.by = Orphan /\ ((\E i \in tx.todo : TxIngest(i)) \/ TxCommit \/ TxAbort)

Fairness ==
  /\ \A u \in Uploaders : WF_vars(UploadRead(u))
  /\ \A u \in Uploaders : SF_vars(TxBegin(u))
  /\ \A n \in 1..BatchSize : SF_vars(IngestOf(n))
  /\ SF_vars(CommitOwned)
  /\ \A u \in Uploaders : SF_vars(DeleteOutboxThrough(u))
  /\ WF_vars(OrphanTxEnds)

FairSpec == Spec /\ Fairness

\* The upload implements Delivery: a response recorded or corrected is marked
\* by what waits in the outbox, the server changes no other row, the last item
\* of a response goes only once the server's row is the device's, and every
\* response gets there, through any number of failed uploads, aborted
\* transactions and restarts of the app (syncing.go:21-24).
Abs == INSTANCE Delivery
         WITH Records <- Row, held <- local, marked <- {k \in Keys : Pending(k)}, copy <- row
Delivers == Abs!LiveSpec
=============================================================================
