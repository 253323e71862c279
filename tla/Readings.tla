------------------------------ MODULE Readings ------------------------------
(***************************************************************************)
(* The quota readings Claude Code's statusLine hands over, from the spool  *)
(* file of a session to the server's table.  A pass over the spool files   *)
(* attributes each reading by what the ledger knows of its session at the  *)
(* time; a later pass that knows better moves the reading to another       *)
(* account and says so in the outbox.  An upload sends the oldest items in *)
(* batches and again when no answer comes; two uploads may be under way at *)
(* once (the sync loop's and a resync's), and a request may arrive after   *)
(* its client gave up on it.                                               *)
(*                                                                         *)
(* One device and one source of readings: rows are keyed by both.          *)
(***************************************************************************)
EXTENDS Naturals, Sequences, FiniteSets, SequencesExt

CONSTANTS
  Sessions,   \* Claude Code sessions
  Accounts,   \* Claude accounts
  Limits,     \* rate limits a session may report
  Desktop,    \* the account Claude Desktop filed its sessions under
  Absent,     \* no reading, no account
  BatchSize,  \* items in one request
  Requests,   \* requests under way at once
  MaxTime,    \* bound: moments of the device's clock
  MaxEvents,  \* bound: usage events ingested
  MaxQueued   \* bound: items queued before a pass

ASSUME ReadingsConstants ==
  /\ Absent \notin Accounts \cup Limits
  /\ Desktop \in Accounts
  /\ BatchSize \in Nat \ {0}
  /\ IsFiniteSet(Sessions)  \* the files of a directory
  /\ MaxTime \in Nat \ {0} /\ MaxEvents \in Nat /\ MaxQueued \in Nat

VARIABLES
  now,      \* the device's clock
  cli,      \* the account Claude Code was signed into at each moment, as observed
  events,   \* usage events: the entrypoint a session used at a moment
  spool,    \* the spool files
  snaps,    \* the device's snapshots table
  outbox,   \* queued readings, oldest first
  wire,     \* per request, what it carries and how far it got
  stored,   \* the server's quota_snapshots table
  reached,  \* history: how many of the outbox's items the server has ingested
  lost,     \* history: whether a resync dropped a correction that was queued
  late      \* history: whether a request arrived late

uploading == <<wire, stored, reached, late>>
readingsVars == <<now, cli, events, spool, snaps, outbox, lost, uploading>>

Times == 1..MaxTime
Entrypoints == {"cli", "desktop", "third-party"}
Snapshot == [acct : Accounts, at : Times, lim : Limits]
Queued == [acct : Accounts, at : Times, lim : Limits, prev : Accounts \cup {Absent}]

\* A request's items, and how many of them are still in the outbox: its first
\* items, until the answer to another one or a resync removes some.
Request == [batch : Seq(Queued), covers : Nat, done : BOOLEAN]

ReadingsTypeOK ==
  /\ now \in Times /\ lost \in BOOLEAN /\ late \in BOOLEAN
  /\ cli \in [Times -> Accounts \cup {Absent}]
  /\ events \subseteq [sess : Sessions, at : Times, entry : Entrypoints]
  /\ spool \in [Sessions -> [at : Times, lim : Limits] \cup {Absent}]
  /\ snaps \subseteq Snapshot
  /\ outbox \in Seq(Queued)
  /\ wire \in [Requests -> Request \cup {Absent}]
  /\ reached \in 0..Len(outbox)
  /\ stored \subseteq Snapshot
  /\ \A x, y \in snaps : x.acct = y.acct /\ x.at = y.at => x = y
  /\ \A x, y \in stored : x.acct = y.acct /\ x.at = y.at => x = y

ReadingsInit ==
  /\ now = 1
  /\ cli = [t \in Times |-> Absent]
  /\ events = {}
  /\ spool = [s \in Sessions |-> Absent]
  /\ snaps = {}
  /\ outbox = <<>>
  /\ wire = [q \in Requests |-> Absent]
  /\ stored = {}
  /\ reached = 0
  /\ lost = FALSE
  /\ late = FALSE

-----------------------------------------------------------------------------
(***************************************************************************)
(* Claude Code runs the shim; logs and sign-ins are read on the side.      *)
(***************************************************************************)
Tick ==
  /\ now < MaxTime
  /\ now' = now + 1
  /\ UNCHANGED <<cli, events, spool, snaps, outbox, lost, uploading>>

\* spool: unchanged limits leave the file, and its time, alone.  A session
\* does not report twice in one moment, two sessions may.
Spool(s) ==
  /\ \E l \in Limits :
       /\ spool[s] # Absent => spool[s].lim # l /\ spool[s].at # now
       /\ spool' = [spool EXCEPT ![s] = [at |-> now, lim |-> l]]
  /\ UNCHANGED <<now, cli, events, snaps, outbox, lost, uploading>>

PruneSpool(s) ==
  /\ spool[s] # Absent
  /\ spool[s].at < now
  /\ spool' = [spool EXCEPT ![s] = Absent]
  /\ UNCHANGED <<now, cli, events, snaps, outbox, lost, uploading>>

\* A log is ingested some time after the requests in it were made.
IngestEvent ==
  /\ Cardinality(events) < MaxEvents
  /\ \E s \in Sessions, t \in 1..now, e \in Entrypoints :
       /\ \A x \in events : <<x.sess, x.at>> # <<s, t>>
       /\ events' = events \cup {[sess |-> s, at |-> t, entry |-> e]}
  /\ UNCHANGED <<now, cli, spool, snaps, outbox, lost, uploading>>

\* A sign-in observed now holds from now on.
ObserveCLI ==
  /\ \E a \in Accounts \cup {Absent} : cli' = [t \in Times |-> IF t >= now THEN a ELSE cli[t]]
  /\ cli' # cli
  /\ UNCHANGED <<now, events, spool, snaps, outbox, lost, uploading>>

-----------------------------------------------------------------------------
(***************************************************************************)
(* ingestStatusLine: one pass over the spool files.                        *)
(***************************************************************************)
\* SessionOriginatorAt: the session's latest event by then, if there is one.
OriginatorAt(s, t) ==
  {e \in events : /\ e.sess = s /\ e.at <= t
                  /\ \A x \in events : x.sess = s /\ x.at <= t => x.at <= e.at}

Resolve(entry, t) ==
  CASE entry = "third-party" -> Absent
    [] entry = "desktop" -> Desktop
    [] entry = "cli" -> cli[t]

Attributed(s) ==
  IF spool[s] = Absent THEN {}
  ELSE {r \in Snapshot : /\ r.at = spool[s].at /\ r.lim = spool[s].lim
                         /\ \E e \in OriginatorAt(s, r.at) : Resolve(e.entry, r.at) = r.acct}

\* No other session can have produced a reading at that time.
OnlyAt(r) == Cardinality({s \in Sessions : spool[s] # Absent /\ spool[s].at = r.at}) = 1

Queue(r, prev) == [acct |-> r.acct, at |-> r.at, lim |-> r.lim, prev |-> prev]
Taken(table, r) == \E x \in table : x.acct = r.acct /\ x.at = r.at

\* insertSnapshot: a reading of that account and time is there already, or it
\* is new and queued.
Add(db, r) ==
  IF Taken(db.snaps, r) THEN db
  ELSE [snaps |-> db.snaps \cup {r}, outbox |-> Append(db.outbox, Queue(r, Absent))]

\* Rows with the reading's time and limits, whoever they belong to.
Recorded(db, r) == {x \in db.snaps : x.at = r.at /\ x.lim = r.lim}
Corrects(db, r) == \E x \in Snapshot : Recorded(db, r) = {x} /\ x.acct # r.acct

\* Mutant: the account the reading leaves is not named.
CorrectUnnamed(db, r) ==
  Add([db EXCEPT !.snaps = @ \ Recorded(db, r)], r)

\* CorrectSnapshot: the only such row moves to the account, which the server
\* hears of, and the reading is added like any other.
Correct(db, r) ==
  LET old == CHOOSE x \in Snapshot : Recorded(db, r) = {x}
  IN  Add([snaps |-> db.snaps \ {old}, outbox |-> Append(db.outbox, Queue(r, old.acct))], r)

Ingest(db, r) == IF OnlyAt(r) /\ Corrects(db, r) THEN Correct(db, r) ELSE Add(db, r)

Reading(s) == CHOOSE r \in Attributed(s) : TRUE

\* The files are read in the order of their names; a pass may stop part way.
\* What the device holds after each file.
IngestStatusLine ==
  /\ Len(outbox) < MaxQueued
  /\ \E seq \in UNION {SetToSeqs(T) : T \in SUBSET {s \in Sessions : Attributed(s) # {}}} :
       LET after[i \in 0..Len(seq)] ==
             IF i = 0 THEN [snaps |-> snaps, outbox |-> outbox]
             ELSE Ingest(after[i - 1], Reading(seq[i]))
           db == after[Len(seq)]
       IN  /\ db.outbox # outbox
           /\ snaps' = db.snaps
           /\ outbox' = db.outbox
  /\ UNCHANGED <<now, cli, events, spool, lost, uploading>>

-----------------------------------------------------------------------------
(***************************************************************************)
(* The upload and the server's handler.                                    *)
(***************************************************************************)
\* Mutant: a correction removes nothing while the reading's own account has
\* a row at that time.
StoreOnce(q, table) ==
  IF Taken(table, q) THEN table
  ELSE {x \in table : ~(x.acct = q.prev /\ x.at = q.at /\ x.lim = q.lim)}
       \cup {[acct |-> q.acct, at |-> q.at, lim |-> q.lim]}

\* The row a correction replaces goes if its limits are the same; the
\* reading is stored unless the account has one of that time.
Store(q, table) ==
  LET kept == IF q.prev = Absent THEN table
              ELSE {x \in table : ~(x.acct = q.prev /\ x.at = q.at /\ x.lim = q.lim)}
  IN  IF Taken(kept, q) THEN kept
      ELSE kept \cup {[acct |-> q.acct, at |-> q.at, lim |-> q.lim]}

Sent == IF Len(outbox) < BatchSize THEN Len(outbox) ELSE BatchSize

\* One round of upload: the oldest items are read and posted.
Send(q) ==
  /\ wire[q] = Absent
  /\ outbox # <<>>
  /\ wire' = [wire EXCEPT ![q] = [batch |-> SubSeq(outbox, 1, Sent), covers |-> Sent, done |-> FALSE]]
  /\ UNCHANGED <<now, cli, events, spool, snaps, outbox, stored, reached, lost, late>>

\* None of the request's items was answered before it came, and no request
\* that carries more came first.
InTurn(r) == r.covers = Len(r.batch) /\ r.covers >= reached

\* The request is ingested in one transaction, item by item.  Requests that
\* begin with the same item take the lock of its account's row, so that one
\* is ingested after the other.
Receive(q) ==
  LET r == wire[q]
  IN  /\ r # Absent
      /\ ~r.done
      /\ LET after[i \in 0..Len(r.batch)] == IF i = 0 THEN stored ELSE Store(r.batch[i], after[i - 1])
         IN  stored' = after[Len(r.batch)]
      /\ wire' = [wire EXCEPT ![q].done = TRUE]
      /\ reached' = IF r.covers > reached THEN r.covers ELSE reached
      /\ late' = (late \/ ~InTurn(r))
      /\ UNCHANGED <<now, cli, events, spool, snaps, outbox, lost>>

\* What is left of n items once k were removed.
Less(n, k) == IF n > k THEN n - k ELSE 0

\* Mutant: an answer empties the outbox.
AnswersAll(q) ==
  /\ wire[q] # Absent
  /\ wire[q].done
  /\ outbox' = <<>>
  /\ reached' = 0
  /\ wire' = [p \in Requests |->
                IF p = q \/ wire[p] = Absent THEN Absent ELSE [wire[p] EXCEPT !.covers = 0]]
  /\ UNCHANGED <<now, cli, events, spool, snaps, stored, lost, late>>

\* DeleteOutboxThrough: the answer comes, and the items up to the request's
\* last one go.
Answer(q) ==
  /\ wire[q] # Absent
  /\ wire[q].done
  /\ outbox' = SubSeq(outbox, wire[q].covers + 1, Len(outbox))
  /\ reached' = Less(reached, wire[q].covers)
  /\ wire' = [p \in Requests |->
                IF p = q \/ wire[p] = Absent THEN Absent
                ELSE [wire[p] EXCEPT !.covers = Less(@, wire[q].covers)]]
  /\ UNCHANGED <<now, cli, events, spool, snaps, stored, lost, late>>

\* The request never arrives or fails, or nobody waits for its answer any
\* more.
Lose(q) ==
  /\ wire[q] # Absent
  /\ wire' = [wire EXCEPT ![q] = Absent]
  /\ UNCHANGED <<now, cli, events, spool, snaps, outbox, stored, reached, lost, late>>

\* ResetLedger: a resync empties the outbox, corrections the server has not
\* seen among it, and queues every reading there is, by time.
Requeue ==
  /\ snaps # {}
  /\ \E seq \in SetToSeqs(snaps) :
       /\ \A i, j \in DOMAIN seq : i < j => seq[i].at <= seq[j].at
       /\ outbox' = [i \in DOMAIN seq |-> Queue(seq[i], Absent)]
  /\ lost' = (lost \/ \E i \in DOMAIN outbox : outbox[i].prev # Absent)
  /\ reached' = 0
  /\ wire' = [q \in Requests |-> IF wire[q] = Absent THEN Absent ELSE [wire[q] EXCEPT !.covers = 0]]
  /\ UNCHANGED <<now, cli, events, spool, snaps, stored, late>>

-----------------------------------------------------------------------------
Device == Tick \/ IngestEvent \/ ObserveCLI \/ IngestStatusLine \/ Requeue
          \/ \E s \in Sessions : Spool(s) \/ PruneSpool(s)

Upload == \E q \in Requests : Send(q) \/ Receive(q) \/ Answer(q) \/ Lose(q)

ReadingsNext == Device \/ Upload

ReadingsSpec == ReadingsInit /\ [][ReadingsNext]_readingsVars

-----------------------------------------------------------------------------
\* CorrectSnapshot and Ingest's correction: once everything queued is
\* answered, the server holds the readings the device has and no other,
\* however often a reading moved between accounts, wherever a batch ended,
\* whichever requests or answers were lost and whatever unanswered was sent
\* again.  Not after a resync, which "drops everything this device reported
\* as usage and nothing else", dropped a correction too, nor after a request
\* came late: see DuplicatesIgnored.
ReadingsAgree == outbox = <<>> /\ ~lost /\ ~late => stored = snaps

\* "A failure resends them; the server ignores duplicates" (syncing.go:22): a
\* request that comes late adds nothing to what the server was told.  It does:
\* a reading that comes again after its correction is stored once more with
\* the account it was corrected from, and stays.
DuplicatesIgnored == outbox = <<>> /\ ~lost => stored = snaps
=============================================================================
