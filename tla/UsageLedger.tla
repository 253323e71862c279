----------------------------- MODULE UsageLedger -----------------------------
(***************************************************************************)
(* One request's record in the server's usage ledger, reported by several  *)
(* devices.  A request can be in the logs of more than one of a person's   *)
(* devices, and each device attributes it by its own sign-ins and client   *)
(* version; corrections and larger counts go through the device's outbox   *)
(* one after another, and a request its client gave up on may arrive again *)
(* late.  Records do not influence each other, so one dedupe key is kept.  *)
(*                                                                         *)
(* req stands for the evidence a newer client fills in (request id,        *)
(* effort), out for the counts that only grow.                             *)
(***************************************************************************)
EXTENDS Naturals, Sequences

CONSTANTS
  Devices,    \* devices whose logs hold the request
  Persons,    \* people
  PersonOf,   \* who owns each device
  Sessions,   \* session ids (with the originator)
  SessOf,     \* the session each device's log files the request under
  Accounts,   \* provider accounts
  Providers,  \* providers
  ProviderOf, \* the provider of each account
  OwnProvider, \* the provider of the client that logged the request
  NoAcct,     \* no previous account
  NoRow,      \* no record
  Readings,   \* the attributions a client can come to: [acct, third, gw]
  Evidence,   \* whether a log can lack or hold the evidence
  MaxOut,     \* bound: output count
  MaxReads,   \* bound: reports a device queues
  MaxLate     \* bound: late duplicates

ASSUME LedgerConstants ==
  /\ PersonOf \in [Devices -> Persons]
  /\ SessOf \in [Devices -> Sessions]
  /\ ProviderOf \in [Accounts -> Providers]
  /\ OwnProvider \in Providers
  /\ Evidence \subseteq BOOLEAN
  /\ NoAcct \notin Accounts
  /\ Readings \subseteq [acct : Accounts, third : BOOLEAN, gw : BOOLEAN]
  /\ {MaxOut, MaxReads, MaxLate} \subseteq Nat

Event == [dev : Devices, acct : Accounts, prev : Accounts \cup {NoAcct}, out : 1..MaxOut,
          req : BOOLEAN, third : BOOLEAN, gw : BOOLEAN]
Record == [owner : Persons, dev : Devices, acct : Accounts, sess : Sessions, out : 1..MaxOut,
           req : BOOLEAN, third : BOOLEAN, gw : BOOLEAN]
LocalRow == [acct : Accounts, out : 1..MaxOut, req : BOOLEAN]

ASSUME NoRowAssumption == NoRow \notin Record \cup LocalRow

VARIABLES
  local,  \* table events of each device's own store
  sent,   \* what each device queued for upload, in order
  pos,    \* how many of these the server has answered
  row,    \* the record in usage_events
  by,     \* the device whose report was ingested last
  late    \* late duplicates so far

vars == <<local, sent, pos, row, by, late>>

Init ==
  /\ local = [d \in Devices |-> NoRow]
  /\ sent = [d \in Devices |-> <<>>]
  /\ pos = [d \in Devices |-> 0]
  /\ row = NoRow
  /\ by \in Devices
  /\ late = 0

-----------------------------------------------------------------------------
(***************************************************************************)
(* A device reads the request in a log and queues what changes its own row *)
(* (Store.IngestFile of the client).                                       *)
(***************************************************************************)
Greater(a, b) == IF a > b THEN a ELSE b

\* A client that can tell which provider served a request keeps doing so.
Outdated(cur, r) ==
  /\ cur # NoRow
  /\ ProviderOf[cur.acct] # OwnProvider
  /\ ProviderOf[r.acct] = OwnProvider

ReadLog(d) ==
  LET cur == local[d]
  IN  /\ Len(sent[d]) < MaxReads
      /\ \E r \in Readings, n \in 1..MaxOut, q \in Evidence :
           LET prev == IF cur # NoRow /\ cur.acct # r.acct THEN cur.acct ELSE NoAcct
               e == [dev |-> d, acct |-> r.acct, prev |-> prev, out |-> n, req |-> q,
                     third |-> r.third, gw |-> r.gw]
           IN  /\ ~Outdated(cur, r)
               /\ \/ cur = NoRow
                  \/ cur # NoRow /\ cur.acct # r.acct
                  \/ cur # NoRow /\ cur.acct = r.acct /\ (n > cur.out \/ (q /\ ~cur.req))
               /\ local' = [local EXCEPT ![d] =
                    IF cur = NoRow THEN [acct |-> r.acct, out |-> n, req |-> q]
                    ELSE [acct |-> r.acct, out |-> Greater(cur.out, n), req |-> cur.req \/ q]]
               /\ sent' = [sent EXCEPT ![d] = Append(@, e)]
      /\ UNCHANGED <<pos, row, by, late>>

-----------------------------------------------------------------------------
(***************************************************************************)
(* The server ingests one event: upsert, move, reclassify, as three        *)
(* statements of one transaction.                                          *)
(***************************************************************************)
\* The report shows more of the request, for the account it is recorded with.
ShowsMore(r, e) == r.acct = e.acct /\ (e.out > r.out \/ (~r.req /\ e.req))

\* Mutant: a correction is heard only when it shows more.
CorrectsShowingMore(r, e) ==
  /\ r.sess = SessOf[e.dev]
  /\ r.acct # e.acct
  /\ e.prev = r.acct
  /\ ProviderOf[e.prev] = ProviderOf[e.acct]
  /\ e.out > r.out

\* The report corrects the account the record has, which it names.
Corrects(r, e) ==
  /\ r.sess = SessOf[e.dev]
  /\ r.acct # e.acct
  /\ e.prev = r.acct
  /\ ProviderOf[e.prev] = ProviderOf[e.acct]

Inserted(e) ==
  [owner |-> PersonOf[e.dev], dev |-> e.dev, acct |-> e.acct, sess |-> SessOf[e.dev],
   out |-> e.out, req |-> e.req, third |-> e.third, gw |-> e.gw]

\* Mutant: any device may change a record.
UpdatesByAnyone(r, e) == ShowsMore(r, e) \/ Corrects(r, e)

Updates(r, e) == r.owner = PersonOf[e.dev] /\ (ShowsMore(r, e) \/ Corrects(r, e))

\* Mutant: a correction brings its own count.
MergedShrinking(r, e) == [r EXCEPT !.acct = e.acct, !.out = e.out, !.req = r.req \/ e.req]

\* Mutant: counts add up.
MergedAdding(r, e) == [r EXCEPT !.acct = e.acct, !.out = r.out + e.out, !.req = r.req \/ e.req]

Merged(r, e) == [r EXCEPT !.acct = e.acct, !.out = Greater(r.out, e.out), !.req = r.req \/ e.req]

Upserted(r, e) ==
  IF r = NoRow THEN Inserted(e)
  ELSE IF Updates(r, e) THEN Merged(r, e)
  ELSE r

\* A third-party request moves to the account its own device found it to use.
Moved(r, e) ==
  IF e.gw /\ r.dev = e.dev /\ r.third /\ r.acct # e.acct
  THEN [r EXCEPT !.acct = e.acct, !.gw = TRUE, !.third = e.third]
  ELSE r

\* A request never goes back to counting, and a named gateway stays.
Reclassified(r, e) ==
  IF r.owner = PersonOf[e.dev]
  THEN [r EXCEPT !.third = r.third \/ e.third, !.gw = r.gw \/ e.gw]
  ELSE r

Ingested(r, e) == Reclassified(Moved(Upserted(r, e), e), e)

\* The oldest unanswered report is ingested; without the reply the device
\* sends it again.
Deliver(d) ==
  /\ pos[d] < Len(sent[d])
  /\ row' = Ingested(row, sent[d][pos[d] + 1])
  /\ by' = d
  /\ \/ pos' = [pos EXCEPT ![d] = @ + 1]
     \/ UNCHANGED pos
  /\ UNCHANGED <<local, sent, late>>

\* A report answered before, whose first request the client gave up on,
\* arrives once more.
DeliverLate(d) ==
  /\ late < MaxLate
  /\ \E i \in 1..pos[d] : row' = Ingested(row, sent[d][i])
  /\ by' = d
  /\ late' = late + 1
  /\ UNCHANGED <<local, sent, pos>>

Next == \E d \in Devices : ReadLog(d) \/ Deliver(d) \/ DeliverLate(d)

Spec == Init /\ [][Next]_vars

-----------------------------------------------------------------------------
TypeOK ==
  /\ local \in [Devices -> LocalRow \cup {NoRow}]
  /\ sent \in [Devices -> Seq(Event)]
  /\ pos \in [Devices -> Nat]
  /\ \A d \in Devices : pos[d] <= Len(sent[d])
  /\ row \in Record \cup {NoRow}
  /\ by \in Devices
  /\ late \in 0..MaxLate

\* "Another person's device never changes a record" (storage.go:268).
OnlyOwnersChange == [][row # NoRow /\ row' # row => row.owner = PersonOf[by']]_vars

\* Whatever order reports, corrections and duplicates arrive in, a record is
\* never taken back: its owner and first device stay, its counts never
\* shrink, its evidence and gateway stay, and it goes back to counting
\* against a quota only by moving to another account.
NothingUnlearned ==
  [][row # NoRow =>
       /\ row' # NoRow
       /\ <<row'.owner, row'.dev>> = <<row.owner, row.dev>>
       /\ row'.out >= row.out
       /\ row.req => row'.req
       /\ row.gw => row'.gw
       /\ row.third /\ ~row'.third => row'.acct # row.acct]_vars

\* The reports of the record's owner the server has answered.
Answered(d) == {sent[d][i] : i \in 1..pos[d]}
Owners == {d \in Devices : row # NoRow /\ PersonOf[d] = row.owner}

\* When every device of the owner has uploaded all it knows and they agree on
\* the account, the record is with that account, whatever they believed on the
\* way (IngestFile's PreviousAccountRefHash, Ingest's correction rule).  Until
\* a duplicate arrives late: a correction from A to B that was answered before,
\* arriving again after one back to A, takes the record to B for good.
AgreedAccountHeld ==
  \A a \in Accounts :
    /\ row # NoRow /\ late = 0
    /\ \A d \in Owners : local[d] # NoRow /\ local[d].acct = a /\ pos[d] = Len(sent[d])
    => row.acct = a
=============================================================================
