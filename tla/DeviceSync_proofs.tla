-------------------------- MODULE DeviceSync_proofs --------------------------
(***************************************************************************)
(* Proofs about DeviceSync for every set of files, responses, accounts,    *)
(* identity checks and uploads, and every bound.                           *)
(***************************************************************************)
EXTENDS DeviceSync, FiniteSetTheorems, TLAPS

(***************************************************************************)
(* What typing needs to be inductive: files only grow, so a file that is   *)
(* to be read shows an output; the tables stay finite; an open transaction *)
(* goes through events only.                                               *)
(***************************************************************************)
Shape ==
  /\ IsFiniteSet(timeline)
  /\ IsFiniteSet(outbox)
  /\ \A f \in Files : seen[f] <= log[f] /\ scan.stat[f] <= log[f]
  /\ \A f \in scan.todo : log[f] > 0
  /\ \A i \in tx.todo : IsEvent(i)

Typed == TypeOK /\ Shape

\* A timeline resolves usage to an account or to none.
LEMMA ResolveAtType ==
  ASSUME NEW view \in SUBSET Observation, NEW t
  PROVE  ResolveAt(view, t) \in Refs
BY DEF ResolveAt, Observation, Refs

\* The next outbox ids of a resync are natural numbers.
LEMMA RequeuedType ==
  ASSUME Typed
  PROVE  /\ Requeued \subseteq Item
         /\ IsFiniteSet(Requeued)
         /\ Cardinality({o \in timeline : o.ref # NoRef}) \in Nat
<1> DEFINE pooled == {o \in timeline : o.ref # NoRef}
           rank(o) == Cardinality({p \in pooled : p.at < o.at})
<1>1. IsFiniteSet(pooled) /\ Cardinality(pooled) \in Nat
  BY FS_Subset, FS_CardinalityType DEF Typed, Shape
<1>2. \A o \in pooled : rank(o) \in Nat
  BY <1>1, FS_Subset, FS_CardinalityType
<1> DEFINE queued == [o \in pooled |-> [id |-> nextId + rank(o), payload |-> o]]
<1>3. IsFiniteSet(Requeued)
  <2>1. Requeued = {queued[o] : o \in pooled}
    BY DEF Requeued
  <2>2. queued \in Surjection(pooled, Requeued)
    BY <2>1 DEF Surjection
  <2> QED
    BY <1>1, <2>2, FS_Surjection
<1>4. Requeued \subseteq Item
  <2> SUFFICES ASSUME NEW o \in pooled PROVE [id |-> nextId + rank(o), payload |-> o] \in Item
    BY DEF Requeued
  <2>1. rank(o) \in Nat /\ nextId \in Nat /\ o \in Observation
    BY <1>2 DEF Typed, TypeOK
  <2> HIDE DEF rank
  <2> QED
    BY <2>1 DEF Item
<1> QED
  BY <1>1, <1>3, <1>4

LEMMA InitTyped == Init => Typed
<1> SUFFICES ASSUME Init PROVE Typed
  OBVIOUS
<1>1. IsFiniteSet({})
  BY FS_EmptySet
<1>2. TypeOK
  <2>1. NoScan \in [pc : {"idle", "reset", "reading"}, todo : SUBSET Files,
                   stat : [Files -> 0..MaxOut], view : SUBSET Observation]
    BY ConstantsAssumption DEF NoScan
  <2>2. NoTx \in [by : Uploaders \cup {Orphan, Nobody}, batch : SUBSET Item, todo : SUBSET Item,
                 rows : [Keys -> Row \cup {NoRow}], obs : SUBSET Observation]
    BY DEF NoTx
  <2>3. Idle \in [pc : {"idle", "sent", "working", "answered"}, batch : SUBSET Item]
    BY DEF Idle
  <2>4. 0 \in 0..MaxOut /\ 0 \in Times
    BY ConstantsAssumption DEF Times
  <2> QED
    BY <2>1, <2>2, <2>3, <2>4 DEF Init, TypeOK
<1>3. Shape
  BY <1>1 DEF Init, Shape, NoScan, NoTx
<1> QED
  BY <1>2, <1>3 DEF Typed

LEMMA NextTyped == Typed /\ [Next]_vars => Typed'
<1> SUFFICES ASSUME Typed, [Next]_vars PROVE Typed'
  OBVIOUS
<1> USE ConstantsAssumption
<1>1. CASE Tick
  BY <1>1 DEF Typed, TypeOK, Shape, Tick, wireVars, serverVars, Times, IsEvent
<1>2. ASSUME NEW f \in Files, LogGrows(f) PROVE Typed'
  BY <1>2 DEF Typed, TypeOK, Shape, LogGrows, wireVars, serverVars, IsEvent
<1>3. ASSUME NEW c \in Observers, ObserveAnswer(c) PROVE Typed'
  BY <1>3 DEF Typed, TypeOK, Shape, ObserveAnswer, store, wireVars, serverVars, IsEvent, Observation
<1>4. ASSUME NEW c \in Observers, ObserveStore(c) PROVE Typed'
  <2> DEFINE o == checking[c]
  <2>1. o \in Observation
    BY <1>4 DEF Typed, TypeOK, ObserveStore
  <2>2. timeline' \subseteq Observation /\ IsFiniteSet(timeline')
    <3>1. timeline' = timeline \/ timeline' = timeline \cup {o}
      BY <1>4 DEF ObserveStore
    <3>2. IsFiniteSet(timeline \cup {o})
      BY FS_AddElement DEF Typed, Shape
    <3> QED
      BY <2>1, <3>1, <3>2 DEF Typed, TypeOK, Shape
  <2>3. outbox' \subseteq Item /\ IsFiniteSet(outbox') /\ nextId' \in Nat
    <3>1. \/ outbox' = outbox /\ nextId' = nextId
          \/ outbox' = outbox \cup {[id |-> nextId, payload |-> o]} /\ nextId' = nextId + 1
      BY <1>4 DEF ObserveStore
    <3>2. [id |-> nextId, payload |-> o] \in Item
      BY <2>1 DEF Item, Typed, TypeOK
    <3>3. IsFiniteSet(outbox \cup {[id |-> nextId, payload |-> o]})
      BY FS_AddElement DEF Typed, Shape
    <3>4. nextId \in Nat /\ outbox \subseteq Item /\ IsFiniteSet(outbox)
      BY DEF Typed, TypeOK, Shape
    <3> HIDE DEF o
    <3> QED
      BY <3>1, <3>2, <3>3, <3>4
  <2>4. checking' \in [Observers -> Observation \cup {NoObs}]
    BY <1>4 DEF Typed, TypeOK, ObserveStore
  <2> QED
    BY <1>4, <2>2, <2>3, <2>4
    DEF Typed, TypeOK, Shape, ObserveStore, wireVars, serverVars, IsEvent
<1>5. ASSUME NEW c \in Observers, ObserveFail(c) PROVE Typed'
  BY <1>5 DEF Typed, TypeOK, Shape, ObserveFail, store, wireVars, serverVars, IsEvent
<1>6. CASE ScanStart
  BY <1>6 DEF Typed, TypeOK, Shape, ScanStart, ToRead, store, wireVars, serverVars, IsEvent
<1>7. CASE ScanReload
  BY <1>7 DEF Typed, TypeOK, Shape, ScanReload, store, wireVars, serverVars, IsEvent
<1>8. ASSUME NEW f \in Files, IngestFile(f) PROVE Typed'
  <2> DEFINE k == KeyOf[f]
             acct == ResolveAt(scan.view, BornAt[k])
             cur == local[k]
             e == [acct |-> acct, out |-> log[f], sess |-> SessOf[f]]
             p == [key |-> k, acct |-> acct, out |-> log[f], sess |-> SessOf[f],
                   prev |-> PreviousAccount(e, cur)]
  <2>1. /\ k \in Keys /\ SessOf[f] \in Sessions /\ acct \in Refs /\ log[f] \in Outs
        /\ cur \in Row \cup {NoRow} /\ f \in scan.todo
    <3>1. scan.view \in SUBSET Observation /\ f \in scan.todo
      BY <1>8 DEF Typed, TypeOK, IngestFile
    <3>2. acct \in Refs
      BY <3>1, ResolveAtType
    <3> HIDE DEF acct
    <3> QED
      BY <3>1, <3>2 DEF Typed, TypeOK, Shape, Outs
  <2>2. /\ scan' = [scan EXCEPT !.todo = @ \ {f}]
        /\ seen' = [seen EXCEPT ![f] = scan.stat[f]]
        /\ UNCHANGED <<now, timeline, checking, log, reviewed, resets, wireVars, serverVars>>
    BY <1>8 DEF IngestFile
  <2>3. /\ local' \in [Keys -> Row \cup {NoRow}]
        /\ outbox' \subseteq Item /\ IsFiniteSet(outbox') /\ nextId' \in Nat
    <3>1. CASE UNCHANGED <<local, outbox, nextId>>
      BY <3>1 DEF Typed, TypeOK, Shape
    <3>2. CASE /\ acct # NoRef
               /\ local' = [local EXCEPT ![k] = Merged(e, cur)]
               /\ outbox' = outbox \cup {[id |-> nextId, payload |-> p]}
               /\ nextId' = nextId + 1
      <4>1. acct \in Accounts
        BY <2>1, <3>2 DEF Refs
      <4> HIDE DEF acct
      <4>2. Merged(e, cur) \in Row
        BY <2>1, <4>1 DEF Merged, Row, Outs, Larger
      <4>3. PreviousAccount(e, cur) \in Refs
        BY <2>1 DEF PreviousAccount, Row, Refs
      <4>4. [id |-> nextId, payload |-> p] \in Item
        BY <2>1, <4>1, <4>3 DEF Item, EventBody, Typed, TypeOK
      <4> HIDE DEF p, e, cur, k
      <4>5. local' \in [Keys -> Row \cup {NoRow}]
        BY <3>2, <4>2 DEF Typed, TypeOK
      <4>6. IsFiniteSet(outbox \cup {[id |-> nextId, payload |-> p]})
        BY FS_AddElement DEF Typed, Shape
      <4> QED
        BY <3>2, <4>4, <4>5, <4>6 DEF Typed, TypeOK, Shape
    <3> HIDE DEF e, acct, cur
    <3> QED
      BY <1>8, <3>1, <3>2 DEF IngestFile, e, acct, cur
  <2> QED
    BY <2>2, <2>3 DEF Typed, TypeOK, Shape, wireVars, serverVars, IsEvent
<1>9. CASE ScanNothing \/ ScanDone \/ ScanStop
  <2>1. /\ scan' = NoScan /\ reviewed' \in BOOLEAN
        /\ UNCHANGED <<now, checking, log, timeline, seen, local, outbox, nextId, resets, wireVars,
                       serverVars>>
    BY <1>9 DEF ScanNothing, ScanDone, ScanStop, store, Typed, TypeOK
  <2> QED
    BY <2>1 DEF Typed, TypeOK, Shape, NoScan, wireVars, serverVars, IsEvent
<1>10. CASE ResetLedger
  <2>1. /\ Requeued \subseteq Item
        /\ IsFiniteSet(Requeued)
        /\ Cardinality({o \in timeline : o.ref # NoRef}) \in Nat
    BY RequeuedType
  <2>2. nextId' \in Nat /\ outbox' \subseteq Item /\ IsFiniteSet(outbox')
    BY <1>10, <2>1 DEF ResetLedger, Typed, TypeOK
  <2> QED
    BY <1>10, <2>2 DEF Typed, TypeOK, Shape, ResetLedger, NoScan, wireVars, serverVars, IsEvent
<1>11. ASSUME NEW u \in Uploaders, UploadRead(u) PROVE Typed'
  BY <1>11 DEF Typed, TypeOK, Shape, UploadRead, PendingOutbox, deviceVars, serverVars, IsEvent
<1>12. ASSUME NEW u \in Uploaders, DeleteOutboxThrough(u) PROVE Typed'
  BY <1>12, FS_Subset DEF Typed, TypeOK, Shape, DeleteOutboxThrough, Idle, serverVars, IsEvent
<1>13. ASSUME NEW u \in Uploaders, UploadFail(u) PROVE Typed'
  <2>1. /\ up' = [up EXCEPT ![u] = Idle]
        /\ UNCHANGED <<deviceVars, row, srvObs>>
        /\ tx' = tx \/ tx' = [tx EXCEPT !.by = Orphan]
        /\ \/ UNCHANGED <<orphans, gaveUp>>
           \/ orphans' = orphans \cup {up[u].batch} /\ gaveUp' = gaveUp + 1
    BY <1>13 DEF UploadFail
  <2>2. up' \in [Uploaders -> [pc : {"idle", "sent", "working", "answered"}, batch : SUBSET Item]]
    BY <2>1 DEF Typed, TypeOK, Idle
  <2>3. orphans' \subseteq SUBSET Item /\ gaveUp' \in Nat
    BY <2>1 DEF Typed, TypeOK
  <2> QED
    BY <2>1, <2>2, <2>3 DEF Typed, TypeOK, Shape, deviceVars, IsEvent
<1>14. CASE Crash
  <2>1. /\ tx'.by \in Uploaders \cup {Orphan, Nobody}
        /\ tx' = [tx EXCEPT !.by = tx'.by]
    BY <1>14 DEF Crash, Typed, TypeOK
  <2>2. tx' \in [by : Uploaders \cup {Orphan, Nobody}, batch : SUBSET Item, todo : SUBSET Item,
                 rows : [Keys -> Row \cup {NoRow}], obs : SUBSET Observation]
        /\ \A i \in tx'.todo : IsEvent(i)
    BY <2>1 DEF Typed, TypeOK, Shape, IsEvent
  <2> QED
    BY <1>14, <2>2 DEF Typed, TypeOK, Shape, Crash, Idle, NoScan, store, IsEvent
<1>15. ASSUME NEW u \in Uploaders, TxBegin(u) PROVE Typed'
  BY <1>15 DEF Typed, TypeOK, Shape, TxBegin, TxOpen, deviceVars, IsEvent, Item
<1>16. ASSUME NEW b \in orphans, TxBeginOrphan(b) PROVE Typed'
  BY <1>16 DEF Typed, TypeOK, Shape, TxBeginOrphan, TxOpen, deviceVars, IsEvent, Item
<1>17. ASSUME NEW i \in tx.todo, TxIngest(i) PROVE Typed'
  <2> DEFINE e == i.payload
             held == tx.rows[e.key]
  <2>1. e \in EventBody /\ e.key \in Keys /\ held \in Row \cup {NoRow}
    BY <1>17 DEF Typed, TypeOK, Shape, IsEvent, EventBody
  <2>2. Ingested(e, held) \in Row
    BY <2>1 DEF Ingested, Row, EventBody, Larger
  <2>3. tx' = [tx EXCEPT !.todo = @ \ {i}, !.rows = [@ EXCEPT ![e.key] = Ingested(e, held)]]
    BY <1>17 DEF TxIngest
  <2> HIDE DEF held, e
  <2>4. tx'.rows \in [Keys -> Row \cup {NoRow}]
    BY <2>1, <2>2, <2>3 DEF Typed, TypeOK
  <2>5. /\ tx' \in [by : Uploaders \cup {Orphan, Nobody}, batch : SUBSET Item, todo : SUBSET Item,
                    rows : [Keys -> Row \cup {NoRow}], obs : SUBSET Observation]
        /\ tx'.todo \subseteq tx.todo
    BY <2>3, <2>4 DEF Typed, TypeOK
  <2>6. UNCHANGED <<row, srvObs, deviceVars, wireVars>>
    BY <1>17 DEF TxIngest
  <2> QED
    BY <2>5, <2>6 DEF Typed, TypeOK, Shape, deviceVars, wireVars, IsEvent
<1>18. CASE TxCommit
  BY <1>18 DEF Typed, TypeOK, Shape, TxCommit, NoTx, deviceVars, IsEvent
<1>19. CASE TxAbort
  BY <1>19 DEF Typed, TypeOK, Shape, TxAbort, NoTx, Idle, deviceVars, IsEvent
<1>20. CASE UNCHANGED vars
  BY <1>20 DEF Typed, TypeOK, Shape, vars, deviceVars, wireVars, serverVars, IsEvent
<1> QED
  BY <1>1, <1>2, <1>3, <1>4, <1>5, <1>6, <1>7, <1>8, <1>9, <1>10, <1>11, <1>12, <1>13,
     <1>14, <1>15, <1>16, <1>17, <1>18, <1>19, <1>20 DEF Next

\* Every reachable state is well typed.
THEOREM TypeCorrect == Spec => []TypeOK
<1>1. Typed => TypeOK
  BY DEF Typed
<1> QED
  BY <1>1, InitTyped, NextTyped, PTL DEF Spec

-----------------------------------------------------------------------------
(***************************************************************************)
(* Nothing queued is lost.  Deleting through the last id of an accepted    *)
(* batch is safe because a batch is a prefix of the outbox as long as it   *)
(* is under way: ids are never handed out twice, a resync's included.      *)
(***************************************************************************)
Received(i, rows, obs) ==
  IF IsEvent(i) THEN rows[i.payload.key] # NoRow ELSE i.payload \in obs

\* Ids still to come are larger than every id in use.
FreshIds ==
  /\ \A i \in outbox : i.id < nextId
  /\ \A u \in Uploaders : \A i \in up[u].batch : i.id < nextId

\* The outbox holds nothing older than a batch's last item but its own items.
BatchesArePrefixes ==
  \A u \in Uploaders : \A j \in up[u].batch : \A i \in outbox : i.id <= j.id => i \in up[u].batch

\* An upload waits on the transaction that works on its batch.
TxOwner ==
  /\ \A u \in Uploaders : tx.by = u => up[u].pc = "working" /\ tx.batch = up[u].batch
  /\ \A u \in Uploaders : up[u].pc = "working" => tx.by = u

\* What an open transaction will leave behind.
TxHolds ==
  tx.by # Nobody =>
    /\ \A k \in Keys : row[k] # NoRow => tx.rows[k] # NoRow
    /\ srvObs \subseteq tx.obs
    /\ \A i \in tx.batch : i \in tx.todo \/ Received(i, tx.rows, tx.obs)

\* The server answers only for what it stored.
AnswersAreTrue ==
  \A u \in Uploaders : up[u].pc = "answered" => \A i \in up[u].batch : Received(i, row, srvObs)

Safe ==
  /\ FreshIds
  /\ BatchesArePrefixes
  /\ TxOwner
  /\ TxHolds
  /\ AnswersAreTrue
  /\ EventsKept
  /\ ObservationsKept

Kept == Typed /\ Safe

\* An observation is no event.
LEMMA PayloadsDiffer ==
  ASSUME NEW o \in Observation
  PROVE  o \notin EventBody
<1> SUFFICES ASSUME o \in EventBody PROVE FALSE
  OBVIOUS
<1>1. DOMAIN o = {"at", "ref"}
  BY DEF Observation
<1>2. DOMAIN o = {"key", "acct", "out", "sess", "prev"}
  BY DEF EventBody
<1> QED
  BY <1>1, <1>2

\* A batch holds every item of the outbox that is not newer than one of its own.
LEMMA PendingIsPrefix ==
  ASSUME Typed, NEW j \in PendingOutbox, NEW i \in outbox, i.id <= j.id
  PROVE  i \in PendingOutbox
<1> DEFINE below(x) == {y \in outbox : y.id < x.id}
<1>1. IsFiniteSet(below(j)) /\ below(i) \in SUBSET below(j)
  <2>1. IsFiniteSet(below(j))
    BY FS_Subset DEF Typed, Shape
  <2>2. ASSUME NEW y \in below(i) PROVE y \in below(j)
    BY <2>2 DEF PendingOutbox, Typed, TypeOK, Item
  <2> QED
    BY <2>1, <2>2
<1>2. /\ Cardinality(below(i)) <= Cardinality(below(j))
      /\ Cardinality(below(i)) \in Nat /\ Cardinality(below(j)) \in Nat
  BY <1>1, FS_Subset, FS_CardinalityType
<1>3. Cardinality(below(j)) < BatchSize
  BY DEF PendingOutbox
<1>4. Cardinality(below(i)) < BatchSize
  <2> HIDE DEF below
  <2> QED
    BY <1>2, <1>3, ConstantsAssumption
<1> QED
  BY <1>4 DEF PendingOutbox

\* A resync's items are new, and every pooled observation is among them.
LEMMA RequeuedIsFresh ==
  ASSUME Typed
  PROVE  /\ \A i \in Requeued : nextId <= i.id
         /\ \A i \in Requeued : i.id < nextId + Cardinality({o \in timeline : o.ref # NoRef})
         /\ \A o \in timeline : o.ref # NoRef => \E i \in Requeued : i.payload = o
<1> DEFINE pooled == {o \in timeline : o.ref # NoRef}
           earlier(o) == {p \in pooled : p.at < o.at}
<1>1. IsFiniteSet(pooled) /\ Cardinality(pooled) \in Nat
  BY FS_Subset, FS_CardinalityType DEF Typed, Shape
<1>2. ASSUME NEW o \in pooled
      PROVE  Cardinality(earlier(o)) \in Nat /\ Cardinality(earlier(o)) < Cardinality(pooled)
  <2>1. IsFiniteSet(earlier(o)) /\ Cardinality(earlier(o)) \in Nat
        /\ Cardinality(earlier(o)) <= Cardinality(pooled)
        /\ (Cardinality(pooled) = Cardinality(earlier(o)) => pooled = earlier(o))
    BY <1>1, FS_Subset, FS_CardinalityType
  <2>2. o \notin earlier(o)
    BY DEF Typed, TypeOK, Observation, Times
  <2>3. earlier(o) # pooled
    BY <2>2
  <2> HIDE DEF earlier, pooled
  <2> QED
    BY <1>1, <2>1, <2>3
<1>3. Requeued = {[id |-> nextId + Cardinality(earlier(o)), payload |-> o] : o \in pooled}
  BY DEF Requeued
<1>4. nextId \in Nat
  BY DEF Typed, TypeOK
<1> HIDE DEF earlier
<1>5. ASSUME NEW i \in Requeued
      PROVE  nextId <= i.id /\ i.id < nextId + Cardinality(pooled)
  <2>1. PICK o \in pooled : i = [id |-> nextId + Cardinality(earlier(o)), payload |-> o]
    BY <1>3
  <2>2. i.id = nextId + Cardinality(earlier(o))
    BY <2>1
  <2> HIDE DEF pooled
  <2> QED
    BY <1>1, <1>2, <1>4, <2>2
<1>6. ASSUME NEW o \in pooled PROVE \E i \in Requeued : i.payload = o
  <2> DEFINE i == [id |-> nextId + Cardinality(earlier(o)), payload |-> o]
  <2>1. i \in Requeued /\ i.payload = o
    BY <1>3
  <2> QED
    BY <2>1
<1> QED
  BY <1>5, <1>6

LEMMA InitSafe == Init => Safe
BY ConstantsAssumption
   DEF Init, Safe, FreshIds, BatchesArePrefixes, TxOwner, TxHolds, AnswersAreTrue,
       EventsKept, ObservationsKept, NoTx, Idle

\* Appending to the outbox, under the next id, disturbs no batch.
LEMMA QueueGrowsSafe ==
  ASSUME Typed, Safe, NEW i, i.id = nextId, UNCHANGED <<wireVars, serverVars>>,
         \/ UNCHANGED <<outbox, nextId>>
         \/ outbox' = outbox \cup {i} /\ nextId' = nextId + 1
  PROVE  FreshIds' /\ BatchesArePrefixes' /\ TxOwner' /\ TxHolds' /\ AnswersAreTrue'
<1>1. UNCHANGED <<up, orphans, gaveUp, tx, row, srvObs>>
  BY DEF wireVars, serverVars
<1>2. nextId \in Nat /\ (\A j \in outbox : j.id \in Nat)
      /\ (\A u \in Uploaders : \A j \in up[u].batch : j.id \in Nat)
  BY DEF Typed, TypeOK, Item
<1>3. FreshIds'
  BY <1>1, <1>2 DEF Safe, FreshIds
<1>4. BatchesArePrefixes'
  BY <1>1, <1>2 DEF Safe, FreshIds, BatchesArePrefixes
<1>5. TxOwner' /\ TxHolds' /\ AnswersAreTrue'
  BY <1>1 DEF Safe, TxOwner, TxHolds, AnswersAreTrue, Received, IsEvent
<1> QED
  BY <1>3, <1>4, <1>5

\* A transaction starts out with what the server holds and its batch's
\* observations; its events are all still to do.
LEMMA TxOpenHolds ==
  ASSUME NEW by, NEW batch, TxOpen(by, batch)
  PROVE  TxHolds'
<1>1. /\ tx'.batch = batch /\ tx'.todo = {i \in batch : IsEvent(i)}
      /\ tx'.rows = row /\ UNCHANGED <<row, srvObs>>
      /\ tx'.obs = srvObs \cup {i.payload : i \in {j \in batch : ~IsEvent(j)}}
  BY DEF TxOpen
<1> QED
  BY <1>1 DEF TxHolds, Received, IsEvent

LEMMA NextSafe == Kept /\ [Next]_vars => Safe'
<1> SUFFICES ASSUME Kept, [Next]_vars PROVE Safe'
  OBVIOUS
<1> USE ConstantsAssumption
<1>0. Typed /\ Typed' /\ Safe
  BY NextTyped DEF Kept
<1>1. CASE UNCHANGED <<timeline, local, outbox, nextId, wireVars, serverVars>>
  BY <1>0, <1>1 DEF Safe, FreshIds, BatchesArePrefixes, TxOwner, TxHolds, AnswersAreTrue,
     EventsKept, ObservationsKept, Received, Pending, IsEvent, wireVars, serverVars
<1>2. ASSUME NEW c \in Observers, ObserveStore(c) PROVE Safe'
  <2> DEFINE o == checking[c]
             i == [id |-> nextId, payload |-> o]
  <2>1. UNCHANGED <<local, wireVars, serverVars>>
    BY <1>2 DEF ObserveStore
  <2>2. \/ UNCHANGED <<outbox, nextId>>
        \/ outbox' = outbox \cup {i} /\ nextId' = nextId + 1
    BY <1>2 DEF ObserveStore
  <2>3. \A p \in timeline' : p \in timeline \/ p.ref = NoRef \/ (p = i.payload /\ i \in outbox')
    BY <1>2 DEF ObserveStore
  <2>4. i.id = nextId /\ outbox \subseteq outbox'
    BY <2>2
  <2> HIDE DEF i
  <2>5. FreshIds' /\ BatchesArePrefixes' /\ TxOwner' /\ TxHolds' /\ AnswersAreTrue'
    BY <1>0, <2>1, <2>2, <2>4, QueueGrowsSafe
  <2>6. EventsKept'
    BY <1>0, <2>1, <2>4 DEF Safe, EventsKept, Pending, IsEvent, serverVars
  <2>7. ObservationsKept'
    BY <1>0, <2>1, <2>3, <2>4 DEF Safe, ObservationsKept, serverVars
  <2> QED
    BY <2>5, <2>6, <2>7 DEF Safe
<1>3. ASSUME NEW f \in Files, IngestFile(f) PROVE Safe'
  <2> DEFINE k == KeyOf[f]
             e == [acct |-> ResolveAt(scan.view, BornAt[k]), out |-> log[f], sess |-> SessOf[f]]
             i == [id |-> nextId,
                   payload |-> [key |-> k, acct |-> e.acct, out |-> log[f], sess |-> SessOf[f],
                                prev |-> PreviousAccount(e, local[k])]]
  <2>1. UNCHANGED <<timeline, wireVars, serverVars>>
    BY <1>3 DEF IngestFile
  <2>2. \/ UNCHANGED <<local, outbox, nextId>>
        \/ /\ local' = [local EXCEPT ![k] = Merged(e, local[k])]
           /\ outbox' = outbox \cup {i}
           /\ nextId' = nextId + 1
    BY <1>3 DEF IngestFile
  <2>3. i.id = nextId /\ i.payload.key = k
    OBVIOUS
  <2> HIDE DEF i, e
  <2>4. FreshIds' /\ BatchesArePrefixes' /\ TxOwner' /\ TxHolds' /\ AnswersAreTrue'
    BY <1>0, <2>1, <2>2, <2>3, QueueGrowsSafe
  <2>5. outbox \subseteq outbox'
    BY <2>2
  <2>6. ObservationsKept'
    BY <1>0, <2>1, <2>5 DEF Safe, ObservationsKept, serverVars
  <2>7. EventsKept'
    <3>1. CASE UNCHANGED <<local, outbox, nextId>>
      BY <1>0, <2>1, <3>1 DEF Safe, EventsKept, Pending, IsEvent, serverVars
    <3>2. CASE /\ local' = [local EXCEPT ![k] = Merged(e, local[k])]
               /\ outbox' = outbox \cup {i}
      <4>1. i \in outbox' /\ IsEvent(i)
        <5>1. i \in Item
          BY <1>0, <3>2 DEF Typed, TypeOK
        <5>2. i.payload \notin Observation
          <6>1. DOMAIN i.payload = {"key", "acct", "out", "sess", "prev"}
            BY DEF i
          <6>2. ASSUME NEW o \in Observation PROVE DOMAIN o = {"at", "ref"}
            BY DEF Observation
          <6> QED
            BY <6>1, <6>2
        <5> QED
          BY <3>2, <5>1, <5>2 DEF Item, IsEvent
      <4> QED
        BY <1>0, <2>1, <2>3, <2>5, <3>2, <4>1 DEF Safe, EventsKept, Pending, IsEvent, serverVars, Typed, TypeOK
    <3> QED
      BY <2>2, <3>1, <3>2
  <2> QED
    BY <2>4, <2>6, <2>7 DEF Safe
<1>4. CASE ResetLedger
  <2>1. UNCHANGED <<timeline, wireVars, serverVars>>
    BY <1>4 DEF ResetLedger
  <2>2. \A k \in Keys : local'[k] = NoRow
    BY <1>4 DEF ResetLedger
  <2>3. /\ outbox' = Requeued
        /\ nextId' = nextId + Cardinality({o \in timeline : o.ref # NoRef})
    BY <1>4 DEF ResetLedger
  <2>4. /\ nextId \in Nat /\ nextId' \in Nat /\ nextId <= nextId'
        /\ \A i \in outbox' : i.id \in Nat /\ nextId <= i.id /\ i.id < nextId'
        /\ \A o \in timeline : o.ref # NoRef => \E i \in outbox' : i.payload = o
    <3>1. Cardinality({o \in timeline : o.ref # NoRef}) \in Nat /\ nextId \in Nat
      BY <1>0, RequeuedType DEF Typed, TypeOK
    <3>2. \A i \in Requeued : i.id \in Nat
      BY <1>0, RequeuedType DEF Item
    <3> QED
      BY <1>0, <2>3, <3>1, <3>2, RequeuedIsFresh
  <2>5. \A u \in Uploaders : \A j \in up[u].batch : j.id \in Nat /\ j.id < nextId
    BY <1>0 DEF Typed, TypeOK, Item, Safe, FreshIds
  <2>6. FreshIds' /\ BatchesArePrefixes'
    BY <2>1, <2>4, <2>5 DEF FreshIds, BatchesArePrefixes, wireVars
  <2>7. TxOwner' /\ TxHolds' /\ AnswersAreTrue'
    BY <1>0, <2>1 DEF Safe, TxOwner, TxHolds, AnswersAreTrue, Received, IsEvent, wireVars, serverVars
  <2>8. EventsKept' /\ ObservationsKept'
    BY <2>1, <2>2, <2>4 DEF EventsKept, ObservationsKept
  <2> QED
    BY <2>6, <2>7, <2>8 DEF Safe
<1>5. ASSUME NEW u \in Uploaders, UploadRead(u) PROVE Safe'
  <2>1. UNCHANGED <<timeline, local, outbox, nextId, orphans, gaveUp, serverVars>>
    BY <1>5 DEF UploadRead, deviceVars
  <2>2. up[u].pc = "idle" /\ up' = [up EXCEPT ![u] = [pc |-> "sent", batch |-> PendingOutbox]]
    BY <1>5 DEF UploadRead
  <2>3. up'[u].pc = "sent" /\ up'[u].batch = PendingOutbox
        /\ \A v \in Uploaders : v # u => up'[v] = up[v]
    BY <1>0, <2>2 DEF Typed, TypeOK
  <2>4. FreshIds'
    BY <1>0, <2>1, <2>3 DEF Safe, FreshIds, PendingOutbox
  <2>5. BatchesArePrefixes'
    BY <1>0, <2>1, <2>3, PendingIsPrefix DEF Safe, BatchesArePrefixes
  <2>6. TxOwner' /\ TxHolds' /\ AnswersAreTrue'
    BY <1>0, <2>1, <2>2, <2>3 DEF Safe, TxOwner, TxHolds, AnswersAreTrue, Received, IsEvent, serverVars
  <2>7. EventsKept' /\ ObservationsKept'
    BY <1>0, <2>1 DEF Safe, EventsKept, ObservationsKept, Pending, IsEvent, serverVars
  <2> QED
    BY <2>4, <2>5, <2>6, <2>7 DEF Safe
<1>6. ASSUME NEW u \in Uploaders, DeleteOutboxThrough(u) PROVE Safe'
  <2>1. /\ UNCHANGED <<timeline, local, nextId, tx, row, srvObs>>
        /\ up[u].pc = "answered"
        /\ outbox' = {i \in outbox : ~\E j \in up[u].batch : i.id <= j.id}
        /\ up' = [up EXCEPT ![u] = Idle]
    BY <1>6 DEF DeleteOutboxThrough, serverVars
  <2>2. up'[u] = Idle /\ \A v \in Uploaders : v # u => up'[v] = up[v]
    BY <1>0, <2>1 DEF Typed, TypeOK
  \* What is deleted was in the batch, so the server has it.
  <2>3. \A i \in outbox : i \in outbox' \/ Received(i, row, srvObs)
    BY <1>0, <2>1 DEF Safe, BatchesArePrefixes, AnswersAreTrue
  <2>4. FreshIds' /\ BatchesArePrefixes'
    BY <1>0, <2>1, <2>2 DEF Safe, FreshIds, BatchesArePrefixes, Idle
  <2>5. TxOwner' /\ TxHolds' /\ AnswersAreTrue'
    BY <1>0, <2>1, <2>2 DEF Safe, TxOwner, TxHolds, AnswersAreTrue, Received, IsEvent, Idle
  <2>6. EventsKept'
    BY <1>0, <2>1, <2>3 DEF Safe, EventsKept, Pending, Received, IsEvent
  <2>7. ObservationsKept'
    <3> SUFFICES ASSUME NEW o \in timeline, o.ref # NoRef, o \notin srvObs
                 PROVE  \E i \in outbox' : i.payload = o
      BY <2>1 DEF ObservationsKept
    <3>1. PICK i \in outbox : i.payload = o
      BY <1>0 DEF Safe, ObservationsKept
    <3>2. ~IsEvent(i)
      BY <1>0, <3>1, PayloadsDiffer DEF IsEvent, Typed, TypeOK
    <3> QED
      BY <2>3, <3>1, <3>2 DEF Received
  <2> QED
    BY <2>4, <2>5, <2>6, <2>7 DEF Safe
<1>7. ASSUME NEW u \in Uploaders, UploadFail(u) PROVE Safe'
  <2>1. /\ UNCHANGED <<timeline, local, outbox, nextId, row, srvObs>>
        /\ up' = [up EXCEPT ![u] = Idle]
        /\ \/ up[u].pc # "working" /\ UNCHANGED tx
           \/ up[u].pc = "working" /\ tx' = [tx EXCEPT !.by = Orphan]
    BY <1>7 DEF UploadFail, deviceVars
  <2>2. up'[u] = Idle /\ \A v \in Uploaders : v # u => up'[v] = up[v]
    BY <1>0, <2>1 DEF Typed, TypeOK
  <2>3. /\ tx'.batch = tx.batch /\ tx'.todo = tx.todo /\ tx'.rows = tx.rows /\ tx'.obs = tx.obs
        /\ tx'.by = tx.by \/ (up[u].pc = "working" /\ tx'.by = Orphan)
        /\ up[u].pc = "working" => tx.by = u /\ tx'.by = Orphan
    BY <1>0, <2>1 DEF Typed, TypeOK, Safe, TxOwner
  <2>4. TxOwner' /\ TxHolds'
    BY <1>0, <2>1, <2>2, <2>3 DEF Safe, TxOwner, TxHolds, Received, IsEvent, Idle
  <2> QED
    BY <1>0, <2>1, <2>2, <2>4 DEF Safe, FreshIds, BatchesArePrefixes, AnswersAreTrue,
       EventsKept, ObservationsKept, Received, Pending, IsEvent, Idle
<1>8. CASE Crash
  <2>1. /\ UNCHANGED <<timeline, local, outbox, nextId, row, srvObs>>
        /\ \A u \in Uploaders : up'[u] = Idle
    BY <1>8 DEF Crash, store
  <2>2. /\ tx'.batch = tx.batch /\ tx'.todo = tx.todo /\ tx'.rows = tx.rows /\ tx'.obs = tx.obs
        /\ tx'.by \notin Uploaders
        /\ tx.by = Nobody => tx'.by = Nobody
    BY <1>0, <1>8 DEF Crash, Typed, TypeOK
  <2> QED
    BY <1>0, <2>1, <2>2 DEF Safe, FreshIds, BatchesArePrefixes, TxOwner, TxHolds, AnswersAreTrue,
       EventsKept, ObservationsKept, Received, Pending, IsEvent, Idle
<1>9. ASSUME NEW u \in Uploaders, TxBegin(u) PROVE Safe'
  <2>1. /\ UNCHANGED <<timeline, local, outbox, nextId, row, srvObs>>
        /\ up[u].pc = "sent" /\ TxOpen(u, up[u].batch)
        /\ up' = [up EXCEPT ![u].pc = "working"]
    BY <1>9 DEF TxBegin, TxOpen, deviceVars
  <2>2. /\ up'[u].pc = "working" /\ up'[u].batch = up[u].batch
        /\ \A v \in Uploaders : v # u => up'[v] = up[v]
    BY <1>0, <2>1 DEF Typed, TypeOK
  <2>3. tx.by = Nobody /\ tx'.by = u /\ tx'.batch = up[u].batch
    BY <2>1 DEF TxOpen
  <2>4. FreshIds' /\ BatchesArePrefixes'
    BY <1>0, <2>1, <2>2 DEF Safe, FreshIds, BatchesArePrefixes
  <2>5. TxOwner'
    BY <1>0, <2>2, <2>3 DEF Safe, TxOwner
  <2>6. TxHolds'
    BY <2>1, TxOpenHolds
  <2>7. AnswersAreTrue'
    BY <1>0, <2>1, <2>2 DEF Safe, AnswersAreTrue, Received, IsEvent
  <2>8. EventsKept' /\ ObservationsKept'
    BY <1>0, <2>1 DEF Safe, EventsKept, ObservationsKept, Pending, IsEvent
  <2> QED
    BY <2>4, <2>5, <2>6, <2>7, <2>8 DEF Safe
<1>10. ASSUME NEW b \in orphans, TxBeginOrphan(b) PROVE Safe'
  <2>1. UNCHANGED <<timeline, local, outbox, nextId, up, row, srvObs>> /\ TxOpen(Orphan, b)
    BY <1>10 DEF TxBeginOrphan, TxOpen, deviceVars
  <2>2. tx.by = Nobody /\ tx'.by = Orphan
    BY <2>1 DEF TxOpen
  <2>3. TxOwner'
    BY <1>0, <2>1, <2>2 DEF Safe, TxOwner
  <2>4. TxHolds'
    BY <2>1, TxOpenHolds
  <2> QED
    BY <1>0, <2>1, <2>3, <2>4 DEF Safe, FreshIds, BatchesArePrefixes, AnswersAreTrue,
       EventsKept, ObservationsKept, Received, Pending, IsEvent
<1>11. ASSUME NEW i \in tx.todo, TxIngest(i) PROVE Safe'
  <2> DEFINE k == i.payload.key
             new == Ingested(i.payload, tx.rows[k])
  <2>1. /\ UNCHANGED <<timeline, local, outbox, nextId, up, row, srvObs>>
        /\ tx.by # Nobody /\ i \in tx.todo
        /\ tx' = [tx EXCEPT !.todo = @ \ {i}, !.rows = [@ EXCEPT ![k] = new]]
    BY <1>11 DEF TxIngest, deviceVars, wireVars
  <2>2. k \in Keys /\ i.payload \in EventBody
    BY <1>0, <2>1 DEF Typed, Shape, IsEvent, EventBody
  <2>3. new # NoRow
    <3>1. [acct |-> i.payload.acct, out |-> i.payload.out, sess |-> i.payload.sess] \in Row
      BY <2>2 DEF Row, EventBody
    <3>2. tx.rows[k] # NoRow => new \in Row
      BY <1>0, <2>2 DEF Typed, TypeOK, Ingested, Row, EventBody, Larger
    <3> HIDE DEF k
    <3> QED
      BY <3>1, <3>2, MarkersAssumption DEF Ingested
  <2> HIDE DEF new
  <2>4. /\ tx'.by = tx.by /\ tx'.batch = tx.batch /\ tx'.obs = tx.obs
        /\ tx'.todo = tx.todo \ {i}
        /\ tx'.rows[k] # NoRow
        /\ \A l \in Keys : tx.rows[l] # NoRow => tx'.rows[l] # NoRow
    BY <1>0, <2>1, <2>2, <2>3 DEF Typed, TypeOK
  <2>5. TxHolds'
    <3>1. \A j \in tx.batch : Received(j, tx.rows, tx.obs) => Received(j, tx'.rows, tx'.obs)
      BY <2>4 DEF Received, IsEvent, EventBody
    <3>2. Received(i, tx'.rows, tx'.obs)
      BY <2>2, <2>4 DEF Received, IsEvent
    <3> HIDE DEF k
    <3> QED
      BY <1>0, <2>1, <2>4, <3>1, <3>2 DEF Safe, TxHolds, Received, IsEvent
  <2>6. TxOwner'
    BY <1>0, <2>1, <2>4 DEF Safe, TxOwner
  <2> QED
    BY <1>0, <2>1, <2>5, <2>6 DEF Safe, FreshIds, BatchesArePrefixes, AnswersAreTrue,
       EventsKept, ObservationsKept, Received, Pending, IsEvent
<1>12. CASE TxCommit
  <2>1. /\ UNCHANGED <<timeline, local, outbox, nextId>>
        /\ tx.by # Nobody /\ tx.todo = {} /\ row' = tx.rows /\ srvObs' = tx.obs /\ tx' = NoTx
        /\ up' = IF tx.by \in Uploaders THEN [up EXCEPT ![tx.by].pc = "answered"] ELSE up
    BY <1>12 DEF TxCommit, deviceVars
  <2>2. /\ \A k \in Keys : row[k] # NoRow => row'[k] # NoRow
        /\ srvObs \subseteq srvObs'
        /\ \A i \in tx.batch : Received(i, row', srvObs')
    BY <1>0, <2>1 DEF Safe, TxHolds
  <2>3. \A u \in Uploaders : up'[u].batch = up[u].batch
    BY <1>0, <2>1 DEF Typed, TypeOK
  <2>4. \A u \in Uploaders : \/ tx.by = u /\ up'[u].pc = "answered"
                             \/ tx.by # u /\ up'[u].pc = up[u].pc
    BY <1>0, <2>1 DEF Typed, TypeOK
  <2>5. FreshIds' /\ BatchesArePrefixes'
    BY <1>0, <2>1, <2>3 DEF Safe, FreshIds, BatchesArePrefixes
  <2>6. TxOwner' /\ TxHolds'
    BY <1>0, <2>1, <2>4 DEF Safe, TxOwner, TxHolds, NoTx
  <2>7. AnswersAreTrue'
    <3>1. \A i : Received(i, row, srvObs) /\ (IsEvent(i) => i.payload.key \in Keys)
                  => Received(i, row', srvObs')
      BY <2>2 DEF Received
    <3>2. \A i : IsEvent(i) => i.payload.key \in Keys
      BY DEF IsEvent, EventBody
    <3>3. ASSUME NEW u \in Uploaders, up'[u].pc = "answered", NEW i \in up[u].batch
          PROVE  Received(i, row', srvObs')
      <4>1. CASE tx.by = u
        BY <1>0, <2>2, <3>3, <4>1 DEF Safe, TxOwner
      <4>2. CASE tx.by # u
        BY <1>0, <2>4, <3>1, <3>2, <3>3, <4>2 DEF Safe, AnswersAreTrue
      <4> QED
        BY <4>1, <4>2
    <3> QED
      BY <2>3, <3>3 DEF AnswersAreTrue, Received, IsEvent
  <2>8. EventsKept' /\ ObservationsKept'
    BY <1>0, <2>1, <2>2 DEF Safe, EventsKept, ObservationsKept, Pending, IsEvent
  <2> QED
    BY <2>5, <2>6, <2>7, <2>8 DEF Safe
<1>13. CASE TxAbort
  <2>1. /\ UNCHANGED <<timeline, local, outbox, nextId, row, srvObs>>
        /\ tx.by # Nobody /\ tx' = NoTx
        /\ up' = IF tx.by \in Uploaders THEN [up EXCEPT ![tx.by] = Idle] ELSE up
    BY <1>13 DEF TxAbort, deviceVars
  <2>2. \A u \in Uploaders : \/ tx.by = u /\ up'[u] = Idle
                             \/ tx.by # u /\ up'[u] = up[u]
    BY <1>0, <2>1 DEF Typed, TypeOK
  <2> QED
    BY <1>0, <2>1, <2>2 DEF Safe, FreshIds, BatchesArePrefixes, TxOwner, TxHolds, AnswersAreTrue,
       EventsKept, ObservationsKept, Received, Pending, IsEvent, Idle, NoTx
<1> QED
  <2>1. CASE Tick \/ ScanStart \/ ScanReload \/ ScanNothing \/ ScanDone \/ ScanStop
    BY <1>1, <2>1 DEF Tick, ScanStart, ScanReload, ScanNothing, ScanDone, ScanStop, store
  <2>2. CASE \E f \in Files : LogGrows(f)
    BY <1>1, <2>2 DEF LogGrows
  <2>3. CASE \E c \in Observers : ObserveAnswer(c) \/ ObserveFail(c)
    BY <1>1, <2>3 DEF ObserveAnswer, ObserveFail, store
  <2>4. CASE UNCHANGED vars
    BY <1>1, <2>4 DEF vars, deviceVars
  <2> QED
    BY <2>1, <2>2, <2>3, <2>4, <1>2, <1>3, <1>4, <1>5, <1>6, <1>7, <1>8, <1>9, <1>10, <1>11,
       <1>12, <1>13 DEF Next

\* Every recorded response and every pooled observation is on the server or
\* waiting in the outbox, for any number of uploads, resyncs and crashes.
THEOREM NothingLost == Spec => [](EventsKept /\ ObservationsKept)
<1>1. Init => Kept
  BY InitTyped, InitSafe DEF Kept
<1>2. Kept /\ [Next]_vars => Kept'
  BY NextTyped, NextSafe DEF Kept
<1>3. Kept => EventsKept /\ ObservationsKept
  BY DEF Kept, Safe
<1> QED
  BY <1>1, <1>2, <1>3, PTL DEF Spec

\* A pooled observation of the sign-in timeline is on the server or queued,
\* resyncs included (ResetLedger, requeueObservations).
THEOREM ObservationsSurvive == Spec => []ObservationsKept
<1>1. EventsKept /\ ObservationsKept => ObservationsKept
  OBVIOUS
<1> QED
  BY <1>1, NothingLost, PTL

-----------------------------------------------------------------------------
(***************************************************************************)
(* The server's row becomes the device's.  What holds until a resync while *)
(* nothing arrives twice out of turn: no request outlives its client on    *)
(* the way, and one upload runs at a time (Resync is the second one).      *)
(* Requests may still be sent any number of times, be given up on in their *)
(* transaction and lose their answers.                                     *)
(***************************************************************************)
InTurn == MaxOrphans = 0 /\ \A u, v \in Uploaders : u = v

\* The events waiting for the server that are about one response.
Queue(k) == {i \in outbox : IsEvent(i) /\ i.payload.key = k}

\* The account of the row an event was made from: a correction names it.
From(i) == IF i.payload.prev = NoRef THEN i.payload.acct ELSE i.payload.prev

\* P leads to the row l: each event was made from what the one before it left,
\* the last one left l's account, and none is beyond l.
Leads(P, l) ==
  /\ P # {} => l # NoRow
  /\ \A i, j \in P : i.id = j.id => i = j
  /\ \A i \in P : /\ i.payload.out <= l.out
                  /\ i.payload.prev # NoRef =>
                       i.payload.prev # i.payload.acct /\ i.payload.sess = l.sess
                  /\ (\A j \in P : j.id <= i.id) => i.payload.acct = l.acct
  /\ \A i, j \in P :
       i.id < j.id /\ (\A m \in P : m.id <= i.id \/ j.id <= m.id) => From(j) = i.payload.acct

\* The row r is what the first event of P was made from.
Before(r, P, l) ==
  \A h \in P : (\A i \in P : h.id <= i.id) =>
    IF r = NoRow THEN h.payload.sess = l.sess ELSE r.acct = From(h)

\* The row r has the account c left, and the outputs up to c.
At(r, P, c) ==
  r # NoRow /\ r.acct = c.payload.acct /\ \A i \in P : i.id <= c.id => i.payload.out <= r.out

\* The row r, at the end of the events D of P or ahead of it, becomes l once
\* what remains of P is ingested in order.
Follows(r, P, l, D) ==
  /\ P = {} => r = l
  /\ r # NoRow => l # NoRow /\ r.sess = l.sess /\ r.out <= l.out
  /\ l # NoRow => (r # NoRow /\ r.out = l.out) \/ \E i \in P : i.payload.out = l.out
  /\ \/ D = {} /\ Before(r, P, l)
     \/ \E c \in P : At(r, P, c) /\ \A d \in D : d.id <= c.id

Events == {i \in Item : IsEvent(i)}
Rows == Row \cup {NoRow}

LEMMA EventFields ==
  ASSUME NEW i \in Events
  PROVE  /\ i.id \in Nat /\ i.payload.out \in Nat /\ i.payload.acct \in Accounts
         /\ i.payload.prev \in Accounts \cup {NoRef} /\ i.payload.sess \in Sessions
BY ConstantsAssumption DEF Events, IsEvent, Item, EventBody, Outs, Refs

LEMMA RowFields ==
  ASSUME NEW r \in Rows, r # NoRow
  PROVE  r.out \in Nat /\ r.acct \in Accounts /\ r.sess \in Sessions /\ r \in Row
         /\ r = [acct |-> r.acct, out |-> r.out, sess |-> r.sess]
BY ConstantsAssumption DEF Rows, Row, Outs

\* A row that took in what the batch holds is one that may take it in again.
LEMMA FollowsAgain ==
  ASSUME NEW r, NEW P, NEW l, NEW D, Follows(r, P, l, D)
  PROVE  Follows(r, P, l, {})
BY DEF Follows

\* The device reads or corrects a response and queues the event of it.
LEMMA AppendLeads ==
  ASSUME NEW P \in SUBSET Events, NEW l \in Rows, Leads(P, l),
         NEW a \in Accounts, NEW o \in Outs, NEW s \in Sessions, NEW n \in Events,
         Supersedes([acct |-> a, out |-> o, sess |-> s], l),
         n.payload.acct = a, n.payload.out = o, n.payload.sess = s,
         n.payload.prev = PreviousAccount([acct |-> a, out |-> o, sess |-> s], l),
         \A i \in P : i.id < n.id
  PROVE  LET l2 == Merged([acct |-> a, out |-> o, sess |-> s], l)
         IN  /\ Leads(P \cup {n}, l2)
             /\ \A r \in Rows, D \in SUBSET P :
                  Follows(r, P, l, D) => Follows(r, P \cup {n}, l2, D)
<1> DEFINE l2 == Merged([acct |-> a, out |-> o, sess |-> s], l)
           Q == P \cup {n}
<1>1. /\ l2 \in Row /\ l2 # NoRow /\ l2.acct = a /\ o \in Nat
      /\ l = NoRow => l2.out = o /\ l2.sess = s
      /\ l # NoRow => l2.sess = l.sess
      /\ l # NoRow => l.out <= l2.out /\ o <= l2.out /\ (l2.out = o \/ l2.out = l.out)
  BY RowFields, ConstantsAssumption, MarkersAssumption DEF Merged, Larger, Row, Outs
<1>2. /\ l = NoRow => n.payload.prev = NoRef
      /\ l # NoRow /\ l.acct = a => n.payload.prev = NoRef /\ l2.out = o
      /\ l # NoRow /\ l.acct # a => n.payload.prev = l.acct /\ s = l.sess
      /\ l # NoRow => l.acct # NoRef /\ l.out \in Nat
  BY RowFields, ConstantsAssumption DEF PreviousAccount, Supersedes, Merged, Larger, Outs
<1>3. l # NoRow => From(n) = l.acct
  BY <1>2 DEF From
<1>4. /\ n.id \in Nat /\ n.payload.out = o /\ n.payload.acct = a /\ n.payload.sess = s
      /\ \A i \in P : i.id \in Nat /\ i.id < n.id /\ i.payload.out \in Nat /\ n # i
  BY EventFields
<1>5. l2.out \in Nat
  BY <1>1 DEF Row, Outs
<1> HIDE DEF l2
<1>6. Leads(Q, l2)
  <2>1. \A i, j \in Q : i.id = j.id => i = j
    BY <1>4 DEF Leads
  <2>2. ASSUME NEW i \in Q
        PROVE  /\ i.payload.out <= l2.out
               /\ i.payload.prev # NoRef =>
                    i.payload.prev # i.payload.acct /\ i.payload.sess = l2.sess
               /\ (\A j \in Q : j.id <= i.id) => i.payload.acct = l2.acct
    <3>1. CASE i \in P
      <4>1. l # NoRow /\ i.payload.out <= l.out /\ n \in Q /\ ~(n.id <= i.id)
        BY <3>1, <1>4 DEF Leads
      <4> QED BY <3>1, <4>1, <1>1, <1>2, <1>4, <1>5 DEF Leads
    <3>2. CASE i = n
      <4>1. i.payload.out <= l2.out
        BY <3>2, <1>1, <1>4
      <4>2. i.payload.prev # NoRef => i.payload.prev # i.payload.acct /\ i.payload.sess = l2.sess
        BY <3>2, <1>1, <1>2, <1>4
      <4> QED BY <3>2, <4>1, <4>2, <1>1, <1>4
    <3> QED BY <3>1, <3>2
  <2>3. ASSUME NEW i \in Q, NEW j \in Q, i.id < j.id, \A m \in Q : m.id <= i.id \/ j.id <= m.id
        PROVE  From(j) = i.payload.acct
    <3>1. i \in P
      BY <2>3, <1>4
    <3>2. CASE j \in P
      BY <2>3, <3>1, <3>2 DEF Leads
    <3>3. CASE j = n
      <4>1. \A m \in P : m.id <= i.id
        BY <2>3, <3>3, <1>4
      <4> QED BY <3>1, <3>3, <4>1, <1>3 DEF Leads
    <3> QED BY <3>2, <3>3
  <2> QED BY <2>1, <2>2, <2>3, <1>1 DEF Leads
<1>7. ASSUME NEW r \in Rows, NEW D \in SUBSET P, Follows(r, P, l, D)
      PROVE  Follows(r, Q, l2, D)
  <2>1. r # NoRow => l2 # NoRow /\ r.sess = l2.sess /\ r.out <= l2.out
    <3> SUFFICES ASSUME r # NoRow PROVE l2 # NoRow /\ r.sess = l2.sess /\ r.out <= l2.out
      OBVIOUS
    <3>1. l # NoRow /\ r.sess = l.sess /\ r.out <= l.out /\ r.out \in Nat
      BY <1>7, RowFields DEF Follows
    <3> QED BY <3>1, <1>1, <1>2, <1>5
  <2>2. (r # NoRow /\ r.out = l2.out) \/ \E i \in Q : i.payload.out = l2.out
    <3>1. CASE l2.out = o
      BY <3>1, <1>4
    <3>2. CASE l # NoRow /\ l2.out = l.out
      BY <3>2, <1>7 DEF Follows
    <3> QED BY <3>1, <3>2, <1>1
  <2>3. ASSUME D = {}, Before(r, P, l) PROVE Before(r, Q, l2)
    <3> SUFFICES ASSUME NEW h \in Q, \A i \in Q : h.id <= i.id
                 PROVE  IF r = NoRow THEN h.payload.sess = l2.sess ELSE r.acct = From(h)
      BY DEF Before
    <3>1. CASE P = {}
      <4>1. r = l /\ h = n
        BY <3>1, <1>7 DEF Follows
      <4> QED BY <4>1, <1>1, <1>3, <1>4
    <3>2. CASE P # {}
      <4>1. h \in P
        BY <3>2, <1>4
      <4> QED BY <4>1, <3>2, <2>3, <1>1 DEF Before, Leads
    <3> QED BY <3>1, <3>2
  <2>4. ASSUME NEW c \in P, At(r, P, c) PROVE At(r, Q, c)
    <3>1. ~(n.id <= c.id)
      BY <1>4
    <3> QED BY <2>4, <3>1 DEF At
  <2>5. (D = {} /\ Before(r, Q, l2)) \/ \E c \in Q : At(r, Q, c) /\ \A d \in D : d.id <= c.id
    BY <2>3, <2>4, <1>7 DEF Follows
  <2> QED BY <2>1, <2>2, <2>5 DEF Follows
<1> QED BY <1>6, <1>7 DEF l2

\* The server ingests the next event of its batch.
LEMMA IngestFollows ==
  ASSUME NEW P \in SUBSET Events, NEW l \in Rows, NEW r \in Rows, Leads(P, l),
         NEW D \in SUBSET P, NEW h \in P \ D,
         \A d \in D : d.id < h.id, \A i \in P \ D : h.id <= i.id,
         Follows(r, P, l, D)
  PROVE  Follows(Ingested(h.payload, r), P, l, D \cup {h})
<1> DEFINE q == Ingested(h.payload, r)
           e == h.payload
<1>1. /\ \A i \in P : i.id \in Nat /\ i.payload.out \in Nat /\ i.payload.acct \in Accounts
      /\ e.prev \in Accounts \cup {NoRef} /\ NoRef \notin Accounts
      /\ l # NoRow /\ l.out \in Nat /\ e.out <= l.out
  BY EventFields, RowFields, ConstantsAssumption DEF Leads
<1>2. \/ /\ r = NoRow
         /\ q = [acct |-> e.acct, out |-> e.out, sess |-> e.sess]
      \/ /\ r # NoRow /\ Updates(e, r)
         /\ q = [acct |-> e.acct, out |-> Larger(r.out, e.out), sess |-> r.sess]
      \/ r # NoRow /\ ~Updates(e, r) /\ q = r
  BY DEF Ingested
<1>3. q # NoRow
  <2>1. e \in EventBody
    BY DEF Events, IsEvent
  <2>2. r # NoRow => r \in Row
    BY DEF Rows
  <2> QED BY <1>2, <2>1, <2>2, MarkersAssumption DEF EventBody, Row, Larger
<1>4. r # NoRow => /\ r.sess = l.sess /\ r.out <= l.out /\ r.out \in Nat /\ r.acct \in Accounts
                   /\ q.sess = l.sess /\ q.out <= l.out /\ r.out <= q.out /\ q.out \in Nat
  <2>1. r # NoRow => r.sess = l.sess /\ r.out <= l.out /\ r.out \in Nat /\ r.acct \in Accounts
    BY RowFields DEF Follows
  <2> QED BY <1>1, <1>2, <2>1 DEF Larger
<1> HIDE DEF q
<1>5. q.sess = l.sess /\ q.out <= l.out
  <2>1. CASE r = NoRow
    <3>1. D = {} /\ Before(r, P, l)
      BY <2>1 DEF Follows, At
    <3>2. e.sess = l.sess
      BY <2>1, <3>1 DEF Before
    <3> QED BY <2>1, <3>2, <1>1, <1>2
  <2> QED BY <2>1, <1>4
<1>6. (q # NoRow /\ q.out = l.out) \/ \E i \in P : i.payload.out = l.out
  BY <1>1, <1>3, <1>4, <1>5 DEF Follows
\* An event that was made from the account the row has is taken in.
<1>7. ASSUME r = NoRow \/ r.acct = From(h),
             \A i \in P : i.id < h.id => r # NoRow /\ i.payload.out <= r.out
      PROVE  At(q, P, h)
  <2>1. q.acct = e.acct /\ e.out <= q.out
    <3>1. CASE r = NoRow
      BY <3>1, <1>1, <1>2
    <3>2. CASE r # NoRow /\ e.prev = NoRef
      <4>1. r.acct = e.acct
        BY <3>2, <1>7 DEF From
      <4> QED BY <3>2, <4>1, <1>1, <1>2, <1>4 DEF Updates, Larger
    <3>3. CASE r # NoRow /\ e.prev # NoRef
      <4>1. r.acct = e.prev /\ e.prev # e.acct /\ e.sess = l.sess
        BY <3>3, <1>7 DEF From, Leads
      <4>2. Updates(e, r)
        BY <3>3, <4>1, <1>4 DEF Updates
      <4> QED BY <3>3, <4>2, <1>1, <1>2, <1>4 DEF Larger
    <3> QED BY <3>1, <3>2, <3>3
  <2>2. ASSUME NEW i \in P, i.id <= h.id PROVE i.payload.out <= q.out
    <3>1. CASE i.id = h.id
      <4>1. i = h
        BY <3>1 DEF Leads
      <4> QED BY <4>1, <2>1
    <3>2. CASE i.id < h.id
      BY <3>2, <1>1, <1>4, <1>7
    <3> QED BY <2>2, <3>1, <3>2, <1>1
  <2> QED BY <1>3, <2>1, <2>2 DEF At
<1>8. \E c \in P : At(q, P, c) /\ \A d \in D \cup {h} : d.id <= c.id
  <2>1. CASE D = {} /\ Before(r, P, l)
    <3>1. \A i \in P : h.id <= i.id
      BY <2>1
    <3>2. r = NoRow \/ r.acct = From(h)
      BY <2>1, <3>1 DEF Before
    <3>3. \A i \in P : ~(i.id < h.id)
      BY <3>1, <1>1
    <3>4. At(q, P, h)
      BY <3>2, <3>3, <1>7
    <3> QED BY <2>1, <3>4, <1>1
  <2>2. CASE \E c \in P : At(r, P, c) /\ \A d \in D : d.id <= c.id
    <3>1. PICK c \in P : At(r, P, c) /\ \A d \in D : d.id <= c.id
      BY <2>2
    <3>2. r # NoRow /\ r.acct = c.payload.acct /\ \A i \in P : i.id <= c.id => i.payload.out <= r.out
      BY <3>1 DEF At
    <3>3. CASE c.id < h.id
      <4>1. \A i \in P : i.id <= c.id \/ h.id <= i.id
        BY <3>1, <1>1
      <4>2. From(h) = r.acct
        BY <3>2, <3>3, <4>1 DEF Leads
      <4>3. \A i \in P : i.id < h.id => i.payload.out <= r.out
        BY <3>2, <4>1, <1>1
      <4>4. At(q, P, h)
        BY <3>2, <4>2, <4>3, <1>7
      <4> QED BY <4>4, <1>1
    <3>4. CASE h.id <= c.id
      <4>1. \A d \in D \cup {h} : d.id <= c.id /\ d.id <= h.id
        BY <3>1, <3>4, <1>1
      <4>2. \A i \in P : i.id <= h.id => i.payload.out <= r.out
        BY <3>2, <3>4, <1>1
      <4>3. CASE q = r
        BY <3>1, <4>1, <4>3
      <4>4. CASE q # r
        <5>1. Updates(e, r) /\ q = [acct |-> e.acct, out |-> Larger(r.out, e.out), sess |-> r.sess]
          BY <3>2, <4>4, <1>2
        <5>2. q.acct = e.acct
          BY <5>1
        <5>3. At(q, P, h)
          BY <5>2, <4>2, <3>2, <1>1, <1>3, <1>4 DEF At
        <5> QED BY <5>3, <4>1
      <4> QED BY <4>3, <4>4
    <3> QED BY <3>3, <3>4, <1>1
  <2> QED BY <2>1, <2>2 DEF Follows
<1> QED BY <1>1, <1>3, <1>5, <1>6, <1>8 DEF Follows, q

\* The device deletes the events of an answered batch.
LEMMA DeleteFollows ==
  ASSUME NEW P \in SUBSET Events, NEW l \in Rows, NEW r \in Rows, Leads(P, l),
         NEW D \in SUBSET P, \A d \in D, i \in P \ D : d.id < i.id,
         Follows(r, P, l, D)
  PROVE  Leads(P \ D, l) /\ Follows(r, P \ D, l, {})
<1> DEFINE Q == P \ D
<1>1. \A i \in P : i.id \in Nat /\ i.payload.out \in Nat
  BY EventFields
<1>2. CASE D = {}
  <2>1. Q = P
    BY <1>2
  <2> QED BY <1>2, <2>1
<1>3. CASE D # {}
  <2>1. PICK c \in P : At(r, P, c) /\ \A d \in D : d.id <= c.id
    BY <1>3 DEF Follows
  <2>2. r # NoRow /\ r.acct = c.payload.acct /\ \A i \in P : i.id <= c.id => i.payload.out <= r.out
    BY <2>1 DEF At
  <2>3. l # NoRow /\ r.sess = l.sess /\ r.out <= l.out /\ r.out \in Nat /\ l.out \in Nat
    BY <2>2, RowFields DEF Follows
  <2>4. Leads(Q, l)
    <3>1. ASSUME NEW i \in Q, \A j \in Q : j.id <= i.id PROVE \A j \in P : j.id <= i.id
      BY <3>1, <1>1
    <3>2. ASSUME NEW i \in Q, NEW j \in Q, i.id < j.id, \A m \in Q : m.id <= i.id \/ j.id <= m.id
          PROVE  From(j) = i.payload.acct
      <4>1. \A m \in P : m.id <= i.id \/ j.id <= m.id
        BY <3>2, <1>1
      <4> QED BY <3>2, <4>1 DEF Leads
    <3> QED BY <3>1, <3>2 DEF Leads
  <2>5. r.out = l.out \/ \E i \in Q : i.payload.out = l.out
    <3>1. ASSUME NEW i \in D PROVE i.payload.out <= r.out
      BY <2>1, <2>2, <3>1
    <3> QED BY <2>2, <2>3, <3>1, <1>1 DEF Follows
  <2>6. Before(r, Q, l) \/ \E d \in Q : At(r, Q, d)
    <3>1. CASE c \in D
      <4> SUFFICES ASSUME NEW h \in Q, \A i \in Q : h.id <= i.id PROVE r.acct = From(h)
        BY <2>2 DEF Before
      <4>1. c.id < h.id /\ \A m \in P : m.id <= c.id \/ h.id <= m.id
        BY <2>1, <3>1
      <4> QED BY <4>1, <2>2 DEF Leads
    <3>2. CASE c \notin D
      BY <3>2, <2>1 DEF At
    <3> QED BY <3>1, <3>2
  <2>7. Q = {} => r = l
    <3> SUFFICES ASSUME Q = {} PROVE r = l
      OBVIOUS
    <3>1. \A j \in P : j.id <= c.id
      BY <2>1
    <3>2. r.acct = l.acct
      BY <3>1, <2>2 DEF Leads
    <3>3. r.out = l.out
      BY <2>5
    <3> QED BY <3>2, <3>3, <2>2, <2>3, RowFields
  <2> QED BY <2>2, <2>3, <2>4, <2>5, <2>6, <2>7 DEF Follows
<1> QED BY <1>2, <1>3

\* Nothing is on its way without its client.
Parked == orphans = {} /\ gaveUp = 0

\* What is under way is in the outbox, and older than what is queued since.
\* A batch is not answered while a transaction is open.
Queued ==
  /\ \A i, j \in outbox : i.id = j.id => i = j
  /\ \A u \in Uploaders : up[u].pc # "idle" => up[u].batch \subseteq outbox
  /\ tx.by # Nobody =>
       /\ tx.batch \subseteq outbox /\ tx.todo \subseteq tx.batch
       /\ \A u \in Uploaders : up[u].pc # "answered"
       /\ \A i \in tx.batch \ tx.todo, j \in tx.todo : IsEvent(i) => i.id < j.id
       /\ \A i \in tx.batch, j \in outbox \ tx.batch : i.id < j.id

\* The server's row of a response, the one an open transaction would leave
\* and the one an answer speaks of are on their way to the device's.
Copied(k) ==
  /\ Leads(Queue(k), local[k])
  /\ Follows(row[k], Queue(k), local[k], {})
  /\ tx.by # Nobody =>
       Follows(tx.rows[k], Queue(k), local[k], Queue(k) \cap (tx.batch \ tx.todo))
  /\ \A u \in Uploaders : up[u].pc = "answered" =>
       Follows(row[k], Queue(k), local[k], Queue(k) \cap up[u].batch)

Copying == Parked /\ (resets = 0 => Queued /\ \A k \in Keys : Copied(k))

LEMMA InitCopying == Init => Copying
<1> SUFFICES ASSUME Init PROVE Copying
  OBVIOUS
<1>1. \A k \in Keys : Queue(k) = {} /\ local[k] = NoRow /\ row[k] = NoRow
  BY DEF Init, Queue
<1>2. tx.by = Nobody /\ \A u \in Uploaders : up[u].pc = "idle"
  BY DEF Init, NoTx, Idle
<1>3. Leads({}, NoRow) /\ Follows(NoRow, {}, NoRow, {})
  BY DEF Leads, Follows, Before
<1>4. \A k \in Keys : Copied(k)
  BY <1>1, <1>2, <1>3 DEF Copied
<1> QED
  BY <1>2, <1>4 DEF Init, Copying, Parked, Queued

\* Only a resync counts, and only an upload given up leaves a request behind.
LEMMA StepCounts ==
  ASSUME [Next]_vars
  PROVE  /\ UNCHANGED resets \/ ResetLedger
         /\ \/ UNCHANGED <<orphans, gaveUp>>
            \/ \E u \in Uploaders : UploadFail(u)
            \/ \E b \in orphans : TxBeginOrphan(b)
<1>1. CASE UNCHANGED <<resets, orphans, gaveUp>>
  BY <1>1
<1>2. CASE UNCHANGED vars \/ Tick \/ \E f \in Files : LogGrows(f)
  BY <1>1, <1>2 DEF Tick, LogGrows, vars, deviceVars, wireVars
<1>3. CASE \E c \in Observers : ObserveAnswer(c) \/ ObserveStore(c) \/ ObserveFail(c)
  BY <1>1, <1>3 DEF ObserveAnswer, ObserveStore, ObserveFail, wireVars
<1>4. CASE ScanStart \/ ScanReload \/ ScanNothing \/ ScanDone \/ ScanStop
  BY <1>1, <1>4 DEF ScanStart, ScanReload, ScanNothing, ScanDone, ScanStop, wireVars
<1>5. CASE \E f \in Files : IngestFile(f)
  BY <1>1, <1>5 DEF IngestFile, wireVars
<1>6. CASE ResetLedger
  BY <1>6 DEF ResetLedger, wireVars
<1>7. CASE \E u \in Uploaders : UploadRead(u) \/ DeleteOutboxThrough(u)
  BY <1>1, <1>7 DEF UploadRead, DeleteOutboxThrough, deviceVars
<1>8. CASE \E u \in Uploaders : UploadFail(u)
  BY <1>8 DEF UploadFail, deviceVars
<1>9. CASE Crash
  BY <1>1, <1>9 DEF Crash
<1>10. CASE \E u \in Uploaders : TxBegin(u)
  BY <1>1, <1>10 DEF TxBegin, deviceVars
<1>11. CASE \E b \in orphans : TxBeginOrphan(b)
  BY <1>11 DEF TxBeginOrphan, deviceVars
<1>12. CASE (\E i \in tx.todo : TxIngest(i)) \/ TxCommit \/ TxAbort
  BY Zenon, <1>1, <1>12 DEF TxIngest, TxCommit, TxAbort, deviceVars, wireVars
<1> QED
  BY <1>2, <1>3, <1>4, <1>5, <1>6, <1>7, <1>8, <1>9, <1>10, <1>11, <1>12 DEF Next

LEMMA StaysParked == ASSUME InTurn, Kept, Parked, [Next]_vars PROVE Parked'
<1>1. ASSUME NEW u \in Uploaders, UploadFail(u) PROVE UNCHANGED <<orphans, gaveUp>>
  <2>1. ~(gaveUp < MaxOrphans)
    BY DEF InTurn, Parked
  <2> QED BY <1>1, <2>1 DEF UploadFail
<1> QED
  BY <1>1, StepCounts DEF Parked

\* What the queue of a response is made of.
LEMMA QueueType ==
  ASSUME Typed, NEW k \in Keys
  PROVE  /\ Queue(k) \in SUBSET Events /\ local[k] \in Rows /\ row[k] \in Rows
         /\ tx.rows[k] \in Rows /\ Queue(k) \subseteq outbox
BY DEF Typed, TypeOK, Queue, Events, Rows

\* A step that leaves the queues, the rows and the uploads alone.
LEMMA CopiedSame ==
  ASSUME Queued, \A k \in Keys : Copied(k),
         UNCHANGED <<local, outbox, up, tx, row>>
  PROVE  Queued' /\ \A k \in Keys : Copied(k)'
<1>1. \A k \in Keys : Queue(k)' = Queue(k)
  BY DEF Queue, IsEvent
<1>2. ASSUME NEW k \in Keys PROVE Copied(k)'
  <2>1. Copied(k)
    OBVIOUS
  <2> QED BY <1>1, <2>1 DEF Copied
<1> QED
  BY <1>2 DEF Queued, IsEvent

LEMMA NextCopying == ASSUME InTurn, Kept, Copying, [Next]_vars PROVE Copying'
<1>1. Parked /\ Parked'
  BY StaysParked DEF Copying
<1>2. Typed /\ Typed' /\ Safe
  BY NextTyped DEF Kept
<1> SUFFICES ASSUME resets' = 0 PROVE Queued' /\ \A k \in Keys : Copied(k)'
  BY <1>1 DEF Copying
<1>3. resets = 0 /\ ~ResetLedger
  <2>1. resets \in Nat
    BY <1>2 DEF Typed, TypeOK
  <2>2. UNCHANGED resets \/ resets' = resets + 1
    BY StepCounts DEF ResetLedger
  <2> QED BY <2>1, <2>2 DEF ResetLedger
<1>4. Queued /\ \A k \in Keys : Copied(k)
  BY <1>3 DEF Copying
<1>5. /\ \A i \in outbox : i.id \in Nat /\ i.id < nextId /\ nextId \in Nat
      /\ FreshIds /\ BatchesArePrefixes /\ TxOwner
  BY <1>2 DEF Typed, TypeOK, Item, Safe, FreshIds
<1>6. \A u \in Uploaders : \A v \in Uploaders : u = v
  BY DEF InTurn
<1> HIDE DEF Typed, Safe
<1>7. CASE UNCHANGED <<local, outbox, up, tx, row>>
  BY <1>4, <1>7, CopiedSame
<1>8. ASSUME NEW n, n.id = nextId, outbox' = outbox \cup {n}, UNCHANGED <<up, tx, row>>
      PROVE  /\ Queued'
             /\ \A u \in Uploaders : up[u].pc # "idle" => n \notin up[u].batch
             /\ tx.by # Nobody => n \notin tx.batch
  BY <1>4, <1>5, <1>8 DEF Queued, IsEvent
<1>9. ASSUME NEW c \in Observers, ObserveStore(c), outbox' # outbox
      PROVE  Queued' /\ \A k \in Keys : Copied(k)'
  <2> DEFINE n == [id |-> nextId, payload |-> checking[c]]
  <2>1. outbox' = outbox \cup {n} /\ UNCHANGED <<local, up, tx, row>> /\ checking[c] \in Observation
    BY <1>2, <1>9 DEF ObserveStore, wireVars, serverVars, Typed, TypeOK
  <2>2. n.id = nextId /\ n.payload \notin EventBody
    BY <2>1, PayloadsDiffer
  <2> HIDE DEF n
  <2>3. \A k \in Keys : Queue(k)' = Queue(k)
    BY <2>1, <2>2 DEF Queue, IsEvent
  <2>4. ASSUME NEW k \in Keys PROVE Copied(k)'
    <3>1. Copied(k)
      BY <1>4
    <3> QED BY <2>1, <2>3, <3>1 DEF Copied
  <2> QED BY <1>8, <2>1, <2>2, <2>4
<1>10. ASSUME NEW f \in Files, IngestFile(f), ~UNCHANGED <<local, outbox, nextId>>
       PROVE  Queued' /\ \A k \in Keys : Copied(k)'
  <2> DEFINE x == KeyOf[f]
             a == ResolveAt(scan.view, BornAt[x])
             o == log[f]
             s == SessOf[f]
             e == [acct |-> a, out |-> o, sess |-> s]
             l == local[x]
             b == [key |-> x, acct |-> a, out |-> o, sess |-> s, prev |-> PreviousAccount(e, l)]
             n == [id |-> nextId, payload |-> b]
  <2>1. /\ a # NoRef /\ Supersedes(e, l)
        /\ local' = [local EXCEPT ![x] = Merged(e, l)]
        /\ outbox' = outbox \cup {n}
        /\ UNCHANGED <<up, tx, row>>
        /\ f \in scan.todo
    BY <1>10 DEF IngestFile, wireVars, serverVars
  <2>2. a \in Accounts /\ x \in Keys /\ s \in Sessions
    <3>1. scan.view \in SUBSET Observation
      BY <1>2 DEF Typed, TypeOK
    <3>2. a \in Refs
      BY <3>1, ResolveAtType
    <3> HIDE DEF a
    <3> QED BY <2>1, <3>2, ConstantsAssumption DEF Refs
  <2>3. o \in Outs
    BY <1>2, <2>1, ConstantsAssumption DEF Typed, TypeOK, Shape, Outs
  <2>4. l \in Rows
    BY <1>2, <2>2, QueueType
  <2> HIDE DEF a, o, s, l, x
  <2>5. PreviousAccount(e, l) \in Refs
    <3>1. l # NoRow => l.acct \in Accounts
      BY <2>4, RowFields
    <3> QED BY <3>1 DEF PreviousAccount, Refs
  <2>6. b \in EventBody
    BY <2>2, <2>3, <2>5 DEF EventBody
  <2>7. n \in Item /\ n.id = nextId /\ n.payload = b
    BY <1>5, <2>6, <1>2 DEF Item, Typed, TypeOK
  <2>8. b.key = x /\ b.acct = a /\ b.out = o /\ b.sess = s /\ b.prev = PreviousAccount(e, l)
    OBVIOUS
  <2> HIDE DEF b
  <2> HIDE DEF n
  <2>9. n \in Events
    BY <2>6, <2>7 DEF Events, IsEvent
  <2>10. Queued' /\ (\A u \in Uploaders : up[u].pc # "idle" => n \notin up[u].batch)
                /\ (tx.by # Nobody => n \notin tx.batch)
    BY <1>8, <2>1, <2>7
  <2>11. ASSUME NEW k \in Keys, k # x PROVE Copied(k)'
    <3>1. Queue(k)' = Queue(k) /\ local'[k] = local[k]
      BY <1>2, <2>1, <2>6, <2>7, <2>8, <2>11 DEF Queue, IsEvent, Typed, TypeOK
    <3>2. Copied(k)
      BY <1>4
    <3> QED BY <2>1, <3>1, <3>2 DEF Copied
  <2>12. Copied(x)'
    <3> DEFINE P == Queue(x)
    <3>1. Queue(x)' = P \cup {n}
      BY <2>1, <2>6, <2>7, <2>8 DEF Queue, IsEvent
    <3>2. local'[x] = Merged(e, l)
      BY <1>2, <2>1, <2>2 DEF Typed, TypeOK
    <3>3. P \in SUBSET Events /\ row[x] \in Rows /\ tx.rows[x] \in Rows /\ P \subseteq outbox
      BY <1>2, <2>2, QueueType
    <3>4. Copied(x)
      BY <1>4, <2>2
    <3>5. /\ Leads(P, l) /\ Follows(row[x], P, l, {})
          /\ tx.by # Nobody => Follows(tx.rows[x], P, l, P \cap (tx.batch \ tx.todo))
          /\ \A u \in Uploaders : up[u].pc = "answered" => Follows(row[x], P, l, P \cap up[u].batch)
      BY <3>4 DEF Copied, l
    <3>6. \A i \in P : i.id < n.id
      BY <1>5, <2>7, <3>3
    <3> HIDE DEF P, e
    <3>7. /\ Leads(P \cup {n}, Merged(e, l))
          /\ \A r \in Rows, D \in SUBSET P :
               Follows(r, P, l, D) => Follows(r, P \cup {n}, Merged(e, l), D)
      BY <2>1, <2>2, <2>3, <2>4, <2>7, <2>8, <2>9, <3>3, <3>5, <3>6, AppendLeads DEF e
    <3>8. Follows(row[x], P \cup {n}, Merged(e, l), {})
      BY <3>3, <3>5, <3>7
    <3>9. tx.by # Nobody =>
            Follows(tx.rows[x], P \cup {n}, Merged(e, l), (P \cup {n}) \cap (tx.batch \ tx.todo))
      <4>1. tx.by # Nobody => (P \cup {n}) \cap (tx.batch \ tx.todo) = P \cap (tx.batch \ tx.todo)
        BY <2>10
      <4> QED BY <3>3, <3>5, <3>7, <4>1
    <3>10. \A u \in Uploaders : up[u].pc = "answered" =>
             Follows(row[x], P \cup {n}, Merged(e, l), (P \cup {n}) \cap up[u].batch)
      <4>1. \A u \in Uploaders : up[u].pc = "answered" =>
              (P \cup {n}) \cap up[u].batch = P \cap up[u].batch
        BY <2>10
      <4> QED BY <3>3, <3>5, <3>7, <4>1
    <3> QED BY <2>1, <3>1, <3>2, <3>7, <3>8, <3>9, <3>10 DEF Copied
  <2> QED BY <2>10, <2>11, <2>12
<1>11. ASSUME NEW u \in Uploaders, UploadRead(u) PROVE Queued' /\ \A k \in Keys : Copied(k)'
  <2>1. /\ up' = [up EXCEPT ![u] = [pc |-> "sent", batch |-> PendingOutbox]]
        /\ up \in [Uploaders -> [pc : {"idle", "sent", "working", "answered"}, batch : SUBSET Item]]
        /\ UNCHANGED <<local, outbox, tx, row>>
    BY <1>2, <1>11 DEF UploadRead, deviceVars, serverVars, Typed, TypeOK
  <2>2. /\ up'[u].pc = "sent" /\ up'[u].batch \subseteq outbox
        /\ \A v \in Uploaders : v = u
    BY <1>6, <2>1 DEF PendingOutbox
  <2>3. \A k \in Keys : Queue(k)' = Queue(k)
    BY <2>1 DEF Queue, IsEvent
  <2>4. ASSUME NEW k \in Keys PROVE Copied(k)'
    <3>1. Copied(k)
      BY <1>4
    <3> QED BY <2>1, <2>2, <2>3, <3>1 DEF Copied
  <2> QED BY <1>4, <2>1, <2>2, <2>4 DEF Queued, IsEvent
<1>12. ASSUME NEW u \in Uploaders, DeleteOutboxThrough(u)
       PROVE  Queued' /\ \A k \in Keys : Copied(k)'
  <2> DEFINE B == up[u].batch
  <2>1. /\ up[u].pc = "answered"
        /\ outbox' = {i \in outbox : ~\E j \in B : i.id <= j.id}
        /\ up' = [up EXCEPT ![u] = Idle]
        /\ UNCHANGED <<local, tx, row>>
        /\ up \in [Uploaders -> [pc : {"idle", "sent", "working", "answered"}, batch : SUBSET Item]]
    BY <1>2, <1>12 DEF DeleteOutboxThrough, serverVars, Typed, TypeOK
  <2>2. tx.by = Nobody /\ B \subseteq outbox
    BY <1>4, <2>1 DEF Queued
  <2>3. outbox' = outbox \ B /\ \A i \in B : \A j \in outbox \ B : i.id < j.id
    BY <1>5, <2>1, <2>2 DEF BatchesArePrefixes
  <2>4. \A v \in Uploaders : v = u /\ up'[v].pc = "idle"
    BY <1>6, <2>1 DEF Idle
  <2>5. ASSUME NEW k \in Keys PROVE Copied(k)'
    <3> DEFINE P == Queue(k)
               D == P \cap B
    <3>1. Queue(k)' = P \ D
      BY <2>3 DEF Queue, IsEvent
    <3>2. Copied(k)
      BY <1>4
    <3>3. Leads(P, local[k]) /\ Follows(row[k], P, local[k], D)
      BY <2>1, <3>2 DEF Copied
    <3>4. P \in SUBSET Events /\ local[k] \in Rows /\ row[k] \in Rows /\ P \subseteq outbox
      BY <1>2, QueueType
    <3>5. D \in SUBSET P /\ \A d \in D, i \in P \ D : d.id < i.id
      BY <2>3, <3>4
    <3> HIDE DEF P, D
    <3>6. Leads(P \ D, local[k]) /\ Follows(row[k], P \ D, local[k], {})
      BY <3>3, <3>4, <3>5, DeleteFollows
    <3> QED BY <2>1, <2>2, <2>4, <3>1, <3>6 DEF Copied
  <2> QED BY <1>4, <2>1, <2>2, <2>3, <2>4, <2>5 DEF Queued
<1>13. ASSUME UNCHANGED <<local, outbox, row>>,
              \A u \in Uploaders : up'[u].pc # "answered" /\ (up'[u] = up[u] \/ up'[u] = Idle),
              tx'.by # Nobody => tx.by # Nobody /\ tx'.batch = tx.batch /\ tx'.todo = tx.todo
                                 /\ tx'.rows = tx.rows
       PROVE  Queued' /\ \A k \in Keys : Copied(k)'
  <2>1. \A k \in Keys : Queue(k)' = Queue(k)
    BY <1>13 DEF Queue, IsEvent
  <2>2. ASSUME NEW k \in Keys PROVE Copied(k)'
    <3>1. Copied(k)
      BY <1>4
    <3> QED BY <1>13, <2>1, <3>1 DEF Copied
  <2> QED BY <1>4, <1>13, <2>2 DEF Queued, IsEvent, Idle
<1>14. ASSUME NEW u \in Uploaders, UploadFail(u) PROVE Queued' /\ \A k \in Keys : Copied(k)'
  <2>1. /\ up' = [up EXCEPT ![u] = Idle]
        /\ UNCHANGED <<local, outbox, row>>
        /\ tx' = tx \/ (tx' = [tx EXCEPT !.by = Orphan] /\ tx.by = u)
    BY <1>5, <1>14 DEF UploadFail, deviceVars, TxOwner
  <2>2. \A v \in Uploaders : v = u /\ up'[v] = Idle /\ up'[v].pc # "answered"
    BY <1>2, <1>6, <2>1 DEF Typed, TypeOK, Idle
  <2>3. u # Nobody /\ Orphan # Nobody
    BY ConstantsAssumption
  <2>4. tx'.by # Nobody => tx.by # Nobody /\ tx'.batch = tx.batch /\ tx'.todo = tx.todo
                           /\ tx'.rows = tx.rows
    BY <1>2, <2>1, <2>3 DEF Typed, TypeOK
  <2> QED BY <1>13, <2>1, <2>2, <2>4
<1>15. CASE Crash
  <2>1. /\ up' = [u \in Uploaders |-> Idle]
        /\ UNCHANGED <<local, outbox, row>>
        /\ tx' = tx \/ (tx' = [tx EXCEPT !.by = Orphan] /\ tx.by \in Uploaders)
    BY <1>15 DEF Crash, store
  <2>2. \A v \in Uploaders : up'[v] = Idle /\ up'[v].pc # "answered"
    BY <2>1 DEF Idle
  <2>3. tx'.by # Nobody => tx.by # Nobody /\ tx'.batch = tx.batch /\ tx'.todo = tx.todo
                           /\ tx'.rows = tx.rows
    BY <1>2, <2>1, ConstantsAssumption DEF Typed, TypeOK
  <2> QED BY <1>13, <2>1, <2>2, <2>3
<1>16. CASE TxAbort
  <2>1. /\ tx'.by = Nobody /\ tx.by # Nobody
        /\ UNCHANGED <<local, outbox, row>>
        /\ \A u \in Uploaders : up'[u] = up[u] \/ up'[u] = Idle
    BY <1>2, <1>16 DEF TxAbort, NoTx, deviceVars, Typed, TypeOK
  <2>2. \A u \in Uploaders : up'[u].pc # "answered"
    BY <1>4, <2>1 DEF Queued, Idle
  <2> QED BY <1>13, <2>1, <2>2
<1>17. ASSUME NEW u \in Uploaders, TxBegin(u) PROVE Queued' /\ \A k \in Keys : Copied(k)'
  <2> DEFINE B == up[u].batch
  <2>1. /\ up[u].pc = "sent" /\ tx.by = Nobody
        /\ tx'.by = u /\ tx'.batch = B /\ tx'.todo = {i \in B : IsEvent(i)} /\ tx'.rows = row
        /\ up' = [up EXCEPT ![u].pc = "working"]
        /\ UNCHANGED <<local, outbox, row>>
    BY <1>17 DEF TxBegin, TxOpen, deviceVars
  <2>2. \A v \in Uploaders : v = u /\ up'[v].pc = "working" /\ up'[v].batch = B
    BY <1>2, <1>6, <2>1 DEF Typed, TypeOK
  <2>3. B \subseteq outbox /\ \A i \in B : \A j \in outbox \ B : i.id < j.id
    BY <1>4, <1>5, <2>1 DEF Queued, BatchesArePrefixes
  <2>4. \A k \in Keys : Queue(k)' = Queue(k) /\ Queue(k) \cap (tx'.batch \ tx'.todo) = {}
    BY <2>1 DEF Queue, IsEvent
  <2>5. ASSUME NEW k \in Keys PROVE Copied(k)'
    <3>1. Copied(k)
      BY <1>4
    <3> QED BY <2>1, <2>2, <2>4, <3>1 DEF Copied
  <2>6. Queued'
    BY <1>4, <2>1, <2>2, <2>3 DEF Queued, IsEvent
  <2> QED BY <2>5, <2>6
<1>18. ASSUME NEW h \in tx.todo, TxIngest(h) PROVE Queued' /\ \A k \in Keys : Copied(k)'
  <2> DEFINE x == h.payload.key
  <2>1. /\ tx.by # Nobody /\ \A j \in tx.todo : h.id <= j.id
        /\ tx' = [tx EXCEPT !.todo = @ \ {h}, !.rows[x] = Ingested(h.payload, @)]
        /\ UNCHANGED <<local, outbox, up, row>>
    BY <1>18 DEF TxIngest, deviceVars, wireVars
  <2>2. /\ IsEvent(h) /\ x \in Keys /\ tx.rows \in [Keys -> Rows]
        /\ tx.batch \subseteq outbox /\ tx.todo \subseteq tx.batch
        /\ \A i \in tx.todo : IsEvent(i)
    BY <1>2, <1>4, <2>1 DEF Typed, TypeOK, Shape, IsEvent, EventBody, Queued, Rows
  <2>3. /\ tx'.by = tx.by /\ tx'.batch = tx.batch /\ tx'.todo = tx.todo \ {h}
        /\ tx'.rows = [tx.rows EXCEPT ![x] = Ingested(h.payload, tx.rows[x])]
    BY <1>2, <2>1 DEF Typed, TypeOK
  <2>4. \A k \in Keys : Queue(k)' = Queue(k)
    BY <2>1 DEF Queue, IsEvent
  <2>5. /\ \A i \in tx.batch \ tx.todo, j \in tx.todo : IsEvent(i) => i.id < j.id
        /\ \A i \in tx.batch, j \in outbox \ tx.batch : i.id < j.id
        /\ \A i, j \in outbox : i.id = j.id => i = j
        /\ \A u \in Uploaders : up[u].pc # "answered"
    BY <1>4, <2>1 DEF Queued
  <2>6. h \in outbox /\ h.id \in Nat
    BY <1>5, <2>2
  <2>7. ASSUME NEW k \in Keys, k # x PROVE Copied(k)'
    <3>1. Copied(k)
      BY <1>4
    <3>2. Queue(k) \cap (tx'.batch \ tx'.todo) = Queue(k) \cap (tx.batch \ tx.todo)
      BY <2>3, <2>7 DEF Queue
    <3>3. tx'.rows[k] = tx.rows[k]
      BY <2>2, <2>3, <2>7
    <3> QED BY <2>1, <2>3, <2>4, <3>1, <3>2, <3>3 DEF Copied
  <2>8. Copied(x)'
    <3> DEFINE P == Queue(x)
               D == P \cap (tx.batch \ tx.todo)
               l == local[x]
               r == tx.rows[x]
    <3>1. Copied(x)
      BY <1>4, <2>2
    <3>2. Leads(P, l) /\ Follows(r, P, l, D)
      BY <2>1, <3>1 DEF Copied
    <3>3. P \in SUBSET Events /\ l \in Rows /\ r \in Rows /\ P \subseteq outbox
      BY <1>2, <2>2, QueueType
    <3>4. h \in P \ D /\ D \in SUBSET P
      BY <2>2, <2>6 DEF Queue
    <3>5. \A d \in D : d.id < h.id
      BY <2>5 DEF Queue
    <3>6. \A i \in P \ D : h.id <= i.id
      <4> SUFFICES ASSUME NEW i \in P \ D PROVE h.id <= i.id
        OBVIOUS
      <4>1. CASE i \in tx.todo
        BY <2>1, <4>1
      <4>2. CASE i \notin tx.batch
        <5>1. h.id < i.id /\ i.id \in Nat
          BY <1>5, <2>2, <2>5, <3>3, <4>2
        <5> QED BY <2>6, <5>1
      <4> QED BY <4>1, <4>2
    <3>7. Queue(x)' = P /\ P \cap (tx'.batch \ tx'.todo) = D \cup {h} /\ local' = local /\ row' = row
      BY <2>1, <2>2, <2>3, <2>4, <3>4
    <3>8. tx'.rows[x] = Ingested(h.payload, r)
      BY <2>2, <2>3
    <3> HIDE DEF P, D, l, r
    <3>9. Follows(Ingested(h.payload, r), P, l, D \cup {h})
      BY <3>2, <3>3, <3>4, <3>5, <3>6, IngestFollows
    <3>10. Follows(row[x], P, l, {})
      BY <3>1 DEF Copied, P, l
    <3>11. \A u \in Uploaders : up'[u].pc # "answered"
      BY <2>1, <2>5
    <3> HIDE DEF x
    <3> QED BY <2>3, <3>2, <3>7, <3>8, <3>9, <3>10, <3>11 DEF Copied, l
  <2>9. Queued'
    <3>1. \A i \in tx'.batch \ tx'.todo, j \in tx'.todo : IsEvent(i) => i.id < j.id
      <4> SUFFICES ASSUME NEW i \in tx.batch \ (tx.todo \ {h}), NEW j \in tx.todo \ {h}, IsEvent(i)
                   PROVE  i.id < j.id
        BY <2>3
      <4>1. CASE i = h
        <5>1. h.id <= j.id /\ h.id # j.id /\ j.id \in Nat
          BY <1>5, <2>1, <2>2, <2>5, <2>6
        <5> QED BY <2>6, <4>1, <5>1
      <4>2. CASE i # h
        BY <2>5, <4>2
      <4> QED BY <4>1, <4>2
    <3> QED BY <1>4, <2>1, <2>2, <2>3, <2>5, <3>1 DEF Queued, IsEvent
  <2> QED BY <2>7, <2>8, <2>9
<1>19. CASE TxCommit
  <2>1. /\ tx.by # Nobody /\ tx.todo = {} /\ row' = tx.rows /\ tx'.by = Nobody
        /\ up' = IF tx.by \in Uploaders THEN [up EXCEPT ![tx.by].pc = "answered"] ELSE up
        /\ UNCHANGED <<local, outbox>>
    BY <1>19 DEF TxCommit, NoTx, deviceVars
  <2>2. \A u \in Uploaders : up'[u].batch = up[u].batch
                             /\ (up'[u].pc = "answered" => up[u].batch = tx.batch /\ u = tx.by)
                             /\ (up'[u].pc # "idle" => up[u].pc # "idle")
    <3>1. \A u \in Uploaders : up[u].pc # "answered"
      BY <1>4, <2>1 DEF Queued
    <3>2. \A u \in Uploaders : tx.by = u => up[u].pc = "working" /\ tx.batch = up[u].batch
      BY <1>5 DEF TxOwner
    <3>3. up \in [Uploaders -> [pc : {"idle", "sent", "working", "answered"}, batch : SUBSET Item]]
      BY <1>2 DEF Typed, TypeOK
    <3> QED BY <2>1, <3>1, <3>2, <3>3
  <2>3. \A k \in Keys : Queue(k)' = Queue(k)
    BY <2>1 DEF Queue, IsEvent
  <2>4. ASSUME NEW k \in Keys PROVE Copied(k)'
    <3>1. Copied(k)
      BY <1>4
    <3>2. Follows(tx.rows[k], Queue(k), local[k], Queue(k) \cap tx.batch)
      <4>1. tx.batch \ tx.todo = tx.batch
        BY <2>1
      <4> QED BY <2>1, <3>1, <4>1 DEF Copied
    <3>3. Follows(tx.rows[k], Queue(k), local[k], {})
      BY <3>2, FollowsAgain
    <3> QED BY <2>1, <2>2, <2>3, <3>1, <3>2, <3>3 DEF Copied
  <2>5. Queued'
    BY <1>4, <2>1, <2>2 DEF Queued, IsEvent
  <2> QED BY <2>4, <2>5
<1>20. ~\E b \in orphans : TxBeginOrphan(b)
  BY <1>1 DEF Parked
<1>21. ASSUME NEW c \in Observers, ObserveStore(c), outbox' = outbox
       PROVE  UNCHANGED <<local, outbox, up, tx, row>>
  BY <1>21 DEF ObserveStore, wireVars, serverVars
<1>22. ASSUME NEW f \in Files, IngestFile(f), UNCHANGED <<local, outbox, nextId>>
       PROVE  UNCHANGED <<local, outbox, up, tx, row>>
  BY <1>22 DEF IngestFile, wireVars, serverVars
<1>23. \/ UNCHANGED <<local, outbox, up, tx, row>>
       \/ \E c \in Observers : ObserveStore(c)
       \/ \E f \in Files : IngestFile(f)
       \/ \E u \in Uploaders : UploadRead(u) \/ DeleteOutboxThrough(u) \/ UploadFail(u) \/ TxBegin(u)
       \/ Crash \/ TxAbort \/ TxCommit
       \/ \E i \in tx.todo : TxIngest(i)
  BY <1>3, <1>20 DEF Next, vars, deviceVars, wireVars, serverVars, store, Tick, LogGrows, ObserveAnswer,
     ObserveFail, ScanStart, ScanReload, ScanNothing, ScanDone, ScanStop
<1> QED
  BY <1>7, <1>9, <1>10, <1>11, <1>12, <1>14, <1>15, <1>16, <1>17, <1>18, <1>19, <1>21, <1>22, <1>23

LEMMA AlwaysCopying == InTurn => (Spec => [](Kept /\ Copying))
<1> SUFFICES ASSUME InTurn PROVE Spec => [](Kept /\ Copying)
  OBVIOUS
<1>1. Init => Kept /\ Copying
  BY InitTyped, InitSafe, InitCopying DEF Kept
<1>2. Kept /\ Copying /\ [Next]_vars => (Kept /\ Copying)'
  BY NextTyped, NextSafe, NextCopying DEF Kept
<1> QED
  BY <1>1, <1>2, PTL DEF Spec

\* Once nothing of a response waits, the server's row is the device's: its
\* account after any number of corrections there and back, its largest output
\* (IngestEvent, DeleteOutboxThrough and the server's upsert), for any number
\* of files, batches, lost answers and restarts of either side.
THEOREM LedgersAgree == InTurn => (Spec => []LedgerAgrees)
<1> SUFFICES ASSUME InTurn PROVE Spec => []LedgerAgrees
  OBVIOUS
<1>1. Kept /\ Copying => LedgerAgrees
  <2> SUFFICES ASSUME Copying, resets = 0, NEW k \in Keys, ~Pending(k) PROVE row[k] = local[k]
    BY DEF LedgerAgrees
  <2>1. Copied(k) /\ Queue(k) = {}
    BY DEF Copying, Pending, Queue
  <2> QED BY <2>1 DEF Copied, Follows
<1> QED
  BY <1>1, AlwaysCopying, PTL

-----------------------------------------------------------------------------
(***************************************************************************)
(* The upload implements Delivery, its liveness aside.                     *)
(***************************************************************************)
LEMMA InitDelivers == Init => Abs!Init
BY DEF Init, Abs!Init, Pending

LEMMA StepDelivers ==
  ASSUME Kept, Copying, Copying', resets = 0, resets' = 0, [Next]_vars
  PROVE  [Abs!Next]_(Abs!vars)
<1> DEFINE marked == {k \in Keys : Pending(k)}
<1>1. Typed /\ Typed' /\ FreshIds
  BY NextTyped DEF Kept, Safe
<1>2. Queued /\ (\A k \in Keys : Copied(k)) /\ (\A k \in Keys : Copied(k)')
  BY DEF Copying
<1>3. marked = {k \in Keys : Queue(k) # {}} /\ marked' = {k \in Keys : Queue(k)' # {}}
  BY DEF Pending, Queue, IsEvent
<1>4. CASE UNCHANGED <<local, row>> /\ \A k \in Keys : Queue(k)' = Queue(k)
  BY <1>3, <1>4 DEF Abs!vars
<1>5. CASE UNCHANGED <<local, outbox, row>>
  BY <1>4, <1>5 DEF Queue, IsEvent
<1>6. ASSUME NEW c \in Observers, ObserveStore(c) PROVE [Abs!Next]_(Abs!vars)
  <2> DEFINE n == [id |-> nextId, payload |-> checking[c]]
  <2>1. UNCHANGED <<local, row>> /\ (outbox' = outbox \/ outbox' = outbox \cup {n})
    BY <1>6 DEF ObserveStore, wireVars, serverVars
  <2>2. n.payload \notin EventBody
    BY <1>1, <1>6, PayloadsDiffer DEF ObserveStore, Typed, TypeOK
  <2> HIDE DEF n
  <2>3. \A k \in Keys : Queue(k)' = Queue(k)
    BY <2>1, <2>2 DEF Queue, IsEvent
  <2> QED BY <1>4, <2>1, <2>3
<1>7. ASSUME NEW f \in Files, IngestFile(f) PROVE [Abs!Next]_(Abs!vars)
  <2> DEFINE x == KeyOf[f]
             a == ResolveAt(scan.view, BornAt[x])
             e == [acct |-> a, out |-> log[f], sess |-> SessOf[f]]
             l == local[x]
             b == [key |-> x, acct |-> a, out |-> log[f], sess |-> SessOf[f],
                   prev |-> PreviousAccount(e, l)]
             n == [id |-> nextId, payload |-> b]
  <2>1. CASE UNCHANGED <<local, outbox>>
    BY <1>5, <1>7, <2>1 DEF IngestFile, serverVars
  <2>2. CASE ~UNCHANGED <<local, outbox>>
    <3>1. /\ a # NoRef /\ Supersedes(e, l)
          /\ local' = [local EXCEPT ![x] = Merged(e, l)]
          /\ outbox' = outbox \cup {n}
          /\ UNCHANGED row /\ f \in scan.todo
      BY <1>7, <2>2 DEF IngestFile, serverVars
    <3>2. a \in Accounts /\ x \in Keys /\ SessOf[f] \in Sessions
      <4>1. scan.view \in SUBSET Observation
        BY <1>1 DEF Typed, TypeOK
      <4>2. a \in Refs
        BY <4>1, ResolveAtType
      <4> HIDE DEF a
      <4> QED BY <3>1, <4>2, ConstantsAssumption DEF Refs
    <3>3. log[f] \in Outs
      BY <1>1, <3>1, ConstantsAssumption DEF Typed, TypeOK, Shape, Outs
    <3>4. l \in Rows
      BY <1>1, <3>2, QueueType
    <3> HIDE DEF a
    <3>5. Merged(e, l) \in Row /\ Merged(e, l) # l
      <4>1. CASE l = NoRow
        BY <3>2, <3>3, <4>1, MarkersAssumption DEF Merged, Row
      <4>2. CASE l # NoRow
        BY <3>1, <3>2, <3>3, <3>4, <4>2, RowFields, ConstantsAssumption
        DEF Merged, Row, Larger, Outs, Supersedes
      <4> QED BY <4>1, <4>2
    <3>6. b \in EventBody
      <4>1. PreviousAccount(e, l) \in Refs
        BY <3>4, RowFields DEF PreviousAccount, Refs
      <4> QED BY <3>2, <3>3, <4>1 DEF EventBody
    <3>7. n.payload = b /\ b.key = x
      OBVIOUS
    <3> HIDE DEF n, b, e, l
    <3>8. \A k \in Keys : k # x => Queue(k)' = Queue(k)
      BY <3>1, <3>7 DEF Queue, IsEvent
    <3>9. n \in Queue(x)'
      BY <3>1, <3>6, <3>7 DEF Queue, IsEvent
    <3> HIDE DEF x
    <3>10. marked' = marked \cup {x}
      BY <1>3, <3>2, <3>8, <3>9
    <3>11. Abs!Record(x)
      BY <3>1, <3>5, <3>10 DEF Abs!Record, l
    <3> QED BY <3>2, <3>11 DEF Abs!Next
  <2> QED BY <2>1, <2>2
<1>8. ASSUME NEW u \in Uploaders, DeleteOutboxThrough(u) PROVE [Abs!Next]_(Abs!vars)
  <2>1. UNCHANGED <<local, row>> /\ outbox' \subseteq outbox
    BY <1>8 DEF DeleteOutboxThrough, serverVars
  <2>2. \A k \in Keys : Queue(k)' \subseteq Queue(k)
    BY <2>1 DEF Queue, IsEvent
  <2>3. marked' \subseteq marked
    BY <1>3, <2>2
  <2>4. \A k \in marked \ marked' : row[k] = local[k]
    <3> SUFFICES ASSUME NEW k \in marked \ marked' PROVE row[k] = local[k]
      OBVIOUS
    <3>1. k \in Keys /\ Queue(k)' = {} /\ Copied(k)'
      BY <1>2, <1>3
    <3>2. row'[k] = local'[k]
      BY <3>1 DEF Copied, Follows
    <3> QED BY <2>1, <3>2
  <2>5. Abs!Settle
    BY <2>1, <2>3, <2>4 DEF Abs!Settle
  <2> QED BY <2>5 DEF Abs!Next
<1>9. CASE TxCommit
  <2>1. tx.by # Nobody /\ tx.todo = {} /\ row' = tx.rows /\ UNCHANGED <<local, outbox>>
    BY <1>9 DEF TxCommit, deviceVars
  <2>2. \A k \in Keys : Queue(k)' = Queue(k)
    BY <2>1 DEF Queue, IsEvent
  <2>3. marked' = marked
    BY <1>3, <2>2
  <2>4. \A k \in Keys \ marked : row'[k] = row[k]
    <3> SUFFICES ASSUME NEW k \in Keys \ marked PROVE row'[k] = row[k]
      OBVIOUS
    <3>1. Queue(k) = {} /\ Copied(k)
      BY <1>2, <1>3
    <3> QED BY <2>1, <3>1 DEF Copied, Follows
  <2>5. row' \in [Keys -> Row \cup {NoRow}]
    BY <1>1 DEF Typed, TypeOK
  <2>6. Abs!File
    BY <2>1, <2>3, <2>4, <2>5 DEF Abs!File
  <2> QED BY <2>6 DEF Abs!Next
<1>10. ~ResetLedger
  <2>1. ResetLedger => resets' = resets + 1
    BY DEF ResetLedger
  <2> QED BY <2>1
<1>11. CASE \E u \in Uploaders : UploadRead(u) \/ UploadFail(u) \/ TxBegin(u)
  BY <1>5, <1>11 DEF UploadRead, UploadFail, TxBegin, TxOpen, deviceVars, serverVars
<1>12. CASE (\E b \in orphans : TxBeginOrphan(b)) \/ (\E i \in tx.todo : TxIngest(i)) \/ TxAbort \/ Crash
  BY Zenon, <1>5, <1>12 DEF TxBeginOrphan, TxOpen, TxIngest, TxAbort, Crash, deviceVars, wireVars, store
<1>13. CASE UNCHANGED vars \/ Tick \/ (\E f \in Files : LogGrows(f))
            \/ \E c \in Observers : ObserveAnswer(c) \/ ObserveFail(c)
  BY <1>5, <1>13 DEF vars, deviceVars, serverVars, Tick, LogGrows, ObserveAnswer, ObserveFail, store
<1>14. CASE ScanStart \/ ScanReload \/ ScanNothing \/ ScanDone \/ ScanStop
  BY <1>5, <1>14 DEF ScanStart, ScanReload, ScanNothing, ScanDone, ScanStop, store, serverVars
<1> QED
  BY <1>6, <1>7, <1>8, <1>9, <1>10, <1>11, <1>12, <1>13, <1>14 DEF Next

\* The upload implements Delivery: the server changes no row that has nothing
\* queued, and the last item of a response goes only when the rows are equal.
THEOREM UploadDelivers == InTurn /\ MaxResets = 0 => (Spec => Abs!Spec)
<1> SUFFICES ASSUME InTurn, MaxResets = 0 PROVE Spec => Abs!Spec
  OBVIOUS
<1>1. Init => resets = 0
  BY DEF Init
<1>2. Kept /\ resets = 0 /\ [Next]_vars => (resets = 0)'
  <2> SUFFICES ASSUME Kept, resets = 0, [Next]_vars PROVE resets' = 0
    OBVIOUS
  <2>1. ~ResetLedger
    BY DEF ResetLedger
  <2> QED BY <2>1, StepCounts
<1>3. Kept /\ Copying /\ (Kept /\ Copying)' /\ resets = 0 /\ (resets = 0)' /\ [Next]_vars
        => [Abs!Next]_(Abs!vars)
  BY StepDelivers
<1>4. Spec => [](Kept /\ Copying)
  BY AlwaysCopying
<1> QED
  BY <1>1, <1>2, <1>3, <1>4, InitDelivers, PTL DEF Spec, Abs!Spec
=============================================================================
