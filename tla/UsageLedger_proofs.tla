-------------------------- MODULE UsageLedger_proofs --------------------------
(***************************************************************************)
(* Proofs about UsageLedger, for any number of devices, people, accounts   *)
(* and reports: types, who may change a record, what a record never loses, *)
(* and that a record follows its owner's devices to the account they agree *)
(* on as long as no duplicate arrives late.  And about the demand that     *)
(* Capacity takes from such records: the weeks of a replay cover its       *)
(* period one after another, its sessions refuse demand only past a limit, *)
(* and a derived rate depends on no order.                                 *)
(***************************************************************************)
EXTENDS UsageLedger, Capacity, FiniteSetTheorems, SequenceTheorems, WellFoundedInduction, TLAPS

\* A larger count is one of the two.
LEMMA GreaterBounds ==
  ASSUME NEW a \in 1..MaxOut, NEW b \in 1..MaxOut
  PROVE  Greater(a, b) \in 1..MaxOut /\ Greater(a, b) >= a
BY DEF Greater

\* Ingesting an event into a record gives a record.
LEMMA IngestedType ==
  ASSUME NEW r \in Record \cup {NoRow}, NEW e \in Event
  PROVE  Ingested(r, e) \in Record
<1> DEFINE u == Upserted(r, e)
           m == Moved(u, e)
<1>0. PersonOf[e.dev] \in Persons /\ SessOf[e.dev] \in Sessions
  BY LedgerConstants DEF Event
<1>1. Inserted(e) \in Record
  BY <1>0 DEF Inserted, Record, Event
<1>2. ASSUME r \in Record PROVE Merged(r, e) \in Record
  <2>1. Greater(r.out, e.out) \in 1..MaxOut
    BY <1>2, GreaterBounds DEF Record, Event
  <2> QED
    BY <1>2, <2>1 DEF Merged, Record, Event
<1>3. u \in Record
  BY <1>1, <1>2 DEF Upserted
<1>4. m \in Record
  BY <1>3 DEF Moved, Record, Event
<1>5. Reclassified(m, e) \in Record
  BY <1>4 DEF Reclassified, Record, Event
<1> QED
  BY <1>5 DEF Ingested

\* What ingesting an event does to the record of another person: nothing.
LEMMA OthersIgnored ==
  ASSUME NEW r \in Record, NEW e \in Event, r.owner # PersonOf[e.dev], r.dev # e.dev
  PROVE  Ingested(r, e) = r
<1>0. r # NoRow
  BY NoRowAssumption
<1> QED
  BY <1>0 DEF Ingested, Upserted, Updates, Moved, Reclassified

-----------------------------------------------------------------------------
(***************************************************************************)
(* Types.  A record's first device belongs to its owner.                   *)
(***************************************************************************)
OwnDevice == row # NoRow => PersonOf[row.dev] = row.owner
TInv == TypeOK /\ OwnDevice

LEMMA InitTInv == Init => TInv
<1> SUFFICES ASSUME Init PROVE TInv
  OBVIOUS
<1>1. 0 \in 0..MaxLate
  BY LedgerConstants
<1>2. sent \in [Devices -> Seq(Event)] /\ \A d \in Devices : pos[d] <= Len(sent[d])
  BY DEF Init
<1> QED
  BY <1>1, <1>2 DEF Init, TInv, TypeOK, OwnDevice

\* Ingesting keeps the owner and the first device.
LEMMA IngestedOwner ==
  ASSUME NEW r \in Record, NEW e \in Event
  PROVE  Ingested(r, e).owner = r.owner /\ Ingested(r, e).dev = r.dev
<1>0. r # NoRow
  BY NoRowAssumption
<1>1. Upserted(r, e).owner = r.owner /\ Upserted(r, e).dev = r.dev /\ Upserted(r, e) \in Record
  <2>1. ASSUME Updates(r, e) PROVE Upserted(r, e) = Merged(r, e)
    BY <1>0, <2>1 DEF Upserted
  <2>2. ASSUME ~Updates(r, e) PROVE Upserted(r, e) = r
    BY <1>0, <2>2 DEF Upserted
  <2>3. Greater(r.out, e.out) \in 1..MaxOut
    BY GreaterBounds DEF Record, Event
  <2> QED
    BY <2>1, <2>2, <2>3 DEF Merged, Record, Event
<1> QED
  BY <1>1 DEF Ingested, Moved, Reclassified, Record

\* A report is ingested: the record stays a record of its owner's.
LEMMA IngestKeepsTyped ==
  ASSUME TInv, NEW e \in Event, row' = Ingested(row, e)
  PROVE  row' \in Record /\ OwnDevice'
<1>1. row' \in Record
  BY IngestedType DEF TInv, TypeOK
<1>2. CASE row = NoRow
  <2>1. Inserted(e).owner = PersonOf[e.dev] /\ Inserted(e).dev = e.dev
    BY DEF Inserted
  <2>2. Inserted(e) \in Record
    BY LedgerConstants DEF Inserted, Record, Event
  <2>3. row' = Reclassified(Moved(Inserted(e), e), e)
    BY <1>2 DEF Ingested, Upserted
  <2> QED
    BY <1>1, <2>1, <2>2, <2>3 DEF Moved, Reclassified, OwnDevice, Record
<1>3. CASE row # NoRow
  BY <1>1, <1>3, IngestedOwner DEF TInv, TypeOK, OwnDevice
<1> QED
  BY <1>1, <1>2, <1>3

\* What a device keeps of a record and what it reports, once it has read of it.
RowAfter(d, r, n, q) ==
  IF local[d] = NoRow THEN [acct |-> r.acct, out |-> n, req |-> q]
  ELSE [acct |-> r.acct, out |-> Greater(local[d].out, n), req |-> local[d].req \/ q]
Before(d, r) == IF local[d] # NoRow /\ local[d].acct # r.acct THEN local[d].acct ELSE NoAcct
Report(d, r, n, q) ==
  [dev |-> d, acct |-> r.acct, prev |-> Before(d, r), out |-> n, req |-> q, third |-> r.third, gw |-> r.gw]

\* Reading the log, with the row and the report it leaves.
LEMMA LogRead ==
  ASSUME NEW d \in Devices, ReadLog(d)
  PROVE  \E r \in Readings, n \in 1..MaxOut, q \in Evidence :
           /\ local' = [local EXCEPT ![d] = RowAfter(d, r, n, q)]
           /\ sent' = [sent EXCEPT ![d] = Append(@, Report(d, r, n, q))]
<1>1. PICK r \in Readings, n \in 1..MaxOut, q \in Evidence :
        LET cur == local[d]
            prev == IF cur # NoRow /\ cur.acct # r.acct THEN cur.acct ELSE NoAcct
            e == [dev |-> d, acct |-> r.acct, prev |-> prev, out |-> n, req |-> q,
                  third |-> r.third, gw |-> r.gw]
        IN  /\ ~Outdated(cur, r)
            /\ \/ cur = NoRow
               \/ cur # NoRow /\ cur.acct # r.acct
               \/ cur # NoRow /\ cur.acct = r.acct /\ (n > cur.out \/ (q /\ ~cur.req))
            /\ local' = [local EXCEPT ![d] =
                 IF cur = NoRow THEN [acct |-> r.acct, out |-> n, req |-> q]
                 ELSE [acct |-> r.acct, out |-> Greater(cur.out, n), req |-> cur.req \/ q]]
            /\ sent' = [sent EXCEPT ![d] = Append(@, e)]
  BY Zenon DEF ReadLog
<1>2. local' = [local EXCEPT ![d] = RowAfter(d, r, n, q)]
  BY <1>1 DEF RowAfter
<1>3. sent' = [sent EXCEPT ![d] = Append(@, Report(d, r, n, q))]
  BY <1>1 DEF Report, Before
<1> QED BY <1>2, <1>3

LEMMA NextTInv == TInv /\ [Next]_vars => TInv'
<1> SUFFICES ASSUME TInv, [Next]_vars PROVE TInv'
  OBVIOUS
<1>1. ASSUME NEW d \in Devices, ReadLog(d) PROVE TInv'
  <2> DEFINE cur == local[d]
             prev(r) == IF cur # NoRow /\ cur.acct # r.acct THEN cur.acct ELSE NoAcct
             ev(r, n, q) == [dev |-> d, acct |-> r.acct, prev |-> prev(r), out |-> n, req |-> q,
                             third |-> r.third, gw |-> r.gw]
  <2>1. PICK r \in Readings, n \in 1..MaxOut, q \in Evidence :
             /\ local' = [local EXCEPT ![d] =
                    IF cur = NoRow THEN [acct |-> r.acct, out |-> n, req |-> q]
                    ELSE [acct |-> r.acct, out |-> Greater(cur.out, n), req |-> cur.req \/ q]]
             /\ sent' = [sent EXCEPT ![d] = Append(@, ev(r, n, q))]
    BY Zenon, <1>1, LogRead DEF RowAfter, Before, Report
  <2>2. r \in [acct : Accounts, third : BOOLEAN, gw : BOOLEAN] /\ q \in BOOLEAN
    BY LedgerConstants
  <2>3. local' \in [Devices -> LocalRow \cup {NoRow}]
    <3>1. ASSUME local[d] # NoRow PROVE Greater(local[d].out, n) \in 1..MaxOut
      BY <3>1, GreaterBounds DEF TInv, TypeOK, LocalRow
    <3> QED
      BY <2>1, <2>2, <3>1 DEF TInv, TypeOK, LocalRow
  <2>4. PICK e \in Event : sent' = [sent EXCEPT ![d] = Append(@, e)]
    <3>1. cur \in LocalRow \cup {NoRow}
      BY DEF TInv, TypeOK
    <3>2. prev(r) \in Accounts \cup {NoAcct}
      BY <3>1 DEF LocalRow
    <3>3. ev(r, n, q) \in Event
      BY <2>2, <3>2 DEF Event
    <3> QED
      BY <2>1, <3>3
  <2>5. sent' \in [Devices -> Seq(Event)]
    BY <2>4 DEF TInv, TypeOK
  <2>6. \A x \in Devices : pos[x] <= Len(sent'[x])
    <3> TAKE x \in Devices
    <3>1. sent[x] \in Seq(Event) /\ pos[x] \in Nat /\ pos[x] <= Len(sent[x])
      BY DEF TInv, TypeOK
    <3>2. sent'[x] = IF x = d THEN Append(sent[x], e) ELSE sent[x]
      BY <2>4 DEF TInv, TypeOK
    <3> QED
      BY <3>1, <3>2
  <2> QED
    BY <1>1, <2>3, <2>5, <2>6 DEF ReadLog, TInv, TypeOK, OwnDevice
<1>2. ASSUME NEW d \in Devices, Deliver(d) PROVE TInv'
  <2>1. pos[d] + 1 \in 1..Len(sent[d]) /\ sent[d] \in Seq(Event)
    BY <1>2 DEF Deliver, TInv, TypeOK
  <2>2. sent[d][pos[d] + 1] \in Event
    BY <2>1
  <2>3. row' \in Record /\ OwnDevice'
    BY <1>2, <2>2, IngestKeepsTyped DEF Deliver
  <2>4. pos' \in [Devices -> Nat] /\ \A x \in Devices : pos'[x] <= Len(sent[x])
    <3>1. CASE pos' = [pos EXCEPT ![d] = @ + 1]
      BY <2>1, <3>1 DEF TInv, TypeOK
    <3>2. CASE UNCHANGED pos
      BY <3>2 DEF TInv, TypeOK
    <3> QED
      BY <1>2, <3>1, <3>2 DEF Deliver
  <2> QED
    BY <1>2, <2>3, <2>4 DEF Deliver, TInv, TypeOK
<1>3. ASSUME NEW d \in Devices, DeliverLate(d) PROVE TInv'
  <2>1. PICK i \in 1..pos[d] : row' = Ingested(row, sent[d][i])
    BY <1>3 DEF DeliverLate
  <2>2. i \in 1..Len(sent[d]) /\ sent[d] \in Seq(Event)
    BY DEF TInv, TypeOK
  <2>3. sent[d][i] \in Event
    BY <2>2
  <2>4. row' \in Record /\ OwnDevice'
    BY <2>1, <2>3, IngestKeepsTyped
  <2>5. late' \in 0..MaxLate
    BY <1>3, LedgerConstants DEF DeliverLate, TInv, TypeOK
  <2> QED
    BY <1>3, <2>4, <2>5 DEF DeliverLate, TInv, TypeOK
<1>4. CASE UNCHANGED vars
  BY <1>4 DEF TInv, TypeOK, OwnDevice, vars
<1> QED
  BY <1>1, <1>2, <1>3, <1>4 DEF Next

\* Every reachable state of the devices' queues and of the record is well
\* typed (usage_events).
THEOREM TypeCorrect == Spec => []TypeOK
<1>1. TInv => TypeOK
  BY DEF TInv
<1> QED
  BY <1>1, InitTInv, NextTInv, PTL DEF Spec

-----------------------------------------------------------------------------
(***************************************************************************)
(* What a step does to the record.                                         *)
(***************************************************************************)
\* Every step leaves the record alone or ingests a report of the device that
\* is then the last.
LEMMA StepIngests ==
  ASSUME TInv, [Next]_vars
  PROVE  UNCHANGED row \/ \E e \in Event : e.dev \in Devices /\ row' = Ingested(row, e)
<1>1. ASSUME NEW d \in Devices, ReadLog(d) PROVE UNCHANGED row
  BY <1>1 DEF ReadLog
<1>2. ASSUME NEW d \in Devices, Deliver(d) PROVE \E e \in Event : row' = Ingested(row, e)
  <2>1. pos[d] + 1 \in 1..Len(sent[d]) /\ sent[d] \in Seq(Event)
    BY <1>2 DEF Deliver, TInv, TypeOK
  <2> QED
    BY <1>2, <2>1 DEF Deliver
<1>3. ASSUME NEW d \in Devices, DeliverLate(d) PROVE \E e \in Event : row' = Ingested(row, e)
  <2>1. PICK i \in 1..pos[d] : row' = Ingested(row, sent[d][i])
    BY <1>3 DEF DeliverLate
  <2>2. i \in 1..Len(sent[d]) /\ sent[d] \in Seq(Event)
    BY DEF TInv, TypeOK
  <2> QED
    BY <2>1, <2>2
<1>4. \A e \in Event : e.dev \in Devices
  BY DEF Event
<1> QED
  BY <1>1, <1>2, <1>3, <1>4 DEF Next, vars

\* Ingesting takes nothing back.
LEMMA IngestedKeeps ==
  ASSUME NEW r \in Record, NEW e \in Event
  PROVE  LET n == Ingested(r, e)
         IN  /\ n.out >= r.out
             /\ r.req => n.req
             /\ r.gw => n.gw
             /\ r.third /\ ~n.third => n.acct # r.acct
<1> DEFINE u == Upserted(r, e)
           m == Moved(u, e)
<1>0. r # NoRow
  BY NoRowAssumption
<1>1. u \in Record /\ u.out >= r.out /\ (r.req => u.req) /\ u.gw = r.gw /\ u.third = r.third
      /\ (u.acct = r.acct \/ u.acct = e.acct)
  <2>1. Greater(r.out, e.out) \in 1..MaxOut /\ Greater(r.out, e.out) >= r.out
    BY GreaterBounds DEF Record, Event
  <2>2. u = Merged(r, e) \/ u = r
    BY <1>0 DEF Upserted
  <2>3. r.out >= r.out
    BY DEF Record
  <2> QED
    BY <2>1, <2>2, <2>3 DEF Merged, Record, Event
<1>2. m \in Record /\ m.out = u.out /\ m.req = u.req /\ (u.gw => m.gw)
      /\ (m = u \/ (u.acct # e.acct /\ m.acct = e.acct))
  BY <1>1 DEF Moved, Record, Event
<1>3. Reclassified(m, e).out = m.out /\ Reclassified(m, e).req = m.req
      /\ Reclassified(m, e).acct = m.acct
      /\ (m.gw => Reclassified(m, e).gw) /\ (m.third => Reclassified(m, e).third)
  BY <1>2 DEF Reclassified, Record, Event
<1>4. ASSUME r.third, ~Reclassified(m, e).third PROVE Reclassified(m, e).acct # r.acct
  <2>1. ~m.third /\ u.third
    BY <1>1, <1>3, <1>4
  <2>2. u.acct # e.acct /\ m.acct = e.acct
    BY <1>2, <2>1
  <2> QED
    BY <1>1, <1>3, <2>2
<1> QED
  BY <1>1, <1>2, <1>3, <1>4 DEF Ingested

\* Whatever arrives, in whatever order and however often, the record keeps its
\* owner and first device, its counts, evidence and gateway, and counts again
\* only with another account (Store.Ingest).
THEOREM RecordKept == Spec => NothingUnlearned
<1> DEFINE Lasts == row # NoRow =>
       /\ row' # NoRow
       /\ <<row'.owner, row'.dev>> = <<row.owner, row.dev>>
       /\ row'.out >= row.out
       /\ row.req => row'.req
       /\ row.gw => row'.gw
       /\ row.third /\ ~row'.third => row'.acct # row.acct
<1>1. ASSUME TInv, [Next]_vars PROVE Lasts
  <2> SUFFICES ASSUME row # NoRow PROVE Lasts
    OBVIOUS
  <2>1. row \in Record
    BY <1>1 DEF TInv, TypeOK
  <2>2. CASE UNCHANGED row
    BY <2>1, <2>2 DEF Record
  <2>3. ASSUME NEW e \in Event, row' = Ingested(row, e) PROVE Lasts
    <3>1. row' \in Record
      BY <2>1, <2>3, IngestedType
    <3>2. row' # NoRow
      BY <3>1, NoRowAssumption
    <3> QED
      BY <2>1, <2>3, <3>2, IngestedOwner, IngestedKeeps
  <2> QED
    BY <1>1, <2>2, <2>3, StepIngests
<1>2. TInv /\ [Next]_vars => [Lasts]_vars
  BY <1>1
<1> QED
  BY <1>2, InitTInv, NextTInv, PTL DEF Spec, NothingUnlearned

-----------------------------------------------------------------------------
(***************************************************************************)
(* What a device queues: its own reports, in an unbroken chain of          *)
(* corrections that ends with what its own store holds.                    *)
(***************************************************************************)
Own(d) == \A i \in 1..Len(sent[d]) : sent[d][i].dev = d
Read(d) == \A i \in 1..Len(sent[d]) : \E r \in Readings : r.gw = sent[d][i].gw
Linked(d) ==
  \A i \in 1..Len(sent[d]), j \in 1..Len(sent[d]) :
    j = i + 1 => sent[d][j].acct = sent[d][i].acct \/ sent[d][j].prev = sent[d][i].acct
Ends(d) ==
  /\ Len(sent[d]) = 0 => local[d] = NoRow
  /\ Len(sent[d]) > 0 => local[d] # NoRow /\ local[d].acct = sent[d][Len(sent[d])].acct
Chain == \A d \in Devices : Own(d) /\ Read(d) /\ Linked(d) /\ Ends(d)
CInv == TInv /\ Chain

LEMMA InitChain == Init => Chain
<1> SUFFICES ASSUME Init, NEW d \in Devices PROVE Own(d) /\ Read(d) /\ Linked(d) /\ Ends(d)
  BY Zenon DEF Chain
<1>1. sent[d] = <<>> /\ Len(sent[d]) = 0 /\ local[d] = NoRow
  BY DEF Init
<1> QED
  BY <1>1 DEF Own, Read, Linked, Ends

\* Reading the log adds one link.
LEMMA ReadLogChain ==
  ASSUME CInv, NEW d \in Devices, ReadLog(d), TInv'
  PROVE  Chain'
<1> DEFINE cur == local[d]
           prev(r) == IF cur # NoRow /\ cur.acct # r.acct THEN cur.acct ELSE NoAcct
           ev(r, n, q) == [dev |-> d, acct |-> r.acct, prev |-> prev(r), out |-> n, req |-> q,
                           third |-> r.third, gw |-> r.gw]
           len == Len(sent[d])
<1>1. PICK r \in Readings, n \in 1..MaxOut, q \in Evidence :
        /\ local' = [local EXCEPT ![d] =
               IF cur = NoRow THEN [acct |-> r.acct, out |-> n, req |-> q]
               ELSE [acct |-> r.acct, out |-> Greater(cur.out, n), req |-> cur.req \/ q]]
        /\ sent' = [sent EXCEPT ![d] = Append(@, ev(r, n, q))]
  BY Zenon, LogRead DEF RowAfter, Before, Report
<1> DEFINE e == ev(r, n, q)
<1>2. sent[d] \in Seq(Event) /\ len \in Nat
  BY DEF CInv, TInv, TypeOK
<1>3. /\ sent' = [sent EXCEPT ![d] = Append(sent[d], e)]
      /\ local' = [local EXCEPT ![d] = local'[d]]
      /\ local'[d].acct = r.acct
  BY <1>1 DEF CInv, TInv, TypeOK
<1>4. e.dev = d /\ e.acct = r.acct /\ e.gw = r.gw /\ e.prev = prev(r)
  OBVIOUS
<1> HIDE DEF e
<1>5. /\ Len(sent'[d]) = len + 1
      /\ \A i \in 1..len : sent'[d][i] = sent[d][i]
      /\ sent'[d][len + 1] = e
  <2>1. sent'[d] = Append(sent[d], e)
    BY <1>3 DEF CInv, TInv, TypeOK
  <2>2. sent'[d] \in Seq(Event)
    BY DEF TInv, TypeOK
  <2> QED
    BY <1>2, <2>1, <2>2
<1>6. local'[d] # NoRow
  <2>1. r.acct \in Accounts /\ q \in BOOLEAN
    BY LedgerConstants
  <2>2. CASE cur = NoRow
    <3>1. local'[d] = [acct |-> r.acct, out |-> n, req |-> q]
      BY <1>1, <2>2 DEF CInv, TInv, TypeOK
    <3> QED
      BY <2>1, <3>1, NoRowAssumption DEF LocalRow
  <2>3. CASE cur # NoRow
    <3>1. cur \in LocalRow
      BY <2>3 DEF CInv, TInv, TypeOK
    <3>2. Greater(cur.out, n) \in 1..MaxOut /\ (cur.req \/ q) \in BOOLEAN
      BY <2>1, <3>1, GreaterBounds DEF LocalRow
    <3>3. local'[d] = [acct |-> r.acct, out |-> Greater(cur.out, n), req |-> cur.req \/ q]
      BY <1>1, <2>3 DEF CInv, TInv, TypeOK
    <3>4. local'[d] \in LocalRow
      BY <2>1, <3>2, <3>3 DEF LocalRow
    <3> QED
      BY <3>4, NoRowAssumption
  <2> QED
    BY <2>2, <2>3
<1>7. len > 0 => e.acct = sent[d][len].acct \/ e.prev = sent[d][len].acct
  BY <1>4 DEF CInv, Chain, Ends
<1>8. Own(d)' /\ Read(d)' /\ Linked(d)' /\ Ends(d)'
  <2>0. \A i \in 1..(len + 1) : i \in 1..len \/ i = len + 1
    BY <1>2
  <2>1. Own(d)'
    <3>1. \A i \in 1..len : sent[d][i].dev = d
      BY Zenon DEF CInv, Chain, Own
    <3>2. \A i \in 1..(len + 1) : sent'[d][i].dev = d
      BY Zenon, <1>4, <1>5, <2>0, <3>1
    <3> QED
      BY Zenon, <1>5, <3>2 DEF Own
  <2>2. Read(d)'
    <3>1. \A i \in 1..len : \E x \in Readings : x.gw = sent[d][i].gw
      BY Zenon DEF CInv, Chain, Read
    <3>2. \A i \in 1..(len + 1) : \E x \in Readings : x.gw = sent'[d][i].gw
      <4> SUFFICES ASSUME NEW i \in 1..(len + 1) PROVE \E x \in Readings : x.gw = sent'[d][i].gw
        OBVIOUS
      <4>1. CASE i \in 1..len
        BY Zenon, <1>5, <3>1, <4>1
      <4>2. CASE i = len + 1
        <5>1. sent'[d][i].gw = r.gw
          BY Zenon, <1>4, <1>5, <4>2
        <5> QED
          BY Zenon, <5>1
      <4> QED
        BY Zenon, <2>0, <4>1, <4>2
    <3> QED
      BY Zenon, <1>5, <3>2 DEF Read
  <2>3. Linked(d)'
    <3> SUFFICES ASSUME NEW i \in 1..(len + 1), NEW j \in 1..(len + 1), j = i + 1
                 PROVE  sent'[d][j].acct = sent'[d][i].acct \/ sent'[d][j].prev = sent'[d][i].acct
      BY <1>5 DEF Linked
    <3>1. CASE j = len + 1
      <4>1. i = len /\ i \in 1..len /\ len > 0
        BY <1>2, <3>1
      <4> QED
        BY <1>5, <1>7, <3>1, <4>1
    <3>2. CASE j # len + 1
      <4>1. i \in 1..len /\ j \in 1..len
        BY <1>2, <3>2
      <4>2. Linked(d)
        BY DEF CInv, Chain
      <4> QED
        BY <1>5, <4>1, <4>2 DEF Linked
    <3> QED
      BY <3>1, <3>2
  <2>4. Ends(d)'
    BY <1>2, <1>3, <1>4, <1>5, <1>6 DEF Ends
  <2> QED
    BY <2>1, <2>2, <2>3, <2>4
<1>9. ASSUME NEW x \in Devices, x # d PROVE sent'[x] = sent[x] /\ local'[x] = local[x]
  BY <1>3, <1>9 DEF CInv, TInv, TypeOK
<1>10. ASSUME NEW x \in Devices PROVE Own(x)' /\ Read(x)' /\ Linked(x)' /\ Ends(x)'
  <2>1. Own(x) /\ Read(x) /\ Linked(x) /\ Ends(x)
    BY DEF CInv, Chain
  <2>2. CASE x # d
    <3>1. sent'[x] = sent[x] /\ local'[x] = local[x]
      BY Zenon, <1>9, <2>2
    <3>2. Own(x)' /\ Read(x)'
      BY Zenon, <2>1, <3>1 DEF Own, Read
    <3>3. Linked(x)'
      BY ZenonT(60), <2>1, <3>1 DEF Linked
    <3>4. Ends(x)'
      BY Zenon, <2>1, <3>1 DEF Ends
    <3> QED
      BY <3>2, <3>3, <3>4
  <2> QED
    BY <1>8, <2>2
<1> QED
  BY <1>10 DEF Chain

LEMMA NextCInv == CInv /\ [Next]_vars => CInv'
<1> SUFFICES ASSUME CInv, [Next]_vars PROVE Chain'
  BY NextTInv DEF CInv
<1>1. ASSUME NEW d \in Devices, ReadLog(d) PROVE Chain'
  BY <1>1, ReadLogChain, NextTInv DEF CInv
<1>2. ASSUME UNCHANGED <<local, sent>> PROVE Chain'
  BY <1>2 DEF CInv, Chain, Own, Read, Linked, Ends
<1> QED
  BY <1>1, <1>2 DEF Next, Deliver, DeliverLate, vars

\* The event a device's step ingests is one of its own.
LEMMA StepIngestsOwn ==
  ASSUME CInv, [Next]_vars
  PROVE  UNCHANGED row \/ \E e \in Event : e.dev = by' /\ row' = Ingested(row, e)
<1>1. ASSUME NEW d \in Devices, ReadLog(d) PROVE UNCHANGED row
  BY <1>1 DEF ReadLog
<1>2. ASSUME NEW d \in Devices, Deliver(d) PROVE \E e \in Event : e.dev = by' /\ row' = Ingested(row, e)
  <2>1. pos[d] + 1 \in 1..Len(sent[d]) /\ sent[d] \in Seq(Event)
    BY <1>2 DEF Deliver, CInv, TInv, TypeOK
  <2>2. sent[d][pos[d] + 1].dev = d
    BY <2>1 DEF CInv, Chain, Own
  <2> QED
    BY <1>2, <2>1, <2>2 DEF Deliver
<1>3. ASSUME NEW d \in Devices, DeliverLate(d) PROVE \E e \in Event : e.dev = by' /\ row' = Ingested(row, e)
  <2>1. PICK i \in 1..pos[d] : row' = Ingested(row, sent[d][i])
    BY <1>3 DEF DeliverLate
  <2>2. i \in 1..Len(sent[d]) /\ sent[d] \in Seq(Event)
    BY DEF CInv, TInv, TypeOK
  <2>3. sent[d][i].dev = d
    BY <2>2 DEF CInv, Chain, Own
  <2> QED
    BY <1>3, <2>1, <2>2, <2>3 DEF DeliverLate
<1> QED
  BY <1>1, <1>2, <1>3 DEF Next, vars

\* Another person's device never changes a record (Store.Ingest).
THEOREM OwnersOnly == Spec => OnlyOwnersChange
<1>1. Init => CInv
  BY InitTInv, InitChain DEF CInv
<1>2. ASSUME CInv, [Next]_vars, row # NoRow, row' # row PROVE row.owner = PersonOf[by']
  <2>1. PICK e \in Event : e.dev = by' /\ row' = Ingested(row, e)
    BY <1>2, StepIngestsOwn
  <2>2. row \in Record /\ PersonOf[row.dev] = row.owner
    BY <1>2 DEF CInv, TInv, TypeOK, OwnDevice
  <2>3. ASSUME row.owner # PersonOf[e.dev] PROVE FALSE
    <3>1. row.dev # e.dev
      BY <2>2, <2>3
    <3> QED
      BY <1>2, <2>1, <2>2, <2>3, <3>1, OthersIgnored
  <2> QED
    BY <2>1, <2>3
<1>3. CInv /\ [Next]_vars => [row # NoRow /\ row' # row => row.owner = PersonOf[by']]_vars
  BY <1>2
<1> QED
  BY <1>1, <1>3, NextCInv, PTL DEF Spec, OnlyOwnersChange

-----------------------------------------------------------------------------
(***************************************************************************)
(* The account devices agree on.  At any time some device of the owner     *)
(* holds the record: the record is with the account of the report that     *)
(* device had answered last, or of the next one, ingested but not yet      *)
(* answered.  That device's next correction names this account, so it      *)
(* moves the record; a late duplicate breaks the argument.                 *)
(***************************************************************************)
\* Requests of one provider, no gateway, and the owner's devices file a
\* request under one session.
OneProvider ==
  /\ \A r \in Readings : ~r.gw
  /\ \A a, b \in Accounts : ProviderOf[a] = ProviderOf[b]
  /\ \A d, x \in Devices : PersonOf[d] = PersonOf[x] => SessOf[d] = SessOf[x]

Holds(h) ==
  /\ PersonOf[h] = row.owner
  /\ \E i \in 1..Len(sent[h]) : i \in {pos[h], pos[h] + 1} /\ row.acct = sent[h][i].acct
Held == row # NoRow =>
          /\ \E h \in Devices : Holds(h)
          /\ row.sess = SessOf[row.dev]
HInv == CInv /\ Held

\* Without a gateway, ingesting is the upsert and a third-party mark.
LEMMA IngestedPlain ==
  ASSUME NEW r \in Record \cup {NoRow}, NEW e \in Event, ~e.gw
  PROVE  LET u == Upserted(r, e)
         IN  /\ u \in Record
             /\ Ingested(r, e).acct = u.acct
             /\ Ingested(r, e).sess = u.sess
             /\ Ingested(r, e).owner = u.owner
             /\ Ingested(r, e).dev = u.dev
<1>1. Upserted(r, e) \in Record
  <2>1. PersonOf[e.dev] \in Persons /\ SessOf[e.dev] \in Sessions
    BY LedgerConstants DEF Event
  <2>2. Inserted(e) \in Record
    BY <2>1 DEF Inserted, Record, Event
  <2>3. ASSUME r \in Record PROVE Merged(r, e) \in Record
    <3>1. Greater(r.out, e.out) \in 1..MaxOut
      BY <2>3, GreaterBounds DEF Record, Event
    <3> QED
      BY <2>3, <3>1 DEF Merged, Record, Event
  <2> QED
    BY <2>2, <2>3 DEF Upserted
<1> QED
  BY <1>1 DEF Ingested, Moved, Reclassified, Record

\* Delivering a report leaves the record with the sender, or with its holder.
LEMMA DeliverHeld ==
  ASSUME OneProvider, HInv, NEW d \in Devices, Deliver(d)
  PROVE  Held'
<1> DEFINE next == pos[d] + 1
           e == sent[d][next]
<1>1. /\ next \in 1..Len(sent[d])
      /\ pos[d] \in Nat
      /\ e \in Event
      /\ e.dev = d
      /\ row \in Record \cup {NoRow}
      /\ UNCHANGED sent
      /\ row' = Ingested(row, e)
  BY DEF HInv, CInv, Chain, Own, TInv, TypeOK, Deliver
<1>2. ~e.gw
  BY <1>1 DEF HInv, CInv, Chain, Read, OneProvider
<1>3. pos'[d] \in {pos[d], next} /\ \A x \in Devices : x # d => pos'[x] = pos[x]
  BY DEF HInv, CInv, TInv, TypeOK, Deliver
<1> DEFINE u == Upserted(row, e)
<1>4. row' # NoRow /\ row'.acct = u.acct /\ row'.sess = u.sess /\ row'.owner = u.owner /\ row'.dev = u.dev
  <2>1. row' \in Record
    BY <1>1, IngestedType
  <2> QED
    BY <1>1, <1>2, <2>1, IngestedPlain, NoRowAssumption
<1> HIDE DEF e, next
<1>5. ASSUME row'.acct = e.acct, PersonOf[d] = row'.owner PROVE Holds(d)'
  <2>1. next \in {pos'[d], pos'[d] + 1}
    BY <1>1, <1>3 DEF next
  <2> QED
    BY <1>1, <1>5, <2>1 DEF Holds, e
<1>6. CASE row = NoRow
  <2>1. u = Inserted(e)
    BY <1>6 DEF Upserted
  <2>2. u.acct = e.acct /\ u.owner = PersonOf[d] /\ u.dev = d /\ u.sess = SessOf[d]
    BY <1>1, <2>1 DEF Inserted
  <2> QED
    BY <1>4, <1>5, <2>2 DEF Held
<1>7. CASE row # NoRow /\ Updates(row, e)
  <2>1. u = Merged(row, e)
    BY <1>7 DEF Upserted
  <2>2. u.acct = e.acct /\ u.owner = row.owner /\ u.dev = row.dev /\ u.sess = row.sess
    BY <1>1, <1>7, <2>1 DEF Merged, Record
  <2>3. row.owner = PersonOf[d]
    BY <1>1, <1>7 DEF Updates
  <2> QED
    BY <1>4, <1>5, <1>7, <2>2, <2>3 DEF Held, HInv
<1>8. CASE row # NoRow /\ ~Updates(row, e)
  <2>1. u = row
    BY <1>8 DEF Upserted
  <2>2. PICK h \in Devices : Holds(h)
    BY <1>8 DEF HInv, Held
  <2>3. CASE h # d
    <3>1. Holds(h)'
      BY <1>1, <1>3, <1>4, <2>1, <2>2, <2>3 DEF Holds
    <3> QED
      BY <1>4, <1>8, <2>1, <3>1 DEF Held, HInv
  <2>4. CASE h = d
    <3>1. row.owner = PersonOf[d] /\ row.sess = SessOf[d]
      <4>1. PersonOf[row.dev] = row.owner /\ row.dev \in Devices
        BY <1>1, <1>8 DEF HInv, CInv, TInv, OwnDevice, Record
      <4> QED
        BY <1>8, <2>2, <2>4, <4>1 DEF Holds, HInv, Held, OneProvider
    <3>2. PICK i \in 1..Len(sent[d]) : i \in {pos[d], pos[d] + 1} /\ row.acct = sent[d][i].acct
      BY <2>2, <2>4 DEF Holds
    <3>3. row.acct = e.acct
      <4>1. CASE i = next
        BY <3>2, <4>1 DEF e
      <4>2. CASE i # next
        <5>1. next = i + 1
          BY <1>1, <3>2, <4>2 DEF next
        <5>2. e.acct = row.acct \/ e.prev = row.acct
          BY <1>1, <3>2, <5>1 DEF e, HInv, CInv, Chain, Linked
        <5>3. ASSUME e.acct # row.acct PROVE FALSE
          <6>1. e.prev \in Accounts /\ e.acct \in Accounts
            BY <1>1, <1>8, <5>2, <5>3 DEF Event, Record
          <6>2. Corrects(row, e)
            BY <1>1, <3>1, <5>2, <5>3, <6>1 DEF Corrects, OneProvider
          <6> QED
            BY <1>1, <1>8, <3>1, <6>2 DEF Updates
        <5> QED
          BY <5>3
      <4> QED
        BY <4>1, <4>2
    <3>4. Holds(d)'
      BY <1>4, <1>5, <2>1, <3>1, <3>3
    <3> QED
      BY <1>4, <1>8, <2>1, <3>4 DEF Held, HInv
  <2> QED
    BY <2>3, <2>4
<1> QED
  BY <1>6, <1>7, <1>8

LEMMA NextHeld ==
  ASSUME OneProvider, MaxLate = 0, HInv, [Next]_vars
  PROVE  Held'
<1>1. ASSUME NEW d \in Devices, ReadLog(d) PROVE Held'
  <2>1. PICK e : sent' = [sent EXCEPT ![d] = Append(@, e)] /\ e \in Event
    <3>1. sent' \in [Devices -> Seq(Event)]
      BY <1>1, NextTInv DEF HInv, CInv, TInv, TypeOK, Next
    <3>2. PICK e : sent' = [sent EXCEPT ![d] = Append(@, e)]
      BY Zenon, <1>1, LogRead DEF RowAfter, Before, Report
    <3>3. sent[d] \in Seq(Event) /\ sent'[d] = Append(sent[d], e) /\ sent'[d] \in Seq(Event)
      BY <3>1, <3>2 DEF HInv, CInv, TInv, TypeOK
    <3>4. e \in Event
      <4>1. Len(sent'[d]) = Len(sent[d]) + 1 /\ sent'[d][Len(sent[d]) + 1] = e
        BY <3>3
      <4> QED
        BY <3>3, <4>1
    <3> QED
      BY <3>2, <3>4
  <2>2. ASSUME NEW h \in Devices, Holds(h) PROVE Holds(h)'
    <3>1. sent[h] \in Seq(Event) /\ UNCHANGED <<row, pos>>
      BY <1>1 DEF HInv, CInv, TInv, TypeOK, ReadLog
    <3>2. sent'[h] = IF h = d THEN Append(sent[h], e) ELSE sent[h]
      BY <2>1 DEF HInv, CInv, TInv, TypeOK
    <3>3. \A i \in 1..Len(sent[h]) : i \in 1..Len(sent'[h]) /\ sent'[h][i] = sent[h][i]
      BY <2>1, <3>1, <3>2
    <3> QED
      BY <2>2, <3>1, <3>3 DEF Holds
  <2> QED
    BY <1>1, <2>2 DEF HInv, Held, ReadLog
<1>2. ASSUME NEW d \in Devices, Deliver(d) PROVE Held'
  BY <1>2, DeliverHeld
<1>3. ASSUME NEW d \in Devices, DeliverLate(d) PROVE FALSE
  BY <1>3 DEF DeliverLate, HInv, CInv, TInv, TypeOK
<1>4. CASE UNCHANGED vars
  BY <1>4 DEF HInv, Held, Holds, vars
<1> QED
  BY <1>1, <1>2, <1>3, <1>4 DEF Next

\* For any number of devices and corrections, in any order and with any number
\* of lost replies: once the owner's devices have uploaded everything and agree
\* on an account, the record is with it, as long as no duplicate comes late.
THEOREM AgreedHeld == OneProvider /\ MaxLate = 0 => (Spec => []AgreedAccountHeld)
<1> SUFFICES ASSUME OneProvider, MaxLate = 0 PROVE Spec => []AgreedAccountHeld
  OBVIOUS
<1>1. Init => HInv
  BY InitTInv, InitChain DEF CInv, HInv, Held, Init
<1>2. HInv /\ [Next]_vars => HInv'
  BY NextCInv, NextHeld DEF HInv
<1>3. ASSUME HInv PROVE AgreedAccountHeld
  <2> SUFFICES ASSUME NEW a \in Accounts, row # NoRow,
                      \A d \in Owners : local[d] # NoRow /\ local[d].acct = a /\ pos[d] = Len(sent[d])
               PROVE  row.acct = a
    BY DEF AgreedAccountHeld
  <2>1. PICK h \in Devices : Holds(h)
    BY <1>3 DEF HInv, Held
  <2>2. h \in Owners
    BY <2>1 DEF Owners, Holds
  <2>3. PICK i \in 1..Len(sent[h]) : i \in {pos[h], pos[h] + 1} /\ row.acct = sent[h][i].acct
    BY <2>1 DEF Holds
  <2>4. sent[h] \in Seq(Event) /\ Len(sent[h]) \in Nat /\ pos[h] = Len(sent[h])
    BY <1>3, <2>2 DEF HInv, CInv, TInv, TypeOK
  <2>5. i = Len(sent[h]) /\ Len(sent[h]) > 0
    BY <2>3, <2>4
  <2>6. local[h].acct = sent[h][Len(sent[h])].acct
    BY <1>3, <2>5 DEF HInv, CInv, Chain, Ends
  <2> QED
    BY <2>2, <2>3, <2>5, <2>6
<1> QED
  BY <1>1, <1>2, <1>3, PTL DEF Spec

-----------------------------------------------------------------------------
(***************************************************************************)
(* Capacity: the weeks of a replay, for every week length, anchor, period, *)
(* demand and limit.                                                       *)
(***************************************************************************)
LEMMA WeekIsPositive == WeeklySpan \in Nat \ {0}
  BY CapacityAssumption

\* Go's quotient leaves a remainder smaller than the divisor, of either sign.
LEMMA QuotientRemainder ==
  ASSUME NEW a \in Int, NEW b \in Nat \ {0}
  PROVE  /\ Quotient(a, b) \in Int
         /\ -b < a - Quotient(a, b) * b
         /\ a - Quotient(a, b) * b < b
<1>1. CASE a >= 0
  <2>1. Quotient(a, b) = a \div b
    BY <1>1 DEF Quotient
  <2>2. a \div b \in Int /\ 0 <= a - (a \div b) * b /\ a - (a \div b) * b < b
    BY <1>1, SMT
  <2> QED BY <2>1, <2>2
<1>2. CASE a < 0
  <2>1. Quotient(a, b) = -((-a) \div b)
    BY <1>2 DEF Quotient
  <2>2. (-a) \div b \in Int /\ 0 <= -a - ((-a) \div b) * b /\ -a - ((-a) \div b) * b < b
    BY <1>2, SMT
  <2> QED BY <2>1, <2>2
<1> QED BY <1>1, <1>2

\* The first week of a replay holds the start of the period, on whichever side
\* of it the reset lies that the replay is anchored at (ReplayWeeklySeries).
THEOREM FirstWeekHoldsFrom ==
  ASSUME NEW anchor \in Int, NEW from \in Int
  PROVE  /\ Steps(anchor, from) \in Int
         /\ anchor + Steps(anchor, from) * WeeklySpan <= from
         /\ from < anchor + (Steps(anchor, from) + 1) * WeeklySpan
<1> DEFINE q == Quotient(from - anchor, WeeklySpan)
<1>1. q \in Int /\ -WeeklySpan < from - anchor - q * WeeklySpan /\ from - anchor - q * WeeklySpan < WeeklySpan
  BY WeekIsPositive, QuotientRemainder
<1>2. CASE from - anchor - q * WeeklySpan < 0
  <2>1. Steps(anchor, from) = q - 1
    BY <1>2 DEF Steps
  <2>2. (q - 1) * WeeklySpan = q * WeeklySpan - WeeklySpan
    BY <1>1, WeekIsPositive
  <2> QED BY <1>1, <1>2, <2>1, <2>2, WeekIsPositive
<1>3. CASE ~(from - anchor - q * WeeklySpan < 0)
  <2>1. Steps(anchor, from) = q
    BY <1>3 DEF Steps
  <2>2. (q + 1) * WeeklySpan = q * WeeklySpan + WeeklySpan
    BY <1>1, WeekIsPositive
  <2> QED BY <1>1, <1>3, <2>1, <2>2, WeekIsPositive
<1> QED BY <1>2, <1>3

\* Multiplication by a natural number keeps the order.
LEMMA MulMono ==
  ASSUME NEW i \in Int, NEW j \in Int, NEW w \in Nat, i <= j
  PROVE  i * w <= j * w
<1>1. (j - i) * w = j * w - i * w
  BY SMT
<1>2. (j - i) * w >= 0
  <2>1. j - i \in Nat
    BY SMT
  <2> QED BY <2>1, SMT
<1> QED BY <1>1, <1>2, SMT

\* The quotient of two naturals is the last multiple that does not pass.
LEMMA DivBounds ==
  ASSUME NEW c \in Nat, NEW w \in Nat \ {0}
  PROVE  /\ c \div w \in Nat
         /\ (c \div w) * w <= c
         /\ c < (c \div w + 1) * w
<1>1. c \div w \in Nat /\ 0 <= c - (c \div w) * w /\ c - (c \div w) * w < w
  BY SMT
<1>2. (c \div w + 1) * w = (c \div w) * w + w
  BY <1>1, SMT
<1> QED BY <1>1, <1>2, SMT

\* The end of the first week of a replay, and how many weeks it has.
FirstEnd(anchor, from) == anchor + (Steps(anchor, from) + 1) * WeeklySpan
WeekCount(anchor, from, to) == (to - FirstEnd(anchor, from) + WeeklySpan - 1) \div WeeklySpan + 1

\* FirstWeekHoldsFrom, said of the end of that week.
LEMMA FirstWeek ==
  ASSUME NEW anchor \in Int, NEW from \in Int
  PROVE  /\ FirstEnd(anchor, from) \in Int
         /\ FirstEnd(anchor, from) - WeeklySpan <= from
         /\ from < FirstEnd(anchor, from)
<1>1. /\ Steps(anchor, from) \in Int
      /\ anchor + Steps(anchor, from) * WeeklySpan <= from
      /\ from < anchor + (Steps(anchor, from) + 1) * WeeklySpan
  BY FirstWeekHoldsFrom
<1>2. (Steps(anchor, from) + 1) * WeeklySpan = Steps(anchor, from) * WeeklySpan + WeeklySpan
  BY <1>1, WeekIsPositive
<1> QED BY <1>1, <1>2, WeekIsPositive DEF FirstEnd

\* The weeks that start before the end of the period are the first WeekCount
\* ones, and the last of them ends at or after it.
LEMMA Counted ==
  ASSUME NEW anchor \in Int, NEW from \in Int, NEW to \in Int, from < to
  PROVE  LET f == FirstEnd(anchor, from)
             n == WeekCount(anchor, from, to)
         IN  /\ n \in Nat \ {0}
             /\ f + (n - 1) * WeeklySpan - WeeklySpan < to
             /\ to <= f + (n - 1) * WeeklySpan
             /\ {k \in 1 .. (to - from) \div WeeklySpan + 2 :
                   f + (k - 1) * WeeklySpan - WeeklySpan < to} = 1..n
<1> DEFINE f == FirstEnd(anchor, from)
           c == to - f + WeeklySpan - 1
           q == c \div WeeklySpan
           m == (to - from) \div WeeklySpan
<1>1. f \in Int /\ f - WeeklySpan <= from /\ from < f
  BY FirstWeek
<1>2. c \in Nat /\ to - from \in Nat
  BY <1>1, WeekIsPositive
<1> HIDE DEF f
<1>3. q \in Nat /\ q * WeeklySpan <= c /\ c < (q + 1) * WeeklySpan
  BY <1>2, WeekIsPositive, DivBounds
<1>4. m \in Nat /\ to - from < (m + 1) * WeeklySpan
  BY <1>2, WeekIsPositive, DivBounds
<1> HIDE DEF q, m
<1>5. (m + 2) * WeeklySpan = (m + 1) * WeeklySpan + WeeklySpan /\ (q + 1) * WeeklySpan = q * WeeklySpan + WeeklySpan
  BY <1>3, <1>4, WeekIsPositive
<1>6. q * WeeklySpan < (m + 2) * WeeklySpan
  BY <1>1, <1>3, <1>4, <1>5, WeekIsPositive
<1>7. q + 1 <= m + 2
  <2>1. SUFFICES ASSUME m + 2 <= q PROVE FALSE
    BY <1>3, <1>4
  <2>2. (m + 2) * WeeklySpan <= q * WeeklySpan
    BY <2>1, <1>3, <1>4, WeekIsPositive, MulMono
  <2> QED BY <2>2, <1>6, <1>3, <1>4, WeekIsPositive
<1>8. ASSUME NEW k \in Nat \ {0} PROVE f + (k - 1) * WeeklySpan - WeeklySpan < to <=> k <= q + 1
  <2>0. (k - 1) * WeeklySpan \in Int /\ q * WeeklySpan \in Int
    BY <1>3, WeekIsPositive
  <2>1. CASE k <= q + 1
    <3>1. (k - 1) * WeeklySpan <= q * WeeklySpan
      BY <2>1, <1>3, WeekIsPositive, MulMono
    <3> QED BY <3>1, <2>0, <2>1, <1>1, <1>3, WeekIsPositive
  <2>2. CASE ~(k <= q + 1)
    <3>1. (q + 1) * WeeklySpan <= (k - 1) * WeeklySpan
      BY <2>2, <1>3, WeekIsPositive, MulMono
    <3> QED BY <3>1, <2>0, <2>2, <1>1, <1>3, <1>5, WeekIsPositive
  <2> QED BY <2>1, <2>2
<1>9. WeekCount(anchor, from, to) = q + 1
  BY DEF WeekCount, q, f
<1>10. {k \in 1 .. m + 2 : f + (k - 1) * WeeklySpan - WeeklySpan < to} = 1 .. q + 1
  <2>1. ASSUME NEW k PROVE k \in {j \in 1 .. m + 2 : f + (j - 1) * WeeklySpan - WeeklySpan < to} <=> k \in 1 .. q + 1
    <3>1. CASE k \in Nat \ {0}
      BY <3>1, <1>3, <1>4, <1>7, <1>8
    <3>2. CASE ~(k \in Nat \ {0})
      BY <3>2, <1>3, <1>4
    <3> QED BY <3>1, <3>2
  <2> QED BY <2>1
<1>11. f + ((q + 1) - 1) * WeeklySpan - WeeklySpan < to /\ to <= f + ((q + 1) - 1) * WeeklySpan
  <2>1. (q + 1) - 1 = q
    BY <1>3
  <2> QED BY <2>1, <1>1, <1>3, <1>5, WeekIsPositive
<1> QED BY <1>3, <1>9, <1>10, <1>11 DEF f, m

\* The bounds of a week do not depend on the demand.
LEMMA WeekSpan ==
  ASSUME NEW demand, NEW capacity, NEW end
  PROVE  /\ Week(demand, capacity, end).start = end - WeeklySpan
         /\ Week(demand, capacity, end).end = end
  BY Zenon DEF Week

\* ReplayWeekly without the set it counts.
LEMMA ReplayIs ==
  ASSUME NEW demand, NEW capacity \in Int, capacity > 0, NEW anchor \in Int, NEW from \in Int, NEW to \in Int, from < to
  PROVE  ReplayWeekly(demand, capacity, anchor, from, to) =
           [k \in 1..WeekCount(anchor, from, to) |->
              Week(demand, capacity, FirstEnd(anchor, from) + (k - 1) * WeeklySpan)]
<1> DEFINE n == WeekCount(anchor, from, to)
<1>1. /\ n \in Nat \ {0}
      /\ {k \in 1 .. (to - from) \div WeeklySpan + 2 :
            FirstEnd(anchor, from) + (k - 1) * WeeklySpan - WeeklySpan < to} = 1..n
  BY Counted
<1>2. Cardinality(1..n) = n
  BY <1>1, FS_Interval
<1>3. ~(capacity <= 0 \/ to <= from)
  OBVIOUS
<1> QED BY <1>1, <1>2, <1>3, Zenon DEF ReplayWeekly, FirstEnd

\* For every demand, limit, anchor and period that is not empty, the weeks of a
\* replay follow one another without gap or overlap, the first holds the start of
\* the period and the last its end: no request of the period is left out and
\* none is counted in two weeks (ReplayWeeklySeries). This is the part of
\* ReplaysAddUp that does not depend on the requests.
THEOREM WeeksCoverPeriod ==
  ASSUME NEW demand, NEW capacity \in Int, capacity > 0, NEW anchor \in Int, NEW from \in Int, NEW to \in Int, from < to
  PROVE  LET weeks == ReplayWeekly(demand, capacity, anchor, from, to)
             n == WeekCount(anchor, from, to)
         IN  /\ n \in Nat \ {0} /\ DOMAIN weeks = 1..n
             /\ weeks[1].start <= from /\ from < weeks[1].end
             /\ \A k \in 1 .. n - 1 : weeks[k + 1].start = weeks[k].end
             /\ weeks[n].start < to /\ to <= weeks[n].end
<1> DEFINE f == FirstEnd(anchor, from)
           n == WeekCount(anchor, from, to)
           weeks == ReplayWeekly(demand, capacity, anchor, from, to)
<1>1. f \in Int /\ f - WeeklySpan <= from /\ from < f
  BY FirstWeek
<1>2. n \in Nat \ {0} /\ f + (n - 1) * WeeklySpan - WeeklySpan < to /\ to <= f + (n - 1) * WeeklySpan
  BY Counted
<1>3. weeks = [k \in 1..n |-> Week(demand, capacity, f + (k - 1) * WeeklySpan)]
  BY ReplayIs
<1> HIDE DEF f, n, weeks
<1> DEFINE End(k) == f + (k - 1) * WeeklySpan
<1>4. ASSUME NEW k \in 1..n
      PROVE  weeks[k].start = End(k) - WeeklySpan /\ weeks[k].end = End(k)
  <2>1. weeks[k] = Week(demand, capacity, End(k))
    BY <1>3
  <2> HIDE DEF End
  <2>2. /\ Week(demand, capacity, End(k)).start = End(k) - WeeklySpan
        /\ Week(demand, capacity, End(k)).end = End(k)
    BY WeekSpan, Zenon
  <2> QED BY <2>1, <2>2
<1>5. End(1) = f /\ 1 \in 1..n /\ n \in 1..n
  BY <1>1, <1>2, WeekIsPositive
<1>6. ASSUME NEW k \in 1 .. n - 1
      PROVE  k \in 1..n /\ k + 1 \in 1..n /\ End(k + 1) - WeeklySpan = End(k)
  <2>1. k \in 1..n /\ k + 1 \in 1..n /\ (k + 1) - 1 = k /\ k \in Int
    BY <1>2
  <2>2. (k - 1) * WeeklySpan = k * WeeklySpan - WeeklySpan
    BY <2>1, WeekIsPositive
  <2> QED BY <2>1, <2>2, <1>1, WeekIsPositive
<1>7. End(n) - WeeklySpan < to /\ to <= End(n)
  BY <1>1, <1>2, WeekIsPositive
<1> HIDE DEF End
<1>8. /\ weeks[1].start <= from /\ from < weeks[1].end
      /\ \A k \in 1 .. n - 1 : weeks[k + 1].start = weeks[k].end
      /\ weeks[n].start < to /\ to <= weeks[n].end
  BY <1>1, <1>4, <1>5, <1>6, <1>7
<1>9. DOMAIN weeks = 1..n
  BY <1>3
<1> QED BY <1>2, <1>8, <1>9 DEF weeks, n

\* Whichever past or future reset a replay is anchored at, it finds the same
\* weeks with the same peaks and hits: a reset that is read a week later changes
\* nothing (ReplayWeeklySeries).
THEOREM AnchorsAgree ==
  ASSUME NEW demand, NEW capacity \in Int, capacity > 0, NEW anchor \in Int, NEW from \in Int, NEW to \in Int,
         from < to, NEW m \in Int
  PROVE  ReplayWeekly(demand, capacity, anchor + m * WeeklySpan, from, to)
           = ReplayWeekly(demand, capacity, anchor, from, to)
<1> DEFINE b == anchor + m * WeeklySpan
<1>1. b \in Int
  BY WeekIsPositive
<1>2. /\ FirstEnd(anchor, from) \in Int /\ FirstEnd(anchor, from) - WeeklySpan <= from /\ from < FirstEnd(anchor, from)
      /\ FirstEnd(b, from) \in Int /\ FirstEnd(b, from) - WeeklySpan <= from /\ from < FirstEnd(b, from)
  BY <1>1, FirstWeek
<1> DEFINE s == Steps(anchor, from)
           t == Steps(b, from)
<1>3. s \in Int /\ t \in Int
  BY <1>1, FirstWeekHoldsFrom
<1>4. FirstEnd(b, from) = anchor + (t + m + 1) * WeeklySpan /\ FirstEnd(anchor, from) = anchor + (s + 1) * WeeklySpan
  <2> HIDE DEF s, t
  <2>1. (t + m + 1) * WeeklySpan = m * WeeklySpan + (t + 1) * WeeklySpan
    BY <1>3, WeekIsPositive
  <2>2. m * WeeklySpan \in Int /\ (t + 1) * WeeklySpan \in Int
    BY <1>3, WeekIsPositive
  <2>3. anchor + (m * WeeklySpan + (t + 1) * WeeklySpan) = b + (t + 1) * WeeklySpan
    BY <2>2
  <2> QED BY <2>1, <2>3 DEF FirstEnd, s, t
<1> HIDE DEF s, t, b
<1>5. s = t + m
  <2> DEFINE x == s + 1
             y == t + m + 1
  <2>1. x \in Int /\ y \in Int
    BY <1>3
  <2>2. /\ anchor + x * WeeklySpan - WeeklySpan < anchor + y * WeeklySpan
        /\ anchor + y * WeeklySpan - WeeklySpan < anchor + x * WeeklySpan
    <3> DEFINE i == FirstEnd(anchor, from)
               j == FirstEnd(b, from)
    <3>1. i = anchor + x * WeeklySpan /\ j = anchor + y * WeeklySpan
      BY <1>4
    <3>2. i \in Int /\ j \in Int /\ i - WeeklySpan < j /\ j - WeeklySpan < i
      <4>1. i \in Int /\ i - WeeklySpan <= from /\ from < i /\ j \in Int /\ j - WeeklySpan <= from /\ from < j
        BY <1>2
      <4> HIDE DEF i, j
      <4> QED BY <4>1, WeekIsPositive
    <3> HIDE DEF i, j, x, y
    <3> QED BY <2>1, <3>1, <3>2, WeekIsPositive
  <2>3. (x - 1) * WeeklySpan = x * WeeklySpan - WeeklySpan /\ (y - 1) * WeeklySpan = y * WeeklySpan - WeeklySpan
        /\ x * WeeklySpan \in Int /\ y * WeeklySpan \in Int
    BY <2>1, WeekIsPositive
  <2> HIDE DEF x, y
  <2>4. ~(y <= x - 1)
    <3>1. y <= x - 1 => y * WeeklySpan <= (x - 1) * WeeklySpan
      BY <2>1, WeekIsPositive, MulMono
    <3> QED BY <3>1, <2>2, <2>3, WeekIsPositive
  <2>5. ~(x <= y - 1)
    <3>1. x <= y - 1 => x * WeeklySpan <= (y - 1) * WeeklySpan
      BY <2>1, WeekIsPositive, MulMono
    <3> QED BY <3>1, <2>2, <2>3, WeekIsPositive
  <2>6. x = y
    BY <2>1, <2>4, <2>5
  <2> QED BY <2>6, <1>3 DEF x, y
<1>6. FirstEnd(b, from) = FirstEnd(anchor, from)
  BY <1>3, <1>4, <1>5
<1>7. WeekCount(b, from, to) = WeekCount(anchor, from, to)
  BY <1>6 DEF WeekCount
<1>8. ReplayWeekly(demand, capacity, b, from, to) = ReplayWeekly(demand, capacity, anchor, from, to)
  <2>1. ReplayWeekly(demand, capacity, b, from, to) =
           [k \in 1..WeekCount(b, from, to) |->
              Week(demand, capacity, FirstEnd(b, from) + (k - 1) * WeeklySpan)]
    BY <1>1, ReplayIs
  <2>2. ReplayWeekly(demand, capacity, anchor, from, to) =
           [k \in 1..WeekCount(anchor, from, to) |->
              Week(demand, capacity, FirstEnd(anchor, from) + (k - 1) * WeeklySpan)]
    BY ReplayIs
  <2> QED BY <2>1, <2>2, <1>6, <1>7
<1> QED BY <1>8 DEF b

-----------------------------------------------------------------------------
(***************************************************************************)
(* Loops, as facts about what they compute.                                *)
(***************************************************************************)
\* Every non-empty set of natural numbers has a least one.
LEMMA Least ==
  ASSUME NEW S, S \subseteq Nat, S # {}
  PROVE  \E i \in S : \A j \in S : i <= j
<1> DEFINE R == OpToRel(<, Nat)
<1>1. IsWellFoundedOn(R, Nat)
  BY Zenon, NatLessThanWellFounded
<1>2. \A x, y \in Nat : <<x, y>> \in R <=> x < y
  BY DEF OpToRel
<1> HIDE DEF R
<1>3. PICK x \in S : \A y \in S : ~ (<<y, x>> \in R)
  BY <1>1, WFMin
<1>4. x \in Nat /\ \A y \in S : y \in Nat /\ ~(y < x)
  BY <1>2, <1>3
<1>5. \A y \in S : x <= y
  BY <1>4
<1> QED BY <1>5

\* A set of numbers that holds 0, and every number whose predecessor it
\* holds, holds them all: induction as a fact about a set.
LEMMA UpTo ==
  ASSUME NEW n \in Nat, NEW S, 0 \in S, \A i \in 1..n : i - 1 \in S => i \in S
  PROVE  0..n \subseteq S
<1> DEFINE Bad == {i \in 0..n : i \notin S}
<1> SUFFICES ASSUME Bad # {} PROVE FALSE
  OBVIOUS
<1>1. PICK i \in Bad : \A j \in Bad : i <= j
  <2>1. Bad \subseteq Nat
    OBVIOUS
  <2> HIDE DEF Bad
  <2> QED BY <2>1, Least
<1>2. i \in 0..n /\ i \notin S
  BY <1>1
<1>3. i \in 1..n /\ i - 1 \in 0..n
  BY <1>2
<1>4. i - 1 \notin Bad
  BY <1>1, <1>3
<1> QED BY <1>2, <1>3, <1>4

\* f has the value of a loop after each of its n steps, from a on: the i-th
\* step applies F[i].
Runs(n, A, a, F, f) ==
  f \in [0..n -> A] /\ f[0] = a /\ \A i \in 1..n : f[i] = F[i][f[i - 1]]

\* Such a loop runs.
LEMMA Loop ==
  ASSUME NEW n \in Nat, NEW A, NEW a \in A, NEW F \in [1..n -> [A -> A]]
  PROVE  \E f : Runs(n, A, a, F, f)
<1> DEFINE S == {k \in 0..n : \E f \in [0..k -> A] : Runs(k, A, a, F, f)}
<1>1. 0 \in S
  <2> DEFINE f == [i \in 0..0 |-> a]
  <2>1. f \in [0..0 -> A] /\ Runs(0, A, a, F, f)
    BY DEF Runs
  <2> HIDE DEF f
  <2> QED BY <2>1
<1>2. ASSUME NEW k \in 1..n, k - 1 \in S PROVE k \in S
  <2>1. PICK f \in [0..(k - 1) -> A] : Runs(k - 1, A, a, F, f)
    BY <1>2
  <2> DEFINE g == [i \in 0..k |-> IF i = k THEN F[k][f[k - 1]] ELSE f[i]]
  <2>2. f[k - 1] \in A
    BY <2>1
  <2>3. F[k][f[k - 1]] \in A
    BY <2>2
  <2>4. g \in [0..k -> A]
    BY <2>1, <2>3
  <2>5. g[0] = a
    BY <2>1 DEF Runs
  <2>6. ASSUME NEW i \in 1..k PROVE g[i] = F[i][g[i - 1]]
    <3>1. g[i - 1] = f[i - 1] /\ i - 1 \in 0..(k - 1)
      OBVIOUS
    <3>2. CASE i = k
      <4>1. g[k] = F[k][f[k - 1]]
        OBVIOUS
      <4> HIDE DEF g
      <4> QED BY <3>1, <3>2, <4>1
    <3>3. CASE i # k
      <4>1. i \in 1..(k - 1)
        BY <3>3
      <4> QED BY <2>1, <3>1, <3>3, <4>1 DEF Runs
    <3> QED BY <3>2, <3>3
  <2>7. Runs(k, A, a, F, g)
    BY <2>4, <2>5, <2>6 DEF Runs
  <2> HIDE DEF g
  <2> QED BY <2>4, <2>7
<1>3. n \in S
  <2> HIDE DEF S
  <2>1. 0..n \subseteq S
    BY <1>1, <1>2, UpTo
  <2> QED BY <2>1
<1> QED BY <1>3

-----------------------------------------------------------------------------
(***************************************************************************)
(* Capacity: the rate of a plan, in whatever order the calibrations are met. *)
(***************************************************************************)
\* The plans met so far that have a published multiple.
Met(order, i) == {order[j] : j \in 1..i} \cap Multiples

\* b is the best of S, or nothing if S is empty.
Best(cal, b, S) ==
  IF S = {} THEN b = Unknown ELSE b \in S /\ \A p \in S : p = b \/ Better(cal, b, p)

\* What FiveHourRate meets: the plans that gave samples, none without a name,
\* with names that an order tells apart.
Calibrations(cal) ==
  /\ cal \in [DOMAIN cal -> Nat]
  /\ Unknown \notin DOMAIN cal
  /\ \A p \in DOMAIN cal \cap Multiples : PlanOrder[p] \in Int
  /\ \A p, q \in DOMAIN cal \cap Multiples : PlanOrder[p] = PlanOrder[q] => p = q

\* Better orders the plans: of two different ones just one is better, and it
\* is better than what the other is better than.
LEMMA BetterOrders ==
  ASSUME NEW cal, Calibrations(cal), NEW p \in DOMAIN cal \cap Multiples,
         NEW q \in DOMAIN cal \cap Multiples, NEW r \in DOMAIN cal \cap Multiples
  PROVE  /\ p # q => Better(cal, p, q) \/ Better(cal, q, p)
         /\ ~(Better(cal, p, q) /\ Better(cal, q, p))
         /\ Better(cal, p, q) /\ Better(cal, q, r) => Better(cal, p, r)
<1>1. /\ cal[p] \in Nat /\ cal[q] \in Nat /\ cal[r] \in Nat
      /\ PlanOrder[p] \in Int /\ PlanOrder[q] \in Int /\ PlanOrder[r] \in Int
      /\ PlanOrder[p] = PlanOrder[q] => p = q
  BY DEF Calibrations
<1> QED BY <1>1 DEF Better

\* Meeting a plan keeps the best of those met.
LEMMA BestKept ==
  ASSUME NEW cal, Calibrations(cal), NEW S, S \subseteq DOMAIN cal \cap Multiples,
         NEW b, Best(cal, b, S), NEW p \in DOMAIN cal
  PROVE  Best(cal, Preferred(cal, p, b), S \cup ({p} \cap Multiples))
<1>1. CASE p \notin Multiples
  <2>1. Preferred(cal, p, b) = b /\ S \cup ({p} \cap Multiples) = S
    BY <1>1 DEF Preferred
  <2> QED BY <2>1
<1>2. CASE p \in Multiples
  <2> DEFINE T == S \cup {p}
  <2>0. S \cup ({p} \cap Multiples) = T /\ T # {}
    BY <1>2
  <2>1. CASE S = {}
    <3>1. b = Unknown
      BY <2>1 DEF Best
    <3>2. Preferred(cal, p, b) = p /\ T = {p}
      BY <1>2, <2>1, <3>1 DEF Preferred
    <3> QED BY <2>0, <3>2 DEF Best
  <2>2. CASE S # {}
    <3>1. b \in S /\ \A q \in S : q = b \/ Better(cal, b, q)
      BY <2>2 DEF Best
    <3>2. b \in DOMAIN cal \cap Multiples /\ p \in DOMAIN cal \cap Multiples /\ b # Unknown
      BY <1>2, <3>1 DEF Calibrations
    <3>3. CASE Better(cal, p, b)
      <4>1. Preferred(cal, p, b) = p
        BY <1>2, <3>3 DEF Preferred
      <4>2. ASSUME NEW q \in T, q # p PROVE Better(cal, p, q)
        <5>1. q \in S /\ q \in DOMAIN cal \cap Multiples
          BY <4>2
        <5>2. CASE q = b
          BY <3>3, <5>2
        <5>3. CASE Better(cal, b, q)
          BY <3>2, <3>3, <5>1, <5>3, BetterOrders
        <5> QED BY <3>1, <5>1, <5>2, <5>3
      <4> QED BY <2>0, <4>1, <4>2 DEF Best
    <3>4. CASE ~Better(cal, p, b)
      <4>1. Preferred(cal, p, b) = b
        BY <3>2, <3>4 DEF Preferred
      <4>2. p = b \/ Better(cal, b, p)
        BY <3>2, <3>4, BetterOrders
      <4> QED BY <2>0, <3>1, <4>1, <4>2 DEF Best
    <3> QED BY <3>3, <3>4
  <2> HIDE DEF T
  <2> QED BY <2>1, <2>2
<1> QED BY <1>1, <1>2

\* There is one best.
LEMMA OneBest ==
  ASSUME NEW cal, Calibrations(cal), NEW S, S \subseteq DOMAIN cal \cap Multiples,
         NEW b, Best(cal, b, S), NEW c, Best(cal, c, S)
  PROVE  b = c
<1>1. CASE S = {}
  BY <1>1 DEF Best
<1>2. CASE S # {}
  <2>1. b \in S /\ c \in S /\ (c = b \/ Better(cal, b, c)) /\ (b = c \/ Better(cal, c, b))
    BY <1>2 DEF Best
  <2>2. ~(Better(cal, b, c) /\ Better(cal, c, b))
    BY <2>1, BetterOrders
  <2> QED BY <2>1, <2>2
<1> QED BY <1>1, <1>2

\* The plan kept after each calibration met: its loop.
Keeps(cal, order) ==
  LET best[i \in 0..Len(order)] == IF i = 0 THEN Unknown ELSE Preferred(cal, order[i], best[i - 1])
  IN  best

\* The loop ends with the best of the plans met.
LEMMA KeepsBest ==
  ASSUME NEW cal, Calibrations(cal), NEW order \in Seq(DOMAIN cal)
  PROVE  Best(cal, Keeps(cal, order)[Len(order)], Met(order, Len(order)))
<1> DEFINE n == Len(order)
           D == DOMAIN cal
           A == D \cup {Unknown}
           Step(b, i) == Preferred(cal, order[i], b)
           F == [i \in 1..n |-> [b \in A |-> Step(b, i)]]
           g == Keeps(cal, order)
<1>1. n \in Nat /\ Unknown \in A
  BY LenProperties
<1>2. ASSUME NEW i \in 1..n PROVE order[i] \in D
  BY ElementOfSeq, LenProperties
<1>3. ASSUME NEW i \in 1..n, NEW b \in A PROVE Step(b, i) \in A
  BY <1>2 DEF Preferred
<1>4. g = CHOOSE h : h = [i \in 0..n |-> IF i = 0 THEN Unknown ELSE Step(h[i - 1], i)]
  BY Zenon DEF Keeps
<1> HIDE DEF A, n, g, Step
<1>5. F \in [1..n -> [A -> A]]
  BY <1>3
<1>6. PICK f : f \in [0..n -> A] /\ f[0] = Unknown /\ \A i \in 1..n : f[i] = F[i][f[i - 1]]
  <2> HIDE DEF F
  <2>1. \E f : Runs(n, A, Unknown, F, f)
    BY <1>1, <1>5, Loop
  <2> QED BY <2>1 DEF Runs
<1>7. ASSUME NEW i \in 1..n PROVE f[i] = Step(f[i - 1], i)
  <2>1. f[i - 1] \in A /\ f[i] = F[i][f[i - 1]]
    BY <1>1, <1>6
  <2> QED BY <2>1
<1> HIDE DEF F
<1>8. f = [i \in 0..n |-> IF i = 0 THEN Unknown ELSE Step(f[i - 1], i)]
  <2>1. \A i \in 0..n : f[i] = IF i = 0 THEN Unknown ELSE Step(f[i - 1], i)
    BY <1>1, <1>6, <1>7
  <2> QED BY <1>6, <2>1
<1>9. g = [i \in 0..n |-> IF i = 0 THEN Unknown ELSE Step(g[i - 1], i)]
  BY <1>4, <1>8
<1>10. \A i \in 0..n : g[i] = IF i = 0 THEN Unknown ELSE Step(g[i - 1], i)
  BY <1>9
<1>11. g[0] = Unknown /\ \A i \in 1..n : g[i] = Step(g[i - 1], i)
  BY <1>1, <1>10
<1> DEFINE S == {i \in 0..n : Best(cal, g[i], Met(order, i))}
<1>12. 0 \in S
  <2>1. Met(order, 0) = {}
    BY DEF Met
  <2> QED BY <1>1, <1>11, <2>1 DEF Best
<1>13. ASSUME NEW i \in 1..n, i - 1 \in S PROVE i \in S
  <2> DEFINE b == g[i - 1]
             M == Met(order, i - 1)
             p == order[i]
  <2>1. i \in 0..n /\ Best(cal, b, M) /\ p \in D
    BY <1>1, <1>2, <1>13
  <2>2. M \subseteq D \cap Multiples
    BY <1>1, <1>2 DEF Met
  <2>3. Met(order, i) = M \cup ({p} \cap Multiples)
    <3>1. 1..i = (1..(i - 1)) \cup {i}
      BY <1>1
    <3> QED BY <3>1 DEF Met
  <2>4. g[i] = Preferred(cal, p, b)
    BY <1>11 DEF Step
  <2> HIDE DEF b, M, p
  <2>5. Best(cal, Preferred(cal, p, b), M \cup ({p} \cap Multiples))
    BY <2>1, <2>2, BestKept
  <2> QED BY <2>1, <2>3, <2>4, <2>5
<1> HIDE DEF S
<1>14. 0..n \subseteq S
  BY <1>1, <1>12, <1>13, UpTo
<1>15. Best(cal, g[n], Met(order, n))
  BY <1>1, <1>14 DEF S
<1> QED BY <1>15 DEF n, g

\* The plan a rate is derived from is the best of those with samples and a
\* published multiple, in whatever order the map gives the calibrations, so the
\* rate is the same every time; and none of them has more samples
\* (FiveHourRate). This is what RateMeasured says of the derived rate.
THEOREM RateUnordered ==
  ASSUME NEW cal, Calibrations(cal), NEW plan,
         NEW one \in Seq(DOMAIN cal), Range(one) = DOMAIN cal,
         NEW other \in Seq(DOMAIN cal), Range(other) = DOMAIN cal
  PROVE  LET rate == FiveHourRate(plan, cal, one)
         IN  /\ rate = FiveHourRate(plan, cal, other)
             /\ rate.basis = "derived" =>
                  /\ rate.from \in DOMAIN cal \cap Multiples
                  /\ \A p \in DOMAIN cal \cap Multiples : cal[p] <= cal[rate.from]
<1> DEFINE D == DOMAIN cal
           K == D \cap Multiples
           b == Keeps(cal, one)[Len(one)]
           c == Keeps(cal, other)[Len(other)]
<1>1. ASSUME NEW o \in Seq(D), Range(o) = D PROVE Met(o, Len(o)) = K
  <2>1. DOMAIN o = 1..Len(o)
    OBVIOUS
  <2> QED BY <1>1, <2>1 DEF Met, Range
<1>2. Best(cal, b, K) /\ Best(cal, c, K)
  <2>1. Best(cal, b, Met(one, Len(one))) /\ Best(cal, c, Met(other, Len(other)))
    BY KeepsBest
  <2> QED BY <1>1, <2>1
<1>3. b = c
  <2> HIDE DEF b, c
  <2> QED BY <1>2, OneBest
<1> DEFINE Rate(s) ==
             IF plan \in D /\ cal[plan] >= MinFiveHourSamples THEN [from |-> plan, basis |-> "measured"]
             ELSE IF plan \notin Multiples \/ s = Unknown THEN [from |-> Unknown, basis |-> "insufficient"]
             ELSE [from |-> s, basis |-> "derived"]
<1>4. FiveHourRate(plan, cal, one) = Rate(b) /\ FiveHourRate(plan, cal, other) = Rate(c)
  BY Zenon DEF FiveHourRate, Keeps
<1> HIDE DEF b, c
<1>5. ASSUME Rate(b).basis = "derived"
      PROVE  Rate(b).from \in K /\ \A p \in K : cal[p] <= cal[Rate(b).from]
  <2>1. b # Unknown /\ Rate(b).from = b
    BY <1>5
  <2>2. b \in K /\ \A p \in K : p = b \/ Better(cal, b, p)
    BY <1>2, <2>1 DEF Best
  <2>3. \A p \in K : cal[p] \in Nat
    BY DEF Calibrations
  <2>4. \A p \in K : cal[p] <= cal[b]
    BY <2>2, <2>3 DEF Better
  <2> HIDE DEF Rate
  <2> QED BY <2>1, <2>2, <2>4
<1> HIDE DEF Rate
<1> QED BY <1>3, <1>4, <1>5

-----------------------------------------------------------------------------
(***************************************************************************)
(* Capacity: the sessions of a replay, for every demand, limit, session    *)
(* length and period.                                                      *)
(***************************************************************************)
\* A replay in progress.
SessionsOpen == [end : Int, used : Nat, counted : BOOLEAN, hit : BOOLEAN]
Replays == [session : SessionsOpen, windows : Nat, hits : Nat, firstHit : Int,
            peak : Nat, total : Nat, blocked : Nat, series : Seq([at : Int, use : Nat])]
Demands == [at : Nat, weight : Int]

\* The greater of two numbers.
LEMMA MaxOfTwo ==
  ASSUME NEW a \in Nat, NEW b \in Nat
  PROVE  Max({a, b}) = IF a >= b THEN a ELSE b
<1> DEFINE m == IF a >= b THEN a ELSE b
<1>1. m \in {a, b} /\ \A y \in {a, b} : m >= y
  OBVIOUS
<1>2. \A x \in {a, b} : (\A y \in {a, b} : x >= y) => x = m
  OBVIOUS
<1> HIDE DEF m
<1>3. (CHOOSE x \in {a, b} : \A y \in {a, b} : x >= y) = m
  BY <1>1, <1>2
<1> QED BY <1>3 DEF Max, m

\* What closing a session changes: a counted one gives the peak its use.
IsClosed(x, r) ==
  x = [r EXCEPT !.peak = IF r.session.counted /\ r.session.used > r.peak THEN r.session.used ELSE r.peak,
                !.series = IF r.session.counted THEN Append(r.series, Point(r.session.end, 0)) ELSE r.series]

LEMMA Closed ==
  ASSUME NEW r \in Replays
  PROVE  CloseSession(r) \in Replays /\ IsClosed(CloseSession(r), r)
<1>1. r.session \in SessionsOpen /\ r.peak \in Nat /\ r.session.used \in Nat /\ r.session.end \in Int
  BY DEF Replays, SessionsOpen
<1>2. r.series \in Seq([at : Int, use : Nat])
  BY DEF Replays
<1>3. Point(r.session.end, 0) \in [at : Int, use : Nat]
  BY <1>1 DEF Point
<1>4. Append(r.series, Point(r.session.end, 0)) \in Seq([at : Int, use : Nat])
  BY <1>2, <1>3, AppendProperties
<1> DEFINE s == Append(r.series, Point(r.session.end, 0))
<1>5. CASE r.session.counted
  <2> DEFINE p == IF r.session.used > r.peak THEN r.session.used ELSE r.peak
  <2>1. Max({r.peak, r.session.used}) = p /\ p \in Nat
    BY <1>1, MaxOfTwo
  <2> HIDE DEF p
  <2>2. CloseSession(r) = [r EXCEPT !.peak = p, !.series = s]
    BY Zenon, <1>5, <2>1 DEF CloseSession
  <2>3. s \in Seq([at : Int, use : Nat])
    BY <1>4
  <2> HIDE DEF s
  <2>4. CloseSession(r) \in Replays
    BY <1>1, <2>1, <2>2, <2>3 DEF Replays
  <2> QED BY <1>5, <2>2, <2>4 DEF s, p, IsClosed
<1>6. CASE ~r.session.counted
  <2>1. CloseSession(r) = r
    BY <1>6 DEF CloseSession
  <2> QED BY <1>6, <2>1 DEF Replays, IsClosed
<1> QED BY <1>5, <1>6

\* Field by field.
LEMMA ClosedFields ==
  ASSUME NEW g \in Replays
  PROVE  LET r == CloseSession(g)
         IN  /\ r.hits = g.hits /\ r.windows = g.windows /\ r.firstHit = g.firstHit
             /\ r.total = g.total /\ r.blocked = g.blocked
             /\ r.peak = IF g.session.counted /\ g.session.used > g.peak THEN g.session.used ELSE g.peak
             /\ r.series = IF g.session.counted THEN Append(g.series, Point(g.session.end, 0)) ELSE g.series
<1> DEFINE x == CloseSession(g)
           p == IF g.session.counted /\ g.session.used > g.peak THEN g.session.used ELSE g.peak
           s == IF g.session.counted THEN Append(g.series, Point(g.session.end, 0)) ELSE g.series
<1>1. x = [g EXCEPT !.peak = p, !.series = s]
  BY Zenon, Closed DEF IsClosed
<1> HIDE DEF x, p, s
<1>2. /\ x.hits = g.hits /\ x.windows = g.windows /\ x.firstHit = g.firstHit
      /\ x.total = g.total /\ x.blocked = g.blocked
      /\ x.peak = p /\ x.series = s
  BY <1>1 DEF Replays
<1> QED BY <1>2 DEF x, p, s

\* Whether a request opens a session.
Opens(r, d) == r.session.end = NoTime \/ d.at >= r.session.end

\* Whether a request lies in the period, and whether it is a session's hit.
InPeriod(d, from, to) == from <= d.at /\ d.at < to
Hits(r, d, capacity) == ~r.session.hit /\ r.session.used + d.weight > capacity

\* What opening a session changes.
IsOpened(o, r, d, window, from, to) ==
  /\ o.session = [end |-> d.at + window, used |-> 0, counted |-> InPeriod(d, from, to), hit |-> FALSE]
  /\ o.windows = r.windows + (IF InPeriod(d, from, to) THEN 1 ELSE 0)
  /\ o.hits = r.hits /\ o.firstHit = r.firstHit /\ o.total = r.total /\ o.blocked = r.blocked
  /\ o.peak = CloseSession(r).peak /\ o.series = CloseSession(r).series

LEMMA Opened ==
  ASSUME NEW r \in Replays, NEW d \in Demands, NEW window \in Nat, NEW from \in Int, NEW to \in Int, Opens(r, d)
  PROVE  /\ OpenSession(r, d, window, from, to) \in Replays
         /\ IsOpened(OpenSession(r, d, window, from, to), r, d, window, from, to)
<1> DEFINE counted == from <= d.at /\ d.at < to
           x == CloseSession(r)
           new == [end |-> d.at + window, used |-> 0, counted |-> counted, hit |-> FALSE]
           o == OpenSession(r, d, window, from, to)
<1>1. x \in Replays /\ x.hits = r.hits /\ x.firstHit = r.firstHit /\ x.total = r.total
      /\ x.blocked = r.blocked /\ x.windows = r.windows
  <2> DEFINE p == IF r.session.counted /\ r.session.used > r.peak THEN r.session.used ELSE r.peak
             s == IF r.session.counted THEN Append(r.series, Point(r.session.end, 0)) ELSE r.series
  <2>1. x = [r EXCEPT !.peak = p, !.series = s]
    BY Zenon, Closed DEF IsClosed
  <2> HIDE DEF p, s
  <2>2. x \in Replays
    BY Closed
  <2> HIDE DEF x
  <2> QED BY <2>1, <2>2 DEF Replays
<1>2. new \in SessionsOpen
  BY DEF SessionsOpen, Demands
<1>3. o = [x EXCEPT !.session = new, !.windows = @ + (IF counted THEN 1 ELSE 0)]
  BY DEF OpenSession, Opens
<1>4. counted \in BOOLEAN
  OBVIOUS
<1> HIDE DEF x, new, o, counted
<1>5. o = [x EXCEPT !.session = new, !.windows = x.windows + (IF counted THEN 1 ELSE 0)]
  BY <1>3
<1>6. x.windows + (IF counted THEN 1 ELSE 0) \in Nat
  BY <1>1 DEF Replays
<1>7. o \in Replays
  BY <1>1, <1>2, <1>5, <1>6 DEF Replays
<1>8. o.session = new /\ o.windows = r.windows + (IF counted THEN 1 ELSE 0)
      /\ o.hits = r.hits /\ o.firstHit = r.firstHit /\ o.total = r.total /\ o.blocked = r.blocked
      /\ o.peak = x.peak /\ o.series = x.series
  BY <1>1, <1>5 DEF Replays
<1> QED BY <1>7, <1>8 DEF x, new, o, counted, InPeriod, IsOpened

\* What using a session changes.
IsUsed(u, r, d, capacity) ==
  /\ u.session.used = r.session.used + d.weight
  /\ u.session.end = r.session.end /\ u.session.counted
  /\ u.session.hit <=> r.session.hit \/ Hits(r, d, capacity)
  /\ u.hits = r.hits + (IF Hits(r, d, capacity) THEN 1 ELSE 0)
  /\ u.firstHit = (IF Hits(r, d, capacity) /\ r.firstHit = NoTime THEN d.at ELSE r.firstHit)
  /\ u.total = r.total + d.weight
  /\ u.blocked = r.blocked + (IF r.session.hit THEN d.weight ELSE 0)
  /\ u.windows = r.windows /\ u.peak = r.peak
  /\ u.series = Append(r.series, Point(d.at, r.session.used + d.weight))

LEMMA InSession ==
  ASSUME NEW r \in Replays, NEW d \in Demands, NEW capacity \in Nat, d.weight > 0, r.session.counted
  PROVE  UseSession(r, d, capacity) \in Replays /\ IsUsed(UseSession(r, d, capacity), r, d, capacity)
<1> DEFINE used == r.session.used + d.weight
           hits == ~r.session.hit /\ used > capacity
           s == Append(r.series, Point(d.at, used))
           new == [r.session EXCEPT !.used = used, !.hit = r.session.hit \/ hits]
           u == UseSession(r, d, capacity)
<1>1. /\ r.session \in SessionsOpen /\ r.session.used \in Nat /\ d.weight \in Nat /\ d.at \in Nat
      /\ r.session.hit \in BOOLEAN
  BY DEF Replays, SessionsOpen, Demands
<1>2. used \in Nat
  BY <1>1
<1>3. hits \in BOOLEAN
  OBVIOUS
<1>4. s \in Seq([at : Int, use : Nat])
  <2>1. r.series \in Seq([at : Int, use : Nat])
    BY DEF Replays
  <2>2. Point(d.at, used) \in [at : Int, use : Nat]
    BY <1>1, <1>2 DEF Point
  <2> QED BY <2>1, <2>2, AppendProperties
<1>5. new \in SessionsOpen
  BY <1>1, <1>2, <1>3 DEF SessionsOpen
<1> DEFINE first == IF hits /\ r.firstHit = NoTime THEN d.at ELSE r.firstHit
           more == r.hits + (IF hits THEN 1 ELSE 0)
           refused == r.blocked + (IF r.session.hit THEN d.weight ELSE 0)
<1>6. u = [r EXCEPT !.total = @ + d.weight,
                    !.blocked = @ + (IF r.session.hit THEN d.weight ELSE 0),
                    !.session = new,
                    !.series = s,
                    !.hits = @ + (IF hits THEN 1 ELSE 0),
                    !.firstHit = IF hits /\ @ = NoTime THEN d.at ELSE @]
  BY ZenonT(60), <1>1 DEF UseSession, Past
<1>7. /\ first \in Int /\ more \in Nat /\ refused \in Nat /\ r.total + d.weight \in Nat
  <2>1. r.hits \in Nat /\ r.blocked \in Nat /\ r.total \in Nat /\ r.firstHit \in Int
    BY DEF Replays
  <2> HIDE DEF hits
  <2> QED BY <1>1, <1>3, <2>1
<1>8. /\ new.used = used /\ new.end = r.session.end /\ new.counted
       /\ new.hit = (r.session.hit \/ hits)
  <2> HIDE DEF used, hits
  <2> QED BY <1>1 DEF SessionsOpen
<1> HIDE DEF used, hits, s, new, u
<1>9. u = [r EXCEPT !.total = r.total + d.weight, !.blocked = refused, !.session = new,
                    !.series = s, !.hits = more, !.firstHit = first]
  BY <1>6
<1> HIDE DEF first, more, refused
<1>10. u \in Replays
  BY <1>4, <1>5, <1>7, <1>9 DEF Replays
<1>11. /\ u.session = new
      /\ u.hits = r.hits + (IF hits THEN 1 ELSE 0)
      /\ u.firstHit = (IF hits /\ r.firstHit = NoTime THEN d.at ELSE r.firstHit)
      /\ u.total = r.total + d.weight
      /\ u.blocked = r.blocked + (IF r.session.hit THEN d.weight ELSE 0)
      /\ u.windows = r.windows /\ u.peak = r.peak
      /\ u.series = s
  BY <1>9 DEF Replays, first, more, refused
<1>12. /\ u.session.used = used /\ u.session.end = r.session.end /\ u.session.counted
       /\ u.session.hit <=> r.session.hit \/ hits
  BY Zenon, <1>11, <1>8
<1> QED BY Zenon, <1>10, <1>11, <1>12 DEF used, hits, s, u, Hits, IsUsed

\* What holds of a replay after every request: a limit is hit once in a session
\* whose use is past it, and what is refused, a full session of each hit, and the
\* use of a session not hit are different demand.
Sound(r, capacity) ==
  /\ r.session.hit <=> r.session.used > capacity
  /\ r.session.used > 0 => r.session.counted
  /\ r.hits > 0 <=> r.peak > capacity \/ r.session.hit
  /\ r.hits > 0 <=> r.firstHit # NoTime
  /\ r.blocked > 0 => r.hits > 0
  /\ r.blocked + (capacity + 1) * r.hits + (IF r.session.hit THEN 0 ELSE r.session.used) <= r.total
  /\ r.hits + (IF r.session.counted /\ ~r.session.hit THEN 1 ELSE 0) <= r.windows

\* The same demand at a larger limit: the same sessions, and what is spared.
Eased(m, r) ==
  /\ m.session.end = r.session.end /\ m.session.used = r.session.used
  /\ m.session.counted = r.session.counted
  /\ m.session.hit => r.session.hit
  /\ m.windows = r.windows /\ m.total = r.total /\ m.peak = r.peak /\ m.series = r.series
  /\ m.hits + (IF r.session.hit /\ ~m.session.hit THEN 1 ELSE 0) <= r.hits
  /\ m.blocked <= r.blocked

\* The types of the fields a step's arithmetic is about.
LEMMA Fields ==
  ASSUME NEW r \in Replays
  PROVE  /\ r.session.end \in Int /\ r.session.used \in Nat
         /\ r.session.counted \in BOOLEAN /\ r.session.hit \in BOOLEAN
         /\ r.windows \in Nat /\ r.hits \in Nat /\ r.firstHit \in Int /\ r.peak \in Nat
         /\ r.total \in Nat /\ r.blocked \in Nat
BY DEF Replays, SessionsOpen

\* Opening a session keeps a replay sound.
LEMMA OpenedSound ==
  ASSUME NEW r \in Replays, NEW d \in Demands, NEW window \in Nat, NEW from \in Int, NEW to \in Int,
         Opens(r, d), NEW capacity \in Nat, Sound(r, capacity)
  PROVE  Sound(OpenSession(r, d, window, from, to), capacity)
<1> DEFINE o == OpenSession(r, d, window, from, to)
           counted == InPeriod(d, from, to)
<1>1. /\ o.session.used = 0 /\ o.session.counted = counted /\ o.session.hit = FALSE
      /\ o.windows = r.windows + (IF counted THEN 1 ELSE 0)
      /\ o.hits = r.hits /\ o.firstHit = r.firstHit /\ o.total = r.total /\ o.blocked = r.blocked
  <2>1. IsOpened(o, r, d, window, from, to)
    BY Zenon, Opened
  <2> HIDE DEF o, counted
  <2> QED BY <2>1 DEF IsOpened, counted
<1>2. o.peak = IF r.session.counted /\ r.session.used > r.peak THEN r.session.used ELSE r.peak
  <2>1. o.peak = CloseSession(r).peak
    <3>1. IsOpened(o, r, d, window, from, to)
      BY Zenon, Opened
    <3> HIDE DEF o
    <3> QED BY Zenon, <3>1 DEF IsOpened
  <2>2. CloseSession(r).peak = IF r.session.counted /\ r.session.used > r.peak THEN r.session.used ELSE r.peak
    BY ClosedFields
  <2> QED BY <2>1, <2>2
<1>3. counted \in BOOLEAN
  BY DEF InPeriod
<1> HIDE DEF o, counted
<1>4. /\ r.session.used \in Nat /\ r.session.counted \in BOOLEAN /\ r.session.hit \in BOOLEAN
      /\ r.windows \in Nat /\ r.hits \in Nat /\ r.peak \in Nat /\ r.total \in Nat /\ r.blocked \in Nat
      /\ (capacity + 1) * r.hits \in Nat
  BY Fields
<1>5. o.peak > capacity <=> r.peak > capacity \/ r.session.hit
  BY <1>2, <1>4 DEF Sound
<1>6. o.blocked + (capacity + 1) * o.hits + (IF o.session.hit THEN 0 ELSE o.session.used) <= o.total
  BY <1>1, <1>4 DEF Sound
<1>7. o.hits + (IF o.session.counted /\ ~o.session.hit THEN 1 ELSE 0) <= o.windows
  BY <1>1, <1>3, <1>4 DEF Sound
<1> QED BY <1>1, <1>5, <1>6, <1>7 DEF Sound, o

\* Using a session keeps a replay sound.
LEMMA UsedSound ==
  ASSUME NEW r \in Replays, NEW d \in Demands, NEW capacity \in Nat, d.weight > 0, r.session.counted,
         Sound(r, capacity)
  PROVE  Sound(UseSession(r, d, capacity), capacity)
<1> DEFINE u == UseSession(r, d, capacity)
           used == r.session.used + d.weight
           hits == Hits(r, d, capacity)
           full == (capacity + 1) * r.hits
<1>1. /\ r.session.used \in Nat /\ r.session.counted \in BOOLEAN /\ r.session.hit \in BOOLEAN
      /\ r.windows \in Nat /\ r.hits \in Nat /\ r.firstHit \in Int /\ r.peak \in Nat
      /\ r.total \in Nat /\ r.blocked \in Nat /\ full \in Nat
      /\ d.weight \in Nat /\ d.at \in Nat
  BY Fields DEF Demands
<1>2. /\ u.session.used = used /\ u.session.counted 
      /\ u.session.hit <=> r.session.hit \/ hits
      /\ u.hits = r.hits + (IF hits THEN 1 ELSE 0)
      /\ u.firstHit = (IF hits /\ r.firstHit = NoTime THEN d.at ELSE r.firstHit)
      /\ u.total = r.total + d.weight
      /\ u.blocked = r.blocked + (IF r.session.hit THEN d.weight ELSE 0)
      /\ u.windows = r.windows /\ u.peak = r.peak
  <2>1. IsUsed(u, r, d, capacity)
    BY Zenon, InSession
  <2> HIDE DEF u
  <2> QED BY Zenon, <2>1 DEF IsUsed
<1>3. used \in Nat /\ used = r.session.used + d.weight /\ used > r.session.used
  BY <1>1
<1>4. hits \in BOOLEAN /\ (hits <=> ~r.session.hit /\ used > capacity)
  BY DEF Hits
<1>5. (capacity + 1) * u.hits = full + (IF hits THEN capacity + 1 ELSE 0)
  <2>1. (capacity + 1) * (r.hits + 1) = full + (capacity + 1)
    BY <1>1
  <2> HIDE DEF u, hits
  <2>2. CASE hits
    <3>1. u.hits = r.hits + 1
      BY <1>2, <2>2
    <3> QED BY <2>1, <2>2, <3>1
  <2>3. CASE ~hits
    <3>1. u.hits = r.hits
      BY <1>1, <1>2, <2>3
    <3> QED BY <1>1, <2>3, <3>1
  <2> QED BY <2>2, <2>3
<1>6. r.blocked + full + (IF r.session.hit THEN 0 ELSE r.session.used) <= r.total
  BY DEF Sound
<1> HIDE DEF u, used, hits, full
<1>7. u.session.hit <=> u.session.used > capacity
  BY <1>1, <1>2, <1>3, <1>4 DEF Sound
<1>8. u.hits > 0 <=> u.peak > capacity \/ u.session.hit
  BY <1>1, <1>2, <1>4 DEF Sound
<1>9. u.hits > 0 <=> u.firstHit # NoTime
  BY <1>1, <1>2, <1>4 DEF Sound, NoTime
<1>10. u.blocked > 0 => u.hits > 0
  BY <1>1, <1>2, <1>4 DEF Sound
<1>11. u.blocked + (capacity + 1) * u.hits + (IF u.session.hit THEN 0 ELSE u.session.used) <= u.total
  BY <1>1, <1>2, <1>3, <1>4, <1>5, <1>6
<1>12. u.hits + (IF u.session.counted /\ ~u.session.hit THEN 1 ELSE 0) <= u.windows
  BY <1>1, <1>2, <1>4 DEF Sound
<1> QED BY <1>2, <1>7, <1>8, <1>9, <1>10, <1>11, <1>12 DEF Sound, u

\* A request keeps a replay sound.
LEMMA OneSound ==
  ASSUME NEW r \in Replays, NEW d \in Demands, NEW window \in Nat, NEW from \in Int, NEW to \in Int,
         NEW capacity \in Nat, Sound(r, capacity)
  PROVE  /\ ReplayOne(r, d, capacity, window, from, to) \in Replays
         /\ Sound(ReplayOne(r, d, capacity, window, from, to), capacity)
<1> DEFINE o == OpenSession(r, d, window, from, to)
           u == UseSession(o, d, capacity)
<1>1. o \in Replays /\ Sound(o, capacity)
  <2>1. CASE Opens(r, d)
    BY <2>1, Opened, OpenedSound
  <2>2. CASE ~Opens(r, d)
    BY <2>2 DEF OpenSession, Opens
  <2> QED BY <2>1, <2>2
<1>2. ASSUME d.weight > 0 PROVE u \in Replays /\ Sound(u, capacity)
  <2> HIDE DEF o
  <2>1. CASE o.session.counted
    BY <1>1, <1>2, <2>1, InSession, UsedSound
  <2>2. CASE ~o.session.counted
    BY <1>1, <2>2 DEF UseSession
  <2> QED BY <2>1, <2>2
<1> HIDE DEF u
<1>3. ReplayOne(r, d, capacity, window, from, to) = IF d.weight > 0 THEN u ELSE r
  BY DEF ReplayOne, u
<1> QED BY <1>2, <1>3

\* A step at two limits leaves the larger one with no more hits.
LEMMA OneEased ==
  ASSUME NEW m \in Replays, NEW r \in Replays, NEW d \in Demands,
         NEW window \in Nat, NEW from \in Int, NEW to \in Int,
         NEW more \in Nat, NEW capacity \in Nat, capacity <= more,
         Sound(m, more), Sound(r, capacity), Eased(m, r)
  PROVE  Eased(ReplayOne(m, d, more, window, from, to), ReplayOne(r, d, capacity, window, from, to))
<1> DEFINE o == OpenSession(r, d, window, from, to)
           p == OpenSession(m, d, window, from, to)
           u == UseSession(o, d, capacity)
           v == UseSession(p, d, more)
<1>1. /\ o \in Replays /\ p \in Replays /\ Sound(o, capacity) /\ Sound(p, more)
  <2>1. Opens(r, d) => o \in Replays /\ Sound(o, capacity)
    BY Opened, OpenedSound
  <2>2. Opens(m, d) => p \in Replays /\ Sound(p, more)
    BY Opened, OpenedSound
  <2>3. ~Opens(r, d) => o = r
    BY DEF OpenSession, Opens
  <2>4. ~Opens(m, d) => p = m
    BY DEF OpenSession, Opens
  <2> HIDE DEF o, p
  <2> QED BY <2>1, <2>2, <2>3, <2>4
<1>2. Eased(p, o)
  <2>1. Opens(m, d) <=> Opens(r, d)
    BY DEF Opens, Eased
  <2>2. CASE ~Opens(r, d)
    <3>1. o = r /\ p = m
      BY <2>1, <2>2 DEF OpenSession, Opens
    <3> HIDE DEF o, p
    <3> QED BY <3>1
  <2>3. CASE Opens(r, d)
    <3>1. CloseSession(m).peak = CloseSession(r).peak /\ CloseSession(m).series = CloseSession(r).series
      <4>1. m.session.counted = r.session.counted /\ m.session.used = r.session.used /\ m.session.end = r.session.end
            /\ m.peak = r.peak /\ m.series = r.series
        BY DEF Eased
      <4> DEFINE Peaks(x) == IF x.session.counted /\ x.session.used > x.peak THEN x.session.used ELSE x.peak
                 Series(x) == IF x.session.counted THEN Append(x.series, Point(x.session.end, 0)) ELSE x.series
      <4>2. /\ CloseSession(m).peak = Peaks(m) /\ CloseSession(r).peak = Peaks(r)
            /\ CloseSession(m).series = Series(m) /\ CloseSession(r).series = Series(r)
        BY ClosedFields
      <4>3. Peaks(m) = Peaks(r) /\ Series(m) = Series(r)
        BY <4>1
      <4> HIDE DEF Peaks, Series
      <4> QED BY <4>2, <4>3
    <3>2. /\ o.session = p.session /\ o.session.hit = FALSE /\ o.windows = p.windows
          /\ o.hits = r.hits /\ p.hits = m.hits /\ o.total = p.total
          /\ o.blocked = r.blocked /\ p.blocked = m.blocked
          /\ o.peak = CloseSession(r).peak /\ p.peak = CloseSession(m).peak
          /\ o.series = CloseSession(r).series /\ p.series = CloseSession(m).series
      <4>1. IsOpened(o, r, d, window, from, to)
        BY Zenon, <2>3, Opened
      <4>2. IsOpened(p, m, d, window, from, to)
        BY Zenon, <2>1, <2>3, Opened
      <4>3. m.windows = r.windows /\ m.total = r.total
        BY DEF Eased
      <4> HIDE DEF o, p
      <4>4. o.session.hit = FALSE
        BY <4>1 DEF IsOpened
      <4> QED BY Zenon, <4>1, <4>2, <4>3, <4>4 DEF IsOpened
    <3>3. m.hits <= r.hits
      BY Fields DEF Eased
    <3> HIDE DEF o, p
    <3> QED BY <1>1, <3>1, <3>2, <3>3, Fields DEF Eased
  <2> QED BY <2>2, <2>3
<1> HIDE DEF o, p
<1>3. ASSUME d.weight > 0 PROVE Eased(v, u)
  <2>1. CASE ~o.session.counted
    <3>1. u = o /\ v = p
      BY <1>2, <2>1 DEF UseSession, Eased
    <3> HIDE DEF u, v
    <3> QED BY <1>2, <3>1
  <2>2. CASE o.session.counted
    <3> DEFINE used == o.session.used + d.weight
               hits == Hits(o, d, capacity)
               mhits == Hits(p, d, more)
    <3>1. p.session.counted /\ p.session.used + d.weight = used
      BY <1>2, <2>2 DEF Eased
    <3>2. /\ u.session.used = used /\ u.session.end = o.session.end /\ u.session.counted
          /\ u.session.hit <=> o.session.hit \/ hits
          /\ u.hits = o.hits + (IF hits THEN 1 ELSE 0)
          /\ u.total = o.total + d.weight
          /\ u.blocked = o.blocked + (IF o.session.hit THEN d.weight ELSE 0)
          /\ u.windows = o.windows /\ u.peak = o.peak /\ u.series = Append(o.series, Point(d.at, used))
      <4>1. IsUsed(u, o, d, capacity)
        BY Zenon, <1>1, <1>3, <2>2, InSession
      <4> HIDE DEF u
      <4> QED BY Zenon, <4>1 DEF IsUsed
    <3>3. /\ v.session.used = used /\ v.session.end = p.session.end /\ v.session.counted
          /\ v.session.hit <=> p.session.hit \/ mhits
          /\ v.hits = p.hits + (IF mhits THEN 1 ELSE 0)
          /\ v.total = p.total + d.weight
          /\ v.blocked = p.blocked + (IF p.session.hit THEN d.weight ELSE 0)
          /\ v.windows = p.windows /\ v.peak = p.peak /\ v.series = Append(p.series, Point(d.at, used))
      <4>1. IsUsed(v, p, d, more)
        BY Zenon, <1>1, <1>3, <3>1, InSession
      <4> HIDE DEF v, used, mhits
      <4> QED BY Zenon, <3>1, <4>1 DEF IsUsed, mhits
    <3>4. (hits <=> ~o.session.hit /\ used > capacity) /\ (mhits <=> ~p.session.hit /\ used > more)
      BY <3>1 DEF Hits
    <3>5. hits \in BOOLEAN /\ mhits \in BOOLEAN
      BY DEF Hits
    <3>6. used \in Nat /\ d.weight \in Nat /\ used > o.session.used
      BY <1>1, <1>3, Fields DEF Demands
    <3> HIDE DEF u, v, used, hits, mhits
    <3>7. /\ o.hits \in Nat /\ p.hits \in Nat /\ o.blocked \in Nat /\ p.blocked \in Nat
          /\ o.session.hit \in BOOLEAN /\ p.session.hit \in BOOLEAN
      BY <1>1, Fields
    <3>8. o.session.hit => used > capacity
      BY <1>1, <3>6, Fields DEF Sound
    <3>9. v.session.hit => u.session.hit
      BY <1>2, <3>2, <3>3, <3>4, <3>6 DEF Eased
    <3>10. v.hits + (IF u.session.hit /\ ~v.session.hit THEN 1 ELSE 0) <= u.hits
      <4>1. p.hits + (IF o.session.hit /\ ~p.session.hit THEN 1 ELSE 0) <= o.hits
        BY Zenon, <1>2 DEF Eased
      <4>2. used > more => used > capacity
        BY <3>6
      <4>3. (p.session.hit => o.session.hit) /\ (mhits => hits \/ (o.session.hit /\ ~p.session.hit))
        BY Zenon, <1>2, <3>4, <4>2 DEF Eased
      <4>4. u.session.hit /\ ~v.session.hit <=> (o.session.hit \/ hits) /\ ~(p.session.hit \/ mhits)
        BY Zenon, <3>2, <3>3
      <4>5. hits => ~o.session.hit
        BY Zenon, <3>4
      <4>6. u.hits = o.hits + (IF hits THEN 1 ELSE 0) /\ v.hits = p.hits + (IF mhits THEN 1 ELSE 0)
        BY <3>2, <3>3
      <4>7. (mhits => ~p.session.hit) /\ p.hits \in Nat /\ o.hits \in Nat
        BY Zenon, <3>4, <3>7
      <4> QED BY <4>1, <4>3, <4>4, <4>5, <4>6, <4>7
    <3>11. v.blocked <= u.blocked
      BY <1>2, <3>2, <3>3, <3>6, <3>7 DEF Eased
    <3>12. u.session.counted \in BOOLEAN /\ v.session.counted \in BOOLEAN
      <4>1. u \in Replays /\ v \in Replays
        BY Zenon, <1>1, <1>3, <2>2, <3>1, InSession DEF u, v
      <4> QED BY <4>1, Fields
    <3> QED BY <1>2, <3>2, <3>3, <3>9, <3>10, <3>11, <3>12 DEF Eased
  <2> QED BY <2>1, <2>2
<1> HIDE DEF u, v
<1>4. /\ ReplayOne(r, d, capacity, window, from, to) = IF d.weight > 0 THEN u ELSE r
      /\ ReplayOne(m, d, more, window, from, to) = IF d.weight > 0 THEN v ELSE m
  BY DEF ReplayOne, u, v, o, p
<1> QED BY <1>3, <1>4

\* A replay is sound before the first request.
LEMMA NothingReplayed ==
  ASSUME NEW capacity \in Nat
  PROVE  NoReplay \in Replays /\ Sound(NoReplay, capacity)
<1>1. <<>> \in Seq([at : Int, use : Nat])
  OBVIOUS
<1>2. NoSession \in SessionsOpen /\ NoTime \in Int
  BY DEF NoSession, SessionsOpen, NoTime
<1>3. NoReplay \in Replays
  BY <1>1, <1>2 DEF NoReplay, Replays
<1>4. Sound(NoReplay, capacity)
  BY DEF NoReplay, NoSession, Sound
<1> QED BY <1>3, <1>4

\* The replay after each request: its loop.
After(demand, capacity, window, from, to) ==
  LET after[i \in 0..Len(demand)] ==
        IF i = 0 THEN NoReplay ELSE ReplayOne(after[i - 1], demand[i], capacity, window, from, to)
  IN  after

\* The loop runs through, sound after every request.
LEMMA ReplayRuns ==
  ASSUME NEW demand \in Seq(Demands), NEW capacity \in Nat, capacity > 0,
         NEW window \in Nat, NEW from \in Int, NEW to \in Int
  PROVE  LET g == After(demand, capacity, window, from, to)
         IN  /\ g[0] = NoReplay
             /\ \A i \in 1..Len(demand) : g[i] = ReplayOne(g[i - 1], demand[i], capacity, window, from, to)
             /\ \A i \in 0..Len(demand) : g[i] \in Replays /\ Sound(g[i], capacity)
             /\ ReplaySessions(demand, capacity, window, from, to) = CloseSession(g[Len(demand)])
<1> DEFINE n == Len(demand)
           A == {r \in Replays : Sound(r, capacity)}
           Step(r, i) == ReplayOne(r, demand[i], capacity, window, from, to)
           F == [i \in 1..n |-> [r \in A |-> Step(r, i)]]
           g == After(demand, capacity, window, from, to)
<1>1. n \in Nat /\ NoReplay \in A
  BY NothingReplayed, LenProperties
<1>2. ASSUME NEW i \in 1..n PROVE demand[i] \in Demands
  BY ElementOfSeq, LenProperties
<1>3. ASSUME NEW i \in 1..n, NEW r \in A PROVE Step(r, i) \in A
  <2> DEFINE d == demand[i]
  <2>1. d \in Demands
    BY <1>2
  <2> HIDE DEF d
  <2>2. /\ ReplayOne(r, d, capacity, window, from, to) \in Replays
        /\ Sound(ReplayOne(r, d, capacity, window, from, to), capacity)
    BY <1>3, <2>1, OneSound
  <2> QED BY <2>2 DEF d
<1>4. ReplaySessions(demand, capacity, window, from, to) = CloseSession(g[n])
  <2>1. ~(capacity <= 0)
    OBVIOUS
  <2> QED BY Zenon, <2>1 DEF ReplaySessions, After
<1>5. g = CHOOSE h : h = [i \in 0..n |-> IF i = 0 THEN NoReplay ELSE Step(h[i - 1], i)]
  BY Zenon DEF After
<1> HIDE DEF A, n, g, Step
<1>6. F \in [1..n -> [A -> A]]
  BY <1>3
<1>7. PICK f : f \in [0..n -> A] /\ f[0] = NoReplay /\ \A i \in 1..n : f[i] = F[i][f[i - 1]]
  <2> HIDE DEF F
  <2>1. \E f : Runs(n, A, NoReplay, F, f)
    BY <1>1, <1>6, Loop
  <2> QED BY <2>1 DEF Runs
<1>8. ASSUME NEW i \in 1..n PROVE f[i] = Step(f[i - 1], i)
  <2>1. f[i - 1] \in A /\ f[i] = F[i][f[i - 1]]
    BY <1>1, <1>7
  <2> QED BY <2>1
<1> HIDE DEF F
<1>9. f = [i \in 0..n |-> IF i = 0 THEN NoReplay ELSE Step(f[i - 1], i)]
  <2>1. \A i \in 0..n : f[i] = IF i = 0 THEN NoReplay ELSE Step(f[i - 1], i)
    BY <1>1, <1>7, <1>8
  <2> QED BY <1>7, <2>1
<1>10. g = [i \in 0..n |-> IF i = 0 THEN NoReplay ELSE Step(g[i - 1], i)]
  BY <1>5, <1>9
<1>11. \A i \in 0..n : g[i] = IF i = 0 THEN NoReplay ELSE Step(g[i - 1], i)
  BY <1>10
<1>12. g[0] = NoReplay /\ \A i \in 1..n : g[i] = Step(g[i - 1], i)
  BY <1>1, <1>11
<1> DEFINE S == {i \in 0..n : g[i] \in A}
<1>13. 0 \in S
  BY <1>1, <1>12
<1>14. ASSUME NEW i \in 1..n, i - 1 \in S PROVE i \in S
  <2>1. i \in 0..n /\ g[i - 1] \in A
    BY <1>1, <1>14
  <2> QED BY <1>3, <1>12, <2>1
<1> HIDE DEF S
<1>15. 0..n \subseteq S
  BY <1>1, <1>13, <1>14, UpTo
<1>16. \A i \in 0..n : g[i] \in Replays /\ Sound(g[i], capacity)
  BY <1>15 DEF S, A
<1> QED BY <1>4, <1>12, <1>16 DEF n, g, Step

\* For every demand, limit, window and period: a replay counts a hit exactly if
\* the use of some session went past the limit, in no more sessions than were
\* opened; it says when the first was exactly if there was one; and it refuses
\* demand only after a hit, no more than what is left of the demand when a hit
\* session is allowed all of the limit and the request that goes past it
\* (ReplaySessionsSeries). These are the parts of ReplaysAddUp about one limit.
THEOREM RefusalsFollowHits ==
  ASSUME NEW demand \in Seq([at : Nat, weight : Int]), NEW capacity \in Nat, capacity > 0,
         NEW window \in Nat, NEW from \in Int, NEW to \in Int
  PROVE  LET r == ReplaySessions(demand, capacity, window, from, to)
         IN  /\ r.hits > 0 <=> r.peak > capacity
             /\ r.hits > 0 <=> r.firstHit # NoTime
             /\ r.hits <= r.windows
             /\ r.blocked > 0 => r.hits > 0
             /\ r.blocked <= r.total - (capacity + 1) * r.hits
<1> DEFINE g == After(demand, capacity, window, from, to)[Len(demand)]
           r == ReplaySessions(demand, capacity, window, from, to)
           full == (capacity + 1) * g.hits
<1>1. g \in Replays /\ Sound(g, capacity) /\ r = CloseSession(g)
  <2>1. Len(demand) \in 0..Len(demand)
    BY LenProperties
  <2> QED BY <2>1, ReplayRuns DEF Demands
<1> HIDE DEF g
<1>2. /\ r.hits = g.hits /\ r.windows = g.windows /\ r.firstHit = g.firstHit
      /\ r.total = g.total /\ r.blocked = g.blocked
      /\ r.peak = IF g.session.counted /\ g.session.used > g.peak THEN g.session.used ELSE g.peak
  BY <1>1, ClosedFields
<1>3. /\ g.session.used \in Nat /\ g.session.counted \in BOOLEAN /\ g.session.hit \in BOOLEAN
      /\ g.windows \in Nat /\ g.hits \in Nat /\ g.peak \in Nat /\ g.total \in Nat /\ g.blocked \in Nat
      /\ full \in Nat
  BY <1>1, Fields
<1>4. /\ g.session.hit <=> g.session.used > capacity
      /\ g.session.used > 0 => g.session.counted
      /\ g.hits > 0 <=> g.peak > capacity \/ g.session.hit
      /\ g.hits > 0 <=> g.firstHit # NoTime
      /\ g.blocked > 0 => g.hits > 0
      /\ g.blocked + full + (IF g.session.hit THEN 0 ELSE g.session.used) <= g.total
      /\ g.hits + (IF g.session.counted /\ ~g.session.hit THEN 1 ELSE 0) <= g.windows
  BY <1>1 DEF Sound
<1>5. (capacity + 1) * r.hits = full
  BY <1>2
<1> HIDE DEF r, full
<1>6. r.hits > 0 <=> r.peak > capacity
  <2>1. CASE g.session.used > capacity
    <3>1. g.session.used > 0
      BY <1>3, <2>1
    <3>2. r.peak = IF g.session.used > g.peak THEN g.session.used ELSE g.peak
      BY Zenon, <1>2, <1>4, <3>1
    <3>3. r.peak > capacity
      BY <1>3, <2>1, <3>2
    <3> QED BY Zenon, <1>2, <1>4, <2>1, <3>3
  <2>2. CASE ~(g.session.used > capacity)
    <3>1. r.peak \in {g.peak, g.session.used} /\ (r.peak = g.session.used => g.peak <= g.session.used \/ r.peak = g.peak)
      BY <1>2, <1>3
    <3>2. r.peak > capacity <=> g.peak > capacity
      BY <1>3, <2>2, <3>1
    <3> QED BY Zenon, <1>2, <1>4, <2>2, <3>2
  <2> QED BY <2>1, <2>2
<1>7. r.hits <= r.windows
  <2>1. g.hits + (IF g.session.counted /\ ~g.session.hit THEN 1 ELSE 0) <= g.windows
    BY Zenon, <1>4
  <2>2. g.hits \in Nat /\ g.windows \in Nat
    BY Zenon, <1>3
  <2>3. g.hits <= g.windows
    BY <2>1, <2>2
  <2> QED BY Zenon, <1>2, <2>3
<1>8. r.blocked <= r.total - (capacity + 1) * r.hits
  <2> DEFINE spared == IF g.session.hit THEN 0 ELSE g.session.used
  <2>1. spared \in Nat
    BY Zenon, <1>3
  <2>2. g.blocked + full + spared <= g.total
    BY Zenon, <1>4
  <2> HIDE DEF spared
  <2>3. g.blocked \in Nat /\ g.total \in Nat /\ full \in Nat
    BY Zenon, <1>3
  <2>4. g.blocked <= g.total - full
    BY <2>1, <2>2, <2>3
  <2> QED BY Zenon, <1>2, <1>5, <2>4
<1> QED BY <1>2, <1>4, <1>6, <1>7, <1>8 DEF r

\* For every demand, window and period: at a larger limit a replay sees the same
\* sessions, demand and use over time, and no more hits and refusals
\* (ReplaySessionsSeries). This is what ReplaysAddUp says of two limits.
THEOREM LargerLimitEases ==
  ASSUME NEW demand \in Seq([at : Nat, weight : Int]), NEW capacity \in Nat, capacity > 0,
         NEW larger \in Nat, capacity <= larger,
         NEW window \in Nat, NEW from \in Int, NEW to \in Int
  PROVE  LET r == ReplaySessions(demand, capacity, window, from, to)
             more == ReplaySessions(demand, larger, window, from, to)
         IN  /\ more.hits <= r.hits /\ more.blocked <= r.blocked
             /\ more.windows = r.windows /\ more.total = r.total
             /\ more.peak = r.peak /\ more.series = r.series
<1> DEFINE n == Len(demand)
           f == After(demand, capacity, window, from, to)
           g == After(demand, larger, window, from, to)
           r == ReplaySessions(demand, capacity, window, from, to)
           more == ReplaySessions(demand, larger, window, from, to)
           S == {i \in 0..n : Eased(g[i], f[i])}
<1>1. /\ f[0] = NoReplay
      /\ \A i \in 1..n : f[i] = ReplayOne(f[i - 1], demand[i], capacity, window, from, to)
      /\ \A i \in 0..n : f[i] \in Replays /\ Sound(f[i], capacity)
      /\ r = CloseSession(f[n])
  BY ReplayRuns DEF Demands
<1>2. /\ g[0] = NoReplay
      /\ \A i \in 1..n : g[i] = ReplayOne(g[i - 1], demand[i], larger, window, from, to)
      /\ \A i \in 0..n : g[i] \in Replays /\ Sound(g[i], larger)
      /\ more = CloseSession(g[n])
  <2>1. larger > 0
    OBVIOUS
  <2> QED BY <2>1, ReplayRuns DEF Demands
<1>3. n \in Nat /\ \A i \in 1..n : demand[i] \in Demands
  BY ElementOfSeq, LenProperties DEF Demands
<1> HIDE DEF n, f, g, r, more
<1>4. 0 \in S
  <2>1. Eased(NoReplay, NoReplay)
    BY DEF Eased, NoReplay, NoSession
  <2> QED BY <1>1, <1>2, <1>3, <2>1
<1>5. ASSUME NEW i \in 1..n, i - 1 \in S PROVE i \in S
  <2> DEFINE a == f[i - 1]
             b == g[i - 1]
             d == demand[i]
  <2>1. i - 1 \in 0..n /\ i \in 0..n
    BY <1>3
  <2>2. a \in Replays /\ b \in Replays /\ Sound(a, capacity) /\ Sound(b, larger) /\ Eased(b, a) /\ d \in Demands
    BY <1>1, <1>2, <1>3, <1>5, <2>1
  <2>3. f[i] = ReplayOne(a, d, capacity, window, from, to) /\ g[i] = ReplayOne(b, d, larger, window, from, to)
    BY <1>1, <1>2
  <2> HIDE DEF a, b, d
  <2>4. Eased(ReplayOne(b, d, larger, window, from, to), ReplayOne(a, d, capacity, window, from, to))
    BY <2>2, OneEased
  <2> QED BY <2>1, <2>3, <2>4
<1> HIDE DEF S
<1>6. 0..n \subseteq S
  BY <1>3, <1>4, <1>5, UpTo
<1>7. Eased(g[n], f[n]) /\ f[n] \in Replays /\ g[n] \in Replays
  BY <1>1, <1>2, <1>3, <1>6 DEF S
<1> DEFINE a == f[n]
           b == g[n]
           Peaks(x) == IF x.session.counted /\ x.session.used > x.peak THEN x.session.used ELSE x.peak
           Series(x) == IF x.session.counted THEN Append(x.series, Point(x.session.end, 0)) ELSE x.series
<1>8. /\ r.hits = a.hits /\ r.windows = a.windows /\ r.total = a.total /\ r.blocked = a.blocked
      /\ r.peak = Peaks(a) /\ r.series = Series(a)
  BY <1>1, <1>7, ClosedFields
<1>9. /\ more.hits = b.hits /\ more.windows = b.windows /\ more.total = b.total /\ more.blocked = b.blocked
      /\ more.peak = Peaks(b) /\ more.series = Series(b)
  BY <1>2, <1>7, ClosedFields
<1>10. Peaks(b) = Peaks(a) /\ Series(b) = Series(a)
  BY <1>7 DEF Eased
<1> HIDE DEF Peaks, Series
<1>11. b.hits <= a.hits /\ b.blocked <= a.blocked /\ b.windows = a.windows /\ b.total = a.total
  <2>1. /\ b.hits + (IF a.session.hit /\ ~b.session.hit THEN 1 ELSE 0) <= a.hits
        /\ b.blocked <= a.blocked /\ b.windows = a.windows /\ b.total = a.total
    BY Zenon, <1>7 DEF Eased
  <2>2. b.hits \in Nat /\ a.hits \in Nat
    BY <1>7, Fields
  <2>3. b.hits <= a.hits
    BY <2>1, <2>2
  <2> QED BY <2>1, <2>3
<1> QED BY <1>8, <1>9, <1>10, <1>11 DEF r, more
=============================================================================
