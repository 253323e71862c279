--------------------------- MODULE Readings_proofs ---------------------------
(***************************************************************************)
(* Proofs about Claude Code's quota readings: what the server holds        *)
(* follows the tables the device went through, item by item, in whatever   *)
(* batches and however often the queue is sent, until a request comes      *)
(* late.                                                                   *)
(***************************************************************************)
EXTENDS Readings, FiniteSetTheorems, SequenceTheorems, WellFoundedInduction, TLAPS

\* A set of natural numbers has a least one.
LEMMA Least ==
  ASSUME NEW S, S \subseteq Nat, S # {}
  PROVE  \E i \in S : \A j \in S : i <= j
<1> DEFINE R == OpToRel(<, Nat)
<1>1. IsWellFoundedOn(R, Nat)
  BY Zenon, NatLessThanWellFounded
<1>2. \A x, y \in Nat : <<x, y>> \in R <=> x < y
  BY DEF OpToRel
<1> HIDE DEF R
<1>3. PICK x \in S : \A y \in S : ~ (<<y, x>> \in R)
  BY <1>1, WFMin
<1>4. x \in Nat /\ \A y \in S : y \in Nat /\ ~(y < x)
  BY <1>2, <1>3
<1>5. \A y \in S : x <= y
  BY <1>4
<1> QED BY <1>5

\* A set of numbers that holds 0, and every number whose predecessor it
\* holds, holds them all: induction as a fact about a set.
LEMMA UpTo ==
  ASSUME NEW n \in Nat, NEW S, 0 \in S, \A i \in 1..n : i - 1 \in S => i \in S
  PROVE  0..n \subseteq S
<1> DEFINE Bad == {i \in 0..n : i \notin S}
<1> SUFFICES ASSUME Bad # {} PROVE FALSE
  OBVIOUS
<1>1. PICK i \in Bad : \A j \in Bad : i <= j
  <2>1. Bad \subseteq Nat
    OBVIOUS
  <2> HIDE DEF Bad
  <2> QED BY <2>1, Least
<1>2. i \in 0..n /\ i \notin S
  BY <1>1
<1>3. i \in 1..n /\ i - 1 \in 0..n
  BY <1>2
<1>4. i - 1 \notin Bad
  BY <1>1, <1>3
<1> QED BY <1>2, <1>3, <1>4

\* f has the value of a loop after each of its n steps, from a on: the i-th
\* step applies F[i].
Runs(n, A, a, F, f) ==
  f \in [0..n -> A] /\ f[0] = a /\ \A i \in 1..n : f[i] = F[i][f[i - 1]]

\* Such a loop runs.
LEMMA Loop ==
  ASSUME NEW n \in Nat, NEW A, NEW a \in A, NEW F \in [1..n -> [A -> A]]
  PROVE  \E f : Runs(n, A, a, F, f)
<1> DEFINE S == {k \in 0..n : \E f \in [0..k -> A] : Runs(k, A, a, F, f)}
<1>1. 0 \in S
  <2> DEFINE f == [i \in 0..0 |-> a]
  <2>1. f \in [0..0 -> A] /\ Runs(0, A, a, F, f)
    BY DEF Runs
  <2> HIDE DEF f
  <2> QED BY <2>1
<1>2. ASSUME NEW k \in 1..n, k - 1 \in S PROVE k \in S
  <2>1. PICK f \in [0..(k - 1) -> A] : Runs(k - 1, A, a, F, f)
    BY <1>2
  <2> DEFINE g == [i \in 0..k |-> IF i = k THEN F[k][f[k - 1]] ELSE f[i]]
  <2>2. f[k - 1] \in A
    BY <2>1
  <2>3. F[k][f[k - 1]] \in A
    BY <2>2
  <2>4. g \in [0..k -> A]
    BY <2>1, <2>3
  <2>5. g[0] = a
    BY <2>1 DEF Runs
  <2>6. ASSUME NEW i \in 1..k PROVE g[i] = F[i][g[i - 1]]
    <3>1. g[i - 1] = f[i - 1] /\ i - 1 \in 0..(k - 1)
      OBVIOUS
    <3>2. CASE i = k
      <4>1. g[k] = F[k][f[k - 1]]
        OBVIOUS
      <4> HIDE DEF g
      <4> QED BY <3>1, <3>2, <4>1
    <3>3. CASE i # k
      <4>1. i \in 1..(k - 1)
        BY <3>3
      <4> QED BY <2>1, <3>1, <3>3, <4>1 DEF Runs
    <3> QED BY <3>2, <3>3
  <2>7. Runs(k, A, a, F, g)
    BY <2>4, <2>5, <2>6 DEF Runs
  <2> HIDE DEF g
  <2> QED BY <2>4, <2>7
<1>3. n \in S
  <2> HIDE DEF S
  <2>1. 0..n \subseteq S
    BY <1>1, <1>2, UpTo
  <2> QED BY <2>1
<1> QED BY <1>3

-----------------------------------------------------------------------------
(***************************************************************************)
(* Readings: the server follows the tables the device went through.        *)
(***************************************************************************)
\* The row a queued reading is stored as, and the one it replaces.
Row(q) == [acct |-> q.acct, at |-> q.at, lim |-> q.lim]
Replaced(q) == [acct |-> q.prev, at |-> q.at, lim |-> q.lim]

\* What a table has of an account at a moment: one row at most.
Held(table, a, t) == {x \in table : x.acct = a /\ x.at = t}
Keyed(table) == \A x, y \in table : x.acct = y.acct /\ x.at = y.at => x = y

\* The outbox begins with the items of a request that none of them left, and
\* an ingested request's items count among those the server has.
Underway(r) ==
  /\ r.covers <= Len(outbox) /\ r.covers <= Len(r.batch)
  /\ r.done => r.covers <= reached
  /\ r.covers = Len(r.batch) => \A i \in 1..r.covers : r.batch[i] = outbox[i]

\* The typed state of the readings.
ReadingsTyped ==
  /\ ReadingsTypeOK
  /\ IsFiniteSet(snaps)
  /\ \A q \in Requests : wire[q] # Absent => Underway(wire[q])

\* A reading dated now is still in its spool file.
Dated(x) == x.at <= now /\ (x.at = now => \E s \in Sessions : spool[s] # Absent /\ spool[s].at = x.at /\ spool[s].lim = x.lim)

\* No spool file will ever correct these.
Settled ==
  {x \in Snapshot :
     x.at < now /\ \A s \in Sessions : spool[s] # Absent => ~(spool[s].at = x.at /\ spool[s].lim = x.lim)}

\* h is the device's table as it was when each queued item was the next, up
\* to what it is now.  An item not a correction found its row missing or there
\* already, a correction the row it replaces; and the row that kept a
\* correction from being stored is there to stay, one of fixed.
Made(queue, h, i, fixed) ==
  LET q == queue[i]
  IN  /\ h[i] = Store(q, h[i - 1])
      /\ q.prev = Absent => Held(h[i - 1], q.acct, q.at) \subseteq {Row(q)}
      /\ q.prev # Absent =>
           /\ q.prev # q.acct
           /\ Replaced(q) \in h[i - 1]
           /\ \A x \in Held(h[i - 1], q.acct, q.at) : x \in fixed /\ \A j \in i..Len(queue) : x \in h[j]

Course(table, queue, h, fixed) ==
  /\ h \in [0..Len(queue) -> SUBSET Snapshot]
  /\ h[Len(queue)] = table
  /\ \A i \in 0..Len(queue) : Keyed(h[i])
  /\ \A i \in 1..Len(queue) : Made(queue, h, i, fixed)

\* What the server has of each account and moment, the device had before or
\* after one of the items from the i-th on.
Follows(table, h, i, n) ==
  \A a \in Accounts, t \in Times : \E j \in i..n : Held(table, a, t) = Held(h[j], a, t)

\* The strengthening of ReadingsAgree, as long as no correction was dropped and
\* no request came late: the server has a table the device had since the items
\* it ingested.
Mirrored(table, queue) ==
  /\ \A x \in table : Dated(x)
  /\ \E h \in [0..Len(queue) -> SUBSET Snapshot] :
       Course(table, queue, h, Settled) /\ Follows(stored, h, reached, Len(queue))

ReadingsFollow ==
  /\ \A s \in Sessions : spool[s] # Absent => spool[s].at <= now
  /\ ~lost /\ ~late => Mirrored(snaps, outbox)

\* The bounds are numbers, and Absent is no account and no limit.
LEMMA ClaudeBounds ==
  /\ MaxTime \in Nat \ {0} /\ BatchSize \in Nat \ {0}
  /\ Absent \notin Accounts /\ Absent \notin Limits /\ Times = 1..MaxTime
BY ReadingsConstants DEF Times

\* Storing a queued reading touches the account it is of and the one it
\* leaves, at its moment.
LEMMA StoreHeld ==
  ASSUME NEW T \in SUBSET Snapshot, NEW q \in Queued, Keyed(T)
  PROVE  /\ Store(q, T) \in SUBSET Snapshot
         /\ Keyed(Store(q, T))
         /\ \A a, t : ~(t = q.at /\ a \in {q.acct, q.prev}) => Held(Store(q, T), a, t) = Held(T, a, t)
<1>1. Row(q) \in Snapshot
  BY DEF Row, Queued, Snapshot
<1> DEFINE kept == IF q.prev = Absent THEN T ELSE {x \in T : ~(x.acct = q.prev /\ x.at = q.at /\ x.lim = q.lim)}
<1>2. kept \subseteq T
  OBVIOUS
<1>3. Store(q, T) = IF Taken(kept, q) THEN kept ELSE kept \cup {Row(q)}
  BY DEF Store, Row
<1>4. \A x \in T : ~(x.acct = q.prev /\ x.at = q.at) => x \in kept
  OBVIOUS
<1> HIDE DEF kept
<1>5. Store(q, T) \in SUBSET Snapshot
  BY <1>1, <1>2, <1>3
<1>6. Keyed(Store(q, T))
  <2>1. Keyed(kept)
    BY <1>2 DEF Keyed
  <2>2. ASSUME ~Taken(kept, q) PROVE Keyed(kept \cup {Row(q)})
    BY <2>1, <2>2 DEF Keyed, Row, Taken
  <2> QED BY <1>3, <2>1, <2>2
<1>7. ASSUME NEW a, NEW t, ~(t = q.at /\ a \in {q.acct, q.prev})
      PROVE  Held(Store(q, T), a, t) = Held(T, a, t)
  BY <1>2, <1>3, <1>4, <1>7 DEF Held, Row
<1> QED BY <1>5, <1>6, <1>7

\* Of the account it leaves it removes its own row, and of its account it
\* keeps what is there.
LEMMA StoreOwn ==
  ASSUME NEW T \in SUBSET Snapshot, NEW q \in Queued, Keyed(T), q.prev # q.acct
  PROVE  /\ q.prev # Absent => Held(Store(q, T), q.prev, q.at) = Held(T, q.prev, q.at) \ {Replaced(q)}
         /\ Held(Store(q, T), q.acct, q.at)
              = IF Held(T, q.acct, q.at) = {} THEN {Row(q)} ELSE Held(T, q.acct, q.at)
<1> DEFINE kept == IF q.prev = Absent THEN T ELSE {x \in T : ~(x.acct = q.prev /\ x.at = q.at /\ x.lim = q.lim)}
<1>1. Store(q, T) = IF Taken(kept, q) THEN kept ELSE kept \cup {Row(q)}
  BY DEF Store, Row
<1>2. Held(kept, q.acct, q.at) = Held(T, q.acct, q.at)
  BY DEF Held
<1>3. q.prev # Absent => Held(kept, q.prev, q.at) = Held(T, q.prev, q.at) \ {Replaced(q)}
  <2> SUFFICES ASSUME q.prev # Absent, NEW x \in T, x.acct = q.prev, x.at = q.at
               PROVE  x.lim = q.lim <=> x = Replaced(q)
    BY DEF Held
  <2> QED BY DEF Replaced, Snapshot
<1>4. Taken(kept, q) <=> Held(kept, q.acct, q.at) # {}
  BY DEF Taken, Held
<1> HIDE DEF kept
<1>5. q.prev # Absent => Held(Store(q, T), q.prev, q.at) = Held(T, q.prev, q.at) \ {Replaced(q)}
  <2>1. Held(Store(q, T), q.prev, q.at) = Held(kept, q.prev, q.at)
    BY <1>1 DEF Held, Row
  <2> QED BY <1>3, <2>1
<1>6. CASE Held(T, q.acct, q.at) = {}
  <2>1. Held(Store(q, T), q.acct, q.at) = {Row(q)}
    BY <1>1, <1>2, <1>4, <1>6 DEF Held, Row
  <2> QED BY <1>5, <1>6, <2>1
<1>7. CASE Held(T, q.acct, q.at) # {}
  BY <1>1, <1>2, <1>4, <1>5, <1>7
<1> QED BY <1>6, <1>7

\* Sent to a table that follows from the item on, the item leaves one that
\* follows from the next one on: sending again what the server has changes
\* nothing that the rest of the queue does not put right.
LEMMA StoreFollows ==
  ASSUME NEW table, NEW queue \in Seq(Queued), NEW fixed, NEW h, Course(table, queue, h, fixed),
         NEW i \in 1..Len(queue), NEW T \in SUBSET Snapshot,
         Follows(T, h, i - 1, Len(queue)), Keyed(T)
  PROVE  Follows(Store(queue[i], T), h, i, Len(queue))
<1> DEFINE q == queue[i]
           n == Len(queue)
           U == Store(q, T)
<1>1. q \in Queued /\ n \in Nat /\ i \in 1..n
  BY ElementOfSeq, LenProperties
<1>2. Made(queue, h, i, fixed)
  BY DEF Course
<1>3. h[i - 1] \in SUBSET Snapshot /\ Keyed(h[i - 1]) /\ h[i] = Store(q, h[i - 1])
  BY <1>1, <1>2 DEF Course, Made
<1>4. q.prev # q.acct
  BY <1>1, <1>2, ClaudeBounds DEF Made, Queued
<1> HIDE DEF q, n, U
<1> SUFFICES ASSUME NEW a \in Accounts, NEW t \in Times
             PROVE  \E j \in i..n : Held(U, a, t) = Held(h[j], a, t)
  BY DEF Follows, U, n, q
<1>5. PICK j \in (i - 1)..n : Held(T, a, t) = Held(h[j], a, t)
  BY DEF Follows, n
<1>6. i \in i..n /\ (j # i - 1 => j \in i..n)
  BY <1>1, <1>5
<1>7. CASE ~(t = q.at /\ a \in {q.acct, q.prev})
  <2>1. Held(U, a, t) = Held(T, a, t) /\ Held(h[i], a, t) = Held(h[i - 1], a, t)
    BY <1>1, <1>3, <1>7, StoreHeld DEF U
  <2> QED BY <1>5, <1>6, <2>1
<1>8. CASE t = q.at /\ a = q.prev
  <2>1. q.prev # Absent
    BY <1>8, ClaudeBounds
  <2>2. /\ Held(U, a, t) = Held(T, a, t) \ {Replaced(q)}
        /\ Held(h[i], a, t) = Held(h[i - 1], a, t) \ {Replaced(q)}
    BY <1>1, <1>3, <1>4, <1>8, <2>1, StoreOwn DEF U
  <2>3. Replaced(q) \in Held(h[i - 1], a, t)
    BY <1>2, <1>8, <2>1 DEF Made, Held, Replaced, q
  <2>4. CASE Replaced(q) \in T
    <3>1. Held(T, a, t) = {Replaced(q)}
      BY <1>8, <2>4 DEF Keyed, Held, Replaced
    <3>2. Held(h[i - 1], a, t) = {Replaced(q)}
      BY <1>3, <2>3 DEF Keyed, Held
    <3> QED BY <1>6, <2>2, <3>1, <3>2
  <2>5. CASE Replaced(q) \notin T
    <3>1. Replaced(q) \notin Held(T, a, t)
      BY <2>5 DEF Held
    <3>2. j # i - 1
      BY <1>5, <2>3, <3>1
    <3> QED BY <1>5, <1>6, <2>2, <3>1, <3>2
  <2> QED BY <2>4, <2>5
<1>9. CASE t = q.at /\ a = q.acct
  <2>1. /\ Held(U, a, t) = IF Held(T, a, t) = {} THEN {Row(q)} ELSE Held(T, a, t)
        /\ Held(h[i], a, t) = IF Held(h[i - 1], a, t) = {} THEN {Row(q)} ELSE Held(h[i - 1], a, t)
    BY <1>1, <1>3, <1>4, <1>9, StoreOwn DEF U
  <2>2. CASE Held(T, a, t) # {}
    <3>1. CASE j = i - 1
      BY <1>5, <1>6, <2>1, <2>2, <3>1
    <3>2. CASE j # i - 1
      BY <1>5, <1>6, <2>1, <2>2, <3>2
    <3> QED BY <3>1, <3>2
  <2>3. CASE Held(T, a, t) = {} /\ Held(h[i - 1], a, t) = {}
    BY <1>6, <2>1, <2>3
  <2>4. CASE Held(T, a, t) = {} /\ Held(h[i - 1], a, t) # {}
    <3>1. j \in i..n
      BY <1>5, <1>6, <2>4
    <3>2. CASE q.prev = Absent
      <4>1. Held(h[i - 1], a, t) = {Row(q)}
        BY <1>2, <1>9, <2>4, <3>2 DEF Made, q
      <4> QED BY <1>6, <2>1, <2>4, <4>1
    <3>3. CASE q.prev # Absent
      <4>1. PICK x \in Held(h[i - 1], a, t) : TRUE
        BY <2>4
      <4>2. x \in h[j]
        BY <1>2, <1>9, <3>1, <3>3, <4>1 DEF Made, q, n
      <4>3. x \in Held(h[j], a, t)
        BY <4>1, <4>2 DEF Held
      <4> QED BY <1>5, <2>4, <4>3
    <3> QED BY <3>2, <3>3
  <2> QED BY <2>2, <2>3, <2>4
<1> QED BY <1>7, <1>8, <1>9

\* The table after each item of a request: the server's loop.
After(batch) ==
  LET after[i \in 0..Len(batch)] == IF i = 0 THEN stored ELSE Store(batch[i], after[i - 1])
  IN  after

\* It starts at the stored table and stores one item after another, and every
\* table on the way holds one row at most of an account and moment.
LEMMA AfterItems ==
  ASSUME ReadingsTypeOK, NEW b \in Seq(Queued), NEW k, k = Len(b)
  PROVE  /\ After(b) \in [0..k -> {T \in SUBSET Snapshot : Keyed(T)}]
         /\ After(b)[0] = stored
         /\ \A i \in 1..k : After(b)[i] = Store(b[i], After(b)[i - 1])
<1> DEFINE A == {T \in SUBSET Snapshot : Keyed(T)}
           F == [i \in 1..k |-> [T \in A |-> Store(b[i], T)]]
<1>1. k \in Nat /\ stored \in A
  BY LenProperties DEF ReadingsTypeOK, Keyed
<1>2. ASSUME NEW i \in 1..k PROVE b[i] \in Queued
  BY ElementOfSeq, LenProperties DEF ReadingsTypeOK
<1>3. F \in [1..k -> [A -> A]]
  <2> SUFFICES ASSUME NEW i \in 1..k, NEW T \in A PROVE Store(b[i], T) \in A
    OBVIOUS
  <2> QED BY <1>2, StoreHeld
<1>4. PICK f : f \in [0..k -> A] /\ f[0] = stored /\ \A i \in 1..k : f[i] = F[i][f[i - 1]]
  <2> HIDE DEF A, F
  <2>1. \E f : Runs(k, A, stored, F, f)
    BY <1>1, <1>3, Loop
  <2> QED BY <2>1 DEF Runs
<1>5. ASSUME NEW i \in 1..k PROVE f[i] = Store(b[i], f[i - 1])
  <2>1. f[i - 1] \in A
    BY <1>1, <1>4
  <2>2. f[i] = F[i][f[i - 1]]
    BY <1>4
  <2> HIDE DEF A
  <2> QED BY <2>1, <2>2
<1> HIDE DEF A, F
<1>6. f = [i \in 0..k |-> IF i = 0 THEN stored ELSE Store(b[i], f[i - 1])]
  <2>1. \A i \in 0..k : f[i] = IF i = 0 THEN stored ELSE Store(b[i], f[i - 1])
    BY <1>1, <1>4, <1>5
  <2> QED BY <1>4, <2>1
<1>7. After(b) = [i \in 0..k |-> IF i = 0 THEN stored ELSE Store(b[i], After(b)[i - 1])]
  BY <1>6 DEF After
<1>8. /\ DOMAIN After(b) = 0..k /\ After(b) = [i \in 0..k |-> After(b)[i]]
      /\ \A i \in 0..k : After(b)[i] = IF i = 0 THEN stored ELSE Store(b[i], After(b)[i - 1])
  <2> DEFINE g == After(b)
  <2>1. g = [i \in 0..k |-> IF i = 0 THEN stored ELSE Store(b[i], g[i - 1])]
    BY <1>7
  <2> HIDE DEF g
  <2>2. /\ DOMAIN g = 0..k /\ g = [i \in 0..k |-> g[i]]
        /\ \A i \in 0..k : g[i] = IF i = 0 THEN stored ELSE Store(b[i], g[i - 1])
    BY <2>1
  <2> QED BY <2>2 DEF g
<1>9. /\ After(b)[0] = stored
      /\ \A i \in 1..k : After(b)[i] = Store(b[i], After(b)[i - 1])
  BY <1>1, <1>8
<1>10. \A i \in 0..k : After(b)[i] \in A
  <2> DEFINE S == {i \in 0..k : After(b)[i] \in A}
  <2>1. 0 \in S
    BY <1>1, <1>9
  <2>2. ASSUME NEW i \in 1..k, i - 1 \in S PROVE i \in S
    <3>1. i - 1 \in 0..k /\ After(b)[i - 1] \in SUBSET Snapshot /\ Keyed(After(b)[i - 1])
      BY <1>1, <2>2 DEF A
    <3>2. Store(b[i], After(b)[i - 1]) \in A
      BY <1>2, <3>1, StoreHeld DEF A
    <3>3. After(b)[i] \in A
      BY <1>9, <3>2
    <3> QED BY <1>1, <3>3
  <2> HIDE DEF S
  <2>3. 0..k \subseteq S
    BY <1>1, <2>1, <2>2, UpTo
  <2> QED BY <2>3 DEF S
<1>11. After(b) \in [0..k -> A]
  BY <1>8, <1>10
<1> QED BY <1>9, <1>11 DEF A

\* The server's loop over the queue's first items goes along with the queue,
\* wherever in them it was.
LEMMA AfterFollows ==
  ASSUME ReadingsTypeOK, NEW b \in Seq(Queued), NEW k, k = Len(b), k <= Len(outbox), reached <= k,
         \A i \in 1..k : b[i] = outbox[i],
         NEW h, Course(snaps, outbox, h, Settled), Follows(stored, h, reached, Len(outbox))
  PROVE  Follows(After(b)[k], h, k, Len(outbox))
<1> DEFINE S == {i \in 0..k : Follows(After(b)[i], h, i, Len(outbox))}
<1>1. k \in Nat /\ Len(outbox) \in Nat /\ outbox \in Seq(Queued) /\ reached \in Nat
  BY LenProperties DEF ReadingsTypeOK
<1>2. 0 \in S
  <2>1. Follows(stored, h, 0, Len(outbox))
    BY <1>1 DEF Follows
  <2> QED BY <1>1, <2>1, AfterItems
<1>3. ASSUME NEW i \in 1..k, i - 1 \in S PROVE i \in S
  <2>1. i - 1 \in 0..k /\ i \in 1..Len(outbox) /\ i \in 0..k
    BY <1>1
  <2>2. After(b)[i - 1] \in SUBSET Snapshot /\ Keyed(After(b)[i - 1])
    BY <2>1, AfterItems
  <2>3. Follows(After(b)[i - 1], h, i - 1, Len(outbox))
    BY <1>3
  <2>4. Follows(Store(outbox[i], After(b)[i - 1]), h, i, Len(outbox))
    BY <1>1, <2>1, <2>2, <2>3, StoreFollows
  <2>5. After(b)[i] = Store(outbox[i], After(b)[i - 1])
    BY AfterItems
  <2> QED BY <2>1, <2>4, <2>5
<1> HIDE DEF S
<1>4. 0..k \subseteq S
  BY <1>1, <1>2, <1>3, UpTo
<1> QED BY <1>1, <1>4 DEF S

\* What is left of the queue once k items are answered has the rest of the
\* course.
LEMMA CourseLeft ==
  ASSUME NEW table, NEW queue \in Seq(Queued), NEW fixed, NEW h, Course(table, queue, h, fixed),
         NEW k \in 0..Len(queue), NEW T, NEW l \in k..Len(queue), Follows(T, h, l, Len(queue))
  PROVE  LET left == SubSeq(queue, k + 1, Len(queue))
         IN  /\ left \in Seq(Queued)
             /\ \E g \in [0..Len(left) -> SUBSET Snapshot] :
                  Course(table, left, g, fixed) /\ Follows(T, g, l - k, Len(left))
<1> DEFINE left == SubSeq(queue, k + 1, Len(queue))
           n == Len(queue)
           m == Len(left)
           g == [i \in 0..(n - k) |-> h[i + k]]
<1>1. n \in Nat /\ k \in 0..n /\ l \in k..n
  BY LenProperties
<1>2. left \in Seq(Queued) /\ m = n - k /\ \A i \in 1..m : left[i] = queue[i + k]
  <2>1. \A i \in (k + 1)..n : i \in 1..n
    BY <1>1
  <2>2. left \in Seq(Queued) /\ m = n - k /\ \A i \in 1..m : left[i] = queue[k + 1 + i - 1]
    BY <1>1, <2>1, SubSeqProperties
  <2> QED BY <1>1, <2>2
<1>3. \A i \in 0..m : g[i] = h[i + k] /\ i + k \in k..n /\ i + k \in 0..n
  BY <1>1, <1>2
<1>4. g \in [0..m -> SUBSET Snapshot]
  BY <1>2, <1>3 DEF Course
<1> HIDE DEF g, left, m
<1>5. m \in Nat /\ m + k = n /\ m \in 0..m
  BY <1>1, <1>2
<1>6. g[m] = table /\ \A i \in 0..m : Keyed(g[i])
  BY <1>3, <1>5 DEF Course
<1>7. ASSUME NEW i \in 1..m PROVE Made(left, g, i, fixed)
  <2>1. i + k \in 1..n /\ left[i] = queue[i + k] /\ i \in 0..m /\ i - 1 \in 0..m /\ (i - 1) + k = (i + k) - 1
    BY <1>1, <1>2, <1>5 DEF m
  <2>2. Made(queue, h, i + k, fixed)
    BY <2>1 DEF Course
  <2>3. g[i] = h[i + k] /\ g[i - 1] = h[(i + k) - 1]
    BY <1>3, <2>1
  <2>4. \A j \in i..m : g[j] = h[j + k] /\ j + k \in (i + k)..n
    BY <1>3, <1>5, <1>1
  <2> QED BY <2>1, <2>2, <2>3, <2>4 DEF Made, m
<1>8. ASSUME NEW a \in Accounts, NEW t \in Times PROVE \E j \in (l - k)..m : Held(T, a, t) = Held(g[j], a, t)
  <2>1. PICK j \in l..n : Held(T, a, t) = Held(h[j], a, t)
    BY DEF Follows
  <2>2. j - k \in 0..m /\ j - k \in (l - k)..m /\ (j - k) + k = j
    BY <1>1, <1>5, <2>1
  <2>3. g[j - k] = h[j]
    BY <1>3, <2>2
  <2> QED BY <2>1, <2>2, <2>3
<1>9. Course(table, left, g, fixed) /\ Follows(T, g, l - k, m)
  BY <1>4, <1>6, <1>7, <1>8 DEF Course, Follows, m
<1> QED BY <1>2, <1>4, <1>9 DEF left, m

\* A prefix of the queue, and what is left without it, are queues.
LEMMA Parts ==
  ASSUME NEW queue \in Seq(Queued), NEW k \in 0..Len(queue)
  PROVE  /\ SubSeq(queue, 1, k) \in Seq(Queued) /\ Len(SubSeq(queue, 1, k)) = k
         /\ \A i \in 1..k : SubSeq(queue, 1, k)[i] = queue[i]
         /\ SubSeq(queue, k + 1, Len(queue)) \in Seq(Queued)
         /\ Len(SubSeq(queue, k + 1, Len(queue))) = Len(queue) - k
         /\ k = 0 => SubSeq(queue, k + 1, Len(queue)) = queue
<1> DEFINE n == Len(queue)
<1>1. n \in Nat /\ k \in 0..n /\ \A i \in 1..n : queue[i] \in Queued
  BY LenProperties, ElementOfSeq
<1>2. SubSeq(queue, 1, k) \in Seq(Queued) /\ Len(SubSeq(queue, 1, k)) = k
        /\ \A i \in 1..k : SubSeq(queue, 1, k)[i] = queue[i]
  <2>1. \A i \in 1..k : queue[i] \in Queued
    BY <1>1
  <2> QED BY <1>1, <2>1, SubSeqProperties
<1>3. SubSeq(queue, k + 1, n) \in Seq(Queued) /\ Len(SubSeq(queue, k + 1, n)) = n - k
  <2>1. \A i \in (k + 1)..n : queue[i] \in Queued
    BY <1>1
  <2> QED BY <1>1, <2>1, SubSeqProperties
<1>4. ASSUME k = 0 PROVE SubSeq(queue, k + 1, n) = queue
  <2>1. k + 1 = 1 /\ SubSeq(queue, 1, n) = queue
    BY <1>4, SubSeqFull
  <2> QED BY <2>1
<1> QED BY <1>2, <1>3, <1>4

\* A request takes the oldest items along.
LEMMA SendKeeps ==
  ASSUME ReadingsTyped, ReadingsFollow, NEW q \in Requests, Send(q)
  PROVE  ReadingsTyped' /\ ReadingsFollow'
<1> DEFINE r == [batch |-> SubSeq(outbox, 1, Sent), covers |-> Sent, done |-> FALSE]
<1>1. Len(outbox) \in Nat /\ outbox \in Seq(Queued) /\ Sent \in 0..Len(outbox)
  BY LenProperties, ReadingsConstants DEF ReadingsTyped, ReadingsTypeOK, Sent
<1>2. r \in Request /\ Underway(r)
  <2>1. r.batch \in Seq(Queued) /\ Len(r.batch) = Sent /\ \A i \in 1..Sent : r.batch[i] = outbox[i]
    BY <1>1, Parts
  <2> QED BY <1>1, <2>1 DEF Request, Underway
<1>3. wire' = [wire EXCEPT ![q] = r] /\ UNCHANGED <<now, cli, events, spool, snaps, outbox, stored, reached, lost, late>>
  BY DEF Send
<1> HIDE DEF r
<1>4. ReadingsTyped'
  <2>1. ReadingsTypeOK'
    BY <1>2, <1>3 DEF ReadingsTyped, ReadingsTypeOK
  <2>2. \A p \in Requests : wire'[p] = r \/ wire'[p] = wire[p]
    BY <1>3 DEF ReadingsTyped, ReadingsTypeOK
  <2> QED BY <1>2, <1>3, <2>1, <2>2 DEF ReadingsTyped, Underway
<1>5. Mirrored(snaps, outbox) => Mirrored(snaps, outbox)'
  BY <1>3 DEF Mirrored, Dated, Settled
<1> QED BY <1>3, <1>4, <1>5 DEF ReadingsFollow

\* The server ingests a request in its turn and goes along with the queue.  Of
\* one that comes late nothing is said.
LEMMA ReceiveKeeps ==
  ASSUME ReadingsTyped, ReadingsFollow, NEW q \in Requests, Receive(q)
  PROVE  ReadingsTyped' /\ ReadingsFollow'
<1> DEFINE r == wire[q]
           k == Len(r.batch)
<1>1. r \in Request /\ Underway(r) /\ r.batch \in Seq(Queued) /\ r.covers \in Nat /\ k \in Nat
  BY LenProperties DEF Receive, ReadingsTyped, ReadingsTypeOK, Request
<1>2. /\ stored' = After(r.batch)[k]
      /\ wire' = [wire EXCEPT ![q].done = TRUE]
      /\ reached' = IF r.covers > reached THEN r.covers ELSE reached
      /\ late' = (late \/ ~InTurn(r))
      /\ UNCHANGED <<now, cli, events, spool, snaps, outbox, lost>>
  BY DEF Receive, After
<1>3. stored' \in SUBSET Snapshot /\ Keyed(stored')
  BY <1>1, <1>2, AfterItems DEF ReadingsTyped
<1>4. /\ reached \in Nat /\ reached <= Len(outbox) /\ Len(outbox) \in Nat
      /\ reached' \in 0..Len(outbox) /\ r.covers <= reached' /\ reached <= reached'
  BY <1>1, <1>2, LenProperties DEF ReadingsTyped, ReadingsTypeOK, Underway
<1> HIDE DEF r, k
<1>5. \A p \in Requests : wire'[p] = IF p = q THEN [r EXCEPT !.done = TRUE] ELSE wire[p]
  BY <1>2 DEF ReadingsTyped, ReadingsTypeOK, r
<1>6. [r EXCEPT !.done = TRUE] \in Request
  BY <1>1 DEF Request
<1>7. ReadingsTypeOK'
  <2>1. wire' \in [Requests -> Request \cup {Absent}]
    BY <1>2, <1>6 DEF ReadingsTyped, ReadingsTypeOK, r
  <2>2. late' \in BOOLEAN
    BY <1>2 DEF ReadingsTyped, ReadingsTypeOK
  <2> QED BY <1>2, <1>3, <1>4, <2>1, <2>2 DEF ReadingsTyped, ReadingsTypeOK, Keyed
<1>8. ASSUME NEW p \in Requests, wire'[p] # Absent PROVE Underway(wire[p])'
  <2>1. CASE p = q
    <3> DEFINE d == [r EXCEPT !.done = TRUE]
    <3>1. wire'[p] = d /\ d.batch = r.batch /\ d.covers = r.covers
      BY <1>1, <1>5, <2>1 DEF Request
    <3> HIDE DEF d
    <3> QED BY <1>1, <1>2, <1>4, <3>1 DEF Underway
  <2>2. CASE p # q
    <3>1. wire'[p] = wire[p] /\ Underway(wire[p]) /\ wire[p].covers \in Nat
      BY <1>5, <1>8, <2>2 DEF ReadingsTyped, ReadingsTypeOK, Request
    <3>2. outbox' = outbox /\ (wire[p].covers <= reached => wire[p].covers <= reached')
      BY <1>2, <1>4, <3>1
    <3> QED BY <3>1, <3>2 DEF Underway
  <2> QED BY <2>1, <2>2
<1>9. ReadingsTyped'
  BY <1>2, <1>7, <1>8 DEF ReadingsTyped
<1>10. ASSUME ~lost', ~late' PROVE Mirrored(snaps, outbox)'
  <2>1. ~lost /\ ~late /\ InTurn(r)
    BY <1>2, <1>10
  <2>2. r.covers = k /\ reached <= k /\ k <= Len(outbox) /\ \A i \in 1..k : r.batch[i] = outbox[i]
    BY <1>1, <1>4, <2>1 DEF InTurn, Underway, k
  <2>3. reached' = k
    BY <1>1, <1>2, <1>4, <2>2
  <2>4. PICK h \in [0..Len(outbox) -> SUBSET Snapshot] :
               Course(snaps, outbox, h, Settled) /\ Follows(stored, h, reached, Len(outbox))
    BY <2>1 DEF ReadingsFollow, Mirrored
  <2>5. Follows(stored', h, k, Len(outbox))
    BY <1>1, <1>2, <2>2, <2>4, AfterFollows DEF ReadingsTyped, k
  <2>6. Settled' = Settled /\ \A x \in snaps : Dated(x) => Dated(x)'
    BY <1>2 DEF Settled, Dated
  <2>7. \A x \in snaps : Dated(x)
    BY <2>1 DEF ReadingsFollow, Mirrored
  <2> QED BY <1>2, <2>3, <2>4, <2>5, <2>6, <2>7 DEF Mirrored
<1> QED BY <1>2, <1>9, <1>10 DEF ReadingsFollow

\* The answer to a request takes its items from the queue: the server follows
\* what is left, and so do the other requests.
LEMMA AnswerKeeps ==
  ASSUME ReadingsTyped, ReadingsFollow, NEW q \in Requests, Answer(q)
  PROVE  ReadingsTyped' /\ ReadingsFollow'
<1> DEFINE k == wire[q].covers
           n == Len(outbox)
<1>1. /\ wire[q] \in Request /\ k \in Nat /\ n \in Nat /\ outbox \in Seq(Queued)
      /\ reached \in Nat /\ reached <= n /\ k <= reached /\ k \in 0..n
  BY LenProperties DEF Answer, ReadingsTyped, ReadingsTypeOK, Underway, Request
<1>2. /\ outbox' = SubSeq(outbox, k + 1, n)
      /\ reached' = reached - k
      /\ UNCHANGED <<now, cli, events, spool, snaps, stored, lost, late>>
  BY <1>1 DEF Answer, Less
<1>3. wire' = [p \in Requests |-> IF p = q \/ wire[p] = Absent THEN Absent ELSE [wire[p] EXCEPT !.covers = Less(@, k)]]
  BY DEF Answer
<1> HIDE DEF k, n
<1>4. outbox' \in Seq(Queued) /\ Len(outbox') = n - k /\ (k = 0 => outbox' = outbox)
  BY <1>1, <1>2, Parts DEF n
<1>5. ASSUME NEW p \in Requests, wire'[p] # Absent
      PROVE  wire'[p] \in Request /\ Underway(wire[p])'
  <2> DEFINE r == wire[p]
             left == [r EXCEPT !.covers = Less(@, k)]
  <2>1. wire'[p] = left /\ r \in Request /\ Underway(r)
    BY <1>3, <1>5 DEF ReadingsTyped, ReadingsTypeOK
  <2>2. r.covers \in Nat /\ r.batch \in Seq(Queued) /\ Len(r.batch) \in Nat
    BY <2>1, LenProperties DEF Request
  <2> HIDE DEF r
  <2>3. Less(r.covers, k) \in Nat /\ Less(r.covers, k) = IF r.covers > k THEN r.covers - k ELSE 0
    BY <1>1, <2>2 DEF Less
  <2>4. left \in Request /\ left.batch = r.batch /\ left.done = r.done /\ left.covers = Less(r.covers, k)
    BY <2>1, <2>3 DEF Request
  <2> HIDE DEF left
  <2>5. r.covers <= n /\ r.covers <= Len(r.batch) /\ (r.done => r.covers <= reached)
    BY <2>1 DEF Underway, n
  <2>6. left.covers <= n - k /\ left.covers <= Len(left.batch) /\ (left.done => left.covers <= reached')
    BY <1>1, <1>2, <2>2, <2>3, <2>4, <2>5
  <2>7. ASSUME left.covers = Len(left.batch), NEW i \in 1..left.covers PROVE left.batch[i] = outbox'[i]
    <3>1. Len(r.batch) > 0 /\ Less(r.covers, k) = Len(r.batch)
      BY <2>2, <2>3, <2>4, <2>7
    <3>2. CASE k = 0
      <4>1. r.covers = Len(r.batch)
        BY <2>2, <2>3, <3>1, <3>2
      <4>2. left.covers = r.covers
        BY <2>4, <3>1, <4>1
      <4> QED BY <1>4, <2>1, <2>4, <2>7, <3>2, <4>1, <4>2 DEF Underway
    <3>3. CASE k # 0
      BY <1>1, <2>2, <2>3, <2>5, <3>1, <3>3
    <3> QED BY <3>2, <3>3
  <2> QED BY <1>4, <2>1, <2>4, <2>6, <2>7 DEF Underway
<1>6. ReadingsTypeOK'
  <2>1. wire' \in [Requests -> Request \cup {Absent}]
    BY <1>3, <1>5
  <2>2. reached' \in 0..Len(outbox')
    BY <1>1, <1>2, <1>4
  <2> QED BY <1>2, <1>4, <2>1, <2>2 DEF ReadingsTyped, ReadingsTypeOK
<1>7. ReadingsTyped'
  BY <1>2, <1>5, <1>6 DEF ReadingsTyped
<1>8. ASSUME ~lost', ~late' PROVE Mirrored(snaps, outbox)'
  <2>1. PICK h \in [0..n -> SUBSET Snapshot] : Course(snaps, outbox, h, Settled) /\ Follows(stored, h, reached, n)
    BY <1>2, <1>8 DEF ReadingsFollow, Mirrored, n
  <2>2. \E g \in [0..Len(outbox') -> SUBSET Snapshot] :
          Course(snaps, outbox', g, Settled) /\ Follows(stored, g, reached - k, Len(outbox'))
    <3>1. reached \in k..n
      BY <1>1
    <3> QED BY <1>1, <1>2, <2>1, <3>1, CourseLeft DEF n
  <2>3. Settled' = Settled /\ \A x \in snaps : Dated(x) => Dated(x)'
    BY <1>2 DEF Settled, Dated
  <2>4. \A x \in snaps : Dated(x)
    BY <1>2, <1>8 DEF ReadingsFollow, Mirrored
  <2> QED BY <1>2, <2>2, <2>3, <2>4 DEF Mirrored
<1> QED BY <1>2, <1>7, <1>8 DEF ReadingsFollow

\* A request that is gone carries nothing.
LEMMA LoseKeeps ==
  ASSUME ReadingsTyped, ReadingsFollow, NEW q \in Requests, Lose(q)
  PROVE  ReadingsTyped' /\ ReadingsFollow'
<1>1. wire' = [wire EXCEPT ![q] = Absent] /\ UNCHANGED <<now, cli, events, spool, snaps, outbox, stored, reached, lost, late>>
  BY DEF Lose
<1>2. ReadingsTypeOK'
  BY <1>1 DEF ReadingsTyped, ReadingsTypeOK
<1>3. \A p \in Requests : wire'[p] = Absent \/ wire'[p] = wire[p]
  BY <1>1 DEF ReadingsTyped, ReadingsTypeOK
<1>4. ReadingsTyped'
  BY <1>1, <1>2, <1>3 DEF ReadingsTyped, Underway
<1>5. Mirrored(snaps, outbox) => Mirrored(snaps, outbox)'
  BY <1>1 DEF Mirrored, Dated, Settled
<1> QED BY <1>1, <1>4, <1>5 DEF ReadingsFollow

\* Whatever part of the queue a request carries, and whether or not it or its
\* answer comes, the server still follows what is left of the queue.
LEMMA UploadKeepsUp ==
  ASSUME ReadingsTyped, ReadingsFollow, Upload
  PROVE  ReadingsTyped' /\ ReadingsFollow'
BY SendKeeps, ReceiveKeeps, AnswerKeeps, LoseKeeps DEF Upload

\* One more item of the device's: its table changes as the server's will.
LEMMA CourseGoesOn ==
  ASSUME NEW table \in SUBSET Snapshot, NEW queue \in Seq(Queued), NEW fixed,
         NEW h, Course(table, queue, h, fixed), NEW q \in Queued,
         q.prev = Absent => Held(table, q.acct, q.at) \subseteq {Row(q)},
         q.prev # Absent => /\ q.prev # q.acct /\ Replaced(q) \in table
                          /\ Held(table, q.acct, q.at) \subseteq fixed,
         fixed \cap table \subseteq Store(q, table)
  PROVE  \E g \in [0..Len(Append(queue, q)) -> SUBSET Snapshot] :
           /\ Course(Store(q, table), Append(queue, q), g, fixed)
           /\ \A T, i : i \in Nat /\ Follows(T, h, i, Len(queue)) => Follows(T, g, i, Len(Append(queue, q)))
<1> DEFINE n == Len(queue)
           more == Append(queue, q)
           U == Store(q, table)
           g == [i \in 0..(n + 1) |-> IF i = n + 1 THEN U ELSE h[i]]
<1>1. n \in Nat /\ Len(more) = n + 1 /\ more[n + 1] = q /\ \A i \in 1..n : more[i] = queue[i]
  BY LenProperties, AppendProperties
<1>2. h \in [0..n -> SUBSET Snapshot] /\ h[n] = table /\ Keyed(table)
  BY <1>1 DEF Course
<1>3. U \in SUBSET Snapshot /\ Keyed(U)
  BY <1>2, StoreHeld
<1> HIDE DEF U
<1>4. /\ g \in [0..(n + 1) -> SUBSET Snapshot] /\ g[n + 1] = U
      /\ \A i \in 0..n : g[i] = h[i]
  BY <1>1, <1>2, <1>3
<1> HIDE DEF g, n, more
<1>5. \A i \in 0..(n + 1) : Keyed(g[i])
  BY <1>1, <1>3, <1>4 DEF Course, n
<1>6. ASSUME NEW i \in 1..(n + 1) PROVE Made(more, g, i, fixed)
  <2>1. CASE i = n + 1
    <3>1. g[i] = Store(q, table) /\ g[i - 1] = table /\ more[i] = q
      BY <1>1, <1>2, <1>4, <2>1 DEF U
    <3>2. \A j \in i..Len(more) : g[j] = U
      BY <1>1, <1>4, <2>1
    <3>3. \A x \in Held(table, q.acct, q.at) : x \in table
      BY DEF Held
    <3> QED BY <3>1, <3>2, <3>3 DEF Made, U
  <2>2. CASE i # n + 1
    <3>1. i \in 1..n /\ i \in 0..n /\ i - 1 \in 0..n
      BY <1>1, <2>2
    <3>2. Made(queue, h, i, fixed) /\ more[i] = queue[i] /\ g[i] = h[i] /\ g[i - 1] = h[i - 1]
      BY <1>1, <1>4, <3>1 DEF Course, n
    <3>3. ASSUME NEW x \in fixed, \A j \in i..n : x \in h[j], NEW j \in i..Len(more) PROVE x \in g[j]
      <4>1. CASE j = n + 1
        <5>1. x \in table
          BY <1>1, <1>2, <3>1, <3>3
        <5> QED BY <1>4, <4>1, <5>1 DEF U
      <4>2. CASE j # n + 1
        <5>1. j \in i..n /\ j \in 0..n
          BY <1>1, <3>1, <4>2
        <5> QED BY <1>4, <3>3, <5>1
      <4> QED BY <4>1, <4>2
    <3> QED BY <3>2, <3>3 DEF Made, n
  <2> QED BY <2>1, <2>2
<1>7. Course(U, more, g, fixed)
  BY <1>1, <1>4, <1>5, <1>6 DEF Course
<1>8. ASSUME NEW T, NEW i \in Nat, Follows(T, h, i, n) PROVE Follows(T, g, i, Len(more))
  <2> SUFFICES ASSUME NEW a \in Accounts, NEW t \in Times
               PROVE  \E j \in i..Len(more) : Held(T, a, t) = Held(g[j], a, t)
    BY DEF Follows
  <2>1. PICK j \in i..n : Held(T, a, t) = Held(h[j], a, t)
    BY <1>8 DEF Follows
  <2>2. j \in i..Len(more) /\ g[j] = h[j]
    BY <1>1, <1>4, <2>1
  <2> QED BY <2>1, <2>2
<1> QED BY <1>1, <1>4, <1>7, <1>8 DEF U, more, n

\* A queue that begins with the outbox.
Continues(queue) ==
  Len(outbox) <= Len(queue) /\ \A i \in 1..Len(outbox) : queue[i] = outbox[i]

\* What the device holds in the midst of a pass.
Db == [snaps : SUBSET Snapshot, outbox : Seq(Queued)]
Sound(db) ==
  /\ db \in Db /\ IsFiniteSet(db.snaps) /\ Keyed(db.snaps)
  /\ Continues(db.outbox)
  /\ ~lost /\ ~late => Mirrored(db.snaps, db.outbox)

\* It still does with an item more.
LEMMA ContinuesOn ==
  ASSUME ReadingsTypeOK, NEW queue \in Seq(Queued), Continues(queue), NEW q \in Queued
  PROVE  Continues(Append(queue, q))
<1>1. Len(outbox) \in Nat /\ Len(queue) \in Nat
  BY LenProperties DEF ReadingsTypeOK
<1>2. Len(Append(queue, q)) = Len(queue) + 1 /\ \A i \in 1..Len(queue) : Append(queue, q)[i] = queue[i]
  BY AppendProperties
<1> QED BY <1>1, <1>2 DEF Continues

\* A queued item carries its reading.
LEMMA QueueTyped ==
  ASSUME NEW r \in Snapshot, NEW prev \in Accounts \cup {Absent}
  PROVE  LET q == Queue(r, prev)
         IN  /\ q \in Queued /\ q.prev = prev /\ q.acct = r.acct /\ q.at = r.at /\ q.lim = r.lim
             /\ Row(q) = r
BY DEF Queue, Queued, Snapshot, Row

\* A reading is added to the table and to the queue, or is there already.
LEMMA AddKeeps ==
  ASSUME ReadingsTypeOK, NEW db, Sound(db), NEW r \in Snapshot, Dated(r)
  PROVE  Sound(Add(db, r))
<1>1. CASE Taken(db.snaps, r)
  BY <1>1 DEF Add
<1>2. CASE ~Taken(db.snaps, r)
  <2> DEFINE q == Queue(r, Absent)
  <2>1. q \in Queued /\ q.prev = Absent /\ q.acct = r.acct /\ q.at = r.at /\ Row(q) = r
    BY QueueTyped
  <2> HIDE DEF q
  <2>2. Add(db, r) = [snaps |-> db.snaps \cup {r}, outbox |-> Append(db.outbox, q)]
    BY <1>2 DEF Add, q
  <2>3. db.snaps \in SUBSET Snapshot /\ db.outbox \in Seq(Queued) /\ Keyed(db.snaps)
    BY DEF Sound, Db
  <2>4. Store(q, db.snaps) = db.snaps \cup {r}
    BY <1>2, <2>1 DEF Store, Taken, Row
  <2>5. Held(db.snaps, q.acct, q.at) = {}
    BY <1>2, <2>1 DEF Held, Taken
  <2>6. Append(db.outbox, q) \in Seq(Queued)
    BY <2>1, <2>3, AppendProperties
  <2>7. IsFiniteSet(db.snaps \cup {r})
    BY FS_AddElement DEF Sound
  <2>8. Keyed(db.snaps \cup {r})
    BY <2>1, <2>3, <2>4, StoreHeld
  <2>9. ASSUME ~lost, ~late PROVE Mirrored(db.snaps \cup {r}, Append(db.outbox, q))
    <3>1. PICK h \in [0..Len(db.outbox) -> SUBSET Snapshot] :
                 Course(db.snaps, db.outbox, h, Settled) /\ Follows(stored, h, reached, Len(db.outbox))
      BY <2>9 DEF Sound, Mirrored
    <3>2. reached \in Nat
      BY DEF ReadingsTypeOK
    <3>3. \E g \in [0..Len(Append(db.outbox, q)) -> SUBSET Snapshot] :
            /\ Course(db.snaps \cup {r}, Append(db.outbox, q), g, Settled)
            /\ Follows(stored, g, reached, Len(Append(db.outbox, q)))
      BY <2>1, <2>3, <2>4, <2>5, <3>1, <3>2, CourseGoesOn
    <3>4. \A x \in db.snaps \cup {r} : Dated(x)
      BY <2>9 DEF Sound, Mirrored
    <3> QED BY <3>3, <3>4 DEF Mirrored
  <2>10. Continues(Append(db.outbox, q))
    BY <2>1, <2>3, ContinuesOn DEF Sound
  <2> QED BY <2>2, <2>3, <2>6, <2>7, <2>8, <2>9, <2>10 DEF Sound, Db
<1> QED BY <1>1, <1>2

\* The numbers and orders of a set that Readings counts with.
LEMMA ClaudeCounts ==
  ASSUME NEW T
  PROVE  /\ Cardinality(T) = Cardinality(T)
         /\ SetToSeqs(T) = {f \in [1..Cardinality(T) -> T] :
                                    \A i, j \in 1..Cardinality(T) : i # j => f[i] # f[j]}
<1>1. Cardinality(T) = Cardinality(T)
  BY DEF Cardinality, Cardinality
<1> QED BY <1>1 DEF SetToSeqs

\* A reading only one session can have produced at its time.
LEMMA OnlyOne ==
  ASSUME NEW s \in Sessions, NEW r, spool[s] # Absent, spool[s].at = r.at, OnlyAt(r)
  PROVE  \A z \in Sessions : spool[z] # Absent /\ spool[z].at = r.at => z = s
<1> DEFINE S == {z \in Sessions : spool[z] # Absent /\ spool[z].at = r.at}
<1>1. IsFiniteSet(S) /\ Cardinality(S) = 1
  <2>1. S \in SUBSET Sessions /\ IsFiniteSet(Sessions)
    BY ReadingsConstants
  <2>2. Cardinality(S) = 1
    BY DEF OnlyAt
  <2> HIDE DEF S
  <2> QED BY <2>1, <2>2, FS_Subset, ClaudeCounts
<1>2. s \in S
  OBVIOUS
<1> HIDE DEF S
<1>3. PICK x : S = {x}
  BY <1>1, FS_Singleton
<1>4. S = {s}
  BY <1>2, <1>3
<1> QED BY <1>4 DEF S

\* A correction moves the one row with the reading's time and limits.  A row the
\* account has already at that time stays, with other limits: the only file
\* dated then is this session's, so no correction will ever move it.
LEMMA CorrectKeeps ==
  ASSUME NEW db, Sound(db), NEW s \in Sessions, NEW r \in Snapshot, Dated(r),
         ReadingsTypeOK, spool[s] # Absent, spool[s].at = r.at, spool[s].lim = r.lim,
         OnlyAt(r), Corrects(db, r)
  PROVE  Sound(Correct(db, r))
<1> DEFINE old == CHOOSE x \in Snapshot : Recorded(db, r) = {x}
           q == Queue(r, old.acct)
           left == db.snaps \ {old}
           once == [snaps |-> left, outbox |-> Append(db.outbox, q)]
           U == Store(q, db.snaps)
<1>1. old \in Snapshot /\ Recorded(db, r) = {old} /\ old.acct # r.acct
  BY DEF Corrects
<1>2. Correct(db, r) = Add(once, r)
  BY DEF Correct
<1> HIDE DEF old
<1>3. /\ db.snaps \in SUBSET Snapshot /\ db.outbox \in Seq(Queued)
      /\ Keyed(db.snaps) /\ IsFiniteSet(db.snaps)
  BY DEF Sound, Db
<1>4. old \in db.snaps /\ old.at = r.at /\ old.lim = r.lim /\ \A x \in db.snaps : x.at = r.at /\ x.lim = r.lim => x = old
  BY <1>1 DEF Recorded
<1>5. old.acct \in Accounts /\ old.acct # Absent
  BY <1>1, ClaudeBounds DEF Snapshot
<1>6. q \in Queued /\ q.prev = old.acct /\ q.acct = r.acct /\ q.at = r.at /\ q.lim = r.lim /\ Row(q) = r
  BY <1>5, QueueTyped
<1>7. Replaced(q) = old
  BY <1>1, <1>4, <1>6 DEF Replaced, Snapshot
<1> HIDE DEF q
<1>8. left = {x \in db.snaps : ~(x.acct = q.prev /\ x.at = q.at /\ x.lim = q.lim)}
  BY <1>3, <1>4, <1>6
<1>9. Taken(left, q) <=> Taken(left, r)
  BY <1>6 DEF Taken
<1>10. U = IF Taken(left, r) THEN left ELSE left \cup {r}
  BY <1>5, <1>6, <1>8, <1>9 DEF Store, Row
<1>11. U \in SUBSET Snapshot /\ Keyed(U)
  BY <1>3, <1>6, StoreHeld
<1> HIDE DEF left
<1>12. Append(db.outbox, q) \in Seq(Queued)
  BY <1>3, <1>6, AppendProperties
<1>13. IsFiniteSet(left) /\ IsFiniteSet(left \cup {r})
  BY <1>3, FS_RemoveElement, FS_AddElement DEF left
<1>14. ASSUME ~lost, ~late
       PROVE  /\ \A x \in U : Dated(x)
              /\ \E g \in [0..Len(Append(db.outbox, q)) -> SUBSET Snapshot] :
                   /\ Course(U, Append(db.outbox, q), g, Settled)
                   /\ Follows(stored, g, reached, Len(Append(db.outbox, q)))
  <2>1. /\ \A x \in db.snaps : Dated(x)
        /\ \E h \in [0..Len(db.outbox) -> SUBSET Snapshot] :
             Course(db.snaps, db.outbox, h, Settled) /\ Follows(stored, h, reached, Len(db.outbox))
    BY <1>14 DEF Sound, Mirrored
  <2>2. \A x \in U : Dated(x)
    BY <1>10, <2>1 DEF left
  <2>3. ASSUME NEW x \in Held(db.snaps, q.acct, q.at) PROVE x \in Settled
    <3>1. x \in db.snaps /\ x \in Snapshot /\ x.at = r.at /\ x.acct = r.acct
      BY <1>3, <1>6 DEF Held
    <3>2. x.lim # r.lim
      BY <1>1, <1>4, <3>1
    <3>3. \A z \in Sessions : spool[z] # Absent => ~(spool[z].at = x.at /\ spool[z].lim = x.lim)
      BY <3>1, <3>2, OnlyOne
    <3>4. x.at \in Nat /\ now \in Nat
      BY <3>1, ClaudeBounds DEF Snapshot, ReadingsTypeOK
    <3>5. x.at < now
      <4>1. Dated(x)
        BY <2>1, <3>1
      <4>2. x.at # now
        BY <3>3, <4>1 DEF Dated
      <4> QED BY <3>4, <4>1, <4>2 DEF Dated
    <3> QED BY <3>1, <3>3, <3>5 DEF Settled
  <2>4. Settled \cap db.snaps \subseteq U
    <3>1. old \notin Settled
      BY <1>4 DEF Settled
    <3> QED BY <1>10, <3>1 DEF left
  <2>5. reached \in Nat
    BY DEF ReadingsTypeOK
  <2> QED BY <1>3, <1>4, <1>5, <1>6, <1>7, <1>1, <2>1, <2>2, <2>3, <2>4, <2>5, CourseGoesOn
<1>15. Continues(Append(db.outbox, q))
  BY <1>3, <1>6, ContinuesOn DEF Sound
<1>16. CASE Taken(left, r)
  <2>1. Add(once, r) = once /\ U = left
    BY <1>10, <1>16 DEF Add
  <2>2. ~lost /\ ~late => Mirrored(left, Append(db.outbox, q))
    BY <1>14, <2>1 DEF Mirrored
  <2>3. Correct(db, r) = [snaps |-> left, outbox |-> Append(db.outbox, q)]
    BY <1>2, <2>1
  <2>4. left \in SUBSET Snapshot /\ Keyed(left)
    BY <1>11, <2>1
  <2> QED BY <1>12, <1>13, <1>15, <2>2, <2>3, <2>4 DEF Sound, Db
<1>17. CASE ~Taken(left, r)
  <2> DEFINE p == Queue(r, Absent)
             twice == Append(Append(db.outbox, q), p)
  <2>1. p \in Queued /\ p.prev = Absent /\ p.acct = r.acct /\ p.at = r.at /\ Row(p) = r
    BY QueueTyped
  <2> HIDE DEF p
  <2>2. Add(once, r) = [snaps |-> left \cup {r}, outbox |-> twice] /\ U = left \cup {r}
    BY <1>10, <1>17 DEF Add, p
  <2>3. twice \in Seq(Queued)
    BY <1>12, <2>1, AppendProperties
  <2>4. Store(p, U) = U
    BY <2>1, <2>2 DEF Store, Taken
  <2>5. Held(U, p.acct, p.at) \subseteq {Row(p)}
    BY <1>11, <2>1, <2>2 DEF Held, Keyed
  <2>6. ASSUME ~lost, ~late PROVE Mirrored(U, twice)
    <3>1. PICK h \in [0..Len(Append(db.outbox, q)) -> SUBSET Snapshot] :
                 /\ Course(U, Append(db.outbox, q), h, Settled)
                 /\ Follows(stored, h, reached, Len(Append(db.outbox, q)))
      BY <1>14, <2>6
    <3>2. reached \in Nat
      BY DEF ReadingsTypeOK
    <3>3. \E g \in [0..Len(twice) -> SUBSET Snapshot] :
            Course(U, twice, g, Settled) /\ Follows(stored, g, reached, Len(twice))
      BY <1>11, <1>12, <2>1, <2>4, <2>5, <3>1, <3>2, CourseGoesOn
    <3> QED BY <1>14, <2>6, <3>3 DEF Mirrored
  <2>7. Correct(db, r) = [snaps |-> U, outbox |-> twice] /\ IsFiniteSet(U)
    BY <1>2, <1>13, <2>2
  <2>8. Continues(twice)
    BY <1>12, <1>15, <2>1, ContinuesOn
  <2> HIDE DEF U, twice
  <2> QED BY <1>11, <2>3, <2>6, <2>7, <2>8 DEF Sound, Db
<1> QED BY <1>16, <1>17

\* The tables after each file of a pass: the device's loop.
Passed(seq) ==
  LET after[i \in 0..Len(seq)] ==
        IF i = 0 THEN [snaps |-> snaps, outbox |-> outbox]
        ELSE Ingest(after[i - 1], Reading(seq[i]))
  IN  after

\* A session's reading is the one in its file, and is dated.
LEMMA ReadingOf ==
  ASSUME ReadingsTypeOK, NEW s \in Sessions, Attributed(s) # {}, spool[s] # Absent => spool[s].at <= now
  PROVE  LET r == Reading(s)
         IN  r \in Snapshot /\ Dated(r) /\ spool[s] # Absent /\ spool[s].at = r.at /\ spool[s].lim = r.lim
<1> DEFINE r == Reading(s)
<1>1. r \in Attributed(s)
  BY DEF Reading
<1> HIDE DEF r
<1>2. spool[s] # Absent /\ r \in Snapshot /\ r.at = spool[s].at /\ r.lim = spool[s].lim
  BY <1>1 DEF Attributed
<1> QED BY <1>2 DEF r, Dated

\* One file of a pass leaves the device sound.
LEMMA IngestKeeps ==
  ASSUME ReadingsTypeOK, NEW s \in Sessions, Attributed(s) # {}, spool[s] # Absent => spool[s].at <= now,
         NEW db, Sound(db)
  PROVE  Sound(Ingest(db, Reading(s)))
<1> DEFINE r == Reading(s)
<1>1. r \in Snapshot /\ Dated(r) /\ spool[s] # Absent /\ spool[s].at = r.at /\ spool[s].lim = r.lim
  BY ReadingOf
<1> HIDE DEF r
<1>3. CASE OnlyAt(r) /\ Corrects(db, r)
  BY <1>1, <1>3, CorrectKeeps DEF Ingest, r
<1>4. CASE ~(OnlyAt(r) /\ Corrects(db, r))
  BY <1>1, <1>4, AddKeeps DEF Ingest, r
<1> QED BY <1>3, <1>4

\* So does any number of them, one after another.
LEMMA PassKeeps ==
  ASSUME ReadingsTypeOK, \A s \in Sessions : spool[s] # Absent => spool[s].at <= now,
         Sound([snaps |-> snaps, outbox |-> outbox]),
         NEW k \in Nat, NEW seq \in [1..k -> {s \in Sessions : Attributed(s) # {}}]
  PROVE  Sound(Passed(seq)[Len(seq)])
<1> DEFINE A == {db \in Db : Sound(db)}
           first == [snaps |-> snaps, outbox |-> outbox]
           F == [i \in 1..k |-> [db \in A |-> Ingest(db, Reading(seq[i]))]]
<1>1. Len(seq) = k
  BY LenProperties, IsASeq
<1>2. first \in A
  BY DEF Sound
<1>3. ASSUME NEW i \in 1..k, NEW db \in A PROVE Ingest(db, Reading(seq[i])) \in A
  <2>1. seq[i] \in Sessions /\ Attributed(seq[i]) # {}
    OBVIOUS
  <2>2. Sound(Ingest(db, Reading(seq[i])))
    BY <2>1, IngestKeeps
  <2> QED BY <2>2 DEF Sound
<1> HIDE DEF A, first
<1>4. F \in [1..k -> [A -> A]]
  BY <1>3
<1>5. PICK f : f \in [0..k -> A] /\ f[0] = first /\ \A i \in 1..k : f[i] = F[i][f[i - 1]]
  <2> HIDE DEF F
  <2>1. \E f : Runs(k, A, first, F, f)
    BY <1>2, <1>4, Loop
  <2> QED BY <2>1 DEF Runs
<1>6. ASSUME NEW i \in 1..k PROVE f[i] = Ingest(f[i - 1], Reading(seq[i]))
  <2>1. f[i - 1] \in A /\ f[i] = F[i][f[i - 1]]
    BY <1>5
  <2> QED BY <2>1
<1> HIDE DEF F
<1>7. f = [i \in 0..k |-> IF i = 0 THEN first ELSE Ingest(f[i - 1], Reading(seq[i]))]
  <2>1. \A i \in 0..k : f[i] = IF i = 0 THEN first ELSE Ingest(f[i - 1], Reading(seq[i]))
    BY <1>5, <1>6
  <2> QED BY <1>5, <2>1
<1> DEFINE g == Passed(seq)
<1>8. g = [i \in 0..k |-> IF i = 0 THEN first ELSE Ingest(g[i - 1], Reading(seq[i]))]
  BY <1>1, <1>7 DEF Passed, first
<1> HIDE DEF g
<1>9. \A i \in 0..k : g[i] = IF i = 0 THEN first ELSE Ingest(g[i - 1], Reading(seq[i]))
  BY <1>8
<1> DEFINE S == {i \in 0..k : g[i] \in A}
<1>10. 0 \in S
  BY <1>2, <1>9
<1>11. ASSUME NEW i \in 1..k, i - 1 \in S PROVE i \in S
  <2>1. i \in 0..k /\ i # 0 /\ g[i - 1] \in A
    BY <1>11
  <2> QED BY <1>3, <1>9, <2>1
<1> HIDE DEF S
<1>12. 0..k \subseteq S
  BY <1>10, <1>11, UpTo
<1>13. g[k] \in A
  BY <1>12 DEF S
<1> QED BY <1>1, <1>13 DEF A, g

\* A course goes on where more rows are settled.
LEMMA CourseStays ==
  ASSUME NEW table, NEW queue, NEW h, NEW fixed, NEW more, fixed \subseteq more, Course(table, queue, h, fixed)
  PROVE  Course(table, queue, h, more)
BY DEF Course, Made

\* Where tables and queue stay as they are, a settled row only stays settled.
LEMMA QuietKeeps ==
  ASSUME ReadingsFollow, UNCHANGED <<snaps, outbox, lost, uploading>>,
         Settled \subseteq Settled',
         \A x \in snaps : Dated(x) => Dated(x)',
         \A s \in Sessions : spool'[s] # Absent => spool'[s].at <= now'
  PROVE  ReadingsFollow'
<1>1. ASSUME ~lost, ~late PROVE Mirrored(snaps, outbox)'
  <2>1. PICK h \in [0..Len(outbox) -> SUBSET Snapshot] :
               Course(snaps, outbox, h, Settled) /\ Follows(stored, h, reached, Len(outbox))
    BY <1>1 DEF ReadingsFollow, Mirrored
  <2>2. Course(snaps, outbox, h, Settled')
    BY <2>1, CourseStays
  <2>3. \A x \in snaps : Dated(x)'
    BY <1>1 DEF ReadingsFollow, Mirrored
  <2> QED BY <2>1, <2>2, <2>3 DEF Mirrored, uploading
<1> QED BY <1>1 DEF ReadingsFollow, uploading

\* A pass leaves the device sound.
LEMMA IngestStatusLineKeeps ==
  ASSUME ReadingsTyped, ReadingsFollow, IngestStatusLine
  PROVE  ReadingsTyped' /\ ReadingsFollow'
<1>0. PICK T \in SUBSET {s \in Sessions : Attributed(s) # {}} : \E seq \in SetToSeqs(T) :
        LET db == Passed(seq)[Len(seq)] IN snaps' = db.snaps /\ outbox' = db.outbox
  BY DEF IngestStatusLine, Passed
<1>2. UNCHANGED <<now, cli, events, spool, wire, stored, reached, lost, late>>
  BY DEF IngestStatusLine, uploading
<1>1. PICK seq \in SetToSeqs(T) :
        LET db == Passed(seq)[Len(seq)] IN snaps' = db.snaps /\ outbox' = db.outbox
  BY <1>0
<1>3. Cardinality(T) \in Nat
  <2>1. IsFiniteSet(T)
    BY ReadingsConstants, FS_Subset
  <2> QED BY <2>1, FS_CardinalityType
<1>4. seq \in [1..Cardinality(T) -> {s \in Sessions : Attributed(s) # {}}]
  BY ClaudeCounts
<1>5. Sound([snaps |-> snaps, outbox |-> outbox])
  <2> DEFINE db == [snaps |-> snaps, outbox |-> outbox]
  <2>1. db.snaps = snaps /\ db.outbox = outbox /\ db \in Db
    BY DEF ReadingsTyped, ReadingsTypeOK, Db
  <2> HIDE DEF db
  <2>2. Sound(db)
    BY <2>1 DEF Sound, ReadingsTyped, ReadingsTypeOK, ReadingsFollow, Keyed, Continues
  <2> QED BY <2>2 DEF db
<1>6. Sound(Passed(seq)[Len(seq)])
  BY <1>3, <1>4, <1>5, PassKeeps DEF ReadingsTyped, ReadingsFollow
<1>7. snaps' \in SUBSET Snapshot /\ outbox' \in Seq(Queued) /\ IsFiniteSet(snaps') /\ Keyed(snaps')
  BY <1>1, <1>6 DEF Sound, Db
<1>8. ReadingsTyped'
  <2>1. Continues(outbox')
    BY <1>1, <1>6 DEF Sound
  <2>2. Len(outbox) \in Nat /\ Len(outbox') \in Nat /\ reached' \in 0..Len(outbox')
    BY <1>2, <1>7, <2>1, LenProperties DEF Continues, ReadingsTyped, ReadingsTypeOK
  <2>3. ASSUME NEW q \in Requests, wire[q] # Absent PROVE Underway(wire[q])'
    <3>1. Underway(wire[q]) /\ wire[q].covers \in Nat
      BY <2>3 DEF ReadingsTyped, ReadingsTypeOK, Request
    <3> QED BY <1>2, <2>1, <2>2, <3>1 DEF Underway, Continues
  <2> QED BY <1>2, <1>7, <2>2, <2>3 DEF ReadingsTyped, ReadingsTypeOK, Keyed
<1>9. ~lost /\ ~late => Mirrored(snaps', outbox')
  BY <1>1, <1>6 DEF Sound
<1>10. ASSUME ~lost, ~late PROVE Mirrored(snaps, outbox)'
  <2>1. \A x \in snaps' : Dated(x)'
    BY <1>2, <1>9, <1>10 DEF Mirrored, Dated
  <2>2. \E h \in [0..Len(outbox') -> SUBSET Snapshot] :
          Course(snaps', outbox', h, Settled') /\ Follows(stored', h, reached', Len(outbox'))
    <3>1. Settled' = Settled
      BY <1>2 DEF Settled
    <3> QED BY <1>2, <1>9, <1>10, <3>1 DEF Mirrored
  <2> QED BY <2>1, <2>2 DEF Mirrored
<1> QED BY <1>2, <1>8, <1>10 DEF ReadingsFollow

\* No correction queued, the server has none but the device's readings.
LEMMA StoredWithin ==
  ASSUME ReadingsTyped, NEW h, Course(snaps, outbox, h, Settled), Follows(stored, h, reached, Len(outbox)),
         \A i \in 1..Len(outbox) : outbox[i].prev = Absent
  PROVE  stored \subseteq snaps
<1> DEFINE n == Len(outbox)
           S == {k \in 0..n : h[n - k] \subseteq snaps}
<1>1. n \in Nat /\ outbox \in Seq(Queued) /\ reached \in Nat
  BY LenProperties DEF ReadingsTyped, ReadingsTypeOK
<1>2. 0 \in S
  BY <1>1 DEF Course
<1>3. ASSUME NEW k \in 1..n, k - 1 \in S PROVE k \in S
  <2> DEFINE i == (n - k) + 1
  <2>1. i \in 1..n /\ i - 1 = n - k /\ i = n - (k - 1) /\ k \in 0..n
    BY <1>1
  <2> HIDE DEF i
  <2>2. Made(outbox, h, i, Settled) /\ outbox[i].prev = Absent /\ h[i] \subseteq snaps
    BY <1>3, <2>1 DEF Course
  <2>3. h[i - 1] \subseteq h[i]
    BY <2>2 DEF Made, Store
  <2> QED BY <2>1, <2>2, <2>3
<1> HIDE DEF S
<1>4. 0..n \subseteq S
  BY <1>1, <1>2, <1>3, UpTo
<1>5. ASSUME NEW x \in stored PROVE x \in snaps
  <2>1. x.acct \in Accounts /\ x.at \in Times
    BY DEF ReadingsTyped, ReadingsTypeOK, Snapshot
  <2>2. PICK j \in reached..n : Held(stored, x.acct, x.at) = Held(h[j], x.acct, x.at)
    BY <2>1 DEF Follows
  <2>3. x \in h[j]
    BY <2>2 DEF Held
  <2>4. n - j \in S /\ n - (n - j) = j
    BY <1>1, <1>4
  <2> QED BY <2>3, <2>4 DEF S
<1> QED BY <1>5

\* A resync sends every reading again: the server has some of them and takes
\* the others.
LEMMA RequeueKeeps ==
  ASSUME ReadingsTyped, ReadingsFollow, Requeue
  PROVE  ReadingsTyped' /\ ReadingsFollow'
<1>1. PICK seq \in SetToSeqs(snaps) : outbox' = [i \in DOMAIN seq |-> Queue(seq[i], Absent)]
  BY DEF Requeue
<1>2. /\ lost' = (lost \/ \E i \in DOMAIN outbox : outbox[i].prev # Absent)
      /\ reached' = 0
      /\ wire' = [q \in Requests |-> IF wire[q] = Absent THEN Absent ELSE [wire[q] EXCEPT !.covers = 0]]
      /\ UNCHANGED <<now, cli, events, spool, snaps, stored, late>>
  BY DEF Requeue
<1> DEFINE n == Cardinality(snaps)
<1>3. n \in Nat
  BY FS_CardinalityType DEF ReadingsTyped
<1>4. seq \in [1..n -> snaps] /\ \A i, j \in 1..n : i # j => seq[i] # seq[j]
  BY ClaudeCounts
<1>5. \A r \in snaps : \E i \in 1..n : seq[i] = r
  <2>1. seq \in Injection(1..n, snaps)
    BY <1>4 DEF Injection, IsInjective
  <2>2. Cardinality(1..n) = n
    BY <1>3, FS_Interval
  <2>3. seq \in Surjection(1..n, snaps)
    BY <2>1, <2>2, FS_Injection DEF ReadingsTyped
  <2> QED BY <2>3 DEF Surjection
<1> HIDE DEF n
<1>6. snaps \in SUBSET Snapshot /\ Keyed(snaps) /\ stored \in SUBSET Snapshot
  BY DEF ReadingsTyped, ReadingsTypeOK, Keyed
<1>7. \A i \in 1..n : outbox'[i] = Queue(seq[i], Absent) /\ outbox'[i] \in Queued
  BY <1>1, <1>4, <1>6, QueueTyped
<1>8. outbox' \in Seq(Queued) /\ Len(outbox') = n
  <2>1. outbox' \in [1..n -> Queued]
    BY <1>1, <1>4, <1>7
  <2> QED BY <1>3, <2>1, IsASeq, LenProperties
<1>9. ReadingsTyped'
  <2>1. ASSUME NEW q \in Requests, wire'[q] # Absent
        PROVE  wire'[q] \in Request /\ Underway(wire[q])'
    <3> DEFINE r == wire[q]
               left == [r EXCEPT !.covers = 0]
    <3>1. wire'[q] = left /\ r \in Request
      BY <1>2, <2>1 DEF ReadingsTyped, ReadingsTypeOK
    <3> HIDE DEF r
    <3>2. left \in Request /\ left.covers = 0
      BY <3>1 DEF Request
    <3> HIDE DEF left
    <3>3. Len(left.batch) \in Nat
      BY <3>2, LenProperties DEF Request
    <3> QED BY <1>2, <1>3, <1>8, <3>1, <3>2, <3>3 DEF Underway
  <2>2. wire' \in [Requests -> Request \cup {Absent}] /\ reached' \in 0..Len(outbox')
    BY <1>2, <1>3, <1>8, <2>1
  <2> QED BY <1>2, <1>8, <2>1, <2>2 DEF ReadingsTyped, ReadingsTypeOK
<1>10. ASSUME ~lost', ~late' PROVE Mirrored(snaps, outbox)'
  <2>1. ~lost /\ ~late /\ \A i \in 1..Len(outbox) : outbox[i].prev = Absent
    <3>1. DOMAIN outbox = 1..Len(outbox)
      BY LenProperties DEF ReadingsTyped, ReadingsTypeOK
    <3> QED BY <1>2, <1>10, <3>1
  <2>2. (\A x \in snaps : Dated(x)) /\ stored \subseteq snaps
    BY <2>1, StoredWithin DEF ReadingsFollow, Mirrored
  <2> DEFINE g == [i \in 0..n |-> stored \cup {seq[k] : k \in 1..i}]
  <2>3. \A i \in 0..n : \A k \in 1..i : k \in 1..n
    BY <1>3
  <2>4. \A i \in 0..n : g[i] \subseteq snaps /\ Keyed(g[i])
    BY <1>4, <1>6, <2>2, <2>3 DEF Keyed
  <2>5. g \in [0..n -> SUBSET Snapshot]
    BY <1>6, <2>4
  <2>6. g[n] = snaps /\ g[0] = stored
    <3>1. n \in 0..n /\ 0 \in 0..n
      BY <1>3
    <3>2. {seq[k] : k \in 1..n} = snaps
      BY <1>4, <1>5
    <3> QED BY <2>2, <3>1, <3>2
  <2>7. ASSUME NEW i \in 1..n PROVE Made(outbox', g, i, Settled')
    <3> DEFINE q == outbox'[i]
    <3>1. seq[i] \in Snapshot /\ seq[i] \in snaps /\ i \in 0..n /\ i - 1 \in 0..n
      BY <1>3, <1>4, <1>6
    <3>2. q.prev = Absent /\ q.acct = seq[i].acct /\ q.at = seq[i].at /\ Row(q) = seq[i]
      BY <1>7, <3>1, QueueTyped
    <3>3. g[i] = g[i - 1] \cup {seq[i]}
      <4>1. {seq[k] : k \in 1..i} = {seq[k] : k \in 1..(i - 1)} \cup {seq[i]}
        <5>1. 1..i = (1..(i - 1)) \cup {i}
          BY <1>3
        <5> QED BY <5>1
      <4> QED BY <3>1, <4>1
    <3>4. Held(g[i - 1], q.acct, q.at) \subseteq {Row(q)}
      BY <1>6, <2>4, <3>1, <3>2 DEF Held, Keyed
    <3> HIDE DEF g, q
    <3>5. g[i] = Store(q, g[i - 1])
      <4>1. CASE Taken(g[i - 1], q)
        <5>1. PICK x \in g[i - 1] : x.acct = q.acct /\ x.at = q.at
          BY <4>1 DEF Taken
        <5>2. x = seq[i]
          BY <3>2, <3>4, <5>1 DEF Held
        <5> QED BY <3>2, <3>3, <4>1, <5>1, <5>2 DEF Store
      <4>2. CASE ~Taken(g[i - 1], q)
        BY <3>2, <3>3, <4>2 DEF Store, Row
      <4> QED BY <4>1, <4>2
    <3> QED BY <3>2, <3>4, <3>5 DEF Made, q
  <2> HIDE DEF g
  <2>8. Course(snaps', outbox', g, Settled')
    BY <1>2, <1>8, <2>4, <2>5, <2>6, <2>7 DEF Course
  <2>9. Follows(stored', g, reached', n)
    <3>1. 0 \in 0..n
      BY <1>3
    <3> QED BY <1>2, <2>6, <3>1 DEF Follows
  <2>10. \A x \in snaps' : Dated(x)'
    BY <1>2, <2>2 DEF Dated
  <2> QED BY <1>8, <2>5, <2>8, <2>9, <2>10 DEF Mirrored
<1> QED BY <1>2, <1>9, <1>10 DEF ReadingsFollow

\* The clock, the logs and the sign-ins, and Claude Code at the spool files.
LEMMA AsideKeeps ==
  ASSUME ReadingsTyped, ReadingsFollow,
         \/ Tick \/ IngestEvent \/ ObserveCLI \/ UNCHANGED readingsVars
         \/ \E s \in Sessions : Spool(s) \/ PruneSpool(s)
  PROVE  ReadingsTyped' /\ ReadingsFollow'
<1>1. /\ MaxTime \in Nat /\ now \in Nat /\ 1 <= now /\ now <= MaxTime /\ Times = 1..MaxTime
      /\ spool \in [Sessions -> [at : Times, lim : Limits] \cup {Absent}]
      /\ \A s \in Sessions : spool[s] # Absent => spool[s].at <= now
  BY ClaudeBounds DEF ReadingsTyped, ReadingsFollow, ReadingsTypeOK
<1>2. \A x \in snaps : x.at \in Nat
  BY ClaudeBounds DEF ReadingsTyped, ReadingsTypeOK, Underway, uploading, Snapshot
<1>3. \A x \in Snapshot : x.at \in Nat
  BY ClaudeBounds DEF Snapshot
<1>4. CASE Tick
  <2>1. now' = now + 1 /\ now < MaxTime /\ UNCHANGED <<cli, events, spool, snaps, outbox, lost, uploading>>
    BY <1>4 DEF Tick
  <2>2. ReadingsTyped'
    BY <1>1, <2>1 DEF ReadingsTyped, ReadingsTypeOK, Underway, uploading
  <2>3. Settled \subseteq Settled'
    BY <1>1, <1>3, <2>1 DEF Settled
  <2>4. \A x \in snaps : Dated(x) => Dated(x)'
    BY <1>1, <1>2, <2>1 DEF Dated
  <2>5. \A s \in Sessions : spool'[s] # Absent => spool'[s].at <= now'
    <3> SUFFICES ASSUME NEW s \in Sessions, spool[s] # Absent PROVE spool[s].at <= now + 1
      BY <2>1
    <3>1. spool[s].at \in Nat /\ spool[s].at <= now
      BY <1>1
    <3> QED BY <1>1, <3>1
  <2> QED BY <2>1, <2>2, <2>3, <2>4, <2>5, QuietKeeps
<1>5. CASE IngestEvent \/ ObserveCLI \/ UNCHANGED readingsVars
  <2>1. UNCHANGED <<now, spool, snaps, outbox, lost, uploading>>
    BY <1>5 DEF IngestEvent, ObserveCLI, readingsVars
  <2>2. ReadingsTyped'
    <3>1. CASE IngestEvent
      <4>1. 1..now \subseteq Times
        BY <1>1
      <4> QED BY <2>1, <3>1, <4>1 DEF ReadingsTyped, ReadingsTypeOK, Underway, uploading, IngestEvent
    <3>2. CASE ObserveCLI
      BY <2>1, <3>2 DEF ReadingsTyped, ReadingsTypeOK, Underway, uploading, ObserveCLI
    <3>3. CASE UNCHANGED readingsVars
      BY <3>3 DEF ReadingsTyped, ReadingsTypeOK, Underway, uploading, readingsVars
    <3> QED BY <1>5, <3>1, <3>2, <3>3
  <2>3. Settled \subseteq Settled' /\ \A x \in snaps : Dated(x) => Dated(x)'
    BY <2>1 DEF Settled, Dated
  <2> QED BY <1>1, <2>1, <2>2, <2>3, QuietKeeps
<1>6. ASSUME NEW s \in Sessions, Spool(s) PROVE ReadingsTyped' /\ ReadingsFollow'
  <2>1. PICK l \in Limits :
          /\ spool[s] # Absent => spool[s].at # now
          /\ spool' = [spool EXCEPT ![s] = [at |-> now, lim |-> l]]
    BY <1>6 DEF Spool
  <2>2. UNCHANGED <<now, cli, events, snaps, outbox, lost, uploading>>
    BY <1>6 DEF Spool
  <2>3. spool' \in [Sessions -> [at : Times, lim : Limits] \cup {Absent}]
    BY <1>1, <2>1
  <2>4. \A z \in Sessions : spool'[z] = IF z = s THEN [at |-> now, lim |-> l] ELSE spool[z]
    BY <1>1, <2>1
  <2>5. ReadingsTyped'
    BY <2>2, <2>3 DEF ReadingsTyped, ReadingsTypeOK, Underway, uploading
  <2>6. Settled \subseteq Settled'
    <3> SUFFICES ASSUME NEW x \in Settled, NEW z \in Sessions, spool'[z] # Absent, spool'[z].at = x.at, spool'[z].lim = x.lim
                 PROVE  FALSE
      BY <2>2 DEF Settled
    <3>1. x.at \in Nat /\ x.at < now
      BY <1>3 DEF Settled
    <3> QED BY <1>1, <2>4, <3>1 DEF Settled
  <2>7. \A x \in snaps : Dated(x) => Dated(x)'
    BY <2>1, <2>2, <2>4 DEF Dated
  <2>8. \A z \in Sessions : spool'[z] # Absent => spool'[z].at <= now'
    BY <1>1, <2>2, <2>4
  <2> QED BY <2>2, <2>5, <2>6, <2>7, <2>8, QuietKeeps
<1>7. ASSUME NEW s \in Sessions, PruneSpool(s) PROVE ReadingsTyped' /\ ReadingsFollow'
  <2>1. spool[s].at < now /\ spool' = [spool EXCEPT ![s] = Absent]
    BY <1>7 DEF PruneSpool
  <2>2. UNCHANGED <<now, cli, events, snaps, outbox, lost, uploading>>
    BY <1>7 DEF PruneSpool
  <2>3. \A z \in Sessions : spool'[z] = IF z = s THEN Absent ELSE spool[z]
    BY <1>1, <2>1
  <2>4. ReadingsTyped'
    BY <1>1, <2>1, <2>2 DEF ReadingsTyped, ReadingsTypeOK, Underway, uploading
  <2>5. Settled \subseteq Settled'
    BY <2>2, <2>3 DEF Settled
  <2>6. \A x \in snaps : Dated(x) => Dated(x)'
    BY <1>1, <1>2, <2>1, <2>2, <2>3 DEF Dated
  <2>7. \A z \in Sessions : spool'[z] # Absent => spool'[z].at <= now'
    BY <1>1, <2>2, <2>3
  <2> QED BY <2>2, <2>4, <2>5, <2>6, <2>7, QuietKeeps
<1> QED BY <1>4, <1>5, <1>6, <1>7

\* Nothing is queued on a new device, and nothing stored.
LEMMA ReadingsInitially == ReadingsInit => ReadingsTyped /\ ReadingsFollow
<1> SUFFICES ASSUME ReadingsInit PROVE ReadingsTyped /\ ReadingsFollow
  OBVIOUS
<1>1. ReadingsTyped
  <2>1. <<>> \in Seq(Queued) /\ IsFiniteSet({})
    BY EmptySeq, FS_EmptySet
  <2>2. 1 \in Times
    BY ClaudeBounds
  <2>3. [t \in Times |-> Absent] \in [Times -> Accounts \cup {Absent}]
    OBVIOUS
  <2>4. [s \in Sessions |-> Absent] \in [Sessions -> [at : Times, lim : Limits] \cup {Absent}]
    OBVIOUS
  <2>5. Len(outbox) = 0 /\ 0 \in 0..0 /\ \A q \in Requests : wire[q] = Absent
    BY EmptySeq, LenProperties DEF ReadingsInit
  <2> QED BY <2>1, <2>2, <2>3, <2>4, <2>5 DEF ReadingsInit, ReadingsTyped, ReadingsTypeOK
<1>2. Mirrored(snaps, outbox)
  <2> DEFINE h == [i \in 0..0 |-> {}]
  <2>1. Len(outbox) = 0 /\ snaps = {} /\ stored = {} /\ reached = 0
    BY EmptySeq, LenProperties DEF ReadingsInit
  <2>2. h \in [0..0 -> SUBSET Snapshot] /\ h[0] = {} /\ \A i \in 0..0 : h[i] = {}
    OBVIOUS
  <2> HIDE DEF h
  <2>3. Course(snaps, outbox, h, Settled)
    BY <2>1, <2>2 DEF Course, Keyed
  <2>4. Follows(stored, h, reached, Len(outbox))
    BY <2>1, <2>2 DEF Follows
  <2> QED BY <2>1, <2>2, <2>3, <2>4 DEF Mirrored
<1>3. \A s \in Sessions : spool[s] = Absent
  BY DEF ReadingsInit
<1> QED BY <1>1, <1>2, <1>3 DEF ReadingsFollow

\* Every step keeps it.
LEMMA ReadingsStep ==
  ReadingsTyped /\ ReadingsFollow /\ [ReadingsNext]_(readingsVars) => ReadingsTyped' /\ ReadingsFollow'
<1> SUFFICES ASSUME ReadingsTyped, ReadingsFollow, [ReadingsNext]_(readingsVars)
             PROVE  ReadingsTyped' /\ ReadingsFollow'
  OBVIOUS
<1> QED BY AsideKeeps, IngestStatusLineKeeps, UploadKeepsUp, RequeueKeeps DEF ReadingsNext, Device

\* The readings are well typed: the device and the server hold one reading at
\* most of an account and moment.
THEOREM ReadingsTypeCorrect == ReadingsSpec => []ReadingsTypeOK
<1>1. ReadingsTyped => ReadingsTypeOK
  BY DEF ReadingsTyped
<1> QED BY <1>1, ReadingsInitially, ReadingsStep, PTL DEF ReadingsSpec

\* Once everything queued is answered, the server holds the readings the
\* device has and no other (CorrectSnapshot, Ingest's correction), for any
\* number of sessions, accounts, limits and moments, requests of any size and
\* any number of them at once, and any number of corrections, lost answers and
\* resyncs, until a resync drops a correction or a request comes late.
THEOREM ServerHasTheReadings == ReadingsSpec => []ReadingsAgree
<1>1. ReadingsTyped /\ ReadingsFollow => ReadingsAgree
  <2> SUFFICES ASSUME ReadingsTyped, ReadingsFollow, outbox = <<>>, ~lost, ~late PROVE stored = snaps
    BY DEF ReadingsAgree
  <2>1. PICK h : Course(snaps, outbox, h, Settled) /\ Follows(stored, h, reached, Len(outbox))
    BY DEF ReadingsFollow, Mirrored
  <2>2. Len(outbox) = 0 /\ h[0] = snaps /\ reached = 0
    BY <2>1, EmptySeq, LenProperties DEF Course, ReadingsTyped, ReadingsTypeOK
  <2>3. \A a \in Accounts, t \in Times : Held(stored, a, t) = Held(snaps, a, t)
    <3> SUFFICES ASSUME NEW a \in Accounts, NEW t \in Times PROVE Held(stored, a, t) = Held(snaps, a, t)
      OBVIOUS
    <3>1. PICK j \in 0..0 : Held(stored, a, t) = Held(h[j], a, t)
      BY <2>1, <2>2 DEF Follows
    <3> QED BY <2>2, <3>1
  <2>4. \A x \in Snapshot : x.acct \in Accounts /\ x.at \in Times
    BY DEF Snapshot
  <2>5. stored \subseteq Snapshot /\ snaps \subseteq Snapshot
    BY DEF ReadingsTyped, ReadingsTypeOK
  <2>6. ASSUME NEW x \in Snapshot PROVE x \in stored <=> x \in snaps
    <3>1. x \in Held(stored, x.acct, x.at) <=> x \in Held(snaps, x.acct, x.at)
      BY <2>3, <2>4
    <3> QED BY <3>1 DEF Held
  <2> QED BY <2>5, <2>6
<1> QED BY <1>1, ReadingsInitially, ReadingsStep, PTL DEF ReadingsSpec
=============================================================================
