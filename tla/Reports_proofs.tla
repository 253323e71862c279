--------------------------- MODULE Reports_proofs ---------------------------
(***************************************************************************)
(* Proofs about what reports are made of: a Codex session's requests are   *)
(* counted once, a Claude Code transcript's are placed where they belong   *)
(* (Rollout and Transcript, as MCReports instantiates them).               *)
(***************************************************************************)
EXTENDS MCReports, FiniteSetTheorems, SequenceTheorems, WellFoundedInduction, TLAPS

\* A set of natural numbers has a least one.
LEMMA Least ==
  ASSUME NEW S, S \subseteq Nat, S # {}
  PROVE  \E i \in S : \A j \in S : i <= j
<1> DEFINE R == OpToRel(<, Nat)
<1>1. IsWellFoundedOn(R, Nat)
  BY Zenon, NatLessThanWellFounded
<1>2. \A x, y \in Nat : <<x, y>> \in R <=> x < y
  BY DEF OpToRel
<1> HIDE DEF R
<1>3. PICK x \in S : \A y \in S : ~ (<<y, x>> \in R)
  BY <1>1, WFMin
<1>4. x \in Nat /\ \A y \in S : y \in Nat /\ ~(y < x)
  BY <1>2, <1>3
<1>5. \A y \in S : x <= y
  BY <1>4
<1> QED BY <1>5

\* A set of numbers that holds 0, and every number whose predecessor it
\* holds, holds them all: induction as a fact about a set.
LEMMA UpTo ==
  ASSUME NEW n \in Nat, NEW S, 0 \in S, \A i \in 1..n : i - 1 \in S => i \in S
  PROVE  0..n \subseteq S
<1> DEFINE Bad == {i \in 0..n : i \notin S}
<1> SUFFICES ASSUME Bad # {} PROVE FALSE
  OBVIOUS
<1>1. PICK i \in Bad : \A j \in Bad : i <= j
  <2>1. Bad \subseteq Nat
    OBVIOUS
  <2> HIDE DEF Bad
  <2> QED BY <2>1, Least
<1>2. i \in 0..n /\ i \notin S
  BY <1>1
<1>3. i \in 1..n /\ i - 1 \in 0..n
  BY <1>2
<1>4. i - 1 \notin Bad
  BY <1>1, <1>3
<1> QED BY <1>2, <1>3, <1>4

\* f has the value of a loop after each of its n steps, from a on: the i-th
\* step applies F[i].
Runs(n, A, a, F, f) ==
  f \in [0..n -> A] /\ f[0] = a /\ \A i \in 1..n : f[i] = F[i][f[i - 1]]

\* Such a loop runs.
LEMMA Loop ==
  ASSUME NEW n \in Nat, NEW A, NEW a \in A, NEW F \in [1..n -> [A -> A]]
  PROVE  \E f : Runs(n, A, a, F, f)
<1> DEFINE S == {k \in 0..n : \E f \in [0..k -> A] : Runs(k, A, a, F, f)}
<1>1. 0 \in S
  <2> DEFINE f == [i \in 0..0 |-> a]
  <2>1. f \in [0..0 -> A] /\ Runs(0, A, a, F, f)
    BY DEF Runs
  <2> HIDE DEF f
  <2> QED BY <2>1
<1>2. ASSUME NEW k \in 1..n, k - 1 \in S PROVE k \in S
  <2>1. PICK f \in [0..(k - 1) -> A] : Runs(k - 1, A, a, F, f)
    BY <1>2
  <2> DEFINE g == [i \in 0..k |-> IF i = k THEN F[k][f[k - 1]] ELSE f[i]]
  <2>2. f[k - 1] \in A
    BY <2>1
  <2>3. F[k][f[k - 1]] \in A
    BY <2>2
  <2>4. g \in [0..k -> A]
    BY <2>1, <2>3
  <2>5. g[0] = a
    BY <2>1 DEF Runs
  <2>6. ASSUME NEW i \in 1..k PROVE g[i] = F[i][g[i - 1]]
    <3>1. g[i - 1] = f[i - 1] /\ i - 1 \in 0..(k - 1)
      OBVIOUS
    <3>2. CASE i = k
      <4>1. g[k] = F[k][f[k - 1]]
        OBVIOUS
      <4> HIDE DEF g
      <4> QED BY <3>1, <3>2, <4>1
    <3>3. CASE i # k
      <4>1. i \in 1..(k - 1)
        BY <3>3
      <4> QED BY <2>1, <3>1, <3>3, <4>1 DEF Runs
    <3> QED BY <3>2, <3>3
  <2>7. Runs(k, A, a, F, g)
    BY <2>4, <2>5, <2>6 DEF Runs
  <2> HIDE DEF g
  <2> QED BY <2>4, <2>7
<1>3. n \in S
  <2> HIDE DEF S
  <2>1. 0..n \subseteq S
    BY <1>1, <1>2, UpTo
  <2> QED BY <2>1
<1> QED BY <1>3

-----------------------------------------------------------------------------
(***************************************************************************)
(* Rollout: a session's requests are counted once.                         *)
(***************************************************************************)
\* The lines Codex writes.
Metas == {Codex!MetaLine(openai) : openai \in BOOLEAN}
Contexts == {Codex!ContextLine(m) : m \in Models}
Records == {Codex!RecordLine(id, n, t) : id \in Nat \cup {None}, n \in Sizes, t \in Nat}
Counts == {Codex!CountLine(n, t, limit) : n \in Sizes \cup {None}, t \in Nat, limit \in RateLimits \cup {None}}
Written == Metas \cup Contexts \cup Records \cup Counts

\* What a pass may have gathered.
Told == [key : {"id", "tc"} \X Int, tokens : Int, third : BOOLEAN]
Seen == [line : Nat, keys : {{Codex!BucketKey(w) : w \in limit.windows} : limit \in RateLimits}]
Parsing ==
  [skipped : BOOLEAN, model : Models \cup {None}, records : Seq(Told), counts : Seq(Told),
   prev : Int \cup {None}, snaps : SUBSET Seen, line : Nat]

\* Requests have tokens, and None is no model, limit or number.
LEMMA CodexBounds ==
  /\ Sizes \subseteq Nat \ {0} /\ Parents \subseteq Nat /\ Routed \subseteq Models
  /\ None \notin Models /\ None \notin RateLimits /\ None \notin Nat
BY PartsAssumption DEF Codex!RolloutConstants

\* A pass begins with nothing.
LEMMA NothingYet == Codex!Nothing \in Parsing
<1>1. <<>> \in Seq(Told)
  BY EmptySeq
<1> QED BY <1>1 DEF Codex!Nothing, Parsing

\* Every line is counted.
Numbered(r) == [r EXCEPT !.line = @ + 1]

\* Counting a line changes nothing else.
LEMMA LineNumbered ==
  ASSUME NEW r \in Parsing
  PROVE  LET u == Numbered(r)
         IN  /\ u \in Parsing /\ u.line = r.line + 1
             /\ u.skipped = r.skipped /\ u.model = r.model /\ u.records = r.records /\ u.counts = r.counts
             /\ u.prev = r.prev /\ u.snaps = r.snaps
BY DEF Parsing, Numbered

\* What a line does depends on its kind.
LEMMA LineRead ==
  ASSUME NEW r \in Parsing, NEW l
  PROVE  /\ r.skipped => Codex!ReadLine(r, l) = Numbered(r)
         /\ ~r.skipped /\ l.type = "session_meta" => Codex!ReadLine(r, l) = [Numbered(r) EXCEPT !.skipped = ~l.id]
         /\ ~r.skipped /\ l.type = "turn_context" => Codex!ReadLine(r, l) = [Numbered(r) EXCEPT !.model = l.model]
         /\ ~r.skipped /\ l.type = "record" => Codex!ReadLine(r, l) = Codex!ReadRecord(Numbered(r), l)
         /\ ~r.skipped /\ l.type = "count" => Codex!ReadLine(r, l) = Codex!ReadCount(Numbered(r), l)
<1>1. r.skipped \in BOOLEAN /\ Numbered(r).skipped = r.skipped
  BY DEF Parsing, Numbered
<1> DEFINE u == Numbered(r)
<1>2. Codex!ReadLine(r, l) =
        IF u.skipped THEN u
        ELSE CASE l.type = "session_meta" -> [u EXCEPT !.skipped = ~l.id]
               [] l.type = "turn_context" -> [u EXCEPT !.model = l.model]
               [] l.type = "record" -> Codex!ReadRecord(u, l)
               [] l.type = "count" -> Codex!ReadCount(u, l)
  BY DEF Codex!ReadLine, Numbered
<1> HIDE DEF u
<1> DEFINE a == [u EXCEPT !.skipped = ~l.id]
           b == [u EXCEPT !.model = l.model]
           c == Codex!ReadRecord(u, l)
           d == Codex!ReadCount(u, l)
<1>3. Codex!ReadLine(r, l) = IF u.skipped THEN u
                             ELSE CASE l.type = "session_meta" -> a [] l.type = "turn_context" -> b
                                    [] l.type = "record" -> c [] l.type = "count" -> d
  BY <1>2
<1> HIDE DEF a, b, c, d
<1>4. u.skipped = r.skipped
  BY <1>1 DEF u
<1>5. /\ r.skipped => Codex!ReadLine(r, l) = u
      /\ ~r.skipped /\ l.type = "session_meta" => Codex!ReadLine(r, l) = a
      /\ ~r.skipped /\ l.type = "turn_context" => Codex!ReadLine(r, l) = b
      /\ ~r.skipped /\ l.type = "record" => Codex!ReadLine(r, l) = c
      /\ ~r.skipped /\ l.type = "count" => Codex!ReadLine(r, l) = d
  BY <1>1, <1>3, <1>4
<1> QED BY <1>5 DEF u, a, b, c, d

\* Another provider's session is skipped from its first line on.
LEMMA MetaRead ==
  ASSUME NEW r \in Parsing, NEW openai \in BOOLEAN
  PROVE  LET q == Codex!ReadLine(r, Codex!MetaLine(openai))
         IN  /\ q \in Parsing /\ q.line = r.line + 1 /\ (~r.skipped => q.skipped = ~openai)
             /\ q.model = r.model /\ q.records = r.records /\ q.counts = r.counts
             /\ q.prev = r.prev /\ q.snaps = r.snaps
<1> DEFINE l == Codex!MetaLine(openai)
           u == Numbered(r)
<1>1. l.type = "session_meta" /\ l.id = openai
  BY DEF Codex!MetaLine, Codex!Line
<1>2. Codex!ReadLine(r, l) = IF r.skipped THEN u ELSE [u EXCEPT !.skipped = ~openai]
  BY <1>1, LineRead
<1>3. /\ u \in Parsing /\ u.line = r.line + 1 /\ u.skipped = r.skipped
      /\ u.model = r.model /\ u.records = r.records /\ u.counts = r.counts /\ u.prev = r.prev /\ u.snaps = r.snaps
  BY LineNumbered
<1> HIDE DEF l, u
<1> DEFINE q == [u EXCEPT !.skipped = ~openai]
<1>4. /\ q \in Parsing /\ q.line = u.line /\ q.skipped = ~openai
      /\ q.model = u.model /\ q.records = u.records /\ q.counts = u.counts /\ q.prev = u.prev /\ q.snaps = u.snaps
  BY <1>3 DEF Parsing
<1> HIDE DEF q
<1>5. Codex!ReadLine(r, l) = IF r.skipped THEN u ELSE q
  BY <1>2 DEF q
<1> QED BY <1>3, <1>4, <1>5 DEF l

\* A turn's model is that of the requests after it.
LEMMA ContextRead ==
  ASSUME NEW r \in Parsing, NEW m \in Models
  PROVE  LET q == Codex!ReadLine(r, Codex!ContextLine(m))
         IN  /\ q \in Parsing /\ q.line = r.line + 1 /\ q.skipped = r.skipped
             /\ q.records = r.records /\ q.counts = r.counts /\ q.prev = r.prev /\ q.snaps = r.snaps
             /\ ~r.skipped => q.model = m
<1> DEFINE l == Codex!ContextLine(m)
           u == Numbered(r)
<1>1. l.type = "turn_context" /\ l.model = m
  BY DEF Codex!ContextLine, Codex!Line
<1>2. Codex!ReadLine(r, l) = IF r.skipped THEN u ELSE [u EXCEPT !.model = m]
  BY <1>1, LineRead
<1> HIDE DEF l, u
<1> QED BY <1>2, LineNumbered DEF Parsing, u, l

\* A record is an event of its own.
LEMMA RecordRead ==
  ASSUME NEW r \in Parsing, NEW id \in Nat \cup {None}, NEW n \in Sizes, NEW t \in Nat
  PROVE  LET q == Codex!ReadLine(r, Codex!RecordLine(id, n, t))
             e == [key |-> IF id # None THEN <<"id", id>> ELSE <<"tc", t>>, tokens |-> n, third |-> r.model \in Routed]
         IN  /\ q \in Parsing /\ q.line = r.line + 1 /\ q.skipped = r.skipped
             /\ q.model = r.model /\ q.counts = r.counts /\ q.prev = r.prev /\ q.snaps = r.snaps
             /\ ~r.skipped => q.records = Append(r.records, e)
<1> DEFINE l == Codex!RecordLine(id, n, t)
           u == Numbered(r)
           e == [key |-> IF id # None THEN <<"id", id>> ELSE <<"tc", t>>, tokens |-> n, third |-> r.model \in Routed]
<1>1. l.type = "record" /\ l.id = id /\ l.tokens = n /\ l.total = t
  BY DEF Codex!RecordLine, Codex!Line
<1>2. u \in Parsing /\ u.records = r.records /\ u.model = r.model
  BY LineNumbered
<1> HIDE DEF l, u
<1>3. Codex!ReadRecord(u, l) = [u EXCEPT !.records = Append(u.records, e)]
  BY <1>1, <1>2 DEF Codex!ReadRecord, Codex!Event
<1>4. Codex!ReadLine(r, l) = IF r.skipped THEN u ELSE [u EXCEPT !.records = Append(u.records, e)]
  BY <1>1, <1>3, LineRead DEF u, Parsing
<1>5. e \in Told
  BY CodexBounds DEF Told
<1>6. Append(u.records, e) \in Seq(Told)
  BY <1>2, <1>5, AppendProperties DEF Parsing
<1> HIDE DEF e
<1> DEFINE more == Append(u.records, e)
           q == [u EXCEPT !.records = more]
<1>7. more \in Seq(Told) /\ more = Append(r.records, e)
  BY <1>2, <1>6
<1> HIDE DEF more
<1>8. /\ q \in Parsing /\ q.line = u.line /\ q.skipped = u.skipped /\ q.model = u.model
      /\ q.records = more /\ q.counts = u.counts /\ q.prev = u.prev /\ q.snaps = u.snaps
  BY <1>2, <1>7 DEF Parsing
<1>9. Codex!ReadLine(r, l) = IF r.skipped THEN u ELSE q
  BY <1>4 DEF more
<1> HIDE DEF q
<1>10. /\ u.line = r.line + 1 /\ u.skipped = r.skipped /\ u.counts = r.counts /\ u.prev = r.prev /\ u.snaps = r.snaps
  BY LineNumbered DEF u
<1> QED BY <1>2, <1>7, <1>8, <1>9, <1>10 DEF l, e

\* A reading is of a limit of the account's own.
LEMMA SnapshotSeen ==
  ASSUME NEW r \in Parsing, NEW n, NEW t, NEW limit \in RateLimits \cup {None}
  PROVE  \A s \in Codex!SnapshotFrom(r, Codex!CountLine(n, t, limit)) :
           s \in Seen /\ s.line = r.line /\ limit \in RateLimits /\ limit.id \in {"", "codex"}
<1>1. Codex!CountLine(n, t, limit).limit = limit
  BY DEF Codex!CountLine, Codex!Line
<1> DEFINE keys == {Codex!BucketKey(w) : w \in limit.windows}
<1>2. SUFFICES ASSUME NEW s \in Codex!SnapshotFrom(r, Codex!CountLine(n, t, limit))
               PROVE  s \in Seen /\ s.line = r.line /\ limit \in RateLimits /\ limit.id \in {"", "codex"}
  BY Zenon
<1>3. limit # None /\ limit.id \in {"", "codex"} /\ s = [line |-> r.line, keys |-> keys]
  BY Zenon, <1>1 DEF Codex!SnapshotFrom
<1>4. limit \in RateLimits
  BY Zenon, <1>3
<1>5. keys \in {{Codex!BucketKey(w) : w \in lim.windows} : lim \in RateLimits}
  BY <1>4
<1> HIDE DEF keys
<1>6. r.line \in Nat
  BY DEF Parsing
<1> QED BY Zenon, <1>3, <1>4, <1>5, <1>6 DEF Seen

\* What is gathered after a count of n tokens, if it has any, and the total t:
\* a request's event, if the total grew.
Tallied(r, q, n, t, limit) ==
  LET base == IF r.prev = None THEN t - n ELSE r.prev
      e == [key |-> <<"tc", t>>, tokens |-> t - base, third |-> r.model \in Routed]
  IN  /\ q \in Parsing /\ q.line = r.line + 1 /\ q.skipped = r.skipped
      /\ q.model = r.model /\ q.records = r.records
      /\ \A s \in q.snaps : s \in r.snaps \/ (s.line = q.line /\ limit \in RateLimits /\ limit.id \in {"", "codex"})
      /\ ~r.skipped /\ n = None => q.prev = r.prev /\ q.counts = r.counts
      /\ ~r.skipped /\ n # None =>
           IF t <= base THEN q.prev = base /\ q.counts = r.counts
           ELSE q.prev = t /\ q.counts = Append(r.counts, e)

\* A count is read as its tokens, total and limit say.
LEMMA CountRead ==
  ASSUME NEW r \in Parsing, NEW n \in Sizes \cup {None}, NEW t \in Nat, NEW limit \in RateLimits \cup {None}
  PROVE  Tallied(r, Codex!ReadLine(r, Codex!CountLine(n, t, limit)), n, t, limit)
<1> DEFINE l == Codex!CountLine(n, t, limit)
           u == Numbered(r)
           base == IF r.prev = None THEN t - n ELSE r.prev
           s == [u EXCEPT !.snaps = u.snaps \cup Codex!SnapshotFrom(u, l)]
           e == [key |-> <<"tc", t>>, tokens |-> t - base, third |-> r.model \in Routed]
<1>1. l.type = "count" /\ l.tokens = n /\ l.total = t
  BY DEF Codex!CountLine, Codex!Line
<1>2. /\ u \in Parsing /\ u.line = r.line + 1
      /\ u.skipped = r.skipped /\ u.model = r.model /\ u.records = r.records /\ u.counts = r.counts
      /\ u.prev = r.prev /\ u.snaps = r.snaps
  BY LineNumbered
<1>3. Codex!Base(u, l) = base
  BY <1>1, <1>2 DEF Codex!Base
<1> HIDE DEF u
<1>4. \A x \in Codex!SnapshotFrom(u, l) : x \in Seen /\ x.line = u.line /\ limit \in RateLimits /\ limit.id \in {"", "codex"}
  BY Zenon, <1>2, SnapshotSeen
<1> HIDE DEF l
<1>5. /\ s \in Parsing /\ s.line = u.line /\ s.skipped = u.skipped /\ s.model = u.model /\ s.records = u.records
      /\ s.counts = u.counts /\ s.prev = u.prev /\ s.snaps = u.snaps \cup Codex!SnapshotFrom(u, l)
  BY Zenon, <1>2, <1>4 DEF Parsing
<1>6. Codex!ReadCount(u, l) =
        IF n = None THEN s
        ELSE IF t <= base THEN [s EXCEPT !.prev = base]
        ELSE [s EXCEPT !.prev = t, !.counts = Append(s.counts, Codex!Event(<<"tc", t>>, t - base, s.model))]
  <2> HIDE DEF base
  <2> QED BY <1>1, <1>2, <1>3, <1>5 DEF Codex!ReadCount
<1> HIDE DEF s
<1>7. Codex!Event(<<"tc", t>>, t - base, s.model) = e
  BY <1>2, <1>5 DEF Codex!Event
<1>8. Codex!ReadLine(r, l) = IF r.skipped THEN u ELSE Codex!ReadCount(u, l)
  BY <1>1, LineRead DEF u, Parsing
<1> DEFINE p == [s EXCEPT !.prev = base]
           q == [s EXCEPT !.prev = t, !.counts = Append(s.counts, e)]
<1>9. CASE n = None
  <2>1. Codex!ReadLine(r, l) = IF r.skipped THEN u ELSE s
    BY <1>6, <1>8, <1>9
  <2> QED BY Zenon, <1>2, <1>4, <1>5, <1>9, <2>1 DEF l, Tallied
<1>10. CASE n # None
  <2>1. n \in Nat /\ base \in Int \cup {None}
    <3>1. n \in Nat
      BY <1>10, CodexBounds
    <3>2. r.prev \in Int \cup {None}
      BY DEF Parsing
    <3> QED BY <3>1, <3>2
  <2>2. base \in Int
    <3>1. n \in Nat
      BY <1>10, CodexBounds
    <3>2. r.prev # None => r.prev \in Int
      BY DEF Parsing
    <3> QED BY <3>1, <3>2
  <2>3. e \in Told
    <3>1. t - base \in Int
      BY <2>2
    <3> HIDE DEF base
    <3> QED BY <3>1 DEF Told
  <2> HIDE DEF base, e
  <2>4. p \in Parsing /\ p.prev = base /\ p.line = s.line /\ p.skipped = s.skipped /\ p.model = s.model
        /\ p.records = s.records /\ p.counts = s.counts /\ p.snaps = s.snaps
    BY <1>5, <2>2 DEF Parsing
  <2>5. Append(s.counts, e) \in Seq(Told)
    BY <1>5, <2>3, AppendProperties DEF Parsing
  <2> DEFINE more == Append(s.counts, e)
  <2> HIDE DEF more
  <2>6. q \in Parsing /\ q.prev = t /\ q.line = s.line /\ q.skipped = s.skipped /\ q.model = s.model
        /\ q.records = s.records /\ q.counts = Append(s.counts, e) /\ q.snaps = s.snaps
    <3>1. q = [s EXCEPT !.prev = t, !.counts = more] /\ more \in Seq(Told) /\ t \in Int
      BY <2>5 DEF more
    <3> HIDE DEF q
    <3> QED BY <1>5, <3>1 DEF Parsing, more
  <2>7. Codex!ReadLine(r, l) = IF r.skipped THEN u ELSE IF t <= base THEN p ELSE q
    BY <1>6, <1>7, <1>8, <1>10
  <2> HIDE DEF p, q
  <2>8. CASE r.skipped
    BY Zenon, <1>2, <2>7, <2>8, <1>4 DEF l, Tallied
  <2>9. CASE ~r.skipped /\ t <= base
    BY Zenon, <1>2, <1>4, <1>5, <1>10, <2>4, <2>7, <2>9 DEF l, base, Tallied
  <2>10. CASE ~r.skipped /\ ~(t <= base)
    BY Zenon, <1>2, <1>4, <1>5, <1>10, <2>6, <2>7, <2>10 DEF l, base, e, Tallied
  <2> QED BY <2>8, <2>9, <2>10
<1> QED BY <1>9, <1>10

\* A pass reads any line Codex writes.
LEMMA WrittenRead ==
  ASSUME NEW r \in Parsing, NEW l \in Written
  PROVE  Codex!ReadLine(r, l) \in Parsing
<1>1. CASE l \in Metas
  <2>1. PICK openai \in BOOLEAN : l = Codex!MetaLine(openai)
    BY <1>1 DEF Metas
  <2> QED BY <2>1, MetaRead
<1>2. CASE l \in Contexts
  <2>1. PICK m \in Models : l = Codex!ContextLine(m)
    BY <1>2 DEF Contexts
  <2> QED BY <2>1, ContextRead
<1>3. CASE l \in Records
  <2>1. PICK id \in Nat \cup {None}, n \in Sizes, t \in Nat : l = Codex!RecordLine(id, n, t)
    BY <1>3 DEF Records
  <2> QED BY <2>1, RecordRead
<1>4. CASE l \in Counts
  <2>1. PICK n \in Sizes \cup {None}, t \in Nat, limit \in RateLimits \cup {None} : l = Codex!CountLine(n, t, limit)
    BY <1>4 DEF Counts
  <2> QED BY Zenon, <2>1, CountRead DEF Tallied
<1> QED BY <1>1, <1>2, <1>3, <1>4 DEF Written

\* What Parse has gathered after each line: its loop.
Through(f0) ==
  LET after[i \in 0..Len(f0)] == IF i = 0 THEN Codex!Nothing ELSE Codex!ReadLine(after[i - 1], f0[i])
  IN  after

\* The loop runs through, and what it has gathered in the end is what Parse
\* reads the file as.
LEMMA ThroughLines ==
  ASSUME NEW f0 \in Seq(Written)
  PROVE  /\ Through(f0) \in [0..Len(f0) -> Parsing]
         /\ Through(f0)[0] = Codex!Nothing
         /\ \A i \in 1..Len(f0) : Through(f0)[i] = Codex!ReadLine(Through(f0)[i - 1], f0[i])
         /\ Codex!Gathered(f0) = Through(f0)[Len(f0)]
<1> DEFINE k == Len(f0)
           A == Parsing
           first == Codex!Nothing
           F == [i \in 1..k |-> [r \in A |-> Codex!ReadLine(r, f0[i])]]
<1>1. k \in Nat /\ first \in A
  BY NothingYet, LenProperties
<1>2. ASSUME NEW i \in 1..k PROVE f0[i] \in Written
  BY ElementOfSeq, LenProperties
<1>3. ASSUME NEW i \in 1..k, NEW r \in A PROVE Codex!ReadLine(r, f0[i]) \in A
  BY <1>2, WrittenRead
<1>4. Codex!Gathered(f0) = Through(f0)[k]
  BY DEF Codex!Gathered, Through
<1>5. Through(f0) = CHOOSE g : g = [i \in 0..k |-> IF i = 0 THEN first ELSE Codex!ReadLine(g[i - 1], f0[i])]
  BY DEF Through
<1> HIDE DEF A, first, k
<1>6. F \in [1..k -> [A -> A]]
  BY <1>3
<1>7. PICK f : f \in [0..k -> A] /\ f[0] = first /\ \A i \in 1..k : f[i] = F[i][f[i - 1]]
  <2> HIDE DEF F
  <2>1. \E f : Runs(k, A, first, F, f)
    BY <1>1, <1>6, Loop
  <2> QED BY <2>1 DEF Runs
<1>8. ASSUME NEW i \in 1..k PROVE f[i] = Codex!ReadLine(f[i - 1], f0[i])
  <2>1. f[i - 1] \in A /\ f[i] = F[i][f[i - 1]]
    BY <1>1, <1>7
  <2> QED BY <2>1
<1> HIDE DEF F
<1>9. f = [i \in 0..k |-> IF i = 0 THEN first ELSE Codex!ReadLine(f[i - 1], f0[i])]
  <2>1. \A i \in 0..k : f[i] = IF i = 0 THEN first ELSE Codex!ReadLine(f[i - 1], f0[i])
    BY <1>1, <1>7, <1>8
  <2> QED BY <1>7, <2>1
<1> DEFINE g == Through(f0)
<1>10. g = [i \in 0..k |-> IF i = 0 THEN first ELSE Codex!ReadLine(g[i - 1], f0[i])]
  BY <1>5, <1>9
<1> HIDE DEF g
<1>11. \A i \in 0..k : g[i] = IF i = 0 THEN first ELSE Codex!ReadLine(g[i - 1], f0[i])
  BY <1>10
<1>12. g[0] = first /\ \A i \in 1..k : g[i] = Codex!ReadLine(g[i - 1], f0[i])
  BY <1>1, <1>11
<1> DEFINE S == {i \in 0..k : g[i] \in A}
<1>13. 0 \in S
  BY <1>1, <1>12
<1>14. ASSUME NEW i \in 1..k, i - 1 \in S PROVE i \in S
  <2>1. i \in 0..k /\ g[i - 1] \in A
    BY <1>1, <1>14
  <2> QED BY <1>3, <1>12, <2>1
<1> HIDE DEF S
<1>15. 0..k \subseteq S
  BY <1>1, <1>13, <1>14, UpTo
<1>16. \A i \in 0..k : g[i] \in A
  BY <1>15 DEF S
<1>17. g \in [0..k -> A]
  <2>1. g = [i \in 0..k |-> g[i]]
    BY <1>10
  <2> QED BY <1>16, <2>1
<1> QED BY <1>4, <1>12, <1>17 DEF A, g, first, k

\* One more line is read after the others.
LEMMA GatheredMore ==
  ASSUME NEW f0 \in Seq(Written), NEW l \in Written
  PROVE  /\ Codex!Gathered(f0) \in Parsing
         /\ Codex!Gathered(Append(f0, l)) = Codex!ReadLine(Codex!Gathered(f0), l)
<1> DEFINE k == Len(f0)
           f1 == Append(f0, l)
           g == Through(f0)
           h == Through(f1)
<1>1. /\ k \in Nat /\ f1 \in Seq(Written) /\ Len(f1) = k + 1 /\ f1[k + 1] = l
      /\ \A i \in 1..k : f1[i] = f0[i]
  BY AppendProperties, LenProperties
<1>2. /\ g \in [0..k -> Parsing] /\ g[0] = Codex!Nothing /\ Codex!Gathered(f0) = g[k]
      /\ \A i \in 1..k : g[i] = Codex!ReadLine(g[i - 1], f0[i])
  BY ThroughLines
<1>3. /\ h[0] = Codex!Nothing /\ Codex!Gathered(f1) = h[k + 1]
      /\ \A i \in 1..(k + 1) : h[i] = Codex!ReadLine(h[i - 1], f1[i])
  <2>1. /\ h[0] = Codex!Nothing /\ Codex!Gathered(f1) = h[Len(f1)]
        /\ \A i \in 1..Len(f1) : h[i] = Codex!ReadLine(h[i - 1], f1[i])
    BY <1>1, ThroughLines
  <2> HIDE DEF h, f1
  <2> QED BY <1>1, <2>1
<1> HIDE DEF g, h, f1, k
<1> DEFINE S == {i \in 0..k : h[i] = g[i]}
<1>4. 0 \in S
  BY <1>1, <1>2, <1>3
<1>5. ASSUME NEW i \in 1..k, i - 1 \in S PROVE i \in S
  <2>1. h[i - 1] = g[i - 1] /\ i \in 0..k /\ i \in 1..(k + 1)
    BY <1>1, <1>5
  <2> QED BY <1>1, <1>2, <1>3, <2>1
<1> HIDE DEF S
<1>6. 0..k \subseteq S
  BY <1>1, <1>4, <1>5, UpTo
<1>7. h[k] = g[k] /\ g[k] \in Parsing
  BY <1>1, <1>2, <1>6 DEF S
<1>8. h[k + 1] = Codex!ReadLine(h[(k + 1) - 1], f1[k + 1])
  BY <1>1, <1>3
<1>9. (k + 1) - 1 = k
  BY <1>1
<1> QED BY <1>1, <1>2, <1>3, <1>7, <1>8, <1>9 DEF f1

\* A file that begins.
LEMMA GatheredFirst ==
  ASSUME NEW openai \in BOOLEAN
  PROVE  LET q == Codex!Gathered(<<Codex!MetaLine(openai)>>)
         IN  /\ q \in Parsing /\ q.line = 1 /\ q.skipped = ~openai /\ q.model = None
             /\ q.records = <<>> /\ q.counts = <<>> /\ q.prev = None /\ q.snaps = {}
<1> DEFINE l == Codex!MetaLine(openai)
           f0 == <<l>>
           q == Codex!ReadLine(Codex!Nothing, l)
<1>1. l \in Written
  BY DEF Written, Metas
<1>2. q \in Parsing /\ q.line = 1 /\ q.skipped = ~openai /\ q.model = None
      /\ q.records = <<>> /\ q.counts = <<>> /\ q.prev = None /\ q.snaps = {}
  <2>1. ~Codex!Nothing.skipped /\ Codex!Nothing.model = None /\ Codex!Nothing.records = <<>> /\ Codex!Nothing.counts = <<>>
        /\ Codex!Nothing.prev = None /\ Codex!Nothing.snaps = {} /\ Codex!Nothing.line = 0
    BY DEF Codex!Nothing
  <2> HIDE DEF l
  <2> QED BY <2>1, NothingYet, MetaRead DEF l
<1> HIDE DEF l, q
<1>3. f0 \in Seq(Written) /\ Len(f0) = 1 /\ f0[1] = l
  BY <1>1
<1> HIDE DEF f0
<1>4. Codex!Gathered(f0) = q
  <2>1. /\ Through(f0)[0] = Codex!Nothing
        /\ \A i \in 1..Len(f0) : Through(f0)[i] = Codex!ReadLine(Through(f0)[i - 1], f0[i])
        /\ Codex!Gathered(f0) = Through(f0)[Len(f0)]
    BY <1>3, ThroughLines
  <2>2. Through(f0)[1] = Codex!ReadLine(Through(f0)[1 - 1], f0[1])
    BY <1>3, <2>1
  <2>3. 1 - 1 = 0
    OBVIOUS
  <2> QED BY <1>3, <2>1, <2>2, <2>3 DEF q
<1> QED BY <1>2, <1>4 DEF f0, l

\* The key of the i-th request: the session's total after it if it was told by
\* a total only (the first m0 requests) or went elsewhere, else its own.
Row == [tokens : Sizes, third : BOOLEAN]
Key(ms, T, m0, i) == IF i <= m0 \/ ms[i].third THEN <<"tc", T[i]>> ELSE <<"id", i>>
Keys(ms, T, m0) == {Key(ms, T, m0, i) : i \in 1..Len(ms)}
EventOf(ms, T, m0, i) == [key |-> Key(ms, T, m0, i), tokens |-> ms[i].tokens, third |-> ms[i].third]

\* T has the total after each request.
Tally(ms, T) == T \in [0..Len(ms) -> Nat] /\ \A i \in 1..Len(ms) : T[i] = T[i - 1] + ms[i].tokens

\* The ledgers that have requests under their keys, each with its row.
Ledgers(ms, T, m0) ==
  {rows \in UNION {[D -> Row] : D \in SUBSET Keys(ms, T, m0)} :
     \A i \in 1..Len(ms) : Key(ms, T, m0, i) \in DOMAIN rows => rows[Key(ms, T, m0, i)] = ms[i]}

\* Every request has tokens, so the totals grow.
LEMMA TotalsGrow ==
  ASSUME NEW ms \in Seq(Row), NEW T, Tally(ms, T)
  PROVE  \A i, j \in 0..Len(ms) : i < j => T[i] < T[j]
<1> DEFINE n == Len(ms)
<1>1. n \in Nat /\ \A i \in 1..n : ms[i].tokens \in Nat \ {0}
  <2>1. \A i \in 1..n : ms[i] \in Row
    BY ElementOfSeq, LenProperties
  <2> QED BY <2>1, LenProperties, CodexBounds DEF Row
<1>2. T \in [0..n -> Nat] /\ \A i \in 1..n : T[i] = T[i - 1] + ms[i].tokens
  BY DEF Tally
<1> HIDE DEF n
<1>3. SUFFICES ASSUME NEW i \in 0..n PROVE \A j \in 0..n : i < j => T[i] < T[j]
  BY DEF n
<1> DEFINE S == {j \in 0..n : i < j => T[i] < T[j]}
<1>4. 0 \in S
  BY <1>1
<1>5. ASSUME NEW j \in 1..n, j - 1 \in S PROVE j \in S
  <2>1. j \in 0..n /\ j - 1 \in 0..n /\ i \in Nat /\ j \in Nat
    BY <1>1, <1>5
  <2>2. T[j] = T[j - 1] + ms[j].tokens /\ ms[j].tokens \in Nat \ {0}
    BY <1>1, <1>2
  <2>3. T[j] \in Nat /\ T[j - 1] \in Nat /\ T[i] \in Nat
    BY <1>2, <2>1
  <2>4. T[j - 1] < T[j]
    BY <2>2, <2>3
  <2>5. ASSUME i < j PROVE T[i] < T[j]
    <3>1. CASE i = j - 1
      BY <2>4, <3>1
    <3>2. CASE i # j - 1
      <4>1. i < j - 1
        BY <2>1, <2>5, <3>2
      <4>2. T[i] < T[j - 1]
        BY <1>5, <4>1
      <4> QED BY <2>3, <2>4, <4>2
    <3> QED BY <3>1, <3>2
  <2> QED BY <2>1, <2>5
<1> HIDE DEF S
<1>6. 0..n \subseteq S
  BY <1>1, <1>4, <1>5, UpTo
<1> QED BY <1>6 DEF S

\* Two requests have two keys.
LEMMA KeysApart ==
  ASSUME NEW ms \in Seq(Row), NEW T, Tally(ms, T), NEW m0,
         NEW i \in 1..Len(ms), NEW j \in 1..Len(ms), Key(ms, T, m0, i) = Key(ms, T, m0, j)
  PROVE  i = j
<1>1. Len(ms) \in Nat
  BY LenProperties
<1>2. i \in 0..Len(ms) /\ j \in 0..Len(ms) /\ i \in Nat /\ j \in Nat
  BY <1>1
<1>3. T[i] \in Nat /\ T[j] \in Nat
  BY <1>2 DEF Tally
<1>4. (i < j => T[i] < T[j]) /\ (j < i => T[j] < T[i])
  BY <1>2, TotalsGrow
<1> DEFINE a == i <= m0 \/ ms[i].third
           b == j <= m0 \/ ms[j].third
<1>5. Key(ms, T, m0, i) = IF a THEN <<"tc", T[i]>> ELSE <<"id", i>>
  BY DEF Key
<1>6. Key(ms, T, m0, j) = IF b THEN <<"tc", T[j]>> ELSE <<"id", j>>
  BY DEF Key
<1> HIDE DEF a, b
<1>7. T[i] = T[j] => i = j
  BY <1>2, <1>3, <1>4
<1>8. Key(ms, T, m0, i) = Key(ms, T, m0, j)
  OBVIOUS
<1>9. CASE a /\ b
  <2>1. <<"tc", T[i]>> = <<"tc", T[j]>>
    BY <1>5, <1>6, <1>8, <1>9
  <2> QED BY <1>7, <2>1
<1>10. CASE ~a /\ ~b
  <2>1. <<"id", i>> = <<"id", j>>
    BY <1>5, <1>6, <1>8, <1>10
  <2> QED BY <2>1
<1>11. CASE a /\ ~b
  <2>1. <<"tc", T[i]>> = <<"id", j>>
    BY <1>5, <1>6, <1>8, <1>11
  <2> QED BY <2>1
<1>12. CASE ~a /\ b
  <2>1. <<"id", i>> = <<"tc", T[j]>>
    BY <1>5, <1>6, <1>8, <1>12
  <2> QED BY <2>1
<1> QED BY <1>9, <1>10, <1>11, <1>12

\* more has one key more than rows, or it was there.
Adds(rows, more, key) == DOMAIN more = DOMAIN rows \cup {key}

\* A request's row is the same however often it is stored.
LEMMA UpsertKeeps ==
  ASSUME NEW ms \in Seq(Row), NEW T, Tally(ms, T), NEW m0,
         NEW rows \in Ledgers(ms, T, m0), NEW i \in 1..Len(ms)
  PROVE  /\ Codex!Upsert(rows, EventOf(ms, T, m0, i)) \in Ledgers(ms, T, m0)
         /\ Adds(rows, Codex!Upsert(rows, EventOf(ms, T, m0, i)), Key(ms, T, m0, i))
<1> DEFINE e == EventOf(ms, T, m0, i)
           key == Key(ms, T, m0, i)
           more == Codex!Upsert(rows, e)
           old == IF key \in DOMAIN rows THEN rows[key] ELSE [tokens |-> 0, third |-> e.third]
           new == [old EXCEPT !.tokens = IF e.tokens > @ THEN e.tokens ELSE @]
<1>1. e.key = key /\ e.tokens = ms[i].tokens /\ e.third = ms[i].third
  BY DEF EventOf
<1>2. ms[i] \in Row /\ ms[i].tokens \in Nat \ {0}
  <2>1. ms[i] \in Row
    BY ElementOfSeq, LenProperties
  <2> QED BY <2>1, CodexBounds DEF Row
<1>3. key \in Keys(ms, T, m0)
  BY DEF Keys
<1>4. PICK D \in SUBSET Keys(ms, T, m0) : rows \in [D -> Row]
  BY DEF Ledgers
<1>5. \A j \in 1..Len(ms) : Key(ms, T, m0, j) \in DOMAIN rows => rows[Key(ms, T, m0, j)] = ms[j]
  BY DEF Ledgers
<1>6. more = [k \in DOMAIN rows \cup {key} |-> IF k = key THEN new ELSE rows[k]]
  BY <1>1 DEF Codex!Upsert
<1>7. new = ms[i]
  <2>1. ms[i] = [tokens |-> ms[i].tokens, third |-> ms[i].third]
    BY <1>2 DEF Row
  <2>2. key \in DOMAIN rows => rows[key] = ms[i]
    BY <1>5
  <2> HIDE DEF key, e
  <2>3. old = IF key \in DOMAIN rows THEN ms[i] ELSE [tokens |-> 0, third |-> ms[i].third]
    BY <1>1, <2>2
  <2>4. CASE key \in DOMAIN rows
    <3>1. old = ms[i]
      BY <2>3, <2>4
    <3> HIDE DEF old
    <3> QED BY <1>1, <1>2, <2>1, <3>1
  <2>5. CASE key \notin DOMAIN rows
    <3>1. old = [tokens |-> 0, third |-> ms[i].third]
      BY <2>3, <2>5
    <3> HIDE DEF old
    <3>2. new = [tokens |-> IF ms[i].tokens > 0 THEN ms[i].tokens ELSE 0, third |-> ms[i].third]
      BY <1>1, <3>1
    <3>3. ms[i].tokens > 0
      BY <1>2
    <3> QED BY <2>1, <3>2, <3>3
  <2> QED BY <2>4, <2>5
<1> DEFINE E == DOMAIN rows \cup {key}
<1>8. more \in [E -> Row] /\ DOMAIN more = E
  <2>1. \A k \in DOMAIN rows : rows[k] \in Row
    BY <1>4
  <2> HIDE DEF new, key
  <2> QED BY <1>2, <1>6, <1>7, <2>1
<1>9. E \in SUBSET Keys(ms, T, m0)
  BY <1>3, <1>4
<1> HIDE DEF new, more, key, e
<1>10. ASSUME NEW j \in 1..Len(ms), Key(ms, T, m0, j) \in DOMAIN more PROVE more[Key(ms, T, m0, j)] = ms[j]
  <2>1. CASE Key(ms, T, m0, j) = key
    <3>1. j = i
      BY <2>1, KeysApart DEF key
    <3> QED BY <1>6, <1>7, <1>8, <2>1, <3>1
  <2>2. CASE Key(ms, T, m0, j) # key
    <3>1. Key(ms, T, m0, j) \in DOMAIN rows
      BY <1>8, <1>10, <2>2
    <3>2. more[Key(ms, T, m0, j)] = rows[Key(ms, T, m0, j)]
      BY <1>6, <2>2, <3>1
    <3> QED BY <1>5, <3>1, <3>2
  <2> QED BY <2>1, <2>2
<1>11. more \in UNION {[G -> Row] : G \in SUBSET Keys(ms, T, m0)}
  BY <1>8, <1>9
<1>12. more \in Ledgers(ms, T, m0)
  <2> HIDE DEF E
  <2> QED BY <1>10, <1>11 DEF Ledgers
<1>13. Adds(rows, more, key)
  BY <1>8 DEF Adds
<1> QED BY <1>12, <1>13 DEF more, key, e

\* The ledger after each event of a pass: the device's loop.
Storing(rows, es) ==
  LET after[i \in 0..Len(es)] == IF i = 0 THEN rows ELSE Codex!Upsert(after[i - 1], es[i])
  IN  after

\* more is a ledger that has the requests at[1], ..., at[k] more than rows.
AddsAll(rows, more, ms, T, m0, at, k) ==
  more \in Ledgers(ms, T, m0) /\ DOMAIN more = DOMAIN rows \cup {Key(ms, T, m0, at[i]) : i \in 1..k}

\* A pass over events of requests keeps what the ledger has and adds these.
LEMMA PassStores ==
  ASSUME NEW ms \in Seq(Row), NEW T, Tally(ms, T), NEW m0, NEW rows \in Ledgers(ms, T, m0),
         NEW k \in Nat, NEW es, Len(es) = k, NEW at \in [1..k -> 1..Len(ms)],
         \A i \in 1..k : es[i] = EventOf(ms, T, m0, at[i])
  PROVE  AddsAll(rows, Storing(rows, es)[k], ms, T, m0, at, k)
<1> DEFINE A == Ledgers(ms, T, m0)
           F == [i \in 1..k |-> [x \in A |-> Codex!Upsert(x, es[i])]]
<1>1. ASSUME NEW i \in 1..k, NEW x \in A
      PROVE  /\ Codex!Upsert(x, es[i]) \in A
             /\ Adds(x, Codex!Upsert(x, es[i]), Key(ms, T, m0, at[i]))
  <2>1. at[i] \in 1..Len(ms) /\ es[i] = EventOf(ms, T, m0, at[i])
    OBVIOUS
  <2>2. x \in Ledgers(ms, T, m0)
    OBVIOUS
  <2> HIDE DEF A
  <2>3. /\ Codex!Upsert(x, EventOf(ms, T, m0, at[i])) \in Ledgers(ms, T, m0)
        /\ Adds(x, Codex!Upsert(x, EventOf(ms, T, m0, at[i])), Key(ms, T, m0, at[i]))
    BY <2>1, <2>2, UpsertKeeps
  <2>4. Codex!Upsert(x, es[i]) \in A
    BY <2>1, <2>3 DEF A
  <2>5. Adds(x, Codex!Upsert(x, es[i]), Key(ms, T, m0, at[i]))
    BY <2>1, <2>3
  <2> QED BY <2>4, <2>5
<1> HIDE DEF A
<1>2. F \in [1..k -> [A -> A]]
  BY <1>1
<1>3. PICK f : f \in [0..k -> A] /\ f[0] = rows /\ \A i \in 1..k : f[i] = F[i][f[i - 1]]
  <2>1. rows \in A
    BY DEF A
  <2> HIDE DEF F
  <2>2. \E f : Runs(k, A, rows, F, f)
    BY <1>2, <2>1, Loop
  <2> QED BY <2>2 DEF Runs
<1>4. ASSUME NEW i \in 1..k PROVE f[i] = Codex!Upsert(f[i - 1], es[i])
  <2>1. f[i - 1] \in A /\ f[i] = F[i][f[i - 1]]
    BY <1>3
  <2> QED BY <2>1
<1> HIDE DEF F
<1>5. f = [i \in 0..k |-> IF i = 0 THEN rows ELSE Codex!Upsert(f[i - 1], es[i])]
  <2>1. \A i \in 0..k : f[i] = IF i = 0 THEN rows ELSE Codex!Upsert(f[i - 1], es[i])
    BY <1>3, <1>4
  <2> QED BY <1>3, <2>1
<1> DEFINE g == Storing(rows, es)
<1>6. g = [i \in 0..k |-> IF i = 0 THEN rows ELSE Codex!Upsert(g[i - 1], es[i])]
  BY <1>5 DEF Storing
<1> HIDE DEF g
<1>7. g[0] = rows /\ \A i \in 1..k : g[i] = Codex!Upsert(g[i - 1], es[i])
  <2>1. \A i \in 0..k : g[i] = IF i = 0 THEN rows ELSE Codex!Upsert(g[i - 1], es[i])
    BY <1>6
  <2> QED BY <2>1
<1> DEFINE S == {i \in 0..k : g[i] \in A /\ DOMAIN g[i] = DOMAIN rows \cup {Key(ms, T, m0, at[j]) : j \in 1..i}}
<1>8. 0 \in S
  <2>1. {Key(ms, T, m0, at[j]) : j \in 1..0} = {}
    OBVIOUS
  <2> QED BY <1>7, <2>1 DEF A
<1>9. ASSUME NEW i \in 1..k, i - 1 \in S PROVE i \in S
  <2>1. g[i - 1] \in A /\ DOMAIN g[i - 1] = DOMAIN rows \cup {Key(ms, T, m0, at[j]) : j \in 1..(i - 1)}
    BY <1>9
  <2>2. i \in 0..k
    BY <1>9
  <2>3. g[i] \in A /\ DOMAIN g[i] = DOMAIN g[i - 1] \cup {Key(ms, T, m0, at[i])}
    BY <1>1, <1>7, <2>1 DEF Adds
  <2>4. {Key(ms, T, m0, at[j]) : j \in 1..i} = {Key(ms, T, m0, at[j]) : j \in 1..(i - 1)} \cup {Key(ms, T, m0, at[i])}
    <3>1. 1..i = 1..(i - 1) \cup {i}
      OBVIOUS
    <3> QED BY <3>1
  <2> QED BY <2>1, <2>2, <2>3, <2>4
<1> HIDE DEF S
<1>10. 0..k \subseteq S
  BY <1>8, <1>9, UpTo
<1> QED BY <1>10 DEF S, A, g, AddsAll

\* The typed state of a session.
CodexTyped ==
  /\ file \in Seq(Written) /\ Len(file) # 0 /\ file[1] \in Metas
  /\ model \in Models \cup {None} /\ version \in {"records", "counts"} /\ mixed \in BOOLEAN
  /\ total \in Nat /\ pending \in Sizes \cup {None} /\ made \in Seq(Row)
  /\ codexRead \in 0..Len(file)

\* What a pass gathers of the file: a count of each of the first c requests,
\* and a record of each of those after the first m0.
Tells(g, ms, T, m0, c) ==
  /\ Len(g.counts) = c
  /\ \A i \in 1..c : g.counts[i] = [key |-> <<"tc", T[i]>>, tokens |-> ms[i].tokens, third |-> ms[i].third]
  /\ g.prev = IF c = 0 THEN None ELSE T[c]
  /\ Len(g.records) = Len(ms) - m0
  /\ \A j \in 1..(Len(ms) - m0) : g.records[j] = EventOf(ms, T, m0, m0 + j)

\* What the ledger has once all of the file is read.
Known(rows, ms, T, m0, c) ==
  /\ m0 < Len(ms) => \A i \in (m0 + 1)..Len(ms) : Key(ms, T, m0, i) \in DOMAIN rows
  /\ m0 = Len(ms) => \A i \in 1..c : Key(ms, T, m0, i) \in DOMAIN rows

\* Readings of the account's own limits.
Own(found, f) == \A s \in found : s.line \in 1..Len(f) /\ f[s.line].limit.id \in {"", "codex"}

\* The last request may wait for its count.
Answered == IF pending = None THEN Len(made) ELSE Len(made) - 1

\* m0 requests were made before Codex wrote records.
CodexTold(T, m0) ==
  /\ Tally(made, T) /\ T[Len(made)] = total
  /\ Tells(Codex!Gathered(file), made, T, m0, Answered)
  /\ ledger \in Ledgers(made, T, m0)
  /\ version = "counts" => m0 = Len(made) /\ ~mixed
  /\ version = "records" => (mixed <=> m0 # 0)
  /\ codexRead = Len(file) => Known(ledger, made, T, m0, Answered)

CodexCounted ==
  /\ Codex!Gathered(file).line = Len(file)
  /\ Own(Codex!Gathered(file).snaps, file) /\ Own(codexSnaps, file)
  /\ Codex!Gathered(file).skipped = ~file[1].id
  /\ ~file[1].id => ledger = <<>> /\ codexSnaps = {}
  /\ pending # None => Len(made) # 0 /\ made[Len(made)].third = (model \in Routed)
  /\ file[1].id => /\ Codex!Gathered(file).model = model
                   /\ \E T \in [0..Len(made) -> Nat], m0 \in 0..Len(made) : CodexTold(T, m0)

\* ms1 has one more request than ms, row, and T1 its total: with a key of its
\* own, so that nothing changes of the others.
OnTop(ms, T, m0, row, ms1, T1, m1) ==
  /\ T1 \in [0..(Len(ms) + 1) -> Nat] /\ Tally(ms1, T1) /\ T1[Len(ms) + 1] = T[Len(ms)] + row.tokens
  /\ \A i \in 1..Len(ms) : ms1[i] = ms[i] /\ T1[i] = T[i] /\ EventOf(ms1, T1, m1, i) = EventOf(ms, T, m0, i)
  /\ \A rows \in Ledgers(ms, T, m0) : rows \in Ledgers(ms1, T1, m1)

\* A request made after the others is on top of them: told by a record or, if
\* all of them were, by totals.
LEMMA OneMore ==
  ASSUME NEW ms \in Seq(Row), NEW T, Tally(ms, T), NEW row \in Row,
         NEW m0 \in 0..Len(ms), NEW m1 \in 0..(Len(ms) + 1), m1 = m0 \/ (m0 = Len(ms) /\ m1 = Len(ms) + 1),
         NEW ms1, ms1 = Append(ms, row),
         NEW T1, T1 = [i \in 0..(Len(ms) + 1) |-> IF i = Len(ms) + 1 THEN T[Len(ms)] + row.tokens ELSE T[i]]
  PROVE  OnTop(ms, T, m0, row, ms1, T1, m1)
<1> DEFINE n == Len(ms)
<1>1. /\ n \in Nat /\ ms1 \in Seq(Row) /\ Len(ms1) = n + 1 /\ ms1[n + 1] = row
      /\ \A i \in 1..n : ms1[i] = ms[i]
  BY AppendProperties, LenProperties
<1>2. T \in [0..n -> Nat] /\ \A i \in 1..n : T[i] = T[i - 1] + ms[i].tokens
  BY DEF Tally
<1>3. row.tokens \in Nat \ {0}
  BY CodexBounds DEF Row
<1>4. T1 = [i \in 0..(n + 1) |-> IF i = n + 1 THEN T[n] + row.tokens ELSE T[i]]
  OBVIOUS
<1>5. m1 = m0 \/ (m0 = n /\ m1 = n + 1)
  OBVIOUS
<1> HIDE DEF n
<1>6. T1 \in [0..(n + 1) -> Nat] /\ T1[n + 1] = T[n] + row.tokens /\ \A i \in 0..n : T1[i] = T[i]
  BY <1>1, <1>2, <1>3, <1>4
<1>7. Tally(ms1, T1)
  <2>1. ASSUME NEW i \in 1..(n + 1) PROVE T1[i] = T1[i - 1] + ms1[i].tokens
    <3>1. CASE i = n + 1
      <4>1. i - 1 = n /\ n \in 0..n
        BY <1>1, <3>1
      <4> QED BY <1>1, <1>6, <3>1, <4>1
    <3>2. CASE i # n + 1
      <4>1. i \in 1..n /\ i \in 0..n /\ i - 1 \in 0..n
        BY <1>1, <3>2
      <4> QED BY <1>1, <1>2, <1>6, <4>1
    <3> QED BY <3>1, <3>2
  <2> QED BY <1>1, <1>6, <2>1 DEF Tally
<1>8. ASSUME NEW i \in 1..n
      PROVE  T1[i] = T[i] /\ Key(ms1, T1, m1, i) = Key(ms, T, m0, i) /\ EventOf(ms1, T1, m1, i) = EventOf(ms, T, m0, i)
  <2>1. i \in 0..n
    BY <1>1
  <2>2. T1[i] = T[i] /\ ms1[i] = ms[i]
    BY <1>1, <1>6, <2>1
  <2>3. (i <= m1) <=> (i <= m0)
    BY <1>1, <1>5
  <2>4. Key(ms1, T1, m1, i) = Key(ms, T, m0, i)
    BY <2>2, <2>3 DEF Key
  <2> QED BY <2>2, <2>4 DEF EventOf
<1>9. ASSUME NEW rows \in Ledgers(ms, T, m0) PROVE rows \in Ledgers(ms1, T1, m1)
  <2>1. PICK D \in SUBSET Keys(ms, T, m0) : rows \in [D -> Row]
    BY DEF Ledgers
  <2>2. \A i \in 1..n : Key(ms, T, m0, i) \in D => rows[Key(ms, T, m0, i)] = ms[i]
    BY <2>1 DEF Ledgers, n
  <2>3. \A k \in D : \E i \in 1..n : k = Key(ms1, T1, m1, i)
    <3>1. \A k \in D : \E i \in 1..n : k = Key(ms, T, m0, i)
      BY <2>1 DEF Keys, n
    <3> QED BY <3>1, <1>8
  <2>4. D \in SUBSET Keys(ms1, T1, m1)
    <3>1. 1..n \subseteq 1..(n + 1)
      BY <1>1
    <3>2. \A i \in 1..n : Key(ms1, T1, m1, i) \in Keys(ms1, T1, m1)
      BY <1>1, <3>1 DEF Keys
    <3> QED BY <2>3, <3>2
  <2>5. ASSUME NEW i \in 1..(n + 1), Key(ms1, T1, m1, i) \in D PROVE rows[Key(ms1, T1, m1, i)] = ms1[i]
    <3>1. PICK j \in 1..n : Key(ms1, T1, m1, i) = Key(ms1, T1, m1, j)
      BY <2>3, <2>5
    <3>2. j \in 1..(n + 1)
      BY <1>1
    <3>3. i = j
      BY <1>1, <1>7, <3>1, <3>2, KeysApart
    <3> QED BY <1>1, <1>8, <2>2, <2>5, <3>3
  <2>6. DOMAIN rows = D /\ rows \in UNION {[G -> Row] : G \in SUBSET Keys(ms1, T1, m1)}
    BY <2>1, <2>4
  <2> QED BY <1>1, <2>5, <2>6 DEF Ledgers
<1> QED BY <1>1, <1>6, <1>7, <1>8, <1>9 DEF n, OnTop

\* Readings stay the account's own while the file grows.
LEMMA FileGrows ==
  ASSUME CodexTyped, CodexCounted, NEW l \in Written, file' = Append(file, l)
  PROVE  /\ file' \in Seq(Written) /\ Len(file') = Len(file) + 1 /\ file'[1] = file[1] /\ Len(file) \in Nat
         /\ file'[Len(file) + 1] = l
         /\ Codex!Gathered(file) \in Parsing
         /\ Codex!Gathered(file') = Codex!ReadLine(Codex!Gathered(file), l)
         /\ \A found : Own(found, file) => Own(found, file')
<1>1. /\ file' \in Seq(Written) /\ Len(file') = Len(file) + 1 /\ Len(file) \in Nat /\ file'[Len(file) + 1] = l
      /\ \A i \in 1..Len(file) : file'[i] = file[i]
  BY AppendProperties, LenProperties DEF CodexTyped
<1>2. file'[1] = file[1]
  <2>1. 1 \in 1..Len(file)
    BY <1>1 DEF CodexTyped
  <2> QED BY <1>1, <2>1
<1>3. /\ Codex!Gathered(file) \in Parsing
      /\ Codex!Gathered(file') = Codex!ReadLine(Codex!Gathered(file), l)
  BY GatheredMore DEF CodexTyped
<1>4. ASSUME NEW found, Own(found, file) PROVE Own(found, file')
  <2> SUFFICES ASSUME NEW s \in found PROVE s.line \in 1..Len(file') /\ file'[s.line].limit.id \in {"", "codex"}
    BY Zenon DEF Own
  <2>1. s.line \in 1..Len(file) /\ file[s.line].limit.id \in {"", "codex"}
    BY Zenon, <1>4 DEF Own
  <2>2. 1..Len(file) \subseteq 1..Len(file')
    BY <1>1
  <2>3. s.line \in 1..Len(file') /\ file'[s.line] = file[s.line]
    BY Zenon, <1>1, <2>1, <2>2
  <2> QED BY Zenon, <2>1, <2>3
<1> QED BY <1>1, <1>2, <1>3, <1>4

\* The lines of a session are ones Codex writes.
LEMMA LinesWritten ==
  /\ \A m \in Models : Codex!ContextLine(m) \in Written
  /\ \A id \in Nat \cup {None}, n \in Sizes, t \in Nat : Codex!RecordLine(id, n, t) \in Written
  /\ \A n \in Sizes \cup {None}, t \in Nat, limit \in RateLimits \cup {None} : Codex!CountLine(n, t, limit) \in Written
<1>1. \A m \in Models : Codex!ContextLine(m) \in Written
  BY DEF Written, Contexts
<1>2. \A id \in Nat \cup {None}, n \in Sizes, t \in Nat : Codex!RecordLine(id, n, t) \in Written
  BY DEF Written, Records
<1>3. \A n \in Sizes \cup {None}, t \in Nat, limit \in RateLimits \cup {None} : Codex!CountLine(n, t, limit) \in Written
  BY DEF Written, Counts
<1> QED BY <1>1, <1>2, <1>3

\* A count carries its limit.
LEMMA CountLineLimit ==
  ASSUME NEW n, NEW t, NEW limit
  PROVE  Codex!CountLine(n, t, limit).limit = limit
BY DEF Codex!CountLine, Codex!Line

\* A session that begins.
LEMMA CodexInitially == Codex!Init => CodexTyped /\ CodexCounted
<1> SUFFICES ASSUME Codex!Init PROVE CodexTyped /\ CodexCounted
  OBVIOUS
<1>1. PICK openai \in BOOLEAN : file = <<Codex!MetaLine(openai)>>
  BY DEF Codex!Init
<1> DEFINE l == Codex!MetaLine(openai)
<1>2. l \in Metas /\ l \in Written /\ l.id = openai
  BY Zenon DEF Metas, Written, Codex!MetaLine, Codex!Line
<1>3. file = <<l>> /\ file \in Seq(Written) /\ Len(file) = 1 /\ file[1] = l
  BY <1>1, <1>2
<1>4. LET q == Codex!Gathered(file)
      IN  /\ q \in Parsing /\ q.line = 1 /\ q.skipped = ~openai /\ q.model = None
          /\ q.records = <<>> /\ q.counts = <<>> /\ q.prev = None /\ q.snaps = {}
  BY <1>1, GatheredFirst
<1>5. /\ model = None /\ version \in {"records", "counts"} /\ mixed = FALSE /\ total \in Nat
      /\ pending = None /\ made = <<>> /\ codexRead = 0 /\ ledger = <<>> /\ codexSnaps = {}
  BY CodexBounds DEF Codex!Init
<1> HIDE DEF l
<1>6. made \in Seq(Row) /\ Len(made) = 0
  BY <1>5, EmptySeq
<1>7. CodexTyped
  <2>1. Len(file) # 0 /\ file[1] \in Metas /\ codexRead \in 0..Len(file)
    BY <1>2, <1>3, <1>5
  <2>2. file \in Seq(Written)
    BY <1>3
  <2>3. model \in Models \cup {None} /\ mixed \in BOOLEAN /\ pending \in Sizes \cup {None}
    BY <1>5
  <2> QED BY <1>5, <1>6, <2>1, <2>2, <2>3 DEF CodexTyped
<1> DEFINE T == [i \in 0..0 |-> total]
<1>8. T \in [0..Len(made) -> Nat] /\ Tally(made, T) /\ T[Len(made)] = total
  BY <1>5, <1>6 DEF Tally
<1> HIDE DEF T
<1>9. ledger \in Ledgers(made, T, 0)
  <2>1. ledger \in [{} -> Row]
    BY <1>5
  <2> QED BY <1>6, <2>1 DEF Ledgers
<1>10. Answered = 0
  BY <1>5, <1>6 DEF Answered
<1>11. Tells(Codex!Gathered(file), made, T, 0, 0)
  BY <1>4, <1>6 DEF Tells
<1>12. CodexTold(T, 0)
  BY <1>3, <1>5, <1>6, <1>8, <1>9, <1>10, <1>11 DEF CodexTold
<1>13. CodexCounted
  <2>1. \E U \in [0..Len(made) -> Nat], m0 \in 0..Len(made) : CodexTold(U, m0)
    BY <1>6, <1>8, <1>12
  <2>2. Own(Codex!Gathered(file).snaps, file) /\ Own(codexSnaps, file)
    BY <1>4, <1>5 DEF Own
  <2> QED BY <1>2, <1>3, <1>4, <1>5, <2>1, <2>2 DEF CodexCounted
<1> QED BY <1>7, <1>13

\* A new line that tells of no request.
LEMMA LineKeeps ==
  ASSUME CodexTyped, CodexCounted, NEW l \in Written, file' = Append(file, l),
         model' \in Models \cup {None}, UNCHANGED <<version, mixed, total, made, codexRead, ledger, codexSnaps>>,
         pending' \in {pending, None},
         Codex!Gathered(file').line = Codex!Gathered(file).line + 1,
         Codex!Gathered(file').skipped = Codex!Gathered(file).skipped,
         Own(Codex!Gathered(file').snaps, file'),
         pending' # None => model' = model,
         file[1].id => /\ Codex!Gathered(file').model = model'
                       /\ \A T \in [0..Len(made) -> Nat], m0 \in 0..Len(made) :
                            CodexTold(T, m0) => Tells(Codex!Gathered(file'), made, T, m0, Answered')
  PROVE  CodexTyped' /\ CodexCounted'
<1>1. /\ file' \in Seq(Written) /\ Len(file') = Len(file) + 1 /\ file'[1] = file[1] /\ Len(file) \in Nat
      /\ \A found : Own(found, file) => Own(found, file')
  BY FileGrows
<1>2. CodexTyped'
  BY <1>1 DEF CodexTyped
<1>3. codexRead' # Len(file')
  BY <1>1 DEF CodexTyped
<1>4. ASSUME file[1].id PROVE \E T \in [0..Len(made) -> Nat], m0 \in 0..Len(made) : CodexTold(T, m0)'
  <2>1. PICK T \in [0..Len(made) -> Nat], m0 \in 0..Len(made) : CodexTold(T, m0)
    BY <1>4 DEF CodexCounted
  <2>2. Tells(Codex!Gathered(file'), made, T, m0, Answered')
    BY <1>4, <2>1
  <2>3. CodexTold(T, m0)'
    BY <1>3, <2>1, <2>2 DEF CodexTold
  <2> QED BY <2>3
<1>5. CodexCounted'
  <2>1. Codex!Gathered(file').line = Len(file')
    BY <1>1 DEF CodexCounted
  <2>2. Own(codexSnaps', file')
    BY <1>1 DEF CodexCounted
  <2>3. Codex!Gathered(file').skipped = ~file'[1].id
    BY <1>1 DEF CodexCounted
  <2>4. pending' # None => Len(made') # 0 /\ made'[Len(made')].third = (model' \in Routed)
    BY DEF CodexCounted
  <2>5. ~file'[1].id => ledger' = <<>> /\ codexSnaps' = {}
    BY <1>1 DEF CodexCounted
  <2>6. file'[1].id => /\ Codex!Gathered(file').model = model'
                       /\ \E T \in [0..Len(made') -> Nat], m0 \in 0..Len(made') : CodexTold(T, m0)'
    BY <1>1, <1>4
  <2> QED BY <2>1, <2>2, <2>3, <2>4, <2>5, <2>6 DEF CodexCounted
<1> QED BY <1>2, <1>5

\* Another model is asked for.
LEMMA TurnKeeps ==
  ASSUME CodexTyped, CodexCounted, NEW m \in Models, Codex!Turn(m)
  PROVE  CodexTyped' /\ CodexCounted'
<1> DEFINE l == Codex!ContextLine(m)
           g == Codex!Gathered(file)
           h == Codex!Gathered(file')
<1>1. /\ l \in Written /\ file' = Append(file, l) /\ model' = m /\ pending = None
      /\ UNCHANGED <<version, mixed, total, pending, made, codexRead, ledger, codexSnaps>>
  BY LinesWritten DEF Codex!Turn, Codex!Write
<1>2. /\ g \in Parsing /\ h = Codex!ReadLine(g, l) /\ \A found : Own(found, file) => Own(found, file')
  BY <1>1, FileGrows
<1>3. /\ h.line = g.line + 1 /\ h.skipped = g.skipped
      /\ h.records = g.records /\ h.counts = g.counts /\ h.prev = g.prev /\ h.snaps = g.snaps
      /\ ~g.skipped => h.model = m
  <2>1. Codex!Gathered(file) \in Parsing
    BY <1>2
  <2> HIDE DEF g
  <2> QED BY <1>2, ContextRead
<1>4. Own(g.snaps, file) /\ g.skipped = ~file[1].id
  BY DEF CodexCounted
<1> HIDE DEF l, g, h
<1>5. Own(h.snaps, file') /\ (file[1].id => h.model = model')
  BY <1>1, <1>2, <1>3, <1>4
<1>6. ASSUME NEW T, NEW m0, CodexTold(T, m0) PROVE Tells(h, made, T, m0, Answered')
  <2>1. Tells(g, made, T, m0, Answered) /\ Answered' = Answered
    BY <1>1, <1>6 DEF CodexTold, Answered, g
  <2> QED BY <1>3, <2>1 DEF Tells
<1> QED BY <1>1, <1>3, <1>5, <1>6, LineKeeps DEF l, g, h

\* A count without usage tells of no request.
LEMMA RateLimitsKeep ==
  ASSUME CodexTyped, CodexCounted, NEW limit \in RateLimits, Codex!RateLimits(limit)
  PROVE  CodexTyped' /\ CodexCounted'
<1> DEFINE l == Codex!CountLine(None, 0, limit)
           g == Codex!Gathered(file)
           h == Codex!Gathered(file')
<1>1. /\ l \in Written /\ file' = Append(file, l) /\ l.limit = limit
      /\ UNCHANGED <<model, version, mixed, total, pending, made, codexRead, ledger, codexSnaps>>
  BY LinesWritten, CountLineLimit DEF Codex!RateLimits, Codex!Write
<1>2. /\ g \in Parsing /\ h = Codex!ReadLine(g, l) /\ \A found : Own(found, file) => Own(found, file')
      /\ Len(file') = Len(file) + 1 /\ Len(file) \in Nat /\ file'[Len(file) + 1] = l
  BY <1>1, FileGrows
<1>3. /\ h.line = g.line + 1 /\ h.skipped = g.skipped /\ h.model = g.model /\ h.records = g.records
      /\ \A s \in h.snaps : s \in g.snaps \/ (s.line = h.line /\ limit.id \in {"", "codex"})
      /\ ~g.skipped => h.prev = g.prev /\ h.counts = g.counts
  <2> DEFINE n == None
             t == 0
  <2>1. n \in Sizes \cup {None} /\ n = None /\ t \in Nat /\ l = Codex!CountLine(n, t, limit) /\ limit \in RateLimits \cup {None}
    OBVIOUS
  <2> HIDE DEF g, h, n, t
  <2>2. Tallied(g, Codex!ReadLine(g, Codex!CountLine(n, t, limit)), n, t, limit)
    BY <1>2, <2>1, CountRead
  <2>3. h = Codex!ReadLine(g, Codex!CountLine(n, t, limit))
    BY <1>2, <2>1
  <2> HIDE DEF l
  <2> QED BY Zenon, <2>1, <2>2, <2>3 DEF Tallied
<1>4. Own(g.snaps, file) /\ g.skipped = ~file[1].id /\ g.line = Len(file) /\ (file[1].id => g.model = model)
  BY DEF CodexCounted
<1> HIDE DEF l, g, h
<1>5. Own(h.snaps, file')
  <2>1. Own(g.snaps, file')
    BY <1>2, <1>4
  <2> SUFFICES ASSUME NEW s \in h.snaps PROVE s.line \in 1..Len(file') /\ file'[s.line].limit.id \in {"", "codex"}
    BY Zenon DEF Own
  <2>2. CASE s \in g.snaps
    BY Zenon, <2>1, <2>2 DEF Own
  <2>3. CASE s.line = h.line /\ limit.id \in {"", "codex"}
    <3>1. s.line = Len(file) + 1 /\ s.line \in 1..Len(file') /\ file'[s.line] = l
      <4>1. s.line = Len(file) + 1
        BY Zenon, <1>3, <1>4, <2>3
      <4>2. Len(file) + 1 \in 1..Len(file')
        BY <1>2
      <4> QED BY <1>2, <4>1, <4>2
    <3> QED BY Zenon, <1>1, <2>3, <3>1
  <2> QED BY Zenon, <1>3, <2>2, <2>3
<1>6. ASSUME NEW T, NEW m0, CodexTold(T, m0), file[1].id PROVE Tells(h, made, T, m0, Answered')
  <2>1. Tells(g, made, T, m0, Answered) /\ Answered' = Answered
    BY <1>1, <1>6 DEF CodexTold, Answered, g
  <2> QED BY Zenon, <1>3, <1>4, <1>6, <2>1 DEF Tells
<1>7. model' \in Models \cup {None} /\ (file[1].id => h.model = model')
  BY Zenon, <1>1, <1>3, <1>4 DEF CodexTyped
<1> QED BY Zenon, <1>1, <1>3, <1>5, <1>6, <1>7, LineKeeps DEF l, g, h

\* The total is written after a request, which then counts, or once more.
LEMMA CountKeeps ==
  ASSUME CodexTyped, CodexCounted, NEW limit \in RateLimits \cup {None}, Codex!Count(limit)
  PROVE  CodexTyped' /\ CodexCounted'
<1> DEFINE n == Len(made)
           k == made[n].tokens
           l == Codex!CountLine(k, total, limit)
           g == Codex!Gathered(file)
           h == Codex!Gathered(file')
<1>1. n \in Nat \ {0} /\ made[n] \in Row /\ total \in Nat
  <2>1. made \in Seq(Row) /\ made # <<>> /\ total \in Nat
    BY DEF Codex!Count, CodexTyped
  <2>2. n \in Nat \ {0}
    BY <2>1, LenProperties, EmptySeq
  <2> QED BY <2>1, <2>2, ElementOfSeq
<1>2. k \in Sizes /\ k \in Nat \ {0} /\ k # None
  BY <1>1, CodexBounds DEF Row
<1>3. /\ file' = Append(file, l) /\ pending' = None
      /\ UNCHANGED <<model, version, mixed, total, made, codexRead, ledger, codexSnaps>>
  BY DEF Codex!Count, Codex!Write, Codex!Last
<1>4. l \in Written /\ l.limit = limit
  <2> HIDE DEF k
  <2> QED BY <1>1, <1>2, LinesWritten, CountLineLimit
<1>5. /\ g \in Parsing /\ h = Codex!ReadLine(g, l) /\ \A found : Own(found, file) => Own(found, file')
      /\ Len(file') = Len(file) + 1 /\ Len(file) \in Nat /\ file'[Len(file) + 1] = l
  BY <1>3, <1>4, FileGrows
<1>6. Tallied(g, h, k, total, limit)
  <2> HIDE DEF g, h, k
  <2>1. k \in Sizes \cup {None} /\ h = Codex!ReadLine(g, Codex!CountLine(k, total, limit))
    BY <1>2, <1>5
  <2>2. Tallied(g, Codex!ReadLine(g, Codex!CountLine(k, total, limit)), k, total, limit)
    BY <1>1, <1>5, <2>1, CountRead
  <2> QED BY <2>1, <2>2
<1>7. Own(g.snaps, file) /\ g.skipped = ~file[1].id /\ g.line = Len(file) /\ (file[1].id => g.model = model)
  BY DEF CodexCounted
<1>8. pending # None => made[n].third = (model \in Routed)
  BY DEF CodexCounted
<1> HIDE DEF l, g, h, k, n
<1>9. h.line = g.line + 1 /\ h.skipped = g.skipped /\ h.model = g.model /\ h.records = g.records
  BY Zenon, <1>6 DEF Tallied
<1>10. Own(h.snaps, file')
  <2>1. Own(g.snaps, file')
    BY <1>5, <1>7
  <2>2. \A s \in h.snaps : s \in g.snaps \/ (s.line = h.line /\ limit \in RateLimits /\ limit.id \in {"", "codex"})
    BY Zenon, <1>6 DEF Tallied
  <2> SUFFICES ASSUME NEW s \in h.snaps PROVE s.line \in 1..Len(file') /\ file'[s.line].limit.id \in {"", "codex"}
    BY Zenon DEF Own
  <2>3. CASE s \in g.snaps
    BY Zenon, <2>1, <2>3 DEF Own
  <2>4. CASE s.line = h.line /\ limit.id \in {"", "codex"}
    <3>1. s.line = Len(file) + 1
      BY Zenon, <1>7, <1>9, <2>4
    <3>2. Len(file) + 1 \in 1..Len(file')
      BY <1>5
    <3> QED BY Zenon, <1>4, <1>5, <2>4, <3>1, <3>2
  <2> QED BY Zenon, <2>2, <2>3, <2>4
<1>11. ASSUME file[1].id, NEW T \in [0..Len(made) -> Nat], NEW m0 \in 0..Len(made), CodexTold(T, m0)
       PROVE  Tells(h, made, T, m0, Answered')
  <2>1. /\ Tells(g, made, T, m0, Answered) /\ T[n] = total /\ T[n] = T[n - 1] + k
        /\ n \in 1..n /\ n - 1 \in 0..n /\ n \in 0..n /\ Answered' = n
    <3>1. Tells(g, made, T, m0, Answered) /\ T[n] = total /\ Tally(made, T)
      BY <1>11 DEF CodexTold, g, n
    <3>2. n \in 1..n /\ n - 1 \in 0..n /\ n \in 0..n
      BY <1>1
    <3>3. T[n] = T[n - 1] + k
      BY <3>1, <3>2 DEF Tally, n, k
    <3>4. Answered' = n
      BY <1>3 DEF Answered, n
    <3> QED BY <3>1, <3>2, <3>3, <3>4
  <2>2. T[n] \in Nat /\ T[n - 1] \in Nat /\ T[n] # None /\ T[n - 1] # None
    <3>1. T[n] \in Nat /\ T[n - 1] \in Nat
      BY <1>11, <2>1 DEF n
    <3> QED BY <3>1, CodexBounds
  <2>3. ~g.skipped /\ g.model = model /\ g.counts \in Seq(Told)
    BY <1>5, <1>7, <1>11 DEF Parsing
  <2> DEFINE base == IF g.prev = None THEN total - k ELSE g.prev
             e == [key |-> <<"tc", total>>, tokens |-> total - base, third |-> g.model \in Routed]
  <2>4. IF total <= base THEN h.prev = base /\ h.counts = g.counts
        ELSE h.prev = total /\ h.counts = Append(g.counts, e)
    BY Zenon, <1>2, <1>6, <2>3 DEF Tallied
  <2>5. CASE pending = None
    <3>1. Answered = n /\ g.prev = T[n]
      BY <1>1, <2>1, <2>5 DEF Answered, n, Tells
    <3>2. base = T[n] /\ total <= base
      BY <2>1, <2>2, <3>1
    <3>3. h.prev = g.prev /\ h.counts = g.counts
      <4> HIDE DEF base, e
      <4> QED BY <2>4, <3>1, <3>2
    <3> HIDE DEF base, e
    <3> QED BY <1>9, <2>1, <3>1, <3>3 DEF Tells
  <2>6. CASE pending # None
    <3>1. Answered = n - 1 /\ g.prev = IF n - 1 = 0 THEN None ELSE T[n - 1]
      BY <1>1, <2>1, <2>6 DEF Answered, n, Tells
    <3>2. base = T[n - 1]
      <4>1. total - k = T[n - 1]
        BY <1>2, <2>1, <2>2
      <4> QED BY <2>2, <3>1, <4>1
    <3>3. ~(total <= base) /\ total - base = k
      BY <1>2, <2>1, <2>2, <3>2
    <3>4. e = [key |-> <<"tc", T[n]>>, tokens |-> made[n].tokens, third |-> made[n].third]
      <4>1. total - base = made[n].tokens /\ made[n].third = (model \in Routed)
        BY <1>8, <2>6, <3>3 DEF k
      <4> HIDE DEF base
      <4> QED BY <2>1, <2>3, <4>1
    <3>5. h.prev = T[n] /\ h.counts = Append(g.counts, e)
      <4> HIDE DEF base, e
      <4> QED BY <2>1, <2>4, <3>3
    <3> HIDE DEF base, e
    <3>6. /\ Len(g.counts) = n - 1
          /\ \A i \in 1..(n - 1) : g.counts[i] = [key |-> <<"tc", T[i]>>, tokens |-> made[i].tokens, third |-> made[i].third]
      BY <2>1, <3>1 DEF Tells
    <3>7. /\ Len(h.counts) = Len(g.counts) + 1 /\ h.counts[Len(g.counts) + 1] = e
          /\ \A i \in 1..Len(g.counts) : h.counts[i] = g.counts[i]
      <4>1. e \in Told
        <5>1. made[n].tokens \in Int /\ made[n].third \in BOOLEAN /\ T[n] \in Int
          BY <1>1, <1>2, <2>2 DEF Row, k
        <5> QED BY <3>4, <5>1 DEF Told
      <4> DEFINE more == Append(g.counts, e)
      <4>2. /\ Len(more) = Len(g.counts) + 1 /\ more[Len(g.counts) + 1] = e
            /\ \A i \in 1..Len(g.counts) : more[i] = g.counts[i]
        BY <2>3, <4>1, AppendProperties
      <4> HIDE DEF more
      <4>3. h.counts = more
        BY <3>5 DEF more
      <4> QED BY <4>2, <4>3
    <3>8. /\ Len(h.counts) = n
          /\ \A i \in 1..n : h.counts[i] = [key |-> <<"tc", T[i]>>, tokens |-> made[i].tokens, third |-> made[i].third]
      <4>1. Len(h.counts) = n /\ h.counts[n] = e
        BY <1>1, <3>6, <3>7
      <4>2. ASSUME NEW i \in 1..n
            PROVE  h.counts[i] = [key |-> <<"tc", T[i]>>, tokens |-> made[i].tokens, third |-> made[i].third]
        <5>1. CASE i = n
          BY <3>4, <4>1, <5>1
        <5>2. CASE i # n
          <6>1. i \in 1..(n - 1) /\ i \in 1..Len(g.counts)
            BY <1>1, <3>6, <5>2
          <6> QED BY <3>6, <3>7, <6>1
        <5> QED BY <5>1, <5>2
      <4> QED BY <4>1, <4>2
    <3>9. Len(h.records) = Len(made) - m0 /\ \A j \in 1..(Len(made) - m0) : h.records[j] = EventOf(made, T, m0, m0 + j)
      BY <1>9, <2>1 DEF Tells
    <3>10. h.prev = IF n = 0 THEN None ELSE T[n]
      BY <1>1, <3>5
    <3> QED BY <2>1, <3>8, <3>9, <3>10 DEF Tells
  <2> QED BY <2>5, <2>6
<1>12. model' \in Models \cup {None} /\ (file[1].id => h.model = model') /\ pending' \in {pending, None}
  BY <1>3, <1>7, <1>9 DEF CodexTyped
<1> QED BY <1>3, <1>4, <1>9, <1>10, <1>11, <1>12, LineKeeps DEF g, h

\* From an update on, requests are recorded; those before it never are.
LEMMA UpdateCodexKeeps ==
  ASSUME CodexTyped, CodexCounted, Codex!UpdateCodex
  PROVE  CodexTyped' /\ CodexCounted'
<1>1. /\ version = "counts" /\ version' = "records" /\ mixed' = (made # <<>>)
      /\ UNCHANGED <<file, model, total, pending, made, codexRead, ledger, codexSnaps>>
  BY DEF Codex!UpdateCodex
<1>2. CodexTyped'
  BY <1>1 DEF CodexTyped
<1>3. made # <<>> <=> Len(made) # 0
  BY EmptySeq, LenProperties DEF CodexTyped
<1>4. Answered' = Answered
  BY <1>1 DEF Answered
<1>5. ASSUME NEW T, NEW m0, CodexTold(T, m0) PROVE CodexTold(T, m0)'
  <2>1. m0 = Len(made)
    BY <1>1, <1>5 DEF CodexTold
  <2>2. mixed' <=> m0 # 0
    BY <1>1, <1>3, <2>1
  <2> QED BY <1>1, <1>4, <1>5, <2>2 DEF CodexTold
<1>6. CodexCounted'
  BY <1>1, <1>5 DEF CodexCounted
<1> QED BY <1>2, <1>6

\* Steps of the other parts leave a session alone.
LEMMA CodexStutters ==
  ASSUME CodexTyped, CodexCounted, UNCHANGED Codex!vars
  PROVE  CodexTyped' /\ CodexCounted'
<1>1. UNCHANGED <<file, model, version, mixed, total, pending, made, codexRead, ledger, codexSnaps>>
  BY DEF Codex!vars
<1>2. CodexTyped'
  BY <1>1 DEF CodexTyped
<1>3. Answered' = Answered
  BY <1>1 DEF Answered
<1>4. ASSUME NEW T, NEW m0, CodexTold(T, m0) PROVE CodexTold(T, m0)'
  BY <1>1, <1>3, <1>4 DEF CodexTold
<1> QED BY <1>1, <1>2, <1>4 DEF CodexCounted

\* A request comes with its record, or waits for its count.
LEMMA RequestKeeps ==
  ASSUME CodexTyped, CodexCounted, NEW n \in Sizes, Codex!Request(n)
  PROVE  CodexTyped' /\ CodexCounted'
<1> DEFINE k == Len(made)
           row == [tokens |-> n, third |-> model \in Routed]
           id == IF model \in Routed THEN None ELSE k + 1
           l == Codex!RecordLine(id, n, total + n)
           g == Codex!Gathered(file)
           h == Codex!Gathered(file')
<1>1. /\ pending = None /\ total' = total + n /\ pending' = n /\ made' = Append(made, row)
      /\ version = "records" => file' = Append(file, l)
      /\ version # "records" => file' = file
      /\ UNCHANGED <<model, version, mixed, codexRead, ledger, codexSnaps>>
  BY DEF Codex!Request, Codex!Write
<1>2. k \in Nat /\ total \in Nat /\ n \in Nat \ {0} /\ row \in Row /\ n # None /\ made \in Seq(Row)
  <2>1. made \in Seq(Row) /\ total \in Nat
    BY DEF CodexTyped
  <2> QED BY <2>1, CodexBounds, LenProperties DEF Row
<1>3. made' \in Seq(Row) /\ Len(made') = k + 1 /\ made'[k + 1] = row
  BY <1>1, <1>2, AppendProperties
<1>4. Own(g.snaps, file) /\ Own(codexSnaps, file) /\ g.skipped = ~file[1].id /\ g.line = Len(file)
      /\ (file[1].id => g.model = model) /\ (~file[1].id => ledger = <<>> /\ codexSnaps = {})
  BY DEF CodexCounted
<1>5. Answered = k /\ Answered' = k
  BY <1>1, <1>2, <1>3 DEF Answered
<1>6. made'[Len(made')].third = (model' \in Routed) /\ Len(made') # 0
  BY <1>1, <1>2, <1>3
<1>7. total' \in Nat
  BY <1>1, <1>2
<1> HIDE DEF k
<1>8. ASSUME NEW T, NEW m0 \in 0..k, CodexTold(T, m0), NEW m1 \in 0..(k + 1), m1 = m0 \/ (m0 = k /\ m1 = k + 1)
      PROVE  \E T1 \in [0..(k + 1) -> Nat] :
               /\ Tally(made', T1) /\ T1[k + 1] = total'
               /\ \A i \in 1..k : made'[i] = made[i] /\ T1[i] = T[i] /\ EventOf(made', T1, m1, i) = EventOf(made, T, m0, i)
               /\ ledger \in Ledgers(made', T1, m1)
  <2> DEFINE T1 == [i \in 0..(k + 1) |-> IF i = k + 1 THEN T[k] + row.tokens ELSE T[i]]
             more == Append(made, row)
  <2>1. Tally(made, T) /\ T[k] = total /\ ledger \in Ledgers(made, T, m0) /\ row.tokens = n
    BY <1>8 DEF CodexTold, k
  <2> HIDE DEF row
  <2>2. T1 = [i \in 0..(Len(made) + 1) |-> IF i = Len(made) + 1 THEN T[Len(made)] + row.tokens ELSE T[i]]
    BY DEF k
  <2> HIDE DEF T1, more
  <2>3. m0 \in 0..Len(made) /\ m1 \in 0..(Len(made) + 1) /\ (m1 = m0 \/ (m0 = Len(made) /\ m1 = Len(made) + 1))
    BY <1>8 DEF k
  <2>4. more = Append(made, row)
    BY DEF more
  <2>5. OnTop(made, T, m0, row, more, T1, m1)
    BY <1>2, <2>1, <2>2, <2>3, <2>4, OneMore
  <2>6. made' = more /\ T1[k + 1] = total' /\ Tally(made', T1)
    BY <1>1, <2>1, <2>5 DEF more, k, OnTop
  <2> QED BY <2>1, <2>5, <2>6 DEF k, OnTop
<1>9. CASE version = "records"
  <2>1. id \in Nat \cup {None} /\ total + n \in Nat
    BY <1>2
  <2>2. l \in Written /\ file' = Append(file, l)
    BY <1>1, <1>9, <2>1, LinesWritten
  <2> HIDE DEF id, row
  <2>3. /\ g \in Parsing /\ h = Codex!ReadLine(g, l) /\ \A found : Own(found, file) => Own(found, file')
        /\ file' \in Seq(Written) /\ Len(file') = Len(file) + 1 /\ Len(file) \in Nat /\ file'[1] = file[1]
    BY <2>2, FileGrows
  <2> DEFINE e == [key |-> IF id # None THEN <<"id", id>> ELSE <<"tc", total + n>>, tokens |-> n, third |-> g.model \in Routed]
  <2>4. /\ h.line = g.line + 1 /\ h.skipped = g.skipped
        /\ h.model = g.model /\ h.counts = g.counts /\ h.prev = g.prev /\ h.snaps = g.snaps
        /\ ~g.skipped => h.records = Append(g.records, e)
    <3> HIDE DEF g, h
    <3> QED BY <2>1, <2>3, RecordRead
  <2> HIDE DEF g, h, l
  <2>5. CodexTyped'
    <3>1. /\ Len(file') # 0 /\ file'[1] \in Metas /\ codexRead' \in 0..Len(file')
          /\ model' \in Models \cup {None} /\ version' \in {"records", "counts"} /\ mixed' \in BOOLEAN
      BY <1>1, <2>3 DEF CodexTyped
    <3>2. pending' \in Sizes \cup {None}
      BY <1>1
    <3> QED BY <1>3, <1>7, <2>3, <3>1, <3>2 DEF CodexTyped
  <2>6. codexRead' # Len(file')
    BY <1>1, <2>3 DEF CodexTyped
  <2>7. ASSUME file[1].id PROVE \E T \in [0..Len(made') -> Nat], m0 \in 0..Len(made') : CodexTold(T, m0)'
    <3>1. PICK T \in [0..k -> Nat], m0 \in 0..k : CodexTold(T, m0)
      BY <2>7 DEF CodexCounted, k
    <3>2. m0 \in 0..(k + 1)
      BY <1>2
    <3>3. PICK T1 \in [0..(k + 1) -> Nat] :
             /\ Tally(made', T1) /\ T1[k + 1] = total'
             /\ \A i \in 1..k : made'[i] = made[i] /\ T1[i] = T[i] /\ EventOf(made', T1, m0, i) = EventOf(made, T, m0, i)
             /\ ledger \in Ledgers(made', T1, m0)
      BY <1>8, <3>1, <3>2
    <3>4. Tells(g, made, T, m0, k)
      BY <1>5, <3>1 DEF CodexTold, g
    <3>5. /\ Len(h.counts) = k
          /\ \A i \in 1..k : h.counts[i] = [key |-> <<"tc", T1[i]>>, tokens |-> made'[i].tokens, third |-> made'[i].third]
          /\ h.prev = IF k = 0 THEN None ELSE T1[k]
      <4>1. k # 0 => T1[k] = T[k]
        BY <1>2, <3>3
      <4> QED BY <2>4, <3>3, <3>4, <4>1 DEF Tells
    <3>6. e = EventOf(made', T1, m0, k + 1)
      <4>1. ~(k + 1 <= m0)
        BY <1>2
      <4>2. g.model = model /\ made'[k + 1].tokens = n /\ made'[k + 1].third = (model \in Routed)
        BY <1>3, <1>4, <2>7 DEF row
      <4>3. T1[k + 1] = total + n
        BY <1>1, <3>3
      <4>4. id = IF model \in Routed THEN None ELSE k + 1
        BY DEF id
      <4>5. k + 1 # None
        BY <1>2, CodexBounds
      <4>6. Key(made', T1, m0, k + 1) = IF model \in Routed THEN <<"tc", total + n>> ELSE <<"id", k + 1>>
        BY <4>1, <4>2, <4>3 DEF Key
      <4>7. (IF id # None THEN <<"id", id>> ELSE <<"tc", total + n>>) = Key(made', T1, m0, k + 1)
        BY <4>4, <4>5, <4>6
      <4> QED BY <4>2, <4>7 DEF EventOf
    <3> HIDE DEF e
    <3>7. /\ Len(h.records) = k + 1 - m0
          /\ \A j \in 1..(k + 1 - m0) : h.records[j] = EventOf(made', T1, m0, m0 + j)
      <4>1. g.records \in Seq(Told) /\ ~g.skipped
        BY <1>4, <2>3, <2>7 DEF Parsing
      <4>2. Len(g.records) = k - m0 /\ \A j \in 1..(k - m0) : g.records[j] = EventOf(made, T, m0, m0 + j)
        BY <3>4 DEF Tells, k
      <4> DEFINE more == Append(g.records, e)
      <4>3. e \in Told
        <5>1. (IF id # None THEN <<"id", id>> ELSE <<"tc", total + n>>) \in {"id", "tc"} \X Int
          BY <2>1
        <5> QED BY <1>2, <5>1 DEF Told, e
      <4>4. /\ Len(more) = Len(g.records) + 1 /\ more[Len(g.records) + 1] = e
            /\ \A j \in 1..Len(g.records) : more[j] = g.records[j]
        BY <4>1, <4>3, AppendProperties
      <4> HIDE DEF more
      <4>5. h.records = more
        BY <2>4, <4>1 DEF more
      <4>6. ASSUME NEW j \in 1..(k + 1 - m0) PROVE more[j] = EventOf(made', T1, m0, m0 + j)
        <5>1. CASE j = k + 1 - m0
          <6>1. m0 + j = k + 1 /\ j = Len(g.records) + 1
            BY <1>2, <4>2, <5>1
          <6> QED BY <3>6, <4>4, <6>1
        <5>2. CASE j # k + 1 - m0
          <6>1. j \in 1..(k - m0) /\ m0 + j \in 1..k
            BY <1>2, <5>2
          <6> QED BY <3>3, <4>2, <4>4, <6>1
        <5> QED BY <5>1, <5>2
      <4>7. Len(more) = k + 1 - m0
        BY <1>2, <4>2, <4>4
      <4> QED BY <4>5, <4>6, <4>7
    <3>8. Tells(h, made', T1, m0, k)
      BY <1>3, <3>5, <3>7 DEF Tells
    <3>9. (version = "counts" => FALSE) /\ (mixed <=> m0 # 0)
      BY <1>9, <3>1 DEF CodexTold
    <3>10. CodexTold(T1, m0)'
      BY <1>1, <1>3, <1>5, <1>9, <2>6, <3>3, <3>8, <3>9 DEF CodexTold, h
    <3> QED BY <1>3, <3>2, <3>10
  <2>8. CodexCounted'
    <3>1. h.line = Len(file') /\ Own(h.snaps, file') /\ Own(codexSnaps', file') /\ h.skipped = ~file'[1].id
      BY <1>1, <1>4, <2>3, <2>4
    <3>2. file'[1].id => h.model = model'
      BY <1>1, <1>4, <2>3, <2>4
    <3>3. ~file'[1].id => ledger' = <<>> /\ codexSnaps' = {}
      BY <1>1, <1>4, <2>3
    <3> QED BY <1>6, <2>3, <2>7, <3>1, <3>2, <3>3 DEF CodexCounted, h
  <2> QED BY <2>5, <2>8
<1>10. CASE version = "counts"
  <2>1. file' = file
    BY <1>1, <1>10
  <2>2. CodexTyped'
    <3>1. pending' \in Sizes \cup {None}
      BY <1>1
    <3> QED BY <1>1, <1>3, <1>7, <2>1, <3>1 DEF CodexTyped
  <2> HIDE DEF row
  <2>3. ASSUME file[1].id PROVE \E T \in [0..Len(made') -> Nat], m0 \in 0..Len(made') : CodexTold(T, m0)'
    <3>1. PICK T \in [0..k -> Nat], m0 \in 0..k : CodexTold(T, m0)
      BY <2>3 DEF CodexCounted, k
    <3>2. m0 = k /\ k + 1 \in 0..(k + 1) /\ ~mixed
      BY <1>2, <1>10, <3>1 DEF CodexTold, k
    <3> PICK m1 \in 0..(k + 1) : m1 = k + 1
      BY <3>2
    <3>3. PICK T1 \in [0..(k + 1) -> Nat] :
             /\ Tally(made', T1) /\ T1[k + 1] = total'
             /\ \A i \in 1..k : made'[i] = made[i] /\ T1[i] = T[i] /\ EventOf(made', T1, m1, i) = EventOf(made, T, m0, i)
             /\ ledger \in Ledgers(made', T1, m1)
      BY Zenon, <1>8, <3>1, <3>2
    <3>4. Tells(g, made, T, k, k)
      BY <1>5, <3>1, <3>2 DEF CodexTold, g
    <3>5. Tells(g, made', T1, m1, k)
      <4>1. k # 0 => T1[k] = T[k]
        BY <1>2, <3>3
      <4>2. Len(g.records) = 0 /\ Len(made') - m1 = 0
        BY <1>2, <1>3, <3>4 DEF Tells, k
      <4>3. /\ Len(g.counts) = k
            /\ \A i \in 1..k : g.counts[i] = [key |-> <<"tc", T1[i]>>, tokens |-> made'[i].tokens, third |-> made'[i].third]
            /\ g.prev = IF k = 0 THEN None ELSE T1[k]
        BY <3>3, <3>4, <4>1 DEF Tells
      <4> QED BY <4>2, <4>3 DEF Tells
    <3>6. ASSUME codexRead = Len(file) PROVE Known(ledger, made', T1, m1, k)
      <4>1. \A i \in 1..k : Key(made, T, k, i) \in DOMAIN ledger
        BY <1>5, <3>1, <3>2, <3>6 DEF CodexTold, Known, k
      <4>2. \A i \in 1..k : Key(made', T1, m1, i) = Key(made, T, k, i)
        <5>1. \A i \in 1..k : EventOf(made', T1, m1, i).key = EventOf(made, T, k, i).key
          BY <3>2, <3>3
        <5> QED BY <5>1 DEF EventOf
      <4>3. ~(m1 < Len(made'))
        BY <1>2, <1>3
      <4> QED BY <4>1, <4>2, <4>3 DEF Known
    <3>7. CodexTold(T1, m1)'
      BY <1>1, <1>3, <1>5, <1>10, <2>1, <3>2, <3>3, <3>5, <3>6 DEF CodexTold, g
    <3> QED BY <1>3, <3>2, <3>7
  <2>4. CodexCounted'
    BY <1>1, <1>4, <1>6, <2>1, <2>3 DEF CodexCounted, g
  <2> QED BY <2>2, <2>4
<1> QED BY <1>9, <1>10 DEF CodexTyped

\* A pass over no events leaves the ledger as it is.
LEMMA NothingStored ==
  ASSUME NEW rows, rows = <<>>
  PROVE  Storing(rows, <<>>)[0] = <<>>
<1> DEFINE ms == <<>>
           T == [i \in 0..0 |-> 0]
           at == [i \in 1..0 |-> i]
           es == <<>>
<1>1. ms \in Seq(Row) /\ Len(ms) = 0
  OBVIOUS
<1>2. Tally(ms, T)
  BY DEF Tally
<1>3. rows \in Ledgers(ms, T, 0)
  <2>1. rows \in [{} -> Row]
    OBVIOUS
  <2> QED BY <1>1, <2>1 DEF Ledgers
<1>4. at \in [1..0 -> 1..Len(ms)]
  BY <1>1
<1>5. Len(es) = 0 /\ \A i \in 1..0 : es[i] = EventOf(ms, T, 0, at[i])
  OBVIOUS
<1> HIDE DEF ms, T, at, es
<1>6. Storing(rows, es)[0] \in Ledgers(ms, T, 0)
  BY <1>1, <1>2, <1>3, <1>4, <1>5, PassStores DEF AddsAll
<1>7. Keys(ms, T, 0) = {}
  BY <1>1 DEF Keys
<1>8. Storing(rows, es)[0] \in [{} -> Row]
  BY <1>6, <1>7 DEF Ledgers
<1> QED BY <1>8 DEF es

\* A pass adds what the file tells and the ledger does not have, each request
\* with its row.
LEMMA PassKeeps ==
  ASSUME CodexTyped, CodexCounted, Codex!Pass
  PROVE  CodexTyped' /\ CodexCounted'
<1> DEFINE g == Codex!Gathered(file)
           es == Codex!Parse(file).events
           found == Codex!Parse(file).snaps
<1>1. /\ codexRead' = Len(file) /\ codexSnaps' = codexSnaps \cup found
      /\ ledger' = Storing(ledger, es)[Len(es)]
      /\ UNCHANGED <<file, model, version, mixed, total, pending, made>>
  BY DEF Codex!Pass, Storing
<1>2. es = (IF g.skipped THEN <<>> ELSE Codex!Counted(g)) /\ found = IF g.skipped THEN {} ELSE g.snaps
  BY DEF Codex!Parse
<1>3. /\ g.line = Len(file) /\ Own(g.snaps, file) /\ Own(codexSnaps, file) /\ g.skipped = ~file[1].id
      /\ (~file[1].id => ledger = <<>> /\ codexSnaps = {}) /\ (file[1].id => g.model = model)
      /\ (pending # None => Len(made) # 0 /\ made[Len(made)].third = (model \in Routed))
  BY DEF CodexCounted
<1>4. Len(made) \in Nat /\ made \in Seq(Row) /\ Len(file) \in Nat
  BY LenProperties DEF CodexTyped
<1>5. g \in Parsing
  BY ThroughLines, <1>4 DEF CodexTyped
<1>6. Answered' = Answered /\ Answered \in 0..Len(made)
  BY <1>1, <1>3, <1>4 DEF Answered
<1> HIDE DEF es, found
<1>7. CodexTyped'
  BY <1>1, <1>4 DEF CodexTyped
<1>8. Own(codexSnaps', file)
  BY Zenon, <1>1, <1>2, <1>3 DEF Own
<1>9. ASSUME ~file[1].id PROVE ledger' = <<>> /\ codexSnaps' = {}
  <2>1. es = <<>> /\ found = {} /\ Len(es) = 0 /\ ledger = <<>>
    BY <1>2, <1>3, <1>9
  <2>2. ledger' = Storing(ledger, <<>>)[0]
    BY <1>1, <2>1
  <2> QED BY <1>1, <1>3, <1>9, <2>1, <2>2, NothingStored
<1>10. ASSUME file[1].id PROVE \E T \in [0..Len(made) -> Nat], m0 \in 0..Len(made) : CodexTold(T, m0)'
  <2>1. PICK T \in [0..Len(made) -> Nat], m0 \in 0..Len(made) : CodexTold(T, m0)
    BY <1>10 DEF CodexCounted
  <2> DEFINE n == Len(made)
             c == Answered
  <2>2. /\ Tally(made, T) /\ T[n] = total /\ Tells(g, made, T, m0, c) /\ ledger \in Ledgers(made, T, m0)
        /\ (version = "counts" => m0 = n /\ ~mixed) /\ (version = "records" => (mixed <=> m0 # 0))
    BY <2>1 DEF CodexTold
  <2>3. g.records \in Seq(Told) /\ g.counts \in Seq(Told) /\ ~g.skipped
    BY <1>3, <1>5, <1>10 DEF Parsing
  <2>4. n \in Nat /\ c \in 0..n /\ m0 \in 0..n
    BY <1>4, <1>6
  <2>5. Len(g.records) = n - m0 /\ \A j \in 1..(n - m0) : g.records[j] = EventOf(made, T, m0, m0 + j)
    BY <2>2 DEF Tells
  <2>6. Len(g.counts) = c /\ \A i \in 1..c : g.counts[i] = [key |-> <<"tc", T[i]>>, tokens |-> made[i].tokens, third |-> made[i].third]
    BY <2>2 DEF Tells
  <2>7. g.records # <<>> <=> m0 # n
    <3>1. g.records = <<>> <=> Len(g.records) = 0
      BY <2>3, EmptySeq, LenProperties
    <3> QED BY <2>4, <2>5, <3>1
  <2>8. es = IF m0 # n THEN g.records ELSE g.counts
    BY <1>2, <2>3, <2>7 DEF Codex!Counted
  <2> HIDE DEF g, n, c
  <2>9. ledger' \in Ledgers(made, T, m0) /\ Known(ledger', made, T, m0, c)
    <3>1. CASE m0 # n
      <4> DEFINE k == n - m0
                 at == [i \in 1..k |-> m0 + i]
      <4>1. k \in Nat /\ at \in [1..k -> 1..n] /\ es = g.records /\ Len(es) = k
        BY <2>4, <2>5, <2>8, <3>1
      <4>2. \A i \in 1..k : es[i] = EventOf(made, T, m0, at[i])
        BY <2>5, <4>1
      <4>3. \A i \in (m0 + 1)..n : \E j \in 1..k : at[j] = i
        <5> SUFFICES ASSUME NEW i \in (m0 + 1)..n PROVE \E j \in 1..k : at[j] = i
          OBVIOUS
        <5>1. i - m0 \in 1..k /\ at[i - m0] = i
          BY <2>4
        <5> QED BY <5>1
      <4> HIDE DEF k, at
      <4>4. AddsAll(ledger, Storing(ledger, es)[k], made, T, m0, at, k)
        <5>1. at \in [1..k -> 1..Len(made)]
          BY <4>1 DEF n
        <5> QED BY <1>4, <2>2, <4>1, <4>2, <5>1, PassStores
      <4>5. \A i \in (m0 + 1)..n : Key(made, T, m0, i) \in DOMAIN ledger'
        BY <1>1, <4>1, <4>3, <4>4 DEF AddsAll
      <4> QED BY <1>1, <3>1, <4>1, <4>4, <4>5 DEF Known, n, AddsAll
    <3>2. CASE m0 = n
      <4> DEFINE at == [i \in 1..c |-> i]
      <4>1. c \in Nat /\ at \in [1..c -> 1..n] /\ es = g.counts /\ Len(es) = c
        BY <2>4, <2>6, <2>8, <3>2
      <4>2. \A i \in 1..c : es[i] = EventOf(made, T, m0, at[i])
        <5> SUFFICES ASSUME NEW i \in 1..c PROVE es[i] = EventOf(made, T, m0, at[i])
          OBVIOUS
        <5>1. i <= m0 /\ at[i] = i
          BY <2>4, <3>2
        <5>2. Key(made, T, m0, i) = <<"tc", T[i]>>
          BY <5>1 DEF Key
        <5> QED BY <2>6, <4>1, <5>1, <5>2 DEF EventOf
      <4>3. \A i \in 1..c : at[i] = i
        OBVIOUS
      <4> HIDE DEF at
      <4>4. AddsAll(ledger, Storing(ledger, es)[c], made, T, m0, at, c)
        <5>1. at \in [1..c -> 1..Len(made)]
          BY <4>1 DEF n
        <5> QED BY <1>4, <2>2, <4>1, <4>2, <5>1, PassStores
      <4>5. \A i \in 1..c : Key(made, T, m0, i) \in DOMAIN ledger'
        BY <1>1, <4>1, <4>3, <4>4 DEF AddsAll
      <4>6. ~(m0 < n)
        BY <2>4, <3>2
      <4> QED BY <1>1, <3>2, <4>1, <4>4, <4>5, <4>6 DEF Known, n, AddsAll
    <3> QED BY <3>1, <3>2
  <2>10. CodexTold(T, m0)'
    BY <1>1, <1>6, <2>2, <2>9 DEF CodexTold, g, n, c
  <2> QED BY <2>10
<1>11. CodexCounted'
  BY <1>1, <1>3, <1>8, <1>9, <1>10 DEF CodexCounted, g
<1> QED BY <1>7, <1>11

\* The rollout's lines, what a pass gathers of them and the ledger fit together
\* at every step of a session.
THEOREM CodexAlways == Codex!Spec => [](CodexTyped /\ CodexCounted)
<1>1. CodexTyped /\ CodexCounted /\ [Codex!Next]_(Codex!vars) => (CodexTyped /\ CodexCounted)'
  BY TurnKeeps, RequestKeeps, CountKeeps, RateLimitsKeep, UpdateCodexKeeps, PassKeeps, CodexStutters DEF Codex!Next
<1> QED BY <1>1, CodexInitially, PTL DEF Codex!Spec

\* Where every row is of a request under its key, requests are counted once.
LEMMA CountedIsOnce ==
  ASSUME CodexTyped, CodexCounted
  PROVE  CountedOnce
<1>1. CASE ~file[1].id
  BY <1>1 DEF CodexCounted, CountedOnce, Codex!CountedOnce
<1>2. CASE file[1].id
  <2>1. PICK T \in [0..Len(made) -> Nat], m0 \in 0..Len(made) : CodexTold(T, m0)
    BY <1>2 DEF CodexCounted
  <2> DEFINE n == Len(made)
             KeyOf(i) == Key(made, T, m0, i)
             of == [k \in DOMAIN ledger |-> CHOOSE i \in 1..n : KeyOf(i) = k]
  <2>2. made \in Seq(Row) /\ n \in Nat /\ DOMAIN made = 1..n /\ Tally(made, T)
    BY <2>1, LenProperties DEF CodexTyped, CodexTold
  <2>3. \A k \in DOMAIN ledger : \E i \in 1..n : KeyOf(i) = k
    BY <2>1 DEF CodexTold, Ledgers, Keys
  <2>4. \A i \in 1..n : KeyOf(i) \in DOMAIN ledger => ledger[KeyOf(i)] = made[i]
    BY <2>1 DEF CodexTold, Ledgers
  <2>5. \A i, j \in 1..n : KeyOf(i) = KeyOf(j) => i = j
    BY <2>2, KeysApart
  <2> HIDE DEF KeyOf, n
  <2>6. \A k \in DOMAIN ledger : of[k] \in 1..n /\ KeyOf(of[k]) = k
    BY <2>3
  <2>7. of \in [DOMAIN ledger -> DOMAIN made]
    BY <2>2, <2>6
  <2> HIDE DEF of
  <2>8. \A k \in DOMAIN ledger : ledger[k] = made[of[k]]
    BY <2>4, <2>6
  <2>9. \A k, l \in DOMAIN ledger : of[k] = of[l] => k = l
    BY <2>6
  <2>10. ASSUME codexRead = Len(file), pending = None, ~mixed PROVE DOMAIN made = {of[k] : k \in DOMAIN ledger}
    <3>1. \A i \in 1..n : KeyOf(i) \in DOMAIN ledger
      <4>1. Known(ledger, made, T, m0, n) /\ m0 \in 0..n /\ (m0 = n \/ m0 = 0)
        BY <2>1, <2>10 DEF CodexTold, Answered, n, CodexTyped
      <4>2. CASE m0 = n
        BY <4>1, <4>2 DEF Known, n, KeyOf
      <4>3. CASE m0 # n
        <5>1. m0 = 0 /\ m0 < n /\ m0 + 1 = 1
          BY <2>2, <4>1, <4>3
        <5> QED BY <4>1, <5>1 DEF Known, n, KeyOf
      <4> QED BY <4>2, <4>3
    <3>2. \A i \in 1..n : of[KeyOf(i)] = i
      BY <2>5, <2>6, <3>1
    <3> QED BY <2>2, <2>6, <3>1, <3>2
  <2>11. \A s \in codexSnaps : file[s.line].limit.id \in {"", "codex"}
    BY Zenon DEF CodexCounted, Own
  <2>12. \E of1 \in [DOMAIN ledger -> DOMAIN made] :
            /\ \A k \in DOMAIN ledger : ledger[k] = made[of1[k]]
            /\ \A k, l \in DOMAIN ledger : of1[k] = of1[l] => k = l
            /\ codexRead = Len(file) /\ pending = None /\ ~mixed => DOMAIN made = {of1[k] : k \in DOMAIN ledger}
    BY <2>7, <2>8, <2>9, <2>10
  <2> QED BY Zenon, <1>2, <2>11, <2>12 DEF CountedOnce, Codex!CountedOnce
<1> QED BY <1>1, <1>2

\* However a session goes on, whenever it is read and whenever Codex is updated,
\* every request is in the ledger once at most, with its tokens, and none is
\* missing once the file of one Codex is read (rollout.Parse, Store.IngestFile),
\* for any number of requests, any sizes, models and inherited totals.
THEOREM RequestsCountedOnce == Codex!Spec => []CountedOnce
BY CodexAlways, CountedIsOnce, PTL

\* MCReports runs a session under its own specification.
THEOREM ReportsRunCodex == Spec => Codex!Spec
<1>1. Init => Codex!Init
  BY DEF Init
<1>2. [Next]_vars => [Codex!Next]_(Codex!vars)
  BY DEF Next, vars, codex, Codex!vars
<1> QED BY <1>1, <1>2, PTL DEF Spec, Codex!Spec

\* So requests are counted once (rollout.Parse) in what the run checks.
THEOREM CountedOnceInReports == Spec => []CountedOnce
BY ReportsRunCodex, RequestsCountedOnce, PTL

-----------------------------------------------------------------------------
(***************************************************************************)
(* Transcript: the requests of a Claude Code transcript are placed where   *)
(* they belong.                                                            *)
(***************************************************************************)
\* The lines, events and rows of a transcript.
ResponseLine == [req : Requests, out : Nat, at : Nat, error : {None}]
ErrorLine == [req : {None}, out : {0}, at : Nat, error : ErrorLines]
Response == [req : Requests, at : Nat, out : Nat]
EventItem ==
  [req : Requests, acct : {"anthropic", "openai"}, gateway : {"", "anthropic", "opencodex", "ollama"},
   out : Nat, third : BOOLEAN]
LimitItem == [line : Nat, kind : {Claude!ClassifyLimit(e) : e \in ErrorLines}]
RowSet ==
  [acct : {"anthropic", "openai"}, third : BOOLEAN, gateway : {"", "anthropic", "opencodex", "ollama"}, out : Nat]
IsTable(rows) == DOMAIN rows \subseteq Requests /\ rows \in [DOMAIN rows -> RowSet]

LogTyped ==
  /\ Claude!TranscriptConstants
  /\ now \in Nat /\ read \in 0..Len(lines)
  /\ reply \in [Requests -> Answers] /\ asked \in [Requests -> Nat \cup {None}]
  /\ ocx \in Seq([req : Requests, served : STRING, prompt : Nat, out : Nat, at : Nat])
  /\ lines \in Seq(ResponseLine \cup ErrorLine)
  /\ IsTable(device) /\ IsTable(server)
  /\ outbox \in Seq(EventItem \cup LimitItem)
  /\ limits \in [device : SUBSET LimitItem, server : SUBSET LimitItem]

\* What OpenCodex writes of a request.
Recording(q) ==
  [req |-> q, served |-> reply[q].served, prompt |-> reply[q].prompt, out |-> reply[q].out, at |-> asked[q]]

\* A line was written after its request was sent, with the first or the whole
\* count, and the whole one after OpenCodex's record.
LineTrue(l) ==
  /\ asked[l.req] \in Nat /\ asked[l.req] <= l.at
  /\ l.out \in {1, reply[l.req].out}
  /\ l.out = reply[l.req].out /\ Claude!Gateway(reply[l.req]) = "opencodex" => Claude!Recorded(l.req)

Logged ==
  /\ \A q \in Requests : asked[q] # None => asked[q] <= now
  /\ \A i \in DOMAIN ocx : ocx[i] = Recording(ocx[i].req)
  /\ \A i, j \in DOMAIN ocx : ocx[i].req = ocx[j].req => i = j
  /\ \A i \in DOMAIN lines : lines[i].error = None => LineTrue(lines[i])

\* OpenCodex's log can tell who served q.
Clear(q) == Claude!InTime(q) /\ ~Claude!Confusable(q)

\* What an event or a row may say of q: it counts against no quota it did not
\* draw on, and the one that has the whole count says so if it drew on none.
Right(q, x) ==
  /\ reply[q].model # "synthetic"
  /\ x.acct = Claude!Provider(reply[q])
  /\ x.out \in {1, reply[q].out}
  /\ Clear(q) =>
       /\ x.third => Claude!Payer(q) = None
       /\ x.out = reply[q].out /\ Claude!Payer(q) = None => x.third

\* The device has what it read.
Covered ==
  \A i \in 1..read :
    lines[i].error = None /\ reply[lines[i].req].model # "synthetic" =>
      lines[i].req \in DOMAIN device /\ lines[i].out <= device[lines[i].req].out

\* What the device has is on the server or queued.
Items(queue) == {queue[i] : i \in DOMAIN queue}
Arrives(rows, queue) ==
  \A q \in DOMAIN rows :
    \/ q \in DOMAIN server /\ rows[q].out <= server[q].out
    \/ \E x \in Items(queue) : x \in EventItem /\ x.req = q /\ rows[q].out <= x.out
LimitsArrive(found, queue) ==
  /\ limits.server \subseteq found /\ Items(queue) \cap LimitItem \subseteq found
  /\ found \subseteq limits.server \cup Items(queue)
ItemsRight(queue) == \A x \in Items(queue) : x \in EventItem => Right(x.req, x)

Placed ==
  /\ Covered
  /\ Arrives(device, outbox) /\ LimitsArrive(limits.device, outbox) /\ ItemsRight(outbox)
  /\ \A q \in DOMAIN server : Right(q, server[q])

\* What the assumptions say of an answer.
LEMMA AnswerBounds ==
  ASSUME LogTyped, NEW q \in Requests
  PROVE  /\ reply[q].model \in {"claude", "other", "routed", "native", "synthetic"}
         /\ reply[q].id \in {"anthropic", "opencodex", "ollama"} /\ reply[q].entry \in {"cli", "desktop-3p"}
         /\ reply[q].served \in STRING /\ reply[q].served # None
         /\ reply[q].prompt \in Nat /\ reply[q].out \in Nat /\ reply[q].out # 0
<1>1. /\ Answers \subseteq [model : {"claude", "other", "routed", "native", "synthetic"},
                          id : {"anthropic", "opencodex", "ollama"}, req : BOOLEAN,
                          entry : {"cli", "desktop-3p"}, served : STRING, prompt : Nat, out : Nat \ {0}]
      /\ \A r \in Answers : r.served # None
  BY DEF LogTyped, Claude!TranscriptConstants
<1>2. reply[q] \in Answers
  BY DEF LogTyped
<1>3. reply[q].served # None
  BY <1>1, <1>2
<1>4. reply[q] \in [model : {"claude", "other", "routed", "native", "synthetic"},
                    id : {"anthropic", "opencodex", "ollama"}, req : BOOLEAN,
                    entry : {"cli", "desktop-3p"}, served : STRING, prompt : Nat, out : Nat \ {0}]
  BY <1>1, <1>2
<1>5. reply[q].id \in {"anthropic", "opencodex", "ollama"} /\ reply[q].served \in STRING
  BY <1>4
<1>8. /\ reply[q].model \in {"claude", "other", "routed", "native", "synthetic"}
      /\ reply[q].entry \in {"cli", "desktop-3p"}
  BY <1>4
<1>9. reply[q].prompt \in Nat /\ reply[q].out \in Nat /\ reply[q].out # 0
  BY <1>4
<1> QED BY <1>3, <1>5, <1>8, <1>9

LEMMA NoneApart ==
  ASSUME LogTyped
  PROVE  /\ None \notin Requests /\ None \notin ErrorLines /\ None \notin Nat
         /\ None # "anthropic" /\ None # "openai" /\ MatchWindow \in Nat
BY DEF LogTyped, Claude!TranscriptConstants

\* An item of the queue is told by its fields.
LEMMA ItemKinds ==
  /\ \A e \in EventItem : ~("kind" \in DOMAIN e)
  /\ \A e \in LimitItem : "kind" \in DOMAIN e
  /\ \A e \in EventItem : e \notin LimitItem
<1>1. \A e \in EventItem : ~("kind" \in DOMAIN e)
  BY DEF EventItem
<1>2. \A e \in LimitItem : "kind" \in DOMAIN e
  BY DEF LimitItem
<1> QED BY <1>1, <1>2

LEMMA TableSet == \A rows : IsTable(rows) <=> rows \in UNION {[D -> RowSet] : D \in SUBSET Requests}
<1> TAKE rows
<1>1. ASSUME IsTable(rows) PROVE rows \in UNION {[D -> RowSet] : D \in SUBSET Requests}
  BY <1>1 DEF IsTable
<1>2. ASSUME NEW D \in SUBSET Requests, rows \in [D -> RowSet] PROVE IsTable(rows)
  <2>1. DOMAIN rows = D
    BY <1>2
  <2> QED BY <1>2, <2>1 DEF IsTable
<1> QED BY <1>1, <1>2

-----------------------------------------------------------------------------
\* The line counts for a response.
Telling(j) == lines[j].error = None /\ reply[lines[j].req].model # "synthetic"

\* One of the first n lines has the count of e, and one its time.
Shown(e, n) ==
  /\ \E j \in 1..n : Telling(j) /\ lines[j].req = e.req /\ lines[j].out = e.out
  /\ \E j \in 1..n : Telling(j) /\ lines[j].req = e.req /\ lines[j].at = e.at

\* What a pass has gathered of the first n lines.
Gatherings == [events : Seq(Response), limits : Seq(LimitItem)]
Gathers(found, n) ==
  /\ \A k \in DOMAIN found : Shown(found[k], n)
  /\ \A j \in 1..n : Telling(j) =>
       \E k \in DOMAIN found : found[k].req = lines[j].req /\ lines[j].out <= found[k].out

LEMMA LineKinds ==
  ASSUME LogTyped, NEW i \in DOMAIN lines
  PROVE  IF lines[i].error = None THEN lines[i] \in ResponseLine ELSE lines[i] \in ErrorLine
<1>1. lines[i] \in ResponseLine \cup ErrorLine
  BY DEF LogTyped
<1>2. \A l \in ErrorLine : l.error # None
  BY NoneApart DEF ErrorLine
<1>3. \A l \in ResponseLine : l.error = None
  BY DEF ResponseLine
<1> QED BY <1>1, <1>2, <1>3

\* A line that counts is added to what was told before it.
LEMMA TellKeeps ==
  ASSUME LogTyped, NEW i \in 1..Len(lines), Telling(i), NEW found \in Seq(Response)
  PROVE  LET u == Claude!Tell(found, lines[i])
         IN  u \in Seq(Response) /\ (Gathers(found, i - 1) => Gathers(u, i))
<1> DEFINE l == lines[i]
           u == Claude!Tell(found, l)
           raised == [k \in DOMAIN found |->
                        IF found[k].req = l.req THEN [found[k] EXCEPT !.out = Claude!Output(@, l.out)] ELSE found[k]]
           first == [req |-> l.req, at |-> l.at, out |-> l.out]
<1> SUFFICES u \in Seq(Response) /\ (Gathers(found, i - 1) => Gathers(u, i))
  OBVIOUS
<1>0. Len(lines) \in Nat /\ DOMAIN lines = 1..Len(lines) /\ i \in DOMAIN lines
  BY LenProperties DEF LogTyped
<1>1. l \in ResponseLine /\ l.req \in Requests /\ l.out \in Nat /\ l.at \in Nat
  BY <1>0, LineKinds DEF Telling, ResponseLine
<1>2. \A k \in DOMAIN found : found[k] \in Response /\ found[k].out \in Nat
  <2>1. \A k \in DOMAIN found : found[k] \in Response
    BY LenProperties, ElementOfSeq
  <2> QED BY <2>1 DEF Response
<1>3. \A e : Shown(e, i - 1) => Shown(e, i)
  <2>1. 1..(i - 1) \subseteq 1..i
    BY <1>0
  <2> QED BY <2>1 DEF Shown
<1>4. CASE \E k \in DOMAIN found : found[k].req = l.req
  <2>1. u = raised
    BY <1>4 DEF Claude!Tell
  <2>2. ASSUME NEW k \in DOMAIN found
        PROVE  /\ raised[k] \in Response /\ raised[k].req = found[k].req /\ raised[k].at = found[k].at
               /\ raised[k].out = IF found[k].req = l.req /\ l.out > found[k].out THEN l.out ELSE found[k].out
    BY <1>1, <1>2, <2>2 DEF Claude!Output, Response
  <2>3. raised \in Seq(Response)
    <3>1. Len(found) \in Nat /\ DOMAIN found = 1..Len(found)
      BY LenProperties
    <3>2. raised = [k \in 1..Len(found) |-> raised[k]]
      BY <3>1
    <3>3. \A k \in 1..Len(found) : raised[k] \in Response
      BY <2>2, <3>1
    <3> HIDE DEF raised
    <3> QED BY <3>1, <3>2, <3>3, IsASeq
  <2>4. DOMAIN raised = DOMAIN found
    OBVIOUS
  <2> HIDE DEF raised
  <2>5. ASSUME Gathers(found, i - 1), NEW k \in DOMAIN raised PROVE Shown(raised[k], i)
    <3>1. Shown(found[k], i - 1) /\ Shown(found[k], i)
      BY <1>3, <2>4, <2>5 DEF Gathers
    <3>2. raised[k].req = found[k].req /\ raised[k].at = found[k].at
      BY <2>2, <2>4
    <3>3. CASE raised[k].out = found[k].out
      BY <3>1, <3>2, <3>3 DEF Shown
    <3>4. CASE found[k].req = l.req /\ raised[k].out = l.out
      <4>1. i \in 1..i
        BY <1>0
      <4>2. \E j \in 1..i : Telling(j) /\ lines[j].req = raised[k].req /\ lines[j].out = raised[k].out
        BY <3>2, <3>4, <4>1
      <4> QED BY <3>1, <3>2, <4>2 DEF Shown
    <3> QED BY <2>2, <2>4, <3>3, <3>4
  <2>6. ASSUME Gathers(found, i - 1), NEW j \in 1..i, Telling(j)
        PROVE  \E k \in DOMAIN raised : raised[k].req = lines[j].req /\ lines[j].out <= raised[k].out
    <3>1. CASE j = i
      <4>1. PICK k \in DOMAIN found : found[k].req = l.req
        BY <1>4
      <4>2. l.out <= raised[k].out /\ raised[k].req = l.req
        BY <1>1, <1>2, <2>2, <4>1
      <4> QED BY <2>4, <3>1, <4>2
    <3>2. CASE j # i
      <4>1. j \in 1..(i - 1) /\ j \in DOMAIN lines
        BY <1>0, <3>2
      <4>2. PICK k \in DOMAIN found : found[k].req = lines[j].req /\ lines[j].out <= found[k].out
        BY <2>6, <4>1 DEF Gathers
      <4>3. lines[j].out \in Nat
        BY <2>6, <4>1, LineKinds DEF Telling, ResponseLine
      <4>4. lines[j].out <= raised[k].out /\ raised[k].req = lines[j].req
        BY <1>1, <1>2, <2>2, <4>2, <4>3
      <4> QED BY <2>4, <4>4
    <3> QED BY <3>1, <3>2
  <2> QED BY <2>1, <2>3, <2>5, <2>6 DEF Gathers
<1>5. CASE ~ \E k \in DOMAIN found : found[k].req = l.req
  <2>1. u = Append(found, first)
    BY <1>5 DEF Claude!Tell
  <2>2. first \in Response /\ first.req = l.req /\ first.at = l.at /\ first.out = l.out
    BY <1>1 DEF Response
  <2> HIDE DEF first
  <2>3. /\ u \in Seq(Response) /\ DOMAIN u = 1..(Len(found) + 1) /\ DOMAIN found = 1..Len(found) /\ Len(found) \in Nat
        /\ u[Len(found) + 1] = first /\ \A k \in 1..Len(found) : u[k] = found[k]
    BY <2>1, <2>2, AppendProperties, LenProperties
  <2>4. i \in 1..i /\ l.out <= l.out
    BY <1>0, <1>1
  <2>5. Shown(first, i)
    BY <2>2, <2>4 DEF Shown
  <2> HIDE DEF u
  <2>6. ASSUME Gathers(found, i - 1) PROVE \A k \in DOMAIN u : Shown(u[k], i)
    <3>1. \A k \in 1..Len(found) : Shown(found[k], i)
      BY <1>3, <2>3, <2>6 DEF Gathers
    <3>2. \A k \in DOMAIN u : k \in 1..Len(found) \/ k = Len(found) + 1
      BY <2>3
    <3> QED BY <2>3, <2>5, <3>1, <3>2
  <2>7. ASSUME Gathers(found, i - 1), NEW j \in 1..i, Telling(j)
        PROVE  \E k \in DOMAIN u : u[k].req = lines[j].req /\ lines[j].out <= u[k].out
    <3>1. CASE j = i
      <4>1. Len(found) + 1 \in DOMAIN u
        BY <2>3
      <4> QED BY <2>2, <2>3, <2>4, <3>1, <4>1
    <3>2. CASE j # i
      <4>1. j \in 1..(i - 1)
        BY <1>0, <3>2
      <4>2. PICK k \in DOMAIN found : found[k].req = lines[j].req /\ lines[j].out <= found[k].out
        BY <2>7, <4>1 DEF Gathers
      <4>3. k \in DOMAIN u /\ u[k] = found[k]
        BY <2>3
      <4> QED BY <4>2, <4>3
    <3> QED BY <3>1, <3>2
  <2>8. Gathers(found, i - 1) => Gathers(u, i)
    BY <2>6, <2>7 DEF Gathers
  <2> QED BY <2>3, <2>8
<1> HIDE DEF u
<1> QED BY <1>4, <1>5

\* The next line is added to what was told before it.
LEMMA ResponseKeeps ==
  ASSUME LogTyped, NEW i \in 1..Len(lines), NEW r \in Gatherings
  PROVE  LET u == Claude!ReadLine(r, i, lines[i])
         IN  u \in Gatherings /\ (Gathers(r.events, i - 1) => Gathers(u.events, i))
<1> DEFINE l == lines[i]
           u == Claude!ReadLine(r, i, l)
           told == Claude!Tell(r.events, l)
<1> SUFFICES u \in Gatherings /\ (Gathers(r.events, i - 1) => Gathers(u.events, i))
  OBVIOUS
<1>0. /\ Len(lines) \in Nat /\ DOMAIN lines = 1..Len(lines) /\ i \in DOMAIN lines /\ i \in Nat
      /\ r.events \in Seq(Response) /\ r.limits \in Seq(LimitItem)
  BY LenProperties DEF LogTyped, Gatherings
<1>1. ASSUME ~Telling(i), Gathers(r.events, i - 1) PROVE Gathers(r.events, i)
  <2>1. \A j \in 1..i : Telling(j) => j \in 1..(i - 1)
    BY <1>0, <1>1
  <2>2. 1..(i - 1) \subseteq 1..i
    BY <1>0
  <2>3. \A e : Shown(e, i - 1) => Shown(e, i)
    BY <2>2 DEF Shown
  <2> QED BY <1>1, <2>1, <2>3 DEF Gathers
<1>2. CASE l.error # None
  <2>1. ~Telling(i)
    BY <1>2 DEF Telling
  <2>2. CASE Claude!ClassifyLimit(l.error) = None
    <3>1. u = r
      BY <1>2, <2>2 DEF Claude!ReadLine
    <3> QED BY <1>1, <2>1, <3>1
  <2>3. CASE Claude!ClassifyLimit(l.error) # None
    <3> DEFINE e == Claude!LimitEvent(i, l)
    <3>1. u = [r EXCEPT !.limits = Append(@, e)]
      BY <1>2, <2>3 DEF Claude!ReadLine
    <3>2. e \in LimitItem
      <4>1. l.error \in ErrorLines
        BY <1>0, <1>2, LineKinds DEF ErrorLine
      <4> QED BY <1>0, <4>1 DEF LimitItem, Claude!LimitEvent
    <3> HIDE DEF e
    <3>3. Append(r.limits, e) \in Seq(LimitItem)
      BY <1>0, <3>2, AppendProperties
    <3>4. u \in Gatherings /\ u.events = r.events
      BY <3>1, <3>3 DEF Gatherings
    <3> HIDE DEF u
    <3> QED BY <1>1, <2>1, <3>4
  <2> QED BY <2>2, <2>3
<1>3. CASE l.error = None /\ reply[l.req].model = "synthetic"
  <2>1. ~Telling(i) /\ u = r
    BY <1>3 DEF Telling, Claude!ReadLine
  <2> QED BY <1>1, <2>1
<1>4. CASE l.error = None /\ reply[l.req].model # "synthetic"
  <2>1. Telling(i) /\ u = [r EXCEPT !.events = told]
    BY <1>4 DEF Telling, Claude!ReadLine
  <2>2. told \in Seq(Response) /\ (Gathers(r.events, i - 1) => Gathers(told, i))
    BY <1>0, <2>1, TellKeeps
  <2> HIDE DEF told
  <2>3. u \in Gatherings /\ u.events = told
    BY <2>1, <2>2 DEF Gatherings
  <2> QED BY <2>2, <2>3
<1> QED BY <1>2, <1>3, <1>4

\* What a pass has gathered after each line.
Transcribed(f) ==
  LET after[i \in 0..Len(f)] ==
        IF i = 0 THEN [events |-> <<>>, limits |-> <<>>] ELSE Claude!ReadLine(after[i - 1], i, f[i])
  IN  after

\* A pass tells of every response in the file.
LEMMA ParseTells ==
  ASSUME LogTyped
  PROVE  LET r == Claude!Parse(lines) IN r \in Gatherings /\ Gathers(r.events, Len(lines))
<1> DEFINE A == Gatherings
           first == [events |-> <<>>, limits |-> <<>>]
           n == Len(lines)
           F == [i \in 1..n |-> [r \in A |-> Claude!ReadLine(r, i, lines[i])]]
           g == Transcribed(lines)
<1>1. n \in Nat
  BY LenProperties DEF LogTyped
<1>2. first \in A /\ Gathers(first.events, 0)
  <2>1. <<>> \in Seq(Response) /\ <<>> \in Seq(LimitItem) /\ DOMAIN <<>> = {}
    BY EmptySeq
  <2>2. first \in A
    BY <2>1 DEF Gatherings
  <2>3. Gathers(<<>>, 0)
    BY <2>1 DEF Gathers
  <2> QED BY <2>2, <2>3
<1>3. ASSUME NEW i \in 1..n, NEW r \in A
      PROVE  LET u == Claude!ReadLine(r, i, lines[i]) IN u \in A /\ (Gathers(r.events, i - 1) => Gathers(u.events, i))
  BY ResponseKeeps
<1>4. Claude!Parse(lines) = g[n]
  BY DEF Claude!Parse, Transcribed
<1>5. g = CHOOSE h : h = [i \in 0..n |-> IF i = 0 THEN first ELSE Claude!ReadLine(h[i - 1], i, lines[i])]
  BY DEF Transcribed
<1> HIDE DEF A, first, n, g
<1>6. F \in [1..n -> [A -> A]]
  BY <1>3
<1>7. PICK f : f \in [0..n -> A] /\ f[0] = first /\ \A i \in 1..n : f[i] = F[i][f[i - 1]]
  <2> HIDE DEF F
  <2>1. \E f : Runs(n, A, first, F, f)
    BY <1>1, <1>2, <1>6, Loop
  <2> QED BY <2>1 DEF Runs
<1>8. ASSUME NEW i \in 1..n PROVE f[i] = Claude!ReadLine(f[i - 1], i, lines[i])
  <2>1. f[i - 1] \in A /\ f[i] = F[i][f[i - 1]]
    BY <1>1, <1>7
  <2> QED BY <2>1
<1> HIDE DEF F
<1>9. f = [i \in 0..n |-> IF i = 0 THEN first ELSE Claude!ReadLine(f[i - 1], i, lines[i])]
  <2>1. \A i \in 0..n : f[i] = IF i = 0 THEN first ELSE Claude!ReadLine(f[i - 1], i, lines[i])
    BY <1>1, <1>7, <1>8
  <2> QED BY <1>7, <2>1
<1>10. g = [i \in 0..n |-> IF i = 0 THEN first ELSE Claude!ReadLine(g[i - 1], i, lines[i])]
  BY <1>5, <1>9
<1>11. g[0] = first /\ \A i \in 1..n : g[i] = Claude!ReadLine(g[i - 1], i, lines[i])
  <2>1. \A i \in 0..n : g[i] = IF i = 0 THEN first ELSE Claude!ReadLine(g[i - 1], i, lines[i])
    BY <1>10
  <2> QED BY <1>1, <2>1
<1> DEFINE S == {i \in 0..n : g[i] \in A /\ Gathers(g[i].events, i)}
<1>12. 0 \in S
  BY <1>1, <1>2, <1>11
<1>13. ASSUME NEW i \in 1..n, i - 1 \in S PROVE i \in S
  <2>1. i \in 0..n /\ g[i - 1] \in A /\ Gathers(g[i - 1].events, i - 1)
    BY <1>1, <1>13
  <2>2. g[i] \in A /\ Gathers(g[i].events, i)
    BY <1>3, <1>11, <2>1
  <2> QED BY <2>1, <2>2
<1> HIDE DEF S
<1>14. 0..n \subseteq S
  BY <1>1, <1>12, <1>13, UpTo
<1>15. n \in S
  BY <1>1, <1>14
<1> QED BY <1>4, <1>15 DEF S, A, n

-----------------------------------------------------------------------------
\* What Match makes of the records that fit.
LEMMA MatchOne ==
  ASSUME LogTyped, NEW e
  PROVE  LET found == {i \in DOMAIN ocx : Claude!Fits(ocx[i], e)}
         IN  IF \E i : found = {i} THEN \E i \in DOMAIN ocx : found = {i} /\ Claude!Match(e) = ocx[i].served
             ELSE Claude!Match(e) = None
<1> DEFINE found == {i \in DOMAIN ocx : Claude!Fits(ocx[i], e)}
<1>1. IsFiniteSet(found)
  <2>1. DOMAIN ocx = 1..Len(ocx) /\ Len(ocx) \in Nat
    BY LenProperties DEF LogTyped
  <2>2. IsFiniteSet(DOMAIN ocx)
    BY <2>1, FS_Interval
  <2> QED BY <2>2, FS_Subset
<1>2. Claude!Match(e) = IF Cardinality(found) = 1 THEN ocx[CHOOSE i \in found : TRUE].served ELSE None
  <2>1. \A S : Claude!Cardinality(S) = Cardinality(S)
    BY DEF Claude!Cardinality, Cardinality
  <2>2. Claude!Match(e) = IF Claude!Cardinality(found) = 1 THEN ocx[CHOOSE i \in found : TRUE].served ELSE None
    BY DEF Claude!Match
  <2> HIDE DEF found
  <2> QED BY <2>1, <2>2
<1>3. found \subseteq DOMAIN ocx
  OBVIOUS
<1> HIDE DEF found
<1>4. Cardinality(found) = 1 <=> \E i : found = {i}
  BY <1>1, FS_Singleton
<1>5. ASSUME NEW i, found = {i} PROVE i \in DOMAIN ocx /\ Claude!Match(e) = ocx[i].served
  <2>1. i \in found /\ (CHOOSE j \in found : TRUE) = i
    BY <1>5
  <2>2. Cardinality(found) = 1
    BY <1>4, <1>5
  <2> QED BY <1>2, <1>3, <2>1, <2>2
<1>6. (~\E i : found = {i}) => Claude!Match(e) = None
  BY <1>2, <1>4
<1> QED BY <1>5, <1>6 DEF found

\* A record that fits a clear request is its own.
LEMMA FitsOwn ==
  ASSUME LogTyped, Logged, NEW q \in Requests, Clear(q), NEW e, e.req = q, e.out \in {1, reply[q].out},
         NEW i \in DOMAIN ocx, Claude!Fits(ocx[i], e)
  PROVE  ocx[i].req = q /\ ocx[i].served = reply[q].served
<1> DEFINE p == ocx[i].req
<1>1. p \in Requests
  <2>1. ocx \in Seq([req : Requests, served : STRING, prompt : Nat, out : Nat, at : Nat])
    BY DEF LogTyped
  <2>2. ocx[i] \in [req : Requests, served : STRING, prompt : Nat, out : Nat, at : Nat]
    BY <2>1, ElementOfSeq, LenProperties
  <2> QED BY <2>2
<1>2. ocx[i] = Recording(p)
  BY DEF Logged
<1>3. reply[p].prompt = reply[q].prompt /\ reply[p].out = e.out /\ ocx[i].served = reply[p].served
  BY <1>2 DEF Claude!Fits, Recording
<1>4. Claude!Recorded(p)
  BY DEF Claude!Recorded
<1>5. p = q
  BY <1>1, <1>3, <1>4 DEF Clear, Claude!Confusable
<1> QED BY <1>3, <1>5

\* Once it was recorded, a clear request's whole count fits exactly one record.
LEMMA MatchFinds ==
  ASSUME LogTyped, Logged, NEW q \in Requests, Clear(q), Claude!Recorded(q),
         NEW j \in Claude!LinesOf(q), NEW e, e.req = q, e.out = reply[q].out, e.at = lines[j].at
  PROVE  Claude!Match(e) = reply[q].served
<1> DEFINE found == {k \in DOMAIN ocx : Claude!Fits(ocx[k], e)}
<1>1. PICK i \in DOMAIN ocx : ocx[i].req = q
  BY DEF Claude!Recorded
<1>2. ocx[i] = Recording(q)
  BY <1>1 DEF Logged
<1>3. j \in DOMAIN lines /\ lines[j].req = q
  BY DEF Claude!LinesOf
<1>4. lines[j] \in ResponseLine /\ lines[j].error = None
  <2>1. lines[j].error = None
    BY <1>3, LineKinds, NoneApart DEF ErrorLine
  <2> QED BY <1>3, <2>1, LineKinds
<1>5. asked[q] \in Nat /\ asked[q] <= lines[j].at
  BY <1>3, <1>4 DEF Logged, LineTrue
<1>6. lines[j].at - asked[q] <= MatchWindow /\ lines[j].at \in Nat /\ MatchWindow \in Nat
  BY <1>4, NoneApart DEF Clear, Claude!InTime, ResponseLine
<1>7. asked[q] - lines[j].at \in -MatchWindow .. MatchWindow
  BY <1>5, <1>6
<1>8. Claude!Fits(ocx[i], e)
  BY <1>2, <1>7 DEF Claude!Fits, Recording
<1>9. ASSUME NEW k \in DOMAIN ocx, Claude!Fits(ocx[k], e) PROVE k = i
  <2>1. ocx[k].req = q
    BY <1>9, FitsOwn
  <2> QED BY <1>1, <2>1 DEF Logged
<1>10. found = {i}
  BY <1>8, <1>9
<1>11. PICK k \in DOMAIN ocx : found = {k} /\ Claude!Match(e) = ocx[k].served
  <2> HIDE DEF found
  <2> QED BY <1>10, MatchOne DEF found
<1>12. k = i /\ ocx[i].served = reply[q].served
  <2>1. k = i
    BY <1>10, <1>11
  <2> QED BY <1>2, <2>1 DEF Recording
<1> QED BY <1>11, <1>12

\* Who is told to have served a request, and what is then said of it.
LEMMA AttributeRight ==
  ASSUME LogTyped, Logged, NEW e \in Response, Shown(e, Len(lines))
  PROVE  LET x == Claude!Attribute(e)
         IN  x \in EventItem /\ x.req = e.req /\ x.out = e.out /\ Right(e.req, x)
<1> DEFINE q == e.req
           r == reply[q]
           x == Claude!Attribute(e)
           elsewhere == Claude!Provider(r) = "openai" /\ Claude!Match(e) \notin {None, Main}
           thirdDesktop == Claude!Provider(r) = "anthropic" /\ r.entry = "desktop-3p"
<1> SUFFICES x \in EventItem /\ x.req = e.req /\ x.out = e.out /\ Right(q, x)
  OBVIOUS
<1>1. q \in Requests /\ e.out \in Nat /\ e.at \in Nat
  BY DEF Response
<1>2. /\ r.model \in {"claude", "other", "routed", "native", "synthetic"}
      /\ r.id \in {"anthropic", "opencodex", "ollama"} /\ r.entry \in {"cli", "desktop-3p"}
      /\ r.served # None /\ r.out \in Nat
  BY <1>1, AnswerBounds
<1>3. x = [req |-> q, acct |-> Claude!Provider(r), gateway |-> Claude!Gateway(r), out |-> e.out,
           third |-> Claude!ThirdParty(r) \/ elsewhere \/ thirdDesktop]
  BY DEF Claude!Attribute
<1>4. Claude!Provider(r) = IF r.model = "native" THEN "openai" ELSE "anthropic"
  BY DEF Claude!Provider
<1>5. Claude!Gateway(r) \in {"", "anthropic", "opencodex", "ollama"} /\ (r.model = "native" => Claude!Gateway(r) = "opencodex")
  BY <1>2 DEF Claude!Gateway, Claude!OpenCodexModel
<1>6. Claude!ThirdParty(r) <=> r.model \in {"other", "routed"}
  BY DEF Claude!ThirdParty
<1>7. Claude!Payer(q) = IF r.model = "native" THEN IF r.served = Main THEN "openai" ELSE None
                     ELSE IF r.model = "claude" /\ r.entry = "cli" THEN "anthropic" ELSE None
  BY DEF Claude!Payer
<1>8. PICK j \in 1..Len(lines) : Telling(j) /\ lines[j].req = q /\ lines[j].out = e.out
  BY DEF Shown
<1>9. PICK t \in 1..Len(lines) : Telling(t) /\ lines[t].req = q /\ lines[t].at = e.at
  BY DEF Shown
<1>10. DOMAIN lines = 1..Len(lines)
  BY LenProperties DEF LogTyped
<1>11. r.model # "synthetic" /\ e.out \in {1, r.out} /\ (e.out = r.out /\ Claude!Gateway(r) = "opencodex" => Claude!Recorded(q))
  BY <1>8, <1>10 DEF Telling, Logged, LineTrue
<1>12. t \in Claude!LinesOf(q)
  BY <1>9, <1>10 DEF Claude!LinesOf
<1> HIDE DEF x, q, r
<1>13. x \in EventItem
  <2> HIDE DEF elsewhere, thirdDesktop
  <2>1. (Claude!ThirdParty(r) \/ elsewhere \/ thirdDesktop) \in BOOLEAN
    BY DEF Claude!ThirdParty
  <2> QED BY <1>1, <1>3, <1>4, <1>5, <2>1 DEF EventItem
<1>14. x.req = q /\ x.acct = Claude!Provider(r) /\ x.out = e.out /\ (x.third <=> Claude!ThirdParty(r) \/ elsewhere \/ thirdDesktop)
  BY <1>3
<1>15. ASSUME Clear(q), x.third PROVE Claude!Payer(q) = None
  <2>1. CASE elsewhere
    <3>1. r.model = "native" /\ Claude!Match(e) # None /\ Claude!Match(e) # Main
      BY <1>4, <2>1
    <3>2. PICK i \in DOMAIN ocx : {k \in DOMAIN ocx : Claude!Fits(ocx[k], e)} = {i} /\ Claude!Match(e) = ocx[i].served
      BY <3>1, MatchOne
    <3>3. Claude!Fits(ocx[i], e)
      BY <3>2
    <3>4. ocx[i].served = r.served
      BY <1>1, <1>11, <1>15, <3>3, FitsOwn DEF q, r
    <3> QED BY <1>7, <3>1, <3>2, <3>4
  <2>2. CASE Claude!ThirdParty(r)
    BY <1>6, <1>7, <2>2
  <2>3. CASE thirdDesktop
    <3>1. r.model # "native" /\ r.entry # "cli"
      BY <1>4, <2>3
    <3> QED BY <1>7, <3>1
  <2> QED BY <1>14, <1>15, <2>1, <2>2, <2>3
<1>16. ASSUME Clear(q), x.out = r.out, Claude!Payer(q) = None PROVE x.third
  <2>1. CASE r.model = "native"
    <3>1. r.served # Main
      BY <1>7, <1>16, <2>1, NoneApart
    <3>2. Claude!Recorded(q)
      BY <1>5, <1>11, <1>14, <1>16, <2>1
    <3>3. Claude!Match(e) = r.served
      BY <1>1, <1>9, <1>12, <1>14, <1>16, <3>2, MatchFinds DEF q, r
    <3>4. elsewhere
      BY <1>2, <1>4, <2>1, <3>1, <3>3
    <3> QED BY <1>14, <3>4
  <2>2. CASE r.model = "claude"
    <3>1. r.entry = "desktop-3p"
      BY <1>2, <1>7, <1>16, <2>2, NoneApart
    <3>2. thirdDesktop
      BY <1>4, <2>2, <3>1
    <3> QED BY <1>14, <3>2
  <2>3. CASE r.model \in {"other", "routed"}
    BY <1>6, <1>14, <2>3
  <2> QED BY <1>2, <1>11, <2>1, <2>2, <2>3
<1>17. Right(q, x)
  <2>1. x.acct = Claude!Provider(reply[q]) /\ x.out \in {1, reply[q].out} /\ reply[q].model # "synthetic"
    BY <1>11, <1>14 DEF r
  <2> QED BY <1>15, <1>16, <2>1 DEF Right, r
<1> QED BY <1>13, <1>14, <1>17 DEF q

-----------------------------------------------------------------------------
\* What a queue holds.
LEMMA ItemsAre ==
  ASSUME NEW queue \in Seq(EventItem \cup LimitItem)
  PROVE  /\ Items(queue) \subseteq EventItem \cup LimitItem
         /\ \A e \in EventItem \cup LimitItem :
              Append(queue, e) \in Seq(EventItem \cup LimitItem) /\ Items(Append(queue, e)) = Items(queue) \cup {e}
         /\ queue # <<>> =>
              /\ Head(queue) \in EventItem \cup LimitItem /\ Tail(queue) \in Seq(EventItem \cup LimitItem)
              /\ Items(queue) = Items(Tail(queue)) \cup {Head(queue)}
<1> DEFINE I == EventItem \cup LimitItem
<1> HIDE DEF I
<1> SUFFICES ASSUME queue \in Seq(I)
             PROVE  /\ Items(queue) \subseteq I
                    /\ \A e \in I : Append(queue, e) \in Seq(I) /\ Items(Append(queue, e)) = Items(queue) \cup {e}
                    /\ queue # <<>> =>
                         /\ Head(queue) \in I /\ Tail(queue) \in Seq(I)
                         /\ Items(queue) = Items(Tail(queue)) \cup {Head(queue)}
  BY DEF I
<1>1. Len(queue) \in Nat /\ DOMAIN queue = 1..Len(queue) /\ \A i \in 1..Len(queue) : queue[i] \in I
  BY LenProperties, ElementOfSeq
<1>2. Items(queue) \subseteq I
  BY <1>1 DEF Items
<1>3. ASSUME NEW e \in I
      PROVE  Append(queue, e) \in Seq(I) /\ Items(Append(queue, e)) = Items(queue) \cup {e}
  <2> DEFINE u == Append(queue, e)
  <2>1. /\ u \in Seq(I) /\ DOMAIN u = 1..(Len(queue) + 1)
        /\ u[Len(queue) + 1] = e /\ \A k \in 1..Len(queue) : u[k] = queue[k]
    BY <1>3, AppendProperties, LenProperties
  <2> HIDE DEF u
  <2>2. ASSUME NEW k \in DOMAIN u PROVE u[k] \in Items(queue) \cup {e}
    <3>1. k = Len(queue) + 1 \/ k \in 1..Len(queue)
      BY <1>1, <2>1
    <3> QED BY <1>1, <2>1, <3>1 DEF Items
  <2>3. Len(queue) + 1 \in DOMAIN u /\ \A k \in 1..Len(queue) : k \in DOMAIN u
    BY <1>1, <2>1
  <2>4. Items(u) = Items(queue) \cup {e}
    BY <1>1, <2>1, <2>2, <2>3 DEF Items
  <2> QED BY <2>1, <2>4 DEF u
<1>4. ASSUME queue # <<>>
      PROVE  Head(queue) \in I /\ Tail(queue) \in Seq(I) /\ Items(queue) = Items(Tail(queue)) \cup {Head(queue)}
  <2> DEFINE u == Tail(queue)
  <2>1. /\ Head(queue) = queue[1] /\ u \in Seq(I) /\ Len(u) = Len(queue) - 1 /\ DOMAIN u = 1..Len(u)
        /\ \A k \in 1..Len(u) : u[k] = queue[k + 1]
    BY <1>4, HeadTailProperties, LenProperties
  <2>2. Len(queue) >= 1
    BY <1>1, <1>4, EmptySeq, LenProperties
  <2> HIDE DEF u
  <2>3. ASSUME NEW k \in DOMAIN queue PROVE queue[k] \in Items(u) \cup {queue[1]}
    <3>1. CASE k = 1
      BY <3>1
    <3>2. CASE k # 1
      <4>1. k - 1 \in 1..Len(u) /\ u[k - 1] = queue[(k - 1) + 1] /\ (k - 1) + 1 = k
        BY <1>1, <2>1, <3>2
      <4> QED BY <2>1, <4>1 DEF Items
    <3> QED BY <3>1, <3>2
  <2>4. ASSUME NEW k \in DOMAIN u PROVE u[k] \in Items(queue)
    <3>1. k + 1 \in DOMAIN queue /\ u[k] = queue[k + 1]
      BY <1>1, <2>1, <2>2
    <3> QED BY <3>1 DEF Items
  <2>5. queue[1] \in Items(queue) /\ queue[1] \in I
    BY <1>1, <2>2 DEF Items
  <2>6. Items(queue) = Items(u) \cup {queue[1]}
    BY <2>3, <2>4, <2>5 DEF Items
  <2> QED BY <2>1, <2>5, <2>6 DEF u
<1> QED BY <1>2, <1>3, <1>4

-----------------------------------------------------------------------------
\* The device's rows, limit events and queue within a pass, and that nothing of
\* them is missing or wrong.
Stores ==
  [rows : UNION {[D -> RowSet] : D \in SUBSET Requests}, limits : SUBSET LimitItem,
   queue : Seq(EventItem \cup LimitItem)]
InStep(s) == Arrives(s.rows, s.queue) /\ LimitsArrive(s.limits, s.queue) /\ ItemsRight(s.queue)

\* The row of a request is there with at least this count.
InRows(rows, q, n) == q \in DOMAIN rows /\ n <= rows[q].out
Grows(rows, next) == \A q \in DOMAIN rows : InRows(next, q, rows[q].out)

LEMMA RowsAre ==
  ASSUME NEW rows, IsTable(rows)
  PROVE  \A q \in DOMAIN rows :
           /\ q \in Requests /\ rows[q] \in RowSet /\ rows[q].out \in Nat /\ rows[q].third \in BOOLEAN
<1>1. \A q \in DOMAIN rows : q \in Requests /\ rows[q] \in RowSet
  BY DEF IsTable
<1>2. \A r \in RowSet : r.out \in Nat /\ r.third \in BOOLEAN
  BY DEF RowSet
<1> QED BY <1>1, <1>2

\* A table stays one when a row is added or changed.
LEMMA TableKeeps ==
  ASSUME NEW rows, IsTable(rows), NEW q \in Requests, NEW u,
         u \in [DOMAIN rows \cup {q} -> RowSet]
  PROVE  IsTable(u) /\ DOMAIN u = DOMAIN rows \cup {q}
<1>1. DOMAIN rows \subseteq Requests
  BY DEF IsTable
<1> QED BY <1>1 DEF IsTable

\* An event is kept, and queued when it says more.
LEMMA EventKeeps ==
  ASSUME LogTyped, NEW s \in Stores, NEW e \in EventItem
  PROVE  LET u == Claude!IngestEvent(s, e)
         IN  /\ u \in Stores /\ Grows(s.rows, u.rows) /\ InRows(u.rows, e.req, e.out)
             /\ InStep(s) /\ Right(e.req, e) => InStep(u)
<1> DEFINE u == Claude!IngestEvent(s, e)
           q == e.req
           new == [acct |-> e.acct, third |-> e.third, gateway |-> e.gateway, out |-> e.out]
           added == [k \in DOMAIN s.rows \cup {q} |-> IF k = q THEN new ELSE s.rows[k]]
           raised == [s.rows EXCEPT ![q].out = e.out]
<1> SUFFICES /\ u \in Stores /\ Grows(s.rows, u.rows) /\ InRows(u.rows, q, e.out)
             /\ InStep(s) /\ Right(q, e) => InStep(u)
  OBVIOUS
<1>1. IsTable(s.rows) /\ s.limits \subseteq LimitItem /\ s.queue \in Seq(EventItem \cup LimitItem)
  BY TableSet DEF Stores
<1>2. q \in Requests /\ e.out \in Nat /\ new \in RowSet /\ new.out = e.out
  BY DEF EventItem, RowSet
<1>3. \A k \in DOMAIN s.rows : s.rows[k] \in RowSet /\ s.rows[k].out \in Nat
  BY <1>1, RowsAre
<1>4. /\ Append(s.queue, e) \in Seq(EventItem \cup LimitItem)
      /\ Items(Append(s.queue, e)) = Items(s.queue) \cup {e}
  BY <1>1, ItemsAre
<1>5. ASSUME NEW rows, IsTable(rows), u = [s EXCEPT !.rows = rows, !.queue = Append(@, e)],
             DOMAIN rows = DOMAIN s.rows \cup {q}, rows[q].out = e.out,
             \A k \in DOMAIN s.rows \ {q} : rows[k] = s.rows[k],
             q \in DOMAIN s.rows => s.rows[q].out <= e.out
      PROVE  /\ u \in Stores /\ Grows(s.rows, u.rows) /\ InRows(u.rows, q, e.out)
             /\ InStep(s) /\ Right(q, e) => InStep(u)
  <2>1. u.rows = rows /\ u.limits = s.limits /\ u.queue = Append(s.queue, e)
    BY <1>5 DEF Stores
  <2>2. u \in Stores
    <3>1. rows \in UNION {[D -> RowSet] : D \in SUBSET Requests}
      BY <1>5, TableSet
    <3> QED BY <1>1, <1>4, <1>5, <3>1 DEF Stores
  <2> HIDE DEF u
  <2>3. Grows(s.rows, rows) /\ InRows(rows, q, e.out)
    BY <1>2, <1>3, <1>5 DEF Grows, InRows
  <2>4. ASSUME InStep(s), Right(q, e) PROVE InStep(u)
    <3>1. Arrives(rows, Append(s.queue, e))
      <4> SUFFICES ASSUME NEW k \in DOMAIN rows
                   PROVE  \/ k \in DOMAIN server /\ rows[k].out <= server[k].out
                          \/ \E x \in Items(Append(s.queue, e)) : x \in EventItem /\ x.req = k /\ rows[k].out <= x.out
        BY DEF Arrives
      <4>1. CASE k = q
        <5>1. e \in Items(Append(s.queue, e)) /\ rows[k].out <= e.out
          BY <1>2, <1>4, <1>5, <4>1
        <5> QED BY <4>1, <5>1
      <4>2. CASE k # q
        <5>1. k \in DOMAIN s.rows /\ rows[k] = s.rows[k]
          BY <1>5, <4>2
        <5>2. \/ k \in DOMAIN server /\ s.rows[k].out <= server[k].out
              \/ \E x \in Items(s.queue) : x \in EventItem /\ x.req = k /\ s.rows[k].out <= x.out
          BY <2>4, <5>1 DEF InStep, Arrives
        <5> QED BY <1>4, <5>1, <5>2
      <4> QED BY <4>1, <4>2
    <3>2. LimitsArrive(s.limits, Append(s.queue, e))
      <4>1. e \notin LimitItem
        BY ItemKinds
      <4> QED BY <1>4, <2>4, <4>1 DEF InStep, LimitsArrive
    <3>3. ItemsRight(Append(s.queue, e))
      BY <1>4, <2>4 DEF InStep, ItemsRight
    <3> QED BY <2>1, <3>1, <3>2, <3>3 DEF InStep
  <2> QED BY <2>1, <2>2, <2>3, <2>4
<1>6. CASE q \notin DOMAIN s.rows
  <2>1. u = [s EXCEPT !.rows = added, !.queue = Append(@, e)]
    BY <1>6 DEF Claude!IngestEvent
  <2>2. /\ IsTable(added) /\ DOMAIN added = DOMAIN s.rows \cup {q} /\ added[q] = new
        /\ \A k \in DOMAIN s.rows \ {q} : added[k] = s.rows[k]
    <3> HIDE DEF new, q
    <3>1. added \in [DOMAIN s.rows \cup {q} -> RowSet]
      BY <1>2, <1>3
    <3>2. added[q] = new /\ \A k \in DOMAIN s.rows \ {q} : added[k] = s.rows[k]
      OBVIOUS
    <3> HIDE DEF added
    <3> QED BY <1>1, <1>2, <3>1, <3>2, TableKeeps
  <2> HIDE DEF added, new
  <2>3. added[q].out = e.out
    BY <1>2, <2>2
  <2> HIDE DEF u
  <2> QED BY <1>5, <1>6, <2>1, <2>2, <2>3
<1>7. CASE q \in DOMAIN s.rows /\ e.out > s.rows[q].out
  <2>1. u = [s EXCEPT !.rows = raised, !.queue = Append(@, e)]
    BY <1>7 DEF Claude!IngestEvent
  <2> DEFINE answer == [s.rows[q] EXCEPT !.out = e.out]
  <2>2. answer \in RowSet /\ answer.out = e.out
    BY <1>2, <1>3, <1>7 DEF RowSet
  <2>3. raised = [k \in DOMAIN s.rows \cup {q} |-> IF k = q THEN answer ELSE s.rows[k]]
    <3>1. DOMAIN s.rows \cup {q} = DOMAIN s.rows /\ s.rows = [k \in DOMAIN s.rows |-> s.rows[k]]
      BY <1>1, <1>7 DEF IsTable
    <3> QED BY <3>1
  <2> HIDE DEF answer
  <2>4. /\ IsTable(raised) /\ DOMAIN raised = DOMAIN s.rows \cup {q} /\ raised[q] = answer
        /\ \A k \in DOMAIN s.rows \ {q} : raised[k] = s.rows[k]
    <3> HIDE DEF q
    <3>1. raised \in [DOMAIN s.rows \cup {q} -> RowSet]
      <4> HIDE DEF raised
      <4> QED BY <1>2, <1>3, <2>2, <2>3
    <3>2. raised[q] = answer /\ \A k \in DOMAIN s.rows \ {q} : raised[k] = s.rows[k]
      <4> HIDE DEF raised
      <4> QED BY <1>2, <2>3
    <3> HIDE DEF raised
    <3> QED BY <1>1, <1>2, <3>1, <3>2, TableKeeps
  <2> HIDE DEF raised
  <2>5. raised[q].out = e.out /\ s.rows[q].out <= e.out
    BY <1>2, <1>3, <1>7, <2>2, <2>4
  <2> HIDE DEF u
  <2> QED BY <1>5, <2>1, <2>4, <2>5
<1>8. CASE q \in DOMAIN s.rows /\ ~(e.out > s.rows[q].out)
  <2>1. u = s
    BY <1>8 DEF Claude!IngestEvent
  <2>2. Grows(s.rows, s.rows) /\ InRows(s.rows, q, e.out)
    BY <1>2, <1>3, <1>8 DEF Grows, InRows
  <2> HIDE DEF u
  <2> QED BY <2>1, <2>2
<1> QED BY <1>6, <1>7, <1>8

\* A limit event is kept, and queued the first time.
LEMMA LimitKeeps ==
  ASSUME LogTyped, NEW s \in Stores, NEW e \in LimitItem
  PROVE  LET u == Claude!IngestLimit(s, e)
         IN  u \in Stores /\ Grows(s.rows, u.rows) /\ (InStep(s) => InStep(u))
<1> DEFINE u == Claude!IngestLimit(s, e)
<1> SUFFICES u \in Stores /\ Grows(s.rows, u.rows) /\ (InStep(s) => InStep(u))
  OBVIOUS
<1>1. IsTable(s.rows) /\ s.limits \subseteq LimitItem /\ s.queue \in Seq(EventItem \cup LimitItem)
  BY TableSet DEF Stores
<1>2. Grows(s.rows, s.rows)
  BY <1>1, RowsAre DEF Grows, InRows
<1>3. CASE e \in s.limits
  <2>1. u = s
    BY <1>3 DEF Claude!IngestLimit
  <2> HIDE DEF u
  <2> QED BY <1>2, <2>1
<1>4. CASE e \notin s.limits
  <2>1. u = [s EXCEPT !.limits = @ \cup {e}, !.queue = Append(@, e)]
    BY <1>4 DEF Claude!IngestLimit
  <2>2. /\ Append(s.queue, e) \in Seq(EventItem \cup LimitItem)
        /\ Items(Append(s.queue, e)) = Items(s.queue) \cup {e}
    BY <1>1, ItemsAre
  <2>3. u.rows = s.rows /\ u.limits = s.limits \cup {e} /\ u.queue = Append(s.queue, e) /\ u \in Stores
    BY <1>1, <2>1, <2>2 DEF Stores
  <2> HIDE DEF u
  <2>4. ASSUME InStep(s) PROVE InStep(u)
    <3>1. Arrives(s.rows, Append(s.queue, e))
      BY <2>2, <2>4 DEF InStep, Arrives
    <3>2. LimitsArrive(s.limits \cup {e}, Append(s.queue, e))
      BY <2>2, <2>4 DEF InStep, LimitsArrive
    <3>3. ItemsRight(Append(s.queue, e))
      <4>1. e \notin EventItem
        BY ItemKinds
      <4> QED BY <2>2, <2>4, <4>1 DEF InStep, ItemsRight
    <3> QED BY <2>3, <3>1, <3>2, <3>3 DEF InStep
  <2> QED BY <1>2, <2>3, <2>4
<1> QED BY <1>3, <1>4

\* What a pass takes from the file.
Taken(e) == e \in LimitItem \/ (e \in EventItem /\ Right(e.req, e))

LEMMA IngestKeeps ==
  ASSUME LogTyped, NEW s \in Stores, NEW e, Taken(e)
  PROVE  LET u == Claude!Ingest(s, e)
         IN  /\ u \in Stores /\ Grows(s.rows, u.rows) /\ (InStep(s) => InStep(u))
             /\ e \in EventItem => InRows(u.rows, e.req, e.out)
<1>1. CASE e \in LimitItem
  <2>1. Claude!Ingest(s, e) = Claude!IngestLimit(s, e) /\ e \notin EventItem
    BY <1>1, ItemKinds DEF Claude!Ingest
  <2> QED BY <1>1, <2>1, LimitKeeps
<1>2. CASE e \in EventItem /\ Right(e.req, e)
  <2>1. Claude!Ingest(s, e) = Claude!IngestEvent(s, e)
    BY <1>2, ItemKinds DEF Claude!Ingest
  <2> QED BY <1>2, <2>1, EventKeeps
<1> QED BY <1>1, <1>2 DEF Taken

LEMMA KeptGrows ==
  ASSUME NEW rows, NEW next, IsTable(rows), IsTable(next), Grows(rows, next), NEW q, NEW n \in Nat, InRows(rows, q, n)
  PROVE  InRows(next, q, n)
<1>1. q \in DOMAIN rows /\ n <= rows[q].out /\ rows[q].out \in Nat
  BY RowsAre DEF InRows
<1>2. q \in DOMAIN next /\ rows[q].out <= next[q].out
  BY <1>1 DEF Grows, InRows
<1>3. next[q].out \in Nat
  BY <1>2, RowsAre
<1> QED BY <1>1, <1>2, <1>3 DEF InRows

\* The device's rows, limit events and queue after each item.
Ingesting(items, first) ==
  LET after[i \in 0..Len(items)] == IF i = 0 THEN first ELSE Claude!Ingest(after[i - 1], items[i])
  IN  after

\* A pass takes all its items.
LEMMA AllTaken ==
  ASSUME LogTyped, Placed, NEW items, Len(items) \in Nat, \A i \in 1..Len(items) : Taken(items[i])
  PROVE  LET u == Ingesting(items, [rows |-> device, limits |-> limits.device, queue |-> outbox])[Len(items)]
         IN  /\ u \in Stores /\ InStep(u) /\ Grows(device, u.rows)
             /\ \A i \in 1..Len(items) : items[i] \in EventItem => InRows(u.rows, items[i].req, items[i].out)
<1> DEFINE A == Stores
           first == [rows |-> device, limits |-> limits.device, queue |-> outbox]
           n == Len(items)
           F == [i \in 1..n |-> [s \in A |-> Claude!Ingest(s, items[i])]]
           g == Ingesting(items, first)
<1>1. n \in Nat
  OBVIOUS
<1>2. first \in A /\ InStep(first) /\ first.rows = device
  <2>1. device \in UNION {[D -> RowSet] : D \in SUBSET Requests}
    BY TableSet DEF LogTyped
  <2>2. first \in A
    BY <2>1 DEF LogTyped, Stores
  <2> QED BY <2>2 DEF Placed, InStep
<1>3. ASSUME NEW i \in 1..n, NEW s \in A
      PROVE  LET u == Claude!Ingest(s, items[i])
             IN  /\ u \in A /\ Grows(s.rows, u.rows) /\ (InStep(s) => InStep(u))
                 /\ items[i] \in EventItem => InRows(u.rows, items[i].req, items[i].out)
  BY IngestKeeps
<1>4. \A s \in A : IsTable(s.rows)
  BY TableSet DEF Stores
<1>5. g = CHOOSE h : h = [i \in 0..n |-> IF i = 0 THEN first ELSE Claude!Ingest(h[i - 1], items[i])]
  BY DEF Ingesting
<1> HIDE DEF A, first, n, g
<1>6. F \in [1..n -> [A -> A]]
  BY <1>3
<1>7. PICK f : f \in [0..n -> A] /\ f[0] = first /\ \A i \in 1..n : f[i] = F[i][f[i - 1]]
  <2> HIDE DEF F
  <2>1. \E f : Runs(n, A, first, F, f)
    BY <1>1, <1>2, <1>6, Loop
  <2> QED BY <2>1 DEF Runs
<1>8. ASSUME NEW i \in 1..n PROVE f[i] = Claude!Ingest(f[i - 1], items[i])
  <2>1. f[i - 1] \in A /\ f[i] = F[i][f[i - 1]]
    BY <1>1, <1>7
  <2> QED BY <2>1
<1> HIDE DEF F
<1>9. f = [i \in 0..n |-> IF i = 0 THEN first ELSE Claude!Ingest(f[i - 1], items[i])]
  <2>1. \A i \in 0..n : f[i] = IF i = 0 THEN first ELSE Claude!Ingest(f[i - 1], items[i])
    BY <1>1, <1>7, <1>8
  <2> QED BY <1>7, <2>1
<1>10. g = [i \in 0..n |-> IF i = 0 THEN first ELSE Claude!Ingest(g[i - 1], items[i])]
  BY <1>5, <1>9
<1>11. g[0] = first /\ \A i \in 1..n : g[i] = Claude!Ingest(g[i - 1], items[i])
  <2>1. \A i \in 0..n : g[i] = IF i = 0 THEN first ELSE Claude!Ingest(g[i - 1], items[i])
    BY <1>10
  <2> QED BY <1>1, <2>1
<1> DEFINE Done(i) == /\ g[i] \in A /\ InStep(g[i]) /\ Grows(device, g[i].rows)
                      /\ \A k \in 1..i : items[k] \in EventItem => InRows(g[i].rows, items[k].req, items[k].out)
           S == {i \in 0..n : Done(i)}
<1>12. IsTable(device) /\ \A e \in EventItem : e.out \in Nat
  BY DEF LogTyped, EventItem
<1>13. 0 \in S
  <2>1. Grows(device, device)
    BY <1>12, RowsAre DEF Grows, InRows
  <2> QED BY <1>1, <1>2, <1>11, <2>1
<1>14. ASSUME NEW i \in 1..n, i - 1 \in S PROVE i \in S
  <2>1. i \in 0..n /\ g[i - 1] \in A /\ Done(i - 1)
    BY <1>1, <1>14
  <2>2. /\ g[i] \in A /\ Grows(g[i - 1].rows, g[i].rows) /\ InStep(g[i])
        /\ items[i] \in EventItem => InRows(g[i].rows, items[i].req, items[i].out)
    BY <1>3, <1>11, <2>1
  <2>3. IsTable(g[i - 1].rows) /\ IsTable(g[i].rows)
    BY <1>4, <2>1, <2>2
  <2>4. Grows(device, g[i].rows)
    <3>1. \A q \in DOMAIN device : InRows(g[i - 1].rows, q, device[q].out) /\ device[q].out \in Nat
      BY <1>12, <2>1, RowsAre DEF Grows
    <3>2. \A q \in DOMAIN device : InRows(g[i].rows, q, device[q].out)
      BY <2>2, <2>3, <3>1, KeptGrows
    <3> QED BY <3>2 DEF Grows
  <2>5. ASSUME NEW k \in 1..i, items[k] \in EventItem PROVE InRows(g[i].rows, items[k].req, items[k].out)
    <3>1. CASE k = i
      BY <2>2, <2>5, <3>1
    <3>2. CASE k # i
      <4>1. k \in 1..(i - 1)
        BY <1>1, <3>2
      <4>2. InRows(g[i - 1].rows, items[k].req, items[k].out) /\ items[k].out \in Nat
        BY <1>12, <2>1, <2>5, <4>1
      <4> QED BY <2>2, <2>3, <4>2, KeptGrows
    <3> QED BY <3>1, <3>2
  <2> QED BY <2>1, <2>2, <2>4, <2>5
<1> HIDE DEF S
<1>15. 0..n \subseteq S
  BY <1>1, <1>13, <1>14, UpTo
<1>16. n \in S
  BY <1>1, <1>15
<1> QED BY <1>16 DEF S, A, n, g, first

\* A pass leaves nothing of the file out.
LEMMA PassTakes ==
  ASSUME LogTyped, Logged, Placed
  PROVE  LET u == Claude!Ingested(Claude!Parse(lines))
         IN  /\ u \in Stores /\ InStep(u) /\ Grows(device, u.rows)
             /\ \A j \in 1..Len(lines) : Telling(j) => InRows(u.rows, lines[j].req, lines[j].out)
<1> DEFINE parsed == Claude!Parse(lines)
           told == parsed.events
           first == [i \in DOMAIN told |-> Claude!Attribute(told[i])]
           items == first \o parsed.limits
           u == Claude!Ingested(parsed)
<1> SUFFICES /\ u \in Stores /\ InStep(u) /\ Grows(device, u.rows)
             /\ \A j \in 1..Len(lines) : Telling(j) => InRows(u.rows, lines[j].req, lines[j].out)
  OBVIOUS
<1>1. parsed \in Gatherings /\ Gathers(told, Len(lines))
  BY ParseTells
<1>2. u = Ingesting(items, [rows |-> device, limits |-> limits.device, queue |-> outbox])[Len(items)]
  BY DEF Claude!Ingested, Ingesting
<1> HIDE DEF parsed, u
<1>3. told \in Seq(Response) /\ parsed.limits \in Seq(LimitItem)
  BY <1>1 DEF Gatherings
<1> HIDE DEF told
<1>4. Len(told) \in Nat /\ DOMAIN told = 1..Len(told)
  BY <1>3, LenProperties
<1>5. ASSUME NEW i \in DOMAIN told
      PROVE  /\ first[i] \in EventItem /\ first[i].req = told[i].req /\ first[i].out = told[i].out
             /\ Right(first[i].req, first[i])
  <2>1. told[i] \in Response /\ Shown(told[i], Len(lines))
    BY <1>1, <1>3, <1>4, ElementOfSeq DEF Gathers
  <2>2. first[i] = Claude!Attribute(told[i])
    OBVIOUS
  <2> HIDE DEF first
  <2> QED BY <2>1, <2>2, AttributeRight
<1>6. first \in Seq(EventItem) /\ DOMAIN first = 1..Len(told) /\ Len(first) = Len(told)
  <2>1. first = [i \in 1..Len(told) |-> first[i]] /\ \A i \in 1..Len(told) : first[i] \in EventItem
    BY <1>4, <1>5
  <2>2. DOMAIN first = 1..Len(told)
    BY <1>4
  <2> HIDE DEF first
  <2>3. first \in Seq(EventItem)
    BY <1>4, <2>1, IsASeq
  <2> QED BY <1>4, <2>2, <2>3, LenProperties
<1> HIDE DEF first
<1>7. /\ Len(items) = Len(told) + Len(parsed.limits) /\ Len(parsed.limits) \in Nat
      /\ \A i \in 1..Len(items) :
           items[i] = IF i <= Len(told) THEN first[i] ELSE parsed.limits[i - Len(told)]
  <2> DEFINE I == EventItem \cup LimitItem
  <2>1. first \in Seq(I) /\ parsed.limits \in Seq(I)
    BY <1>3, <1>6, SeqMonotonic
  <2> HIDE DEF I
  <2> DEFINE last == parsed.limits
  <2>2. Len(last) \in Nat /\ Len(first) = Len(told)
    BY <1>3, <1>6, LenProperties
  <2>3. /\ Len(first \o last) = Len(first) + Len(last)
        /\ \A i \in 1..(Len(first) + Len(last)) :
             (first \o last)[i] = IF i <= Len(first) THEN first[i] ELSE last[i - Len(first)]
    <3> HIDE DEF last
    <3>1. last \in Seq(I)
      BY <2>1 DEF last
    <3> QED BY <2>1, <3>1, ConcatProperties
  <2>4. items = first \o last
    OBVIOUS
  <2> HIDE DEF items
  <2> QED BY <2>2, <2>3, <2>4
<1> HIDE DEF items
<1>8. Len(items) \in Nat /\ \A i \in 1..Len(items) : Taken(items[i])
  <2>1. Len(items) \in Nat
    BY <1>4, <1>7
  <2>2. ASSUME NEW i \in 1..Len(items) PROVE Taken(items[i])
    <3>1. CASE i <= Len(told)
      BY <1>4, <1>5, <1>7, <3>1 DEF Taken
    <3>2. CASE ~(i <= Len(told))
      <4>1. i - Len(told) \in 1..Len(parsed.limits) /\ items[i] = parsed.limits[i - Len(told)]
        BY <1>4, <1>7, <3>2
      <4>2. parsed.limits[i - Len(told)] \in LimitItem
        BY <1>3, <4>1, ElementOfSeq
      <4> QED BY <4>1, <4>2 DEF Taken
    <3> QED BY <3>1, <3>2
  <2> QED BY <2>1, <2>2
<1>9. /\ u \in Stores /\ InStep(u) /\ Grows(device, u.rows)
      /\ \A i \in 1..Len(items) : items[i] \in EventItem => InRows(u.rows, items[i].req, items[i].out)
  BY <1>2, <1>8, AllTaken
<1>10. ASSUME NEW j \in 1..Len(lines), Telling(j) PROVE InRows(u.rows, lines[j].req, lines[j].out)
  <2>1. PICK k \in DOMAIN told : told[k].req = lines[j].req /\ lines[j].out <= told[k].out
    BY <1>1, <1>10 DEF Gathers
  <2>2. k \in 1..Len(items) /\ items[k] = first[k]
    BY <1>4, <1>7
  <2>3. InRows(u.rows, lines[j].req, told[k].out)
    BY <1>5, <1>9, <2>1, <2>2
  <2>4. u.rows[lines[j].req].out \in Nat
    BY <1>9, <2>3, TableSet, RowsAre DEF Stores, InRows
  <2>5. lines[j].out \in Nat /\ told[k].out \in Nat
    <3>1. DOMAIN lines = 1..Len(lines)
      BY LenProperties DEF LogTyped
    <3>2. lines[j] \in ResponseLine
      BY <1>10, <3>1, LineKinds DEF Telling
    <3>3. told[k] \in Response
      BY <1>3, <1>4, ElementOfSeq
    <3> QED BY <3>2, <3>3 DEF ResponseLine, Response
  <2> QED BY <2>1, <2>3, <2>4, <2>5 DEF InRows
<1> QED BY <1>9, <1>10

-----------------------------------------------------------------------------
\* What is in the logs, and when a request was sent, stays.
Onward ==
  /\ reply' = reply
  /\ \A i \in DOMAIN lines : i \in DOMAIN lines' /\ lines'[i] = lines[i]
  /\ \A i \in DOMAIN ocx : i \in DOMAIN ocx' /\ ocx'[i] = ocx[i]
  /\ \A q \in Requests : asked[q] # None => asked'[q] = asked[q]

\* A line of a request is a line of a response.
LEMMA LinesAre ==
  ASSUME LogTyped, Logged, NEW q \in Requests, NEW i \in Claude!LinesOf(q)
  PROVE  /\ i \in DOMAIN lines /\ lines[i] \in ResponseLine /\ lines[i].req = q /\ lines[i].error = None
         /\ LineTrue(lines[i]) /\ asked[q] # None
<1>1. i \in DOMAIN lines /\ lines[i].req = q
  BY DEF Claude!LinesOf
<1>2. lines[i].error = None
  BY <1>1, LineKinds, NoneApart DEF ErrorLine
<1>3. lines[i] \in ResponseLine /\ LineTrue(lines[i])
  BY <1>1, <1>2, LineKinds DEF Logged
<1>4. asked[q] # None
  BY <1>1, <1>3, NoneApart DEF LineTrue
<1> QED BY <1>1, <1>2, <1>3, <1>4

\* A request that OpenCodex's log can place later, it could place before; what
\* was right of it stays so.
LEMMA StaysRight ==
  ASSUME LogTyped, Logged, Onward, NEW q \in Requests
  PROVE  /\ Clear(q)' => Clear(q)
         /\ \A x : Right(q, x) => Right(q, x)'
<1>1. reply' = reply
  BY DEF Onward
<1>2. \A p \in Requests : Claude!Recorded(p) => Claude!Recorded(p)'
  BY DEF Claude!Recorded, Onward
<1>3. Claude!Confusable(q) => Claude!Confusable(q)'
  BY <1>1, <1>2 DEF Claude!Confusable
<1>4. ASSUME Claude!InTime(q)', NEW i \in Claude!LinesOf(q) PROVE lines[i].at - asked[q] <= MatchWindow
  <2>1. i \in DOMAIN lines /\ lines[i].req = q /\ asked[q] # None
    BY LinesAre
  <2>2. lines'[i] = lines[i] /\ i \in DOMAIN lines' /\ asked'[q] = asked[q]
    BY <2>1 DEF Onward
  <2>3. i \in Claude!LinesOf(q)'
    BY <2>1, <2>2 DEF Claude!LinesOf
  <2>4. lines'[i].at - asked'[q] <= MatchWindow
    BY <1>4, <2>3 DEF Claude!InTime
  <2> QED BY <2>2, <2>4
<1>5. Clear(q)' => Clear(q)
  BY <1>3, <1>4 DEF Clear, Claude!InTime
<1>6. Claude!Payer(q)' = Claude!Payer(q) /\ \A r : Claude!Provider(r)' = Claude!Provider(r)
  BY <1>1 DEF Claude!Payer, Claude!Provider
<1>7. ASSUME NEW x, Right(q, x) PROVE Right(q, x)'
  <2>1. Claude!Provider(reply[q])' = Claude!Provider(reply[q])
    BY <1>1 DEF Claude!Provider
  <2> QED BY <1>1, <1>5, <1>6, <1>7, <2>1 DEF Right
<1> QED BY <1>5, <1>7

\* The device, its queue and the server keep what they had while requests are
\* made, answered and logged.
LEMMA PlacedStays ==
  ASSUME LogTyped, Logged, Placed, Onward, UNCHANGED <<read, device, outbox, server, limits>>
  PROVE  Placed'
<1>0. reply' = reply /\ read' = read /\ device' = device /\ outbox' = outbox /\ server' = server /\ limits' = limits
  BY DEF Onward
<1>1. Covered'
  <2>1. \A i \in 1..read : lines'[i] = lines[i]
    <3>1. 1..read \subseteq DOMAIN lines
      BY LenProperties DEF LogTyped
    <3> QED BY <3>1 DEF Onward
  <2> QED BY <1>0, <2>1 DEF Placed, Covered
<1>2. Arrives(device, outbox)' /\ LimitsArrive(limits.device, outbox)'
  BY <1>0 DEF Placed, Arrives, LimitsArrive, Items
<1>3. ItemsRight(outbox)'
  <2>1. Items(outbox)' = Items(outbox)
    BY <1>0 DEF Items
  <2>2. \A x \in EventItem : x.req \in Requests
    BY DEF EventItem
  <2>3. \A x \in Items(outbox) : x \in EventItem => Right(x.req, x)
    BY DEF Placed, ItemsRight
  <2>4. \A x \in Items(outbox) : x \in EventItem => Right(x.req, x)'
    BY <2>2, <2>3, StaysRight
  <2> QED BY <2>1, <2>4 DEF ItemsRight
<1>4. \A q \in DOMAIN server : Right(q, server[q])'
  <2>1. \A q \in DOMAIN server : q \in Requests /\ Right(q, server[q])
    BY DEF LogTyped, IsTable, Placed
  <2>2. \A q \in DOMAIN server : \A x : Right(q, x) => Right(q, x)'
    BY <2>1, StaysRight
  <2> QED BY <1>0, <2>1, <2>2
<1> QED BY <1>0, <1>1, <1>2, <1>3, <1>4 DEF Placed

-----------------------------------------------------------------------------
LEMMA Init_Placed == Claude!Init => LogTyped /\ Logged /\ Placed
<1> SUFFICES ASSUME Claude!Init PROVE LogTyped /\ Logged /\ Placed
  OBVIOUS
<1>1. /\ now = 0 /\ reply \in [Requests -> Answers] /\ asked = [q \in Requests |-> None]
      /\ ocx = <<>> /\ lines = <<>> /\ read = 0 /\ device = <<>> /\ outbox = <<>> /\ server = <<>>
      /\ limits.device = {} /\ limits.server = {} /\ limits = [device |-> {}, server |-> {}]
  BY DEF Claude!Init
<1>2. DOMAIN device = {} /\ DOMAIN server = {} /\ Len(lines) = 0 /\ DOMAIN lines = {} /\ DOMAIN ocx = {} /\ Items(outbox) = {}
  BY <1>1 DEF Items
<1>3. IsTable(<<>>)
  <2>1. <<>> = [k \in {} |-> <<>>[k]] /\ DOMAIN <<>> = {}
    OBVIOUS
  <2> QED BY <2>1 DEF IsTable
<1>4. LogTyped
  BY PartsAssumption, <1>1, <1>2, <1>3, EmptySeq DEF LogTyped
<1>5. Logged
  BY <1>1, <1>2 DEF Logged
<1>6. Placed
  BY <1>1, <1>2 DEF Placed, Covered, Arrives, LimitsArrive, ItemsRight
<1> QED BY <1>4, <1>5, <1>6

\* Where a request was sent, recorded or logged, every record is still the
\* answer's and every line still true.
LEMMA LoggedStays ==
  ASSUME LogTyped, Logged, Onward
  PROVE  /\ \A i \in DOMAIN ocx : (ocx[i] = Recording(ocx[i].req))'
         /\ \A i \in DOMAIN lines : lines[i].error = None => LineTrue(lines[i])'
<1>0. reply' = reply
  BY DEF Onward
<1>1. ASSUME NEW i \in DOMAIN ocx PROVE (ocx[i] = Recording(ocx[i].req))'
  <2>1. ocx \in Seq([req : Requests, served : STRING, prompt : Nat, out : Nat, at : Nat])
    BY DEF LogTyped
  <2>2. ocx[i] \in [req : Requests, served : STRING, prompt : Nat, out : Nat, at : Nat]
    BY <2>1, ElementOfSeq, LenProperties
  <2>3. ocx[i].req \in Requests /\ ocx[i].at \in Nat
    BY <2>2
  <2>4. ocx[i] = Recording(ocx[i].req)
    BY DEF Logged
  <2>5. ocx[i].at = asked[ocx[i].req]
    BY <2>4 DEF Recording
  <2>6. asked[ocx[i].req] # None
    BY <2>3, <2>5, NoneApart
  <2>7. asked'[ocx[i].req] = asked[ocx[i].req] /\ ocx'[i] = ocx[i]
    BY <2>3, <2>6 DEF Onward
  <2> QED BY <1>0, <2>4, <2>7 DEF Recording
<1>2. ASSUME NEW i \in DOMAIN lines, lines[i].error = None PROVE LineTrue(lines[i])'
  <2>1. LineTrue(lines[i]) /\ lines[i].req \in Requests
    BY <1>2, LineKinds DEF Logged, ResponseLine
  <2>2. asked'[lines[i].req] = asked[lines[i].req]
    BY <2>1, NoneApart DEF LineTrue, Onward
  <2>3. Claude!Recorded(lines[i].req) => Claude!Recorded(lines[i].req)'
    <3>1. \A q : Claude!Recorded(q) => Claude!Recorded(q)'
      BY DEF Claude!Recorded, Onward
    <3>2. lines'[i] = lines[i]
      BY DEF Onward
    <3> QED BY <3>1, <3>2
  <2>4. Claude!Gateway(reply[lines[i].req])' = Claude!Gateway(reply[lines[i].req])
    <3>1. lines'[i] = lines[i]
      BY DEF Onward
    <3> QED BY <1>0, <3>1 DEF Claude!Gateway, Claude!OpenCodexModel
  <2>5. lines'[i] = lines[i]
    BY DEF Onward
  <2> QED BY <1>0, <2>1, <2>2, <2>3, <2>4, <2>5 DEF LineTrue
<1> QED BY <1>1, <1>2

\* What appending adds.
LEMMA Appended ==
  ASSUME NEW S, NEW f \in Seq(S), NEW e \in S
  PROVE  /\ Append(f, e) \in Seq(S) /\ Len(Append(f, e)) = Len(f) + 1 /\ Len(f) \in Nat
         /\ DOMAIN Append(f, e) = DOMAIN f \cup {Len(f) + 1} /\ Append(f, e)[Len(f) + 1] = e
         /\ \A i \in DOMAIN f : Append(f, e)[i] = f[i]
<1>1. /\ Append(f, e) \in Seq(S) /\ Len(Append(f, e)) = Len(f) + 1 /\ Append(f, e)[Len(f) + 1] = e
      /\ \A i \in 1..Len(f) : Append(f, e)[i] = f[i]
  BY AppendProperties
<1>2. DOMAIN f = 1..Len(f) /\ Len(f) \in Nat
  BY LenProperties
<1>3. DOMAIN Append(f, e) = 1..(Len(f) + 1)
  BY <1>1, LenProperties
<1>4. 1..(Len(f) + 1) = 1..Len(f) \cup {Len(f) + 1}
  BY <1>2
<1> QED BY <1>1, <1>2, <1>3, <1>4

LEMMA Ask_Placed ==
  ASSUME LogTyped, Logged, Placed, NEW q \in Requests, Claude!Ask(q)
  PROVE  LogTyped' /\ Logged' /\ Placed'
<1>1. /\ asked[q] = None /\ asked' = [asked EXCEPT ![q] = now]
      /\ UNCHANGED <<now, reply, ocx, lines, read, device, outbox, server, limits>>
  BY DEF Claude!Ask
<1>2. asked \in [Requests -> Nat \cup {None}] /\ now \in Nat
  BY DEF LogTyped
<1>3. LogTyped'
  BY <1>1, <1>2 DEF LogTyped, IsTable, Claude!TranscriptConstants
<1>4. Onward
  BY <1>1, <1>2 DEF Onward
<1>5. \A p \in Requests : asked'[p] # None => asked'[p] <= now
  BY <1>1, <1>2 DEF Logged
<1>6. Logged'
  BY <1>1, <1>4, <1>5, LoggedStays DEF Logged
<1> QED BY <1>1, <1>3, <1>4, <1>6, PlacedStays

LEMMA Record_Placed ==
  ASSUME LogTyped, Logged, Placed, NEW q \in Requests, Claude!Record(q)
  PROVE  LogTyped' /\ Logged' /\ Placed'
<1> DEFINE record == [req |-> q, served |-> reply[q].served, prompt |-> reply[q].prompt,
                      out |-> reply[q].out, at |-> asked[q]]
           S == [req : Requests, served : STRING, prompt : Nat, out : Nat, at : Nat]
           n == Len(ocx) + 1
<1>1. /\ asked[q] # None /\ ~Claude!Recorded(q) /\ ocx' = Append(ocx, record)
      /\ UNCHANGED <<now, reply, asked, lines, read, device, outbox, server, limits>>
  BY DEF Claude!Record
<1>2. asked[q] \in Nat
  BY <1>1 DEF LogTyped
<1>3. record \in S
  BY <1>2, AnswerBounds
<1>4. record = Recording(q) /\ record.req = q
  BY DEF Recording
<1> HIDE DEF record
<1>5. /\ ocx' \in Seq(S) /\ DOMAIN ocx' = DOMAIN ocx \cup {n} /\ ocx'[n] = record
      /\ \A i \in DOMAIN ocx : ocx'[i] = ocx[i]
  <2>1. ocx \in Seq(S)
    BY DEF LogTyped
  <2> HIDE DEF S
  <2> QED BY <1>1, <1>3, <2>1, Appended
<1>6. LogTyped'
  BY <1>1, <1>5 DEF LogTyped, IsTable, Claude!TranscriptConstants
<1>7. Onward
  BY <1>1, <1>5 DEF Onward
<1>8. \A i \in DOMAIN ocx : ocx[i].req # q
  BY <1>1 DEF Claude!Recorded
<1> HIDE DEF n
<1>9. Logged'
  <2>1. \A p \in Requests : asked'[p] # None => asked'[p] <= now'
    BY <1>1 DEF Logged
  <2>2. ASSUME NEW i \in DOMAIN ocx' PROVE (ocx[i] = Recording(ocx[i].req))'
    <3>1. CASE i \in DOMAIN ocx
      BY <1>7, <3>1, LoggedStays
    <3>2. CASE i = n
      BY <1>1, <1>4, <1>5, <3>2 DEF Recording
    <3> QED BY <1>5, <3>1, <3>2
  <2>3. \A i, j \in DOMAIN ocx' : ocx'[i].req = ocx'[j].req => i = j
    BY <1>4, <1>5, <1>8 DEF Logged
  <2>4. \A i \in DOMAIN lines' : lines'[i].error = None => LineTrue(lines[i])'
    BY <1>1, <1>7, LoggedStays
  <2> QED BY <2>1, <2>2, <2>3, <2>4 DEF Logged
<1> QED BY <1>1, <1>6, <1>7, <1>9, PlacedStays

\* A new line leaves the rest as it was.
LEMMA LinePlaced ==
  ASSUME LogTyped, Logged, Placed, NEW l \in ResponseLine \cup ErrorLine,
         lines' = Append(lines, l), UNCHANGED <<now, reply, asked, ocx, read, device, outbox, server, limits>>,
         l.error = None => LineTrue(l)
  PROVE  LogTyped' /\ Logged' /\ Placed'
<1> DEFINE S == ResponseLine \cup ErrorLine
           n == Len(lines) + 1
<1> HIDE DEF S
<1>1. /\ lines' \in Seq(S) /\ DOMAIN lines' = DOMAIN lines \cup {n} /\ lines'[n] = l
      /\ \A i \in DOMAIN lines : lines'[i] = lines[i]
      /\ Len(lines') = Len(lines) + 1 /\ Len(lines) \in Nat
  <2>1. lines \in Seq(S) /\ l \in S
    BY DEF LogTyped, S
  <2> QED BY <2>1, Appended
<1>2. LogTyped'
  <2>1. lines' \in Seq(ResponseLine \cup ErrorLine)'
    BY <1>1 DEF S, ResponseLine, ErrorLine
  <2>2. read \in 0..Len(lines')
    BY <1>1 DEF LogTyped
  <2> QED BY <2>1, <2>2 DEF LogTyped, IsTable, Claude!TranscriptConstants
<1>3. Onward
  BY <1>1 DEF Onward
<1> HIDE DEF n
<1>4. Logged'
  <2>1. ASSUME NEW i \in DOMAIN lines', lines'[i].error = None PROVE LineTrue(lines[i])'
    <3>1. CASE i \in DOMAIN lines
      BY <1>1, <1>3, <2>1, <3>1, LoggedStays
    <3>2. CASE i = n
      <4>1. lines'[i] = l /\ LineTrue(l)
        BY <1>1, <2>1, <3>2
      <4>2. Claude!Gateway(reply[lines[i].req])' = Claude!Gateway(reply[l.req])
        BY <4>1 DEF Claude!Gateway, Claude!OpenCodexModel
      <4>3. Claude!Recorded(l.req) => Claude!Recorded(lines[i].req)'
        BY <4>1 DEF Claude!Recorded
      <4> QED BY <4>1, <4>2, <4>3 DEF LineTrue
    <3> QED BY <1>1, <3>1, <3>2
  <2>2. \A i \in DOMAIN ocx : (ocx[i] = Recording(ocx[i].req))'
    BY <1>3, LoggedStays
  <2> QED BY <2>1, <2>2 DEF Logged
<1> QED BY <1>2, <1>3, <1>4, PlacedStays

LEMMA Write_Placed ==
  ASSUME LogTyped, Logged, Placed, NEW q \in Requests, Claude!Stream(q) \/ Claude!Finish(q)
  PROVE  LogTyped' /\ Logged' /\ Placed'
<1> DEFINE line(m) == [req |-> q, out |-> m, at |-> now, error |-> None]
<1>1. PICK m \in {1, reply[q].out} :
        /\ m = reply[q].out /\ Claude!Gateway(reply[q]) = "opencodex" => Claude!Recorded(q)
        /\ Claude!Write(q, m)
  <2>1. reply[q].out \in Nat
    BY AnswerBounds
  <2> QED BY <2>1 DEF Claude!Stream, Claude!Finish
<1>2. /\ asked[q] # None /\ lines' = Append(lines, line(m))
      /\ UNCHANGED <<now, reply, asked, ocx, read, device, outbox, server, limits>>
  BY <1>1 DEF Claude!Write
<1>3. asked[q] \in Nat /\ asked[q] <= now /\ now \in Nat /\ m \in Nat
  BY <1>1, <1>2, AnswerBounds DEF LogTyped, Logged
<1>4. line(m) \in ResponseLine
  BY <1>3 DEF ResponseLine
<1>5. LineTrue(line(m))
  BY <1>1, <1>3 DEF LineTrue
<1> HIDE DEF line
<1> QED BY <1>2, <1>4, <1>5, LinePlaced

LEMMA LogError_Placed ==
  ASSUME LogTyped, Logged, Placed, NEW e \in ErrorLines, Claude!LogError(e)
  PROVE  LogTyped' /\ Logged' /\ Placed'
<1> DEFINE line == [req |-> None, out |-> 0, at |-> now, error |-> e]
<1>1. lines' = Append(lines, line) /\ UNCHANGED <<now, reply, asked, ocx, read, device, outbox, server, limits>>
  BY DEF Claude!LogError
<1>2. line \in ErrorLine /\ line.error # None
  BY NoneApart DEF LogTyped, ErrorLine
<1> HIDE DEF line
<1> QED BY <1>1, <1>2, LinePlaced

LEMMA Tick_Placed ==
  ASSUME LogTyped, Logged, Placed, Claude!Tick
  PROVE  LogTyped' /\ Logged' /\ Placed'
<1>1. now' = now + 1 /\ UNCHANGED <<reply, asked, ocx, lines, read, device, outbox, server, limits>>
  BY DEF Claude!Tick
<1>2. LogTyped'
  BY <1>1 DEF LogTyped, IsTable, Claude!TranscriptConstants
<1>3. Onward
  BY <1>1 DEF Onward
<1>4. \A q \in Requests : asked'[q] # None => asked'[q] <= now'
  <2>1. \A q \in Requests : asked[q] \in Nat \cup {None}
    BY DEF LogTyped
  <2> QED BY <1>1, <2>1 DEF LogTyped, Logged
<1>5. Logged'
  BY <1>1, <1>3, <1>4, LoggedStays DEF Logged
<1> QED BY <1>1, <1>2, <1>3, <1>5, PlacedStays

\* What a pass and an upload leave as it was.
LEMMA SteadyLogs ==
  ASSUME LogTyped, Logged, UNCHANGED <<now, reply, asked, ocx, lines>>
  PROVE  Onward /\ Logged' /\ \A q \in Requests : \A x : Right(q, x) => Right(q, x)'
<1>1. Onward
  BY DEF Onward
<1>2. Logged'
  BY <1>1, LoggedStays DEF Logged
<1> QED BY <1>1, <1>2, StaysRight

LEMMA Pass_Placed ==
  ASSUME LogTyped, Logged, Placed, Claude!Pass
  PROVE  LogTyped' /\ Logged' /\ Placed'
<1> DEFINE u == Claude!Ingested(Claude!Parse(lines))
<1>1. /\ device' = u.rows /\ limits' = [limits EXCEPT !.device = u.limits] /\ outbox' = u.queue
      /\ read' = Len(lines) /\ UNCHANGED <<now, reply, asked, ocx, lines, server>>
  BY DEF Claude!Pass
<1>2. /\ u \in Stores /\ InStep(u) /\ \A j \in 1..Len(lines) : Telling(j) => InRows(u.rows, lines[j].req, lines[j].out)
  BY PassTakes
<1> HIDE DEF u
<1>3. IsTable(u.rows) /\ u.limits \subseteq LimitItem /\ u.queue \in Seq(EventItem \cup LimitItem)
  BY <1>2, TableSet DEF Stores
<1>4. limits'.device = u.limits /\ limits'.server = limits.server /\ limits' \in [device : SUBSET LimitItem, server : SUBSET LimitItem]
  BY <1>1, <1>3 DEF LogTyped
<1>5. LogTyped'
  <2>1. Len(lines) \in Nat
    BY LenProperties DEF LogTyped
  <2>2. read' \in 0..Len(lines')
    BY <1>1, <2>1
  <2>3. LimitItem' = LimitItem
    BY DEF LimitItem, Claude!ClassifyLimit
  <2>4. IsTable(device)' /\ IsTable(server)'
    BY <1>1, <1>3 DEF LogTyped, IsTable
  <2>5. outbox' \in Seq(EventItem \cup LimitItem)'
    BY <1>1, <1>3, <2>3 DEF EventItem
  <2> QED BY <1>1, <1>4, <2>2, <2>3, <2>4, <2>5 DEF LogTyped, Claude!TranscriptConstants
<1>6. Onward /\ Logged' /\ \A q \in Requests : \A x : Right(q, x) => Right(q, x)'
  BY <1>1, SteadyLogs
<1>7. Covered'
  BY <1>1, <1>2 DEF Covered, Telling, InRows
<1>8. Arrives(device, outbox)'
  BY <1>1, <1>2 DEF InStep, Arrives, Items
<1>9. LimitsArrive(limits.device, outbox)'
  <2>1. LimitsArrive(u.limits, u.queue)
    BY <1>2 DEF InStep
  <2>2. Items(outbox)' = Items(u.queue) /\ LimitItem' = LimitItem
    BY <1>1 DEF Items, LimitItem, Claude!ClassifyLimit
  <2> QED BY <1>1, <1>4, <2>1, <2>2 DEF LimitsArrive
<1>10. ItemsRight(outbox)'
  <2>1. Items(outbox)' = Items(u.queue)
    BY <1>1 DEF Items
  <2>2. \A x \in EventItem : x.req \in Requests
    BY DEF EventItem
  <2>3. \A x \in Items(u.queue) : x \in EventItem => Right(x.req, x)
    BY <1>2 DEF InStep, ItemsRight
  <2>4. \A x \in Items(u.queue) : x \in EventItem => Right(x.req, x)'
    BY <1>6, <2>2, <2>3
  <2> QED BY <2>1, <2>4 DEF ItemsRight
<1>11. \A q \in DOMAIN server : Right(q, server[q])'
  <2>1. \A q \in DOMAIN server : q \in Requests /\ Right(q, server[q])
    BY DEF LogTyped, IsTable, Placed
  <2>2. \A q \in DOMAIN server : \A x : Right(q, x) => Right(q, x)'
    BY <1>6, <2>1
  <2> QED BY <1>1, <2>1, <2>2
<1> QED BY <1>1, <1>5, <1>6, <1>7, <1>8, <1>9, <1>10, <1>11 DEF Placed

\* The server keeps the larger count and every mark.
LEMMA StoreKeeps ==
  ASSUME LogTyped, Placed, NEW e \in EventItem, Right(e.req, e)
  PROVE  LET u == Claude!Store(server, e)
         IN  /\ IsTable(u) /\ Grows(server, u) /\ InRows(u, e.req, e.out)
             /\ \A q \in DOMAIN u : Right(q, u[q])
<1> DEFINE u == Claude!Store(server, e)
           q == e.req
           new == [acct |-> e.acct, third |-> e.third, gateway |-> e.gateway, out |-> e.out]
           Joined(old) == [old EXCEPT !.out = IF e.out > @ THEN e.out ELSE @, !.third = old.third \/ e.third,
                                      !.gateway = IF @ = "" THEN e.gateway ELSE @]
<1> SUFFICES IsTable(u) /\ Grows(server, u) /\ InRows(u, q, e.out) /\ \A k \in DOMAIN u : Right(k, u[k])
  OBVIOUS
<1>1. u = [k \in DOMAIN server \cup {q} |->
             IF k # q THEN server[k] ELSE IF k \in DOMAIN server THEN Joined(server[k]) ELSE new]
  BY DEF Claude!Store, Claude!Marked
<1>2. q \in Requests /\ e.out \in Nat /\ e.third \in BOOLEAN /\ new \in RowSet
  BY DEF EventItem, RowSet
<1>3. IsTable(server) /\ \A k \in DOMAIN server : k \in Requests /\ server[k] \in RowSet /\ server[k].out \in Nat
  BY RowsAre DEF LogTyped
<1>4. ASSUME NEW old \in RowSet
      PROVE  /\ Joined(old) \in RowSet /\ Joined(old).acct = old.acct
             /\ Joined(old).out = (IF e.out > old.out THEN e.out ELSE old.out)
             /\ Joined(old).third = (old.third \/ e.third)
  <2>1. e.gateway \in {"", "anthropic", "opencodex", "ollama"}
    BY DEF EventItem
  <2>2. (old.third \/ e.third) \in BOOLEAN
    OBVIOUS
  <2>3. (IF e.out > old.out THEN e.out ELSE old.out) \in Nat
    BY <1>2 DEF RowSet
  <2>4. (IF old.gateway = "" THEN e.gateway ELSE old.gateway) \in {"", "anthropic", "opencodex", "ollama"}
    BY <2>1 DEF RowSet
  <2>5. DOMAIN old = {"acct", "third", "gateway", "out"} /\ old.acct \in {"anthropic", "openai"}
    BY DEF RowSet
  <2>6. Joined(old).acct = old.acct /\ Joined(old).out = (IF e.out > old.out THEN e.out ELSE old.out)
        /\ Joined(old).third = (old.third \/ e.third)
    BY <2>5
  <2>7. Joined(old) \in RowSet
    BY <2>2, <2>3, <2>4 DEF RowSet
  <2> QED BY <2>6, <2>7
<1> HIDE DEF Joined, u, new
<1>5. u \in [DOMAIN server \cup {q} -> RowSet]
  BY <1>1, <1>2, <1>3, <1>4
<1>6. IsTable(u) /\ DOMAIN u = DOMAIN server \cup {q}
  BY <1>2, <1>3, <1>5, TableKeeps
<1>7. \A k \in DOMAIN server \ {q} : u[k] = server[k]
  BY <1>1
<1>8. CASE q \in DOMAIN server
  <2> DEFINE old == server[q]
  <2>1. u[q] = Joined(old) /\ old \in RowSet /\ old.out \in Nat /\ DOMAIN u = DOMAIN server
    BY <1>1, <1>3, <1>6, <1>8
  <2>2. /\ u[q].acct = old.acct /\ u[q].third = (old.third \/ e.third)
        /\ u[q].out = (IF e.out > old.out THEN e.out ELSE old.out)
    BY <1>4, <2>1
  <2>3. Right(q, old) /\ Right(q, e)
    BY <1>8 DEF Placed
  <2>4. (u[q].out = old.out /\ e.out <= old.out) \/ (u[q].out = e.out /\ old.out <= e.out)
    BY <1>2, <2>1, <2>2
  <2> HIDE DEF q, old
  <2>5. Right(q, u[q])
    BY <2>2, <2>3, <2>4 DEF Right
  <2>6. old.out <= u[q].out /\ e.out <= u[q].out
    BY <1>2, <2>1, <2>4
  <2>7. Grows(server, u) /\ InRows(u, q, e.out)
    BY <1>3, <1>6, <1>7, <2>6 DEF Grows, InRows, old
  <2>8. \A k \in DOMAIN u : Right(k, u[k])
    BY <1>7, <2>1, <2>5 DEF Placed
  <2> QED BY <1>6, <2>7, <2>8
<1>9. CASE q \notin DOMAIN server
  <2>1. u[q] = new
    BY <1>1, <1>9
  <2>2. new.acct = e.acct /\ new.third = e.third /\ new.out = e.out
    BY DEF new
  <2>3. Right(q, u[q])
    BY <2>1, <2>2 DEF Right
  <2> HIDE DEF q
  <2>4. Grows(server, u) /\ InRows(u, q, e.out)
    BY <1>2, <1>3, <1>6, <1>7, <1>9, <2>1, <2>2 DEF Grows, InRows
  <2>5. \A k \in DOMAIN u : Right(k, u[k])
    BY <1>6, <1>7, <2>3 DEF Placed
  <2> QED BY <1>6, <2>4, <2>5
<1> QED BY <1>8, <1>9

LEMMA Upload_Placed ==
  ASSUME LogTyped, Logged, Placed, Claude!Upload
  PROVE  LogTyped' /\ Logged' /\ Placed'
<1> DEFINE e == Head(outbox)
<1>1. /\ outbox # <<>> /\ outbox' = Tail(outbox) /\ UNCHANGED <<now, reply, asked, ocx, lines, read, device>>
      /\ IF "kind" \in DOMAIN e THEN limits' = [limits EXCEPT !.server = @ \cup {e}] /\ UNCHANGED server
         ELSE server' = Claude!Store(server, e) /\ UNCHANGED limits
  BY DEF Claude!Upload
<1>2. outbox \in Seq(EventItem \cup LimitItem) /\ limits.device \subseteq LimitItem /\ IsTable(server)
      /\ IsTable(device) /\ limits \in [device : SUBSET LimitItem, server : SUBSET LimitItem]
  BY DEF LogTyped
<1>3. /\ e \in EventItem \cup LimitItem /\ outbox' \in Seq(EventItem \cup LimitItem)
      /\ Items(outbox) = Items(outbox') \cup {e}
  BY <1>1, <1>2, ItemsAre
<1> HIDE DEF e
<1>4. Onward /\ Logged' /\ \A q \in Requests : \A x : Right(q, x) => Right(q, x)'
  BY <1>1, SteadyLogs
<1>5. Items(outbox)' = Items(outbox') /\ LimitItem' = LimitItem
  BY DEF Items, LimitItem, Claude!ClassifyLimit
<1>6. Covered'
  BY <1>1 DEF Placed, Covered
<1>7. ItemsRight(outbox)'
  <2>1. \A x \in EventItem : x.req \in Requests
    BY DEF EventItem
  <2>2. \A x \in Items(outbox') : x \in EventItem => Right(x.req, x)
    BY <1>3 DEF Placed, ItemsRight
  <2>3. \A x \in Items(outbox') : x \in EventItem => Right(x.req, x)'
    BY <1>4, <2>1, <2>2
  <2> QED BY <1>5, <2>3 DEF ItemsRight
<1>8. \A q \in Requests : \A x : Right(q, x) => Right(q, x)'
  BY <1>4
<1>9. CASE e \in LimitItem
  <2>1. "kind" \in DOMAIN e /\ e \notin EventItem
    BY <1>9, ItemKinds
  <2>2. limits' = [limits EXCEPT !.server = @ \cup {e}] /\ server' = server
    BY <1>1, <2>1
  <2>3. limits'.server = limits.server \cup {e} /\ limits'.device = limits.device
        /\ limits' \in [device : SUBSET LimitItem, server : SUBSET LimitItem]
    BY <1>2, <1>9, <2>2
  <2>4. LogTyped'
    BY <1>1, <1>3, <1>5, <2>2, <2>3 DEF LogTyped, IsTable, Claude!TranscriptConstants
  <2>5. Arrives(device, outbox)'
    <3>1. Arrives(device, outbox)
      BY DEF Placed
    <3>2. Arrives(device, outbox')
      BY <1>3, <2>1, <3>1 DEF Arrives
    <3> QED BY <1>1, <1>5, <2>2, <3>2 DEF Arrives
  <2>6. LimitsArrive(limits.device, outbox)'
    <3>1. LimitsArrive(limits.device, outbox)
      BY DEF Placed
    <3> QED BY <1>3, <1>5, <1>9, <2>3, <3>1 DEF LimitsArrive
  <2>7. \A q \in DOMAIN server : Right(q, server[q])'
    <3>1. \A q \in DOMAIN server : q \in Requests /\ Right(q, server[q])
      BY <1>2 DEF IsTable, Placed
    <3>2. \A q \in DOMAIN server : \A x : Right(q, x) => Right(q, x)'
      BY <1>8, <3>1
    <3> QED BY <2>2, <3>1, <3>2
  <2> QED BY <1>4, <1>6, <1>7, <2>2, <2>4, <2>5, <2>6, <2>7 DEF Placed
<1>10. CASE e \in EventItem
  <2>1. ~("kind" \in DOMAIN e) /\ e \notin LimitItem
    BY <1>10, ItemKinds
  <2>2. server' = Claude!Store(server, e) /\ limits' = limits
    BY <1>1, <2>1
  <2>3. Right(e.req, e)
    BY <1>3, <1>10 DEF Placed, ItemsRight
  <2>4. /\ IsTable(server') /\ Grows(server, server') /\ InRows(server', e.req, e.out)
        /\ \A q \in DOMAIN server' : Right(q, server'[q])
    BY <1>10, <2>2, <2>3, StoreKeeps
  <2>5. LogTyped'
    BY <1>1, <1>3, <1>5, <2>2, <2>4 DEF LogTyped, IsTable, Claude!TranscriptConstants
  <2>6. Arrives(device, outbox)'
    <3>1. ASSUME NEW q \in DOMAIN device
          PROVE  \/ q \in DOMAIN server' /\ device[q].out <= server'[q].out
                 \/ \E x \in Items(outbox') : x \in EventItem /\ x.req = q /\ device[q].out <= x.out
      <4>1. device[q].out \in Nat
        BY <1>2, RowsAre
      <4>2. CASE q \in DOMAIN server /\ device[q].out <= server[q].out
        <5>1. InRows(server', q, device[q].out)
          BY <1>2, <2>4, <4>1, <4>2, KeptGrows DEF InRows
        <5> QED BY <5>1 DEF InRows
      <4>3. CASE \E x \in Items(outbox) : x \in EventItem /\ x.req = q /\ device[q].out <= x.out
        <5>1. CASE e.req = q /\ device[q].out <= e.out
          <6>1. q \in DOMAIN server' /\ e.out <= server'[q].out
            BY <2>4, <5>1 DEF InRows
          <6>2. server'[q].out \in Nat /\ e.out \in Nat
            BY <1>10, <2>4, <6>1, RowsAre DEF EventItem
          <6> QED BY <4>1, <5>1, <6>1, <6>2
        <5> QED BY <1>3, <4>3, <5>1
      <4> QED BY <4>2, <4>3 DEF Placed, Arrives
    <3> QED BY <1>1, <1>5, <3>1 DEF Arrives
  <2>7. LimitsArrive(limits.device, outbox)'
    <3>1. LimitsArrive(limits.device, outbox)
      BY DEF Placed
    <3> QED BY <1>2, <1>3, <1>5, <2>1, <2>2, <3>1 DEF LimitsArrive
  <2>8. \A q \in DOMAIN server' : q \in Requests /\ Right(q, server'[q])
    BY <2>4 DEF IsTable
  <2>9. (\A q \in DOMAIN server : Right(q, server[q]))'
    <3>1. \A q \in DOMAIN server' : \A x : Right(q, x) => Right(q, x)'
      BY <1>8, <2>8
    <3> QED BY <2>8, <3>1
  <2> QED BY <1>4, <1>6, <1>7, <2>5, <2>6, <2>7, <2>9 DEF Placed
<1> QED BY <1>3, <1>9, <1>10

-----------------------------------------------------------------------------
\* Once everything was read and uploaded, the server has what Claude Code wrote.
LEMMA PlacedIsEnough ==
  ASSUME LogTyped, Logged, Placed
  PROVE  Claude!RequestsPlaced
<1> SUFFICES ASSUME read = Len(lines), outbox = <<>>
             PROVE  /\ limits.server = limits.device
                    /\ \A q \in Requests :
                         Claude!Finished(q) /\ reply[q].model # "synthetic" =>
                           /\ q \in DOMAIN server /\ server[q].out = reply[q].out
                           /\ server[q].acct = (IF reply[q].model = "native" THEN "openai" ELSE "anthropic")
                           /\ Claude!InTime(q) /\ ~Claude!Confusable(q) => (server[q].third <=> Claude!Payer(q) = None)
                    /\ \A q \in DOMAIN server : reply[q].model # "synthetic"
  BY DEF Claude!RequestsPlaced
<1>1. Items(outbox) = {}
  BY DEF Items
<1>2. limits.server = limits.device
  BY <1>1 DEF Placed, LimitsArrive
<1>3. \A q \in DOMAIN server : Right(q, server[q])
  BY DEF Placed
<1>4. IsTable(device) /\ IsTable(server) /\ DOMAIN lines = 1..read
  BY LenProperties DEF LogTyped
<1>5. ASSUME NEW q \in Requests, Claude!Finished(q), reply[q].model # "synthetic"
      PROVE  /\ q \in DOMAIN server /\ server[q].out = reply[q].out
             /\ server[q].acct = (IF reply[q].model = "native" THEN "openai" ELSE "anthropic")
             /\ Claude!InTime(q) /\ ~Claude!Confusable(q) => (server[q].third <=> Claude!Payer(q) = None)
  <2>1. PICK i \in Claude!LinesOf(q) : lines[i].out = reply[q].out
    BY <1>5 DEF Claude!Finished
  <2>2. i \in 1..read /\ lines[i].req = q /\ lines[i].error = None
    BY <1>4, LinesAre
  <2>3. q \in DOMAIN device /\ reply[q].out <= device[q].out
    BY <1>5, <2>1, <2>2 DEF Placed, Covered
  <2>4. q \in DOMAIN server /\ device[q].out <= server[q].out
    BY <1>1, <2>3 DEF Placed, Arrives
  <2>5. device[q].out \in Nat /\ server[q].out \in Nat
    BY <1>4, <2>3, <2>4, RowsAre
  <2>6. reply[q].out \in Nat /\ reply[q].out # 0
    BY AnswerBounds
  <2>7. Right(q, server[q])
    BY <1>3, <2>4
  <2>8. server[q].out = reply[q].out
    BY <2>3, <2>4, <2>5, <2>6, <2>7 DEF Right
  <2> QED BY <2>4, <2>7, <2>8 DEF Right, Clear, Claude!Provider
<1>6. \A q \in DOMAIN server : reply[q].model # "synthetic"
  BY <1>3 DEF Right
<1> QED BY <1>2, <1>5, <1>6

\* Every request of a Claude Code transcript is placed where it belongs, for
\* any requests and answers, any order in which OpenCodex and Claude Code wrote
\* of them, and any passes over the half-written file: once everything was read
\* and uploaded, the server has each whole response once with its whole count,
\* under the subscription it came through and marked as drawing on none exactly
\* when it drew on none, as long as OpenCodex's log can tell; and has the limit
\* events, and nothing of the messages Claude Code made up (transcript.Parse,
\* opencodex.Match, ingestFile and ingest.Store).
THEOREM RequestsArePlaced == Claude!Spec => []RequestsPlaced
<1> DEFINE I == LogTyped /\ Logged /\ Placed
<1>1. Claude!Init => I
  BY Init_Placed
<1>2. I /\ [Claude!Next]_(Claude!vars) => I'
  <2> SUFFICES ASSUME I, [Claude!Next]_(Claude!vars) PROVE I'
    OBVIOUS
  <2>1. CASE Claude!Pass
    BY <2>1, Pass_Placed
  <2>2. CASE Claude!Upload
    BY <2>2, Upload_Placed
  <2>3. CASE Claude!Tick
    BY <2>3, Tick_Placed
  <2>4. ASSUME NEW q \in Requests, Claude!Ask(q) \/ Claude!Record(q) \/ Claude!Stream(q) \/ Claude!Finish(q) PROVE I'
    BY <2>4, Ask_Placed, Record_Placed, Write_Placed
  <2>5. ASSUME NEW e \in ErrorLines, Claude!LogError(e) PROVE I'
    BY <2>5, LogError_Placed
  <2>6. CASE UNCHANGED Claude!vars
    <3>1. UNCHANGED <<now, reply, asked, ocx, lines, read, device, outbox, server, limits>>
      BY <2>6 DEF Claude!vars
    <3>2. LogTyped'
      BY <3>1 DEF LogTyped, IsTable, Claude!TranscriptConstants
    <3>3. Onward /\ Logged'
      BY <3>1, SteadyLogs
    <3> QED BY <3>1, <3>2, <3>3, PlacedStays
  <2> HIDE DEF I
  <2> QED BY <2>1, <2>2, <2>3, <2>4, <2>5, <2>6 DEF Claude!Next
<1>3. I => RequestsPlaced
  BY PlacedIsEnough DEF RequestsPlaced
<1> HIDE DEF I
<1> QED BY <1>1, <1>2, <1>3, PTL DEF Claude!Spec

\* What the run checks has transcripts as Transcript describes them.
THEOREM ReportsRunClaude == Spec => Claude!Spec
<1>1. Init => Claude!Init
  BY DEF Init
<1>2. [Next]_vars => [Claude!Next]_(Claude!vars)
  BY DEF Next, vars, claude, Claude!vars
<1> QED BY <1>1, <1>2, PTL DEF Spec, Claude!Spec

\* So requests are placed (transcript.Parse, ingestFile) in what it checks.
THEOREM RequestsPlacedInReports == Spec => []RequestsPlaced
BY ReportsRunClaude, RequestsArePlaced, PTL
=============================================================================
