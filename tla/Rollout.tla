------------------------------- MODULE Rollout -------------------------------
(***************************************************************************)
(* One Codex session on a device: the rollout file Codex appends to, and   *)
(* what the passes over it leave in the ledger (rollout.Parse, stored by   *)
(* IngestFile).  A newer Codex writes a record of each request, then the   *)
(* session's running total; an older one only the total, which a sub-agent *)
(* starts at its parent's.  Codex may be updated between two runs of a     *)
(* session.  A line is in the file once it is complete.                    *)
(***************************************************************************)
EXTENDS Naturals, Sequences, FiniteSets, SequencesExt, FiniteSetsExt

CONSTANTS
  None,
  Sizes,        \* tokens of a request
  Models,       \* the models a turn can ask for
  Routed,       \* those OpenCodex sends elsewhere, <service>/<model>
  Parents,      \* totals a session can inherit
  Limits,       \* rate limits a count can carry: [id, windows]
  MaxRequests,  \* bound: requests of the session
  MaxLines      \* bound: lines of the file

RolloutConstants ==
  /\ Sizes \subseteq Nat \ {0} /\ Parents \subseteq Nat
  /\ Routed \subseteq Models /\ None \notin Models \cup Limits \cup Nat
  /\ MaxRequests \in Nat /\ MaxLines \in Nat

VARIABLES
  file,     \* the complete lines
  model,    \* the model of the turn
  version,  \* what Codex writes: "records" or "counts"
  mixed,    \* Codex was updated after a request
  total,    \* the session's running total
  pending,  \* the tokens of a request whose count is not written yet
  made,     \* the tokens of every request: what the ledger ought to hold
  read,     \* lines the last pass read
  ledger,   \* dedupe key -> [tokens, third]
  snaps     \* quota readings: [line, keys]

vars == <<file, model, version, mixed, total, pending, made, read, ledger, snaps>>

Line == [type |-> None, model |-> None, id |-> None, tokens |-> 0, total |-> 0, limit |-> None]
MetaLine(openai) == [Line EXCEPT !.type = "session_meta", !.id = openai]
ContextLine(m) == [Line EXCEPT !.type = "turn_context", !.model = m]
RecordLine(id, n, t) == [Line EXCEPT !.type = "record", !.id = id, !.tokens = n, !.total = t]
\* last is None in a count without usage.
CountLine(last, t, limit) == [Line EXCEPT !.type = "count", !.tokens = last, !.total = t, !.limit = limit]

-----------------------------------------------------------------------------
\* What Parse has gathered: prev is the total of the last count.
Nothing == [skipped |-> FALSE, model |-> None, records |-> <<>>, counts |-> <<>>, prev |-> None, snaps |-> {}, line |-> 0]

Event(key, n, m) == [key |-> key, tokens |-> n, third |-> m \in Routed]

\* A request routed elsewhere has no response id: its key is the session's
\* total, the counter that counts are keyed by.
ReadRecord(r, l) ==
  LET key == IF l.id # None THEN <<"id", l.id>> ELSE <<"tc", l.total>>
  IN  [r EXCEPT !.records = Append(@, Event(key, l.tokens, r.model))]

\* Windows are told by their length.
BucketKey(minutes) ==
  CASE minutes = 300 -> "five_hour" [] minutes = 10080 -> "weekly" [] OTHER -> minutes

\* Other limits are per model, and would overwrite the account's own.
SnapshotFrom(r, l) ==
  IF l.limit = None \/ l.limit.id \notin {"", "codex"} \/ l.limit.windows = {} THEN {}
  ELSE {[line |-> r.line, keys |-> {BucketKey(w) : w \in l.limit.windows}]}

\* Mutant: the first count is taken whole.
FromNothing(r, l) == IF r.prev = None THEN 0 ELSE r.prev

\* The first count may include a parent's total; only its last request is
\* this session's.
Base(r, l) == IF r.prev = None THEN l.total - l.tokens ELSE r.prev

\* Only a total that grew counts, by what it grew.
ReadCount(r, l) ==
  LET s == [r EXCEPT !.snaps = @ \cup SnapshotFrom(r, l)]
  IN  IF l.tokens = None THEN s
      ELSE LET base == Base(r, l)
           IN  IF l.total <= base THEN [s EXCEPT !.prev = base]
               ELSE [s EXCEPT !.prev = l.total,
                              !.counts = Append(@, Event(<<"tc", l.total>>, l.total - base, r.model))]

ReadLine(before, l) ==
  LET r == [before EXCEPT !.line = @ + 1]
  IN  IF r.skipped THEN r
      ELSE CASE l.type = "session_meta" -> [r EXCEPT !.skipped = ~l.id]
             [] l.type = "turn_context" -> [r EXCEPT !.model = l.model]
             [] l.type = "record" -> ReadRecord(r, l)
             [] l.type = "count" -> ReadCount(r, l)

\* Mutant: what both kinds of line say is counted.
EveryEvent(r) == r.records \o r.counts

\* Counting the totals beside records would double every request.
Counted(r) == IF r.records # <<>> THEN r.records ELSE r.counts

\* What it has gathered after the last line.
Gathered(lines) ==
  LET after[i \in 0..Len(lines)] == IF i = 0 THEN Nothing ELSE ReadLine(after[i - 1], lines[i])
  IN  after[Len(lines)]

\* The events and readings of a file; a session with another provider than
\* OpenAI has none.
Parse(lines) ==
  LET r == Gathered(lines)
  IN  IF r.skipped THEN [events |-> <<>>, snaps |-> {}]
      ELSE [events |-> Counted(r), snaps |-> r.snaps]

\* A key the ledger has keeps its row, with the larger count.
Upsert(rows, e) ==
  LET old == IF e.key \in DOMAIN rows THEN rows[e.key] ELSE [tokens |-> 0, third |-> e.third]
      new == [old EXCEPT !.tokens = IF e.tokens > @ THEN e.tokens ELSE @]
  IN  [k \in DOMAIN rows \cup {e.key} |-> IF k = e.key THEN new ELSE rows[k]]

-----------------------------------------------------------------------------
Init ==
  /\ \E openai \in BOOLEAN : file = <<MetaLine(openai)>>
  /\ model = None
  /\ version \in {"records", "counts"} /\ mixed = FALSE
  /\ total \in Parents
  /\ pending = None /\ made = <<>>
  /\ read = 0 /\ ledger = <<>> /\ snaps = {}

Write(l) == Len(file) < MaxLines /\ file' = Append(file, l)

Turn(m) ==
  /\ pending = None /\ m # model
  /\ Write(ContextLine(m))
  /\ model' = m
  /\ UNCHANGED <<version, mixed, total, pending, made, read, ledger, snaps>>

\* A request is answered, and recorded by a Codex that writes records.
Request(n) ==
  /\ pending = None /\ Len(made) < MaxRequests
  /\ total' = total + n /\ pending' = n
  /\ made' = Append(made, [tokens |-> n, third |-> model \in Routed])
  /\ IF version = "records"
     THEN Write(RecordLine(IF model \in Routed THEN None ELSE Len(made) + 1, n, total + n))
     ELSE UNCHANGED file
  /\ UNCHANGED <<model, version, mixed, read, ledger, snaps>>

\* Codex writes the running total after a request, again at times, and rate
\* limits without one.
Count(limit) ==
  /\ made # <<>>
  /\ Write(CountLine(Last(made).tokens, total, limit))
  /\ pending' = None
  /\ UNCHANGED <<model, version, mixed, total, made, read, ledger, snaps>>

RateLimits(limit) ==
  /\ Write(CountLine(None, 0, limit))
  /\ UNCHANGED <<model, version, mixed, total, pending, made, read, ledger, snaps>>

\* The session is resumed with a Codex that writes records.
UpdateCodex ==
  /\ version = "counts" /\ pending = None
  /\ version' = "records" /\ mixed' = (made # <<>>)
  /\ UNCHANGED <<file, model, total, pending, made, read, ledger, snaps>>

\* The file has changed: it is read from its start.
Pass ==
  /\ read < Len(file)
  /\ LET parsed == Parse(file)
         after[i \in 0..Len(parsed.events)] ==
           IF i = 0 THEN ledger ELSE Upsert(after[i - 1], parsed.events[i])
     IN  /\ ledger' = after[Len(parsed.events)]
         /\ snaps' = snaps \cup parsed.snaps
  /\ read' = Len(file)
  /\ UNCHANGED <<file, model, version, mixed, total, pending, made>>

Next ==
  \/ \E m \in Models : Turn(m)
  \/ \E n \in Sizes : Request(n)
  \/ \E limit \in Limits \cup {None} : Count(limit)
  \/ \E limit \in Limits : RateLimits(limit)
  \/ UpdateCodex
  \/ Pass

Spec == Init /\ [][Next]_vars

-----------------------------------------------------------------------------
\* Every request is in the ledger once, with its tokens, for the subscription
\* or as routed elsewhere: never twice, whichever lines a pass found and
\* whenever Codex was updated ("one request never enters the ledger twice under
\* two keys", rollout.go:172), and none missing once the file of one Codex is
\* read.  A session with another provider has nothing in it, and every reading
\* of a rate limit is one of the account's own.
CountedOnce ==
  IF ~file[1].id THEN ledger = <<>> /\ snaps = {}
  ELSE /\ \E of \in [DOMAIN ledger -> DOMAIN made] :
            /\ \A k \in DOMAIN ledger : ledger[k] = made[of[k]]
            /\ \A k, l \in DOMAIN ledger : of[k] = of[l] => k = l
            /\ read = Len(file) /\ pending = None /\ ~mixed => DOMAIN made = {of[k] : k \in DOMAIN ledger}
       /\ \A s \in snaps : file[s.line].limit.id \in {"", "codex"}
=============================================================================
