----------------------------- MODULE Transcript ------------------------------
(***************************************************************************)
(* The requests of one Claude Code transcript on their way to the server:  *)
(* Claude Code streams a response as lines with a growing output count,    *)
(* OpenCodex logs which account served those that went through it, a pass  *)
(* reads both (transcript.Parse, opencodex.Match, ingestFile), and the     *)
(* server keeps what the device uploads.  A line is in a log once it is    *)
(* complete.                                                               *)
(***************************************************************************)
EXTENDS Integers, Sequences, FiniteSets

CONSTANTS
  None,
  Requests,     \* message and request ids
  Replies,      \* what a request can be answered with:
                \* [model, id, req, entry, served, prompt, out]
  Main,         \* OpenCodex's label for the account Codex is signed into
  MatchWindow,  \* how far a record and its line may lie apart
  Errors,       \* error lines: [code, type, text, status]
  MaxTime,      \* bound: moments
  MaxErrors     \* bound: error lines

TranscriptConstants ==
  /\ Replies \subseteq [model : {"claude", "other", "routed", "native", "synthetic"},
                        id : {"anthropic", "opencodex", "ollama"}, req : BOOLEAN,
                        entry : {"cli", "desktop-3p"}, served : STRING, prompt : Nat, out : Nat \ {0}]
  /\ MatchWindow \in Nat /\ MaxTime \in Nat /\ MaxErrors \in Nat
  /\ None \notin Requests \cup Errors \cup Nat \cup {"anthropic", "openai"} \cup {r.served : r \in Replies}

VARIABLES
  now,
  reply,    \* what each request is answered with
  asked,    \* when it was sent, or None
  ocx,      \* OpenCodex's log: [served, prompt, out, at]
  lines,    \* the transcript: [req, out, at] and [error]
  read,     \* lines the last pass read
  device,   \* the device's ledger: request -> [acct, third, gateway, out]
  outbox,   \* queued events and limit events
  server,   \* the server's ledger
  limits    \* limit events, of the device and of the server

vars == <<now, reply, asked, ocx, lines, read, device, outbox, server, limits>>

-----------------------------------------------------------------------------
\* OpenCodex names the models it routes; its own ChatGPT subscription is the
\* service "native".
OpenCodexModel(m) == m \in {"routed", "native"}

\* The service a request went through, as far as its line shows: gateways
\* answer with message ids of their own and no request id.
Gateway(r) ==
  CASE OpenCodexModel(r.model) -> "opencodex"
    [] ~OpenCodexModel(r.model) /\ ~r.req /\ r.id # "anthropic" -> r.id
    [] OTHER -> ""

\* Only Anthropic's models draw on a Claude subscription, and OpenCodex's
\* native ones on ChatGPT's.
ThirdParty(r) == r.model \in {"other", "routed"}
Provider(r) == IF r.model = "native" THEN "openai" ELSE "anthropic"

\* The limit behind an error line and how it was told, or None.
ClassifyLimit(e) ==
  LET limited == e.code = "rate_limit"
  IN  CASE limited /\ e.type = "five_hour" -> "5h"
        [] limited /\ e.type = "seven_day" -> "weekly"
        [] limited /\ e.type = "seven_day_opus" -> "model-specific"
        [] limited /\ e.type # "" /\ e.type \notin {"five_hour", "seven_day", "seven_day_opus"} -> "unknown"
        [] limited /\ e.type = "" /\ e.text = "session limit" -> "5h"
        [] limited /\ e.type = "" /\ e.text = "weekly limit" -> "weekly"
        [] limited /\ e.type = "" /\ e.text = "extra usage" -> "unknown"
        [] limited /\ e.type = "" /\ e.text = "not your limit" -> "provider429"
        [] OTHER -> CASE e.status = 529 \/ e.text = "overloaded" -> "overload"
                      [] e.status \in {401, 403} \/ e.code = "authentication_failed" -> "auth"
                      [] OTHER -> None

\* Mutant: a response keeps the count of its first line.
FirstOutput(old, n) == old

\* While a response is streamed its lines carry a partial count.
Output(old, n) == IF n > old THEN n ELSE old

\* The events with what a line says of a response: its first line makes the
\* event.
Tell(events, l) ==
  IF \E k \in DOMAIN events : events[k].req = l.req
  THEN [k \in DOMAIN events |->
          IF events[k].req = l.req THEN [events[k] EXCEPT !.out = Output(@, l.out)] ELSE events[k]]
  ELSE Append(events, [req |-> l.req, at |-> l.at, out |-> l.out])

\* Limit events are keyed by their line.
LimitEvent(i, l) == [line |-> i, kind |-> ClassifyLimit(l.error)]

\* What Parse has gathered after the i-th line.  Claude Code makes up "synthetic"
\* messages; they never were sent.
ReadLine(r, i, l) ==
  IF l.error # None
  THEN IF ClassifyLimit(l.error) = None THEN r
       ELSE [r EXCEPT !.limits = Append(@, LimitEvent(i, l))]
  ELSE IF reply[l.req].model = "synthetic" THEN r
       ELSE [r EXCEPT !.events = Tell(@, l)]

Parse(f) ==
  LET after[i \in 0..Len(f)] ==
        IF i = 0 THEN [events |-> <<>>, limits |-> <<>>] ELSE ReadLine(after[i - 1], i, f[i])
  IN  after[Len(f)]

-----------------------------------------------------------------------------
\* Mutant: the prompt alone tells whose record it is.
SamePrompt(rec, e) ==
  /\ rec.at - e.at \in -MatchWindow .. MatchWindow
  /\ rec.prompt = reply[e.req].prompt

Fits(rec, e) ==
  /\ rec.at - e.at \in -MatchWindow .. MatchWindow
  /\ rec.prompt = reply[e.req].prompt /\ rec.out = e.out

\* The account OpenCodex's log shows to have served a request, when exactly
\* one record fits.
Match(e) ==
  LET found == {i \in DOMAIN ocx : Fits(ocx[i], e)}
  IN  IF Cardinality(found) = 1 THEN ocx[CHOOSE i \in found : TRUE].served ELSE None

\* Claude Code's requests through OpenCodex to ChatGPT go with the account
\* Codex is signed into; served by another account they are not its quota.
\* Claude Desktop set up for third-party inference has no account of its own.
Attribute(e) ==
  LET r == reply[e.req]
      elsewhere == Provider(r) = "openai" /\ Match(e) \notin {None, Main}
      thirdDesktop == Provider(r) = "anthropic" /\ r.entry = "desktop-3p"
  IN  [req |-> e.req, acct |-> Provider(r), gateway |-> Gateway(r), out |-> e.out,
       third |-> ThirdParty(r) \/ elsewhere \/ thirdDesktop]

\* The device keeps the larger count, and the marks it began with.
IngestEvent(s, e) ==
  LET row == [acct |-> e.acct, third |-> e.third, gateway |-> e.gateway, out |-> e.out]
  IN  IF e.req \notin DOMAIN s.rows
      THEN [s EXCEPT !.rows = [k \in DOMAIN @ \cup {e.req} |-> IF k = e.req THEN row ELSE s.rows[k]],
                     !.queue = Append(@, e)]
      ELSE IF e.out > s.rows[e.req].out
      THEN [s EXCEPT !.rows[e.req].out = e.out, !.queue = Append(@, e)]
      ELSE s

\* A limit event is stored once.
IngestLimit(s, e) ==
  IF e \in s.limits THEN s ELSE [s EXCEPT !.limits = @ \cup {e}, !.queue = Append(@, e)]

Ingest(s, e) == IF "kind" \in DOMAIN e THEN IngestLimit(s, e) ELSE IngestEvent(s, e)

\* IngestFile: the events of the file, then its limit events, in one transaction.
Ingested(parsed) ==
  LET items == [i \in DOMAIN parsed.events |-> Attribute(parsed.events[i])] \o parsed.limits
      after[i \in 0..Len(items)] ==
        IF i = 0 THEN [rows |-> device, limits |-> limits.device, queue |-> outbox]
        ELSE Ingest(after[i - 1], items[i])
  IN  after[Len(items)]

\* Mutant: a mark is not corrected by a later report.
FirstMark(old, e) == old.third

\* A request never goes back to counting against the quota.
Marked(old, e) == old.third \/ e.third

\* The server keeps the larger count and every mark.
Store(rows, e) ==
  LET new == [acct |-> e.acct, third |-> e.third, gateway |-> e.gateway, out |-> e.out]
      Merged(old) == [old EXCEPT !.out = IF e.out > @ THEN e.out ELSE @, !.third = Marked(old, e),
                                 !.gateway = IF @ = "" THEN e.gateway ELSE @]
  IN  [k \in DOMAIN rows \cup {e.req} |->
         IF k # e.req THEN rows[k] ELSE IF k \in DOMAIN rows THEN Merged(rows[k]) ELSE new]

-----------------------------------------------------------------------------
Init ==
  /\ now = 0
  /\ reply \in [Requests -> Replies]
  /\ asked = [q \in Requests |-> None]
  /\ ocx = <<>> /\ lines = <<>> /\ read = 0
  /\ device = <<>> /\ outbox = <<>> /\ server = <<>>
  /\ limits = [device |-> {}, server |-> {}]

LinesOf(q) == {i \in DOMAIN lines : lines[i].req = q}
Finished(q) == \E i \in LinesOf(q) : lines[i].out = reply[q].out
Recorded(q) == \E i \in DOMAIN ocx : ocx[i].req = q

Ask(q) ==
  /\ asked[q] = None
  /\ asked' = [asked EXCEPT ![q] = now]
  /\ UNCHANGED <<now, reply, ocx, lines, read, device, outbox, server, limits>>

\* OpenCodex records a request it answered before Claude Code has logged the
\* whole response.
Record(q) ==
  /\ asked[q] # None /\ ~Recorded(q) /\ Gateway(reply[q]) = "opencodex"
  /\ ocx' = Append(ocx, [req |-> q, served |-> reply[q].served, prompt |-> reply[q].prompt,
                         out |-> reply[q].out, at |-> asked[q]])
  /\ UNCHANGED <<now, reply, asked, lines, read, device, outbox, server, limits>>

Write(q, n) ==
  /\ asked[q] # None
  /\ lines' = Append(lines, [req |-> q, out |-> n, at |-> now, error |-> None])
  /\ UNCHANGED <<now, reply, asked, ocx, read, device, outbox, server, limits>>

\* The first line of a streamed response, and its last one.
Stream(q) == reply[q].out > 1 /\ LinesOf(q) = {} /\ Write(q, 1)
Finish(q) == ~Finished(q) /\ (Gateway(reply[q]) = "opencodex" => Recorded(q)) /\ Write(q, reply[q].out)

LogError(e) ==
  /\ Cardinality({i \in DOMAIN lines : lines[i].error # None}) < MaxErrors
  /\ lines' = Append(lines, [req |-> None, out |-> 0, at |-> now, error |-> e])
  /\ UNCHANGED <<now, reply, asked, ocx, read, device, outbox, server, limits>>

\* The transcript has changed: it is read from its start, with OpenCodex's
\* log as it is then.
Pass ==
  /\ read < Len(lines)
  /\ \E result \in {Ingested(Parse(lines))} :
       /\ device' = result.rows
       /\ limits' = [limits EXCEPT !.device = result.limits]
       /\ outbox' = result.queue
  /\ read' = Len(lines)
  /\ UNCHANGED <<now, reply, asked, ocx, lines, server>>

\* The server takes one queued item; one more than once changes nothing, as
\* UsageLedger shows.
Upload ==
  /\ outbox # <<>>
  /\ LET e == Head(outbox)
     IN  IF "kind" \in DOMAIN e
         THEN limits' = [limits EXCEPT !.server = @ \cup {e}] /\ UNCHANGED server
         ELSE server' = Store(server, e) /\ UNCHANGED limits
  /\ outbox' = Tail(outbox)
  /\ UNCHANGED <<now, reply, asked, ocx, lines, read, device>>

Tick ==
  /\ now < MaxTime
  /\ now' = now + 1
  /\ UNCHANGED <<reply, asked, ocx, lines, read, device, outbox, server, limits>>

Next ==
  \/ \E q \in Requests : Ask(q) \/ Record(q) \/ Stream(q) \/ Finish(q)
  \/ \E e \in Errors : LogError(e)
  \/ Pass \/ Upload \/ Tick

Spec == Init /\ [][Next]_vars

-----------------------------------------------------------------------------
\* Another request's record could be taken for q's, or hide it: the same
\* prompt at about the same time, and a count that q's lines show too.
Confusable(q) ==
  \E p \in Requests \ {q} :
    /\ Recorded(p) /\ reply[p].prompt = reply[q].prompt
    /\ reply[p].out \in {1, reply[q].out}

\* The record of q lies near its first line.
InTime(q) == \A i \in LinesOf(q) : lines[i].at - asked[q] <= MatchWindow

\* Who pays for q: ChatGPT's subscription, or Claude's.
Payer(q) ==
  LET r == reply[q]
  IN  CASE r.model = "native" -> IF r.served = Main THEN "openai" ELSE None
        [] r.model = "claude" /\ r.entry = "cli" -> "anthropic"
        [] OTHER -> None

\* Once a whole response was read and everything uploaded, it is on the server
\* with its whole count, on the account of the subscription it came through,
\* and counts against that one's quota exactly when it drew on it, unless
\* OpenCodex's log cannot tell ("When OpenCodex's own request log shows another
\* account in its pool served a request, that request stays third-party",
\* README.md:122).  However far the response had been streamed when a pass
\* first found it, and whatever OpenCodex had logged by then.
RequestsPlaced ==
  read = Len(lines) /\ outbox = <<>> =>
    /\ limits.server = limits.device
    /\ \A q \in Requests :
         Finished(q) /\ reply[q].model # "synthetic" =>
           /\ q \in DOMAIN server /\ server[q].out = reply[q].out
           /\ server[q].acct = (IF reply[q].model = "native" THEN "openai" ELSE "anthropic")
           /\ InTime(q) /\ ~Confusable(q) => (server[q].third <=> Payer(q) = None)
    /\ \A q \in DOMAIN server : reply[q].model # "synthetic"
=============================================================================
