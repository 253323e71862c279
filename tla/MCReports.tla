------------------------------ MODULE MCReports ------------------------------
(***************************************************************************)
(* Three parts that share no state, explored side by side: a Codex session *)
(* (Rollout), a Claude Code transcript (Transcript), or a ledger on the    *)
(* server that grows by one row at a time, with everything Reports says of *)
(* it compared with itself.                                                *)
(***************************************************************************)
EXTENDS Reports, TLC

\* Two devices of one member with one name, another's, a model without a price.
MCOwner == "d1" :> "ann" @@ "d2" :> "ann" @@ "d3" :> "bob"
MCNameOf == "d1" :> "laptop" @@ "d2" :> "laptop" @@ "d3" :> "desk"
MCProviderOf == "pool" :> "anthropic" @@ "other" :> "anthropic"
MCPrice == "opus" :> 2 @@ "fable" :> 3 @@ "gpt" :> 1 @@ "free" :> 0
MCFamily == [m \in {"opus", "fable", "gpt", "free"} |-> m]
MCSpan == "five_hour" :> 4 @@ "weekly" :> 8 @@ "weekly_fable" :> 8
MCFamilyOf == "five_hour" :> Missing @@ "weekly" :> Missing @@ "weekly_fable" :> "fable"
MCBinOf == 4 :> 1 @@ 8 :> 2

CONSTANTS
  None,
  Sizes, Models, Routed, Parents, MaxRequests, MaxLines,
  Requests, Main, MatchWindow, MaxTime, MaxErrors,
  MaxRows,   \* bound: requests on the server
  Shares     \* share weights

VARIABLES
  part,
  file, model, version, mixed, total, pending, made, codexRead, ledger, codexSnaps,
  now, reply, asked, ocx, lines, read, device, outbox, server, limits

codex == <<file, model, version, mixed, total, pending, made, codexRead, ledger, codexSnaps>>
claude == <<now, reply, asked, ocx, lines, read, device, outbox, server, limits>>
reports == <<events, snaps, weights, signIns, revoked>>
vars == <<part, codex, claude, reports>>

\* A count carries the account's limits, another's, or an unnamed one's.
RateLimits ==
  {[id |-> "codex", windows |-> {300, 10080}], [id |-> "gpt-spark", windows |-> {300}]}

Answer == [model |-> "claude", id |-> "anthropic", req |-> TRUE, entry |-> "cli", served |-> "", prompt |-> 1, out |-> 2]
Native == [Answer EXCEPT !.model = "native", !.id = "opencodex", !.req = FALSE, !.served = Main]

\* Every kind of request, and to ChatGPT through OpenCodex with prompts and
\* counts that can be told apart or not.
Answers ==
  {Answer,
   [Answer EXCEPT !.id = "opencodex", !.req = FALSE],
   [Answer EXCEPT !.entry = "desktop-3p"],
   [Answer EXCEPT !.model = "other", !.id = "ollama", !.req = FALSE],
   [Answer EXCEPT !.model = "synthetic"],
   [Native EXCEPT !.model = "routed", !.served = "ollama-cloud"],
   Native,
   [Native EXCEPT !.served = "openai-2"],
   [Native EXCEPT !.served = "openai-2", !.prompt = 2, !.out = 1],
   [Native EXCEPT !.out = 3]}

ErrorLines ==
  {[code |-> "rate_limit", type |-> "five_hour", text |-> "", status |-> 429],
   [code |-> "", type |-> "", text |-> "", status |-> 500]}

Request == [device |-> "d1", acct |-> "pool", model |-> "opus", gateway |-> "", third |-> FALSE, at |-> 5, tokens |-> 2]

\* Of two members, on three devices, two of them with one name; of a model
\* used directly and through a gateway, of one family, without a price, of
\* another vendor; in this window, in the one before, now.
Rows ==
  {Request,
   [Request EXCEPT !.at = Now, !.tokens = 1],
   [Request EXCEPT !.device = "d2", !.tokens = 1],
   [Request EXCEPT !.device = "d2", !.model = "fable", !.at = 6],
   [Request EXCEPT !.device = "d3", !.gateway = "opencodex", !.tokens = 1],
   [Request EXCEPT !.device = "d3", !.model = "gpt", !.third = TRUE, !.tokens = 3],
   [Request EXCEPT !.device = "d3", !.model = "free", !.at = 6],
   [Request EXCEPT !.device = "d3", !.at = 1],
   [Request EXCEPT !.device = "d1", !.acct = "other", !.at = 6]}

\* Readings of a window that runs, that has closed, without a reset, without a
\* figure.
Figures ==
  {[at |-> Now - 1, statusLine |-> FALSE, resets |-> Now + 1, used |-> 40],
   [at |-> Now - 3, statusLine |-> FALSE, resets |-> Now - 1, used |-> 90],
   [at |-> Now - 1, statusLine |-> TRUE, resets |-> Missing, used |-> 7],
   [at |-> Now - 1, statusLine |-> FALSE, resets |-> Now + 2, used |-> Missing]}

Codex == INSTANCE Rollout WITH read <- codexRead, snaps <- codexSnaps, Limits <- RateLimits
Claude == INSTANCE Transcript WITH Replies <- Answers, Errors <- ErrorLines

ASSUME PartsAssumption == Codex!RolloutConstants /\ Claude!TranscriptConstants

-----------------------------------------------------------------------------
Init ==
  /\ part \in {"codex", "claude", "errors", "reports"}
  /\ Codex!Init /\ Claude!Init
  /\ part # "codex" => file[1].id /\ version = "counts" /\ total = 0
  /\ part # "claude" => reply = [q \in Requests |-> Answer]
  /\ events = {} /\ signIns = {} /\ revoked = {}
  /\ snaps = [a \in Accounts |-> [l \in DOMAIN Span |-> <<>>]]
  /\ weights = [a \in Accounts |-> [p \in Persons |-> IF p = "ann" THEN 1 ELSE Missing]]

AddRow ==
  /\ Cardinality(events) < MaxRows /\ signIns = {}
  /\ \E e \in Rows : events' = events \cup {e}
  /\ UNCHANGED <<snaps, weights, signIns, revoked>>

\* One account's readings and members are enough: each is reported apart.
AddReading ==
  /\ signIns = {}
  /\ \E l \in DOMAIN Span, f \in Figures :
       /\ snaps["pool"][l] = <<>> /\ \E k \in DOMAIN Span \ {l} : snaps["pool"][k] = <<>>
       /\ snaps' = [snaps EXCEPT !["pool"][l] = <<f>>]
  /\ UNCHANGED <<events, weights, signIns, revoked>>

SetShareWeight ==
  /\ signIns = {}
  /\ \E w \in Shares : weights' = [weights EXCEPT !["pool"]["bob"] = w]
  /\ UNCHANGED <<events, snaps, signIns, revoked>>

\* Who is using an account depends on nothing else.
Observe ==
  /\ events = {} /\ weights["pool"]["bob"] = Missing
  /\ \A a \in Accounts, l \in DOMAIN Span : snaps[a][l] = <<>>
  /\ Cardinality(signIns) < MaxRows
  /\ \E d \in DOMAIN Owner, s \in {"cli", "desktop"}, a \in Accounts, t \in {Now - ActiveFor - 1, Now - 1, Now} :
       signIns' = signIns \cup {[device |-> d, source |-> s, acct |-> a, at |-> t]}
  /\ UNCHANGED <<events, snaps, weights, revoked>>

Revoke ==
  /\ signIns # {}
  /\ \E d \in DOMAIN Owner : revoked' = revoked \cup {d}
  /\ UNCHANGED <<events, snaps, weights, signIns>>

Next ==
  \/ /\ part = "codex" /\ Codex!Next
     /\ Cardinality({i \in DOMAIN file' : file'[i].limit # None}) <= 1  \* bound
     /\ UNCHANGED <<part, claude, reports>>
  \/ /\ part \in {"claude", "errors"} /\ Claude!Next
     /\ part = "claude" => \A i \in DOMAIN lines' : lines'[i].error = None
     /\ UNCHANGED <<part, codex, reports>>
  \/ /\ part = "reports"
     /\ AddRow \/ AddReading \/ SetShareWeight \/ Observe \/ Revoke
     /\ UNCHANGED <<part, codex, claude>>

Spec == Init /\ [][Next]_vars

Symmetry == Permutations(Requests)

-----------------------------------------------------------------------------
\* A session's requests are counted once (Rollout).
CountedOnce == Codex!CountedOnce

\* A transcript's requests end with the account and mark they belong with
\* (Transcript).
RequestsPlaced == Claude!RequestsPlaced

UsedTogether(parts) == MapThenSumSet(LAMBDA m : m.used, parts)

\* What an overview says of a window is divided without rest: among members,
\* those who left included, or as no one's, and then no one but members is
\* listed; a member's part among models and among devices; a model's among
\* members, as are all requests where a part is anyone's.
DividedWithoutRest(a, b) ==
  LET people == DOMAIN b.members
      whole == b.used * b.total
      answered == MapThenSumSet(LAMBDA p : b.members[p].requests, people)
  IN  /\ MapThenSumSet(LAMBDA p : b.members[p].used, people) = whole
      /\ b.unattributed = IF b.total = 0 THEN b.used ELSE 0
      /\ IF b.total = 0 THEN people = Members(a)
         ELSE answered = MapThenSumSet(LAMBDA m : m.requests, b.models)
      /\ UsedTogether(b.models) = whole
      /\ \A p \in people : /\ UsedTogether(b.members[p].models) = b.members[p].used
                           /\ UsedTogether(b.members[p].devices) = b.members[p].used
      /\ \A m \in b.models :
           m.used = MapThenSumSet(LAMBDA p : UsedTogether({x \in b.members[p].models : x.model = m.model}), people)

\* A chart has every request of its span in one of its bins.  Where its bins
\* are as fine as the window's start, the requests from there on are those
\* that the window's models count.
ChartShowsWindow(a, o) ==
  LET points == o.chart.points
      from == o.start - o.chart.start
      current == {r \in points : r.key.bin >= from /\ ~r.key.third}
      last == {e \in events : e.acct = a /\ e.at = Now /\ ~e.third}
  IN  /\ \A r \in points : r.key.bin \in 0 .. o.chart.bins - 1
      /\ o.limit = Missing \/ FamilyOf[o.limit] = Missing =>
           /\ TokensOf(points) = TokensOf({e \in events : e.acct = a /\ o.chart.start <= e.at /\ e.at < Now})
           /\ o.end = Now /\ from >= 0 /\ BinOf[IF o.limit = Missing THEN FiveHours ELSE Span[o.limit]] = 1 =>
                TokensOf(o.bucket.models) = TokensOf(current) + TokensOf(last)

\* Every report of a time adds up to the same requests, and a member reads the
\* same of themselves in the overview and in the console.
ReportsAgree(since) ==
  LET all == UsageSince(since, Missing)
      Whole(report) == \A f \in DOMAIN all.total :
                         MapThenSumSet(LAMBDA k : report[k][f], DOMAIN report) = all.total[f]
      third == MapThenSumSet(LAMBDA k : all.thirdParty[k].tokens, DOMAIN all.thirdParty)
  IN  /\ Whole(all.members) /\ Whole(all.accounts) /\ Whole(all.models) /\ Whole(all.devices)
      /\ all.total.tokens + third = TokensOf({e \in events : e.at >= since})
      /\ \A p \in Persons :
           /\ Overview(p, since).you = MemberUsage(p, since).total
           /\ p \in DOMAIN all.members => all.members[p] = MemberUsage(p, since).total

\* An app of a device is in use on one account of a provider: the one it was
\* last seen signed into.
OneAccountInUse ==
  \A o, p \in ActiveDevices(Now - ActiveFor) :
    o.device = p.device /\ o.source = p.source /\ ProviderOf[o.acct] = ProviderOf[p.acct] => o.at = p.at

\* Whatever requests, readings and members an account has, what the server
\* says of it adds up (the comments of attribution.Apportion and of
\* query.Usage).
ReportsAddUp ==
  part = "reports" =>
    /\ \A a \in Accounts : \A o \in AccountOverview(a).limits :
         DividedWithoutRest(a, o.bucket) /\ ChartShowsWindow(a, o)
    /\ \A since \in {0, Now - 2} : ReportsAgree(since)
    /\ OneAccountInUse
=============================================================================
