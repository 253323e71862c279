---------------------------- MODULE ClaudeLogins ----------------------------
(***************************************************************************)
(* The Claude sign-ins ShareCodex keeps of its own: a token per account in *)
(* the credential store and a row per account in the ledger.  The agent's  *)
(* probe loop reads the usage of one sign-in after another, renewing its   *)
(* token first when it is about to expire; the user signs in and out at    *)
(* the same time, in the app or with a command in a process of its own.    *)
(*                                                                         *)
(* Anthropic accepts only the newest refresh token of a sign-in, so the    *)
(* one in the credential store must keep up with every renewal.            *)
(***************************************************************************)
EXTENDS Naturals, FiniteSets

CONSTANTS
  Accounts,    \* Claude accounts, by their reference
  Grants,      \* sign-ins Anthropic may approve
  Rotating,    \* those whose every renewal replaces the refresh token
  Plans,       \* plans an account may have
  None,        \* nothing: no row, no token, no plan, no code
  MaxRenewals, \* bound: refresh tokens replaced, for each sign-in
  MaxFails,    \* bound: failed writes, lost replies and crashes
  MaxPlans     \* bound: plan changes

ASSUME LoginConstants ==
  /\ None \notin Accounts \cup Grants \cup Plans
  /\ Rotating \subseteq Grants
  /\ {MaxRenewals, MaxFails, MaxPlans} \subseteq Nat

\* The probe loop of the app and the read that follows a sign-in.
Readers == {"loop", "task"}

VARIABLES
  grants,    \* Anthropic: the account of a sign-in and its newest refresh token
  planNow,   \* Anthropic: each account's plan
  tokens,    \* the credential store
  rows,      \* the claude_logins table: the plan each sign-in had last
  reader,    \* reads under way
  todo,      \* rows the loop has yet to read this round
  task,      \* the user's sign-in or sign-out
  paused,    \* Agent.usageRetryAt, for the keys "login:..."
  lost,      \* history: sign-ins whose newest token was never stored
  halves,    \* history: accounts whose sign-in or sign-out was cut short
  fails,     \* failures so far
  plans      \* plan changes so far

vars == <<grants, planNow, tokens, rows, reader, todo, task, paused, lost, halves, fails, plans>>
anthropic == <<grants, planNow, plans>>
device == <<tokens, rows>>
history == <<lost, halves>>

Token == [grant : Grants, gen : 0..MaxRenewals, fresh : BOOLEAN]
Row == [acct : Accounts, plan : Plans]
NoToken == [grant |-> None, gen |-> 0, fresh |-> FALSE]
Reading == [pc : {"idle", "secret", "renew", "save", "usage"},
            acct : Accounts \cup {None}, plan : Plans \cup {None},
            tok : Token \cup {NoToken}]
NotReading == [pc |-> "idle", acct |-> None, plan |-> None, tok |-> NoToken]

Issued == {g \in Grants : grants[g].acct # None}

TypeOK ==
  /\ grants \in [Grants -> [acct : Accounts \cup {None}, gen : 0..MaxRenewals]]
  /\ planNow \in [Accounts -> Plans]
  /\ tokens \in [Accounts -> Token \cup {NoToken}]
  /\ rows \in [Accounts -> Plans \cup {None}]
  /\ reader \in [Readers -> Reading]
  /\ todo \subseteq Row
  /\ \A r \in Readers : reader[r].pc \in {"renew", "save"} <=> reader[r].tok # NoToken
  /\ task.pc \in {"idle", "waiting", "saveToken", "saveRow", "read", "drop", "dropRow"}
  /\ paused \subseteq Accounts
  /\ lost \subseteq Grants /\ halves \subseteq Accounts
  /\ fails \in 0..MaxFails /\ plans \in 0..MaxPlans

AtRest == [pc |-> "idle", acct |-> None, grant |-> None, code |-> None]

Init ==
  /\ grants = [g \in Grants |-> [acct |-> None, gen |-> 0]]
  /\ \E p \in Plans : planNow = [a \in Accounts |-> p]
  /\ tokens = [a \in Accounts |-> NoToken]
  /\ rows = [a \in Accounts |-> None]
  /\ reader = [r \in Readers |-> NotReading]
  /\ todo = {}
  /\ task = AtRest
  /\ paused = {} /\ lost = {} /\ halves = {}
  /\ fails = 0 /\ plans = 0

\* A write, an answer or a process that may fail here, once more.
Fails == fails < MaxFails /\ fails' = fails + 1

-----------------------------------------------------------------------------
(***************************************************************************)
(* The credential store and the table of sign-ins.                         *)
(***************************************************************************)
StoredToken(a) == tokens[a]
SaveTokens(a, tok) == tokens' = [tokens EXCEPT ![a] = tok]
DropTokens(a) == tokens' = [tokens EXCEPT ![a] = NoToken]

Listed == {row \in Row : rows[row.acct] = row.plan}
UpsertRow(a, plan) == rows' = [rows EXCEPT ![a] = plan]
DropRow(a) == rows' = [rows EXCEPT ![a] = None]

\* The plan in the profile Anthropic answers with.
Profile(a) == planNow[a]

-----------------------------------------------------------------------------
(***************************************************************************)
(* probeLogin, for the loop and for the read that follows a sign-in.       *)
(***************************************************************************)
Step(r, pc) == reader' = [reader EXCEPT ![r].pc = pc, ![r].tok = NoToken]
Stop(r) == reader' = [reader EXCEPT ![r] = NotReading]

\* Mutant: a missing sign-in is decoded as an empty one.
ReadMissing(r) ==
  LET tok == StoredToken(reader[r].acct)
  IN  /\ reader[r].pc = "secret"
      /\ IF tok.fresh THEN Step(r, "usage")
         ELSE reader' = [reader EXCEPT ![r].tok = tok, ![r].pc = "renew"]
      /\ UNCHANGED <<anthropic, device, todo, task, paused, history, fails>>

\* Mutant: a missing sign-in ends the round.
ReadSecretOrReturn(r) ==
  LET tok == StoredToken(reader[r].acct)
  IN  /\ reader[r].pc = "secret"
      /\ \/ /\ tok # NoToken
            /\ IF tok.fresh THEN Step(r, "usage")
               ELSE reader' = [reader EXCEPT ![r].tok = tok, ![r].pc = "renew"]
            /\ UNCHANGED todo
         \/ tok = NoToken /\ Stop(r) /\ todo' = IF r = "loop" THEN {} ELSE todo
      /\ UNCHANGED <<anthropic, device, task, paused, history, fails>>

\* The sign-in may be missing, or its entry unreadable.
ReadSecret(r) ==
  LET tok == StoredToken(reader[r].acct)
  IN  /\ reader[r].pc = "secret"
      /\ \/ /\ tok # NoToken
            /\ IF tok.fresh THEN Step(r, "usage")
               ELSE reader' = [reader EXCEPT ![r].tok = tok, ![r].pc = "renew"]
            /\ UNCHANGED fails
         \/ tok = NoToken /\ Stop(r) /\ UNCHANGED fails
         \/ Fails /\ Stop(r)
      /\ UNCHANGED <<anthropic, device, todo, task, paused, history>>

\* Mutant: the refresh token sent is kept before the one in the answer.
RenewKeepingOld(r) ==
  LET tok == reader[r].tok
      g == tok.grant
  IN  /\ reader[r].pc = "renew"
      /\ tok.gen = grants[g].gen
      /\ grants' = [grants EXCEPT ![g].gen = IF g \in Rotating /\ @ < MaxRenewals THEN @ + 1 ELSE @]
      /\ reader' = [reader EXCEPT ![r].tok.fresh = TRUE, ![r].pc = "save"]
      /\ UNCHANGED <<planNow, plans, device, todo, task, paused, history, fails>>

\* Anthropic answers with a new refresh token or, for a sign-in whose token
\* never changes (and past the bound), with none, the old one staying good;
\* it refuses a token it has replaced.  The answer may be lost.
Renew(r) ==
  LET tok == reader[r].tok
      g == tok.grant
      rotates == g \in Rotating /\ tok.gen < MaxRenewals
      renewed == [tok EXCEPT !.gen = IF rotates THEN @ + 1 ELSE @, !.fresh = TRUE]
  IN  /\ reader[r].pc = "renew"
      /\ \/ /\ tok.gen = grants[g].gen
            /\ grants' = [grants EXCEPT ![g].gen = renewed.gen]
            /\ \/ /\ reader' = [reader EXCEPT ![r].tok = renewed, ![r].pc = "save"]
                  /\ UNCHANGED <<lost, fails>>
               \/ Fails /\ Stop(r) /\ lost' = IF rotates THEN lost \cup {g} ELSE lost
         \/ tok.gen # grants[g].gen /\ Stop(r) /\ UNCHANGED <<grants, lost, fails>>
      /\ UNCHANGED <<planNow, plans, device, todo, task, paused, halves>>

\* The renewed tokens are kept whatever becomes of the read.
SaveRenewed(r) ==
  LET cur == reader[r]
  IN  /\ cur.pc = "save"
      /\ \/ /\ SaveTokens(cur.acct, cur.tok)
            /\ Step(r, "usage")
            /\ UNCHANGED <<lost, fails>>
         \/ Fails /\ Stop(r) /\ lost' = lost \cup {cur.tok.grant} /\ UNCHANGED tokens
      /\ UNCHANGED <<anthropic, rows, todo, task, paused, halves>>

\* Usage read: a plan other than the one the read began with goes to the
\* row, even to one that is gone by now, and the reading is stored.  The
\* profile may be unreadable, which leaves the plan out, and either write
\* may fail; what becomes of the reading is Readings' concern.
UsageRead(r) ==
  LET cur == reader[r]
  IN  /\ cur.pc = "usage"
      /\ Stop(r)
      /\ \/ /\ IF Profile(cur.acct) # cur.plan
               THEN UpsertRow(cur.acct, Profile(cur.acct)) ELSE UNCHANGED rows
            /\ UNCHANGED fails \/ Fails
         \/ Fails /\ UNCHANGED rows
      /\ UNCHANGED <<anthropic, tokens, todo, task, paused, history>>

\* Usage not read: an error, nothing to report, or Anthropic asking to wait,
\* which only the loop remembers.
UsageUnread(r) ==
  /\ reader[r].pc = "usage"
  /\ Fails
  /\ Stop(r)
  /\ \/ paused' = IF r = "loop" THEN paused \cup {reader[r].acct} ELSE paused
     \/ UNCHANGED paused
  /\ UNCHANGED <<anthropic, device, todo, task, history>>

ProbeLogin(r) ==
  ReadSecret(r) \/ Renew(r) \/ SaveRenewed(r) \/ UsageRead(r) \/ UsageUnread(r)

-----------------------------------------------------------------------------
(***************************************************************************)
(* probeUsage: a round of the loop reads the rows as they were when it     *)
(* began, but not the account Claude Code itself was just read for.        *)
(***************************************************************************)
LoopIdle == todo = {} /\ reader["loop"].pc = "idle"

RoundStarts ==
  /\ LoopIdle
  /\ \E covered \in Accounts \cup {None} :
       todo' = {row \in Listed : row.acct # covered}
  /\ UNCHANGED <<anthropic, device, reader, task, paused, history, fails>>

NextLogin ==
  /\ reader["loop"].pc = "idle"
  /\ \E row \in todo :
       /\ todo' = todo \ {row}
       /\ reader' = IF row.acct \in paused THEN reader
                    ELSE [reader EXCEPT !["loop"].pc = "secret", !["loop"].acct = row.acct,
                                        !["loop"].plan = row.plan]
  /\ UNCHANGED <<anthropic, device, task, paused, history, fails>>

PauseOver ==
  /\ \E a \in paused : paused' = paused \ {a}
  /\ UNCHANGED <<anthropic, device, reader, todo, task, history, fails>>

-----------------------------------------------------------------------------
(***************************************************************************)
(* Signing in.  The page of one sign-in may be approved, or a code typed:  *)
(* one of this sign-in, or of another, which either names the state it     *)
(* belongs to or is refused by Anthropic for its verifier.                 *)
(***************************************************************************)
Codes == {"own", "stale", "other"}

StartLogin ==
  /\ task.pc = "idle"
  /\ task' = [task EXCEPT !.pc = "waiting"]
  /\ UNCHANGED <<anthropic, device, reader, todo, paused, history, fails>>

\* The channel holds one code; a later one is dropped.
Submit ==
  /\ task.pc = "waiting"
  /\ \E c \in Codes : task' = IF task.code = None THEN [task EXCEPT !.code = c] ELSE task
  /\ UNCHANGED <<anthropic, device, reader, todo, paused, history, fails>>

WaitGivesUp ==
  /\ task.pc = "waiting"
  /\ task' = AtRest
  /\ UNCHANGED <<anthropic, device, reader, todo, paused, history, fails>>

\* "other" names another state and goes no further than this process.  The
\* user approves with an account of their choice.
WaitTakesCode ==
  /\ task.pc = "waiting"
  /\ \/ /\ task.code = "own"
        /\ \E a \in Accounts, g \in Grants \ Issued :
             /\ grants' = [grants EXCEPT ![g].acct = a]
             /\ task' = [pc |-> "saveToken", acct |-> a, grant |-> g, code |-> None]
        /\ UNCHANGED fails
     \/ task.code \in {"other", "stale"} /\ task' = AtRest /\ UNCHANGED <<grants, fails>>
     \/ task.code = "own" /\ Fails /\ task' = AtRest /\ UNCHANGED grants
  /\ UNCHANGED <<planNow, plans, device, reader, todo, paused, history>>

(***************************************************************************)
(* LinkClaude: the token, the row, then a read at once.                    *)
(***************************************************************************)
\* Mutant: a token that could not be stored does not end the sign-in.
LinkTokenUnchecked ==
  /\ task.pc = "saveToken"
  /\ \/ /\ SaveTokens(task.acct, [grant |-> task.grant, gen |-> 0, fresh |-> TRUE])
        /\ UNCHANGED fails
     \/ Fails /\ UNCHANGED tokens
  /\ task' = [task EXCEPT !.pc = "saveRow", !.grant = None]
  /\ UNCHANGED <<anthropic, rows, reader, todo, paused, history>>

LinkToken ==
  /\ task.pc = "saveToken"
  /\ \/ /\ SaveTokens(task.acct, [grant |-> task.grant, gen |-> 0, fresh |-> TRUE])
        /\ task' = [task EXCEPT !.pc = "saveRow", !.grant = None]
        /\ UNCHANGED fails
     \/ Fails /\ task' = AtRest /\ UNCHANGED tokens
  /\ UNCHANGED <<anthropic, rows, reader, todo, paused, history>>

LinkRow ==
  LET a == task.acct
  IN  /\ task.pc = "saveRow"
      /\ \/ /\ UpsertRow(a, Profile(a))
            /\ reader' = [reader EXCEPT !["task"].pc = "secret", !["task"].acct = a,
                                        !["task"].plan = Profile(a)]
            /\ task' = [task EXCEPT !.pc = "read"]
            /\ halves' = halves \ {a}
            /\ UNCHANGED fails
         \/ Fails /\ task' = AtRest /\ halves' = halves \cup {a} /\ UNCHANGED <<rows, reader>>
      /\ UNCHANGED <<anthropic, tokens, todo, paused, lost>>

LinkDone ==
  /\ task.pc = "read"
  /\ reader["task"].pc = "idle"
  /\ task' = AtRest
  /\ UNCHANGED <<anthropic, device, reader, todo, paused, history, fails>>

(***************************************************************************)
(* UnlinkClaude: the token, then the row.                                  *)
(***************************************************************************)
\* A read that has its token may still store the renewed one, or the row.
MidRead(a) == \E r \in Readers : reader[r].acct = a /\ reader[r].pc # "secret"

Unlink ==
  /\ task.pc = "idle"
  /\ \E a \in Accounts : rows[a] # None /\ task' = [task EXCEPT !.pc = "drop", !.acct = a]
  /\ UNCHANGED <<anthropic, device, reader, todo, paused, history, fails>>

UnlinkToken ==
  LET a == task.acct
  IN  /\ task.pc = "drop"
      /\ \/ /\ DropTokens(a)
            /\ task' = [task EXCEPT !.pc = "dropRow"]
            /\ halves' = IF MidRead(a) THEN halves \cup {a} ELSE halves
            /\ UNCHANGED fails
         \/ Fails /\ task' = AtRest /\ UNCHANGED <<tokens, halves>>
      /\ UNCHANGED <<anthropic, rows, reader, todo, paused, lost>>

UnlinkRow ==
  LET a == task.acct
  IN  /\ task.pc = "dropRow"
      /\ \/ DropRow(a) /\ UNCHANGED <<halves, fails>>
         \/ Fails /\ halves' = halves \cup {a} /\ UNCHANGED rows
      /\ task' = AtRest
      /\ UNCHANGED <<anthropic, tokens, reader, todo, paused, lost>>

-----------------------------------------------------------------------------
(***************************************************************************)
(* The world around: access tokens run out, plans change, processes stop.  *)
(***************************************************************************)
TokenExpires ==
  /\ \E a \in Accounts : tokens[a].fresh /\ tokens' = [tokens EXCEPT ![a].fresh = FALSE]
  /\ UNCHANGED <<anthropic, rows, reader, todo, task, paused, history, fails>>

PlanChanges ==
  /\ plans < MaxPlans
  /\ plans' = plans + 1
  /\ \E a \in Accounts, p \in Plans : planNow' = [planNow EXCEPT ![a] = p]
  /\ UNCHANGED <<grants, device, reader, todo, task, paused, history, fails>>

\* A renewed token that was not stored yet goes with its process.
Unsaved(r) == {g \in Grants : reader[r].pc = "save" /\ reader[r].tok.grant = g}

\* The app restarts with no pause to remember.
LoopCrash ==
  /\ Fails
  /\ Stop("loop")
  /\ todo' = {} /\ paused' = {}
  /\ lost' = lost \cup Unsaved("loop")
  /\ UNCHANGED <<anthropic, device, task, halves>>

\* The app or the command that was signing in or out stops.
TaskCrash ==
  /\ task.pc # "idle"
  /\ Fails
  /\ task' = AtRest
  /\ Stop("task")
  /\ lost' = lost \cup Unsaved("task")
  /\ halves' = IF task.pc \in {"saveRow", "dropRow"} THEN halves \cup {task.acct} ELSE halves
  /\ UNCHANGED <<anthropic, device, todo, paused>>

-----------------------------------------------------------------------------
Loop == RoundStarts \/ NextLogin \/ ProbeLogin("loop")
Link == StartLogin \/ Submit \/ WaitGivesUp \/ WaitTakesCode
        \/ LinkToken \/ LinkRow \/ ProbeLogin("task") \/ LinkDone
SignOut == Unlink \/ UnlinkToken \/ UnlinkRow
World == TokenExpires \/ PlanChanges \/ PauseOver \/ LoopCrash \/ TaskCrash

Next == Loop \/ Link \/ SignOut \/ World

Spec == Init /\ [][Next]_vars

\* The loop runs on a ticker, every wait in it has a timeout, and a pause
\* ends with the clock.
Fairness == WF_vars(Loop) /\ WF_vars(PauseOver)

FairSpec == Spec /\ Fairness

-----------------------------------------------------------------------------
\* probeLogin: "The old refresh token is spent, so the new one is kept".  A
\* stored token is the one Anthropic accepts, unless its successor is about
\* to be stored or was lost on the way: two reads of one account, and a
\* sign-in that replaces it, never leave an older token behind.
StoredTokenWorks ==
  \A a \in Accounts :
    LET tok == tokens[a]
    IN  \/ tok = NoToken
        \/ tok.gen = grants[tok.grant].gen
        \/ tok.grant \in lost
        \/ \E r \in Readers : /\ reader[r].pc = "save"
                              /\ reader[r].acct = a
                              /\ reader[r].tok.grant = tok.grant

\* LinkClaude and UnlinkClaude: outside of them an account has both its
\* token and its row or neither, unless one of them was cut short or a read
\* that already had the token crossed the sign-out.  In particular a read of
\* a round that began before the sign-out brings nothing back by itself.
TokenAndRow ==
  \A a \in Accounts \ halves :
    task.acct # a \/ task.pc = "saveToken" \/ task.pc = "read"
      => (tokens[a] = NoToken <=> rows[a] = None)

\* UnlinkClaude "forgets a sign-in": once it is done without an error, the
\* account's token is gone from the credential store.
UnlinkForgets ==
  [][UnlinkRow /\ fails' = fails => tokens[task.acct] = NoToken]_vars

Renewable(a) == tokens[a] # NoToken /\ tokens[a].gen = grants[tokens[a].grant].gen

\* The round covers a through Claude Code's own sign-in, or reads it.
Covers(a) == RoundStarts /\ rows[a] # None /\ \A row \in todo' : row.acct # a
Reads(a) == UsageRead("loop") /\ reader["loop"].acct = a /\ fails' = fails

\* probeUsage: a sign-in that stays in the list with a token Anthropic
\* accepts is read again and again, whatever becomes of the other ones.
SignInsAreRead ==
  \A a \in Accounts :
    <>[](rows[a] # None /\ Renewable(a) /\ task.acct # a) => []<><<Covers(a) \/ Reads(a)>>_vars
=============================================================================
