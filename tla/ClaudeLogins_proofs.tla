------------------------- MODULE ClaudeLogins_proofs -------------------------
(***************************************************************************)
(* Proofs about the Claude sign-ins: that the token in the credential      *)
(* store keeps up with Anthropic's renewals, and that a sign-in is there   *)
(* whole or not at all, for any number of accounts, sign-ins and renewals. *)
(***************************************************************************)
EXTENDS ClaudeLogins, TLAPS

\* The user's sign-in or sign-out, which knows its account once it has one.
Task == [pc : {"idle", "waiting", "saveToken", "saveRow", "read", "drop", "dropRow"},
         acct : Accounts \cup {None}, grant : Grants \cup {None}, code : Codes \cup {None}]

\* A read under way knows its account, and the one that follows a sign-in is
\* that sign-in's.
LoginsTyped ==
  /\ TypeOK
  /\ task \in Task
  /\ task.acct = None <=> task.pc \in {"idle", "waiting"}
  /\ task.pc = "saveToken" => task.grant \in Grants
  /\ \A r \in Readers : reader[r].pc # "idle" => reader[r].acct \in Accounts
  /\ reader["task"].pc # "idle" => task.pc = "read" /\ reader["task"].acct = task.acct

\* A token is of a sign-in Anthropic approved for that account, and is at
\* most as new as Anthropic's own.
Genuine(tok, a) ==
  tok # NoToken => /\ grants[tok.grant].acct = a
                   /\ tok.gen <= grants[tok.grant].gen

TokensGenuine ==
  /\ \A a \in Accounts : Genuine(tokens[a], a)
  /\ \A r \in Readers : Genuine(reader[r].tok, reader[r].acct)

\* A sign-in Anthropic has just approved has no token yet.
Unused(g) ==
  /\ \A a \in Accounts : tokens[a].grant # g
  /\ \A r \in Readers : reader[r].tok.grant # g

FreshSignIn ==
  /\ \A g \in Grants : grants[g].acct = None => grants[g].gen = 0
  /\ task.pc = "saveToken" => /\ grants[task.grant] = [acct |-> task.acct, gen |-> 0]
                              /\ Unused(task.grant)

\* The strengthening of StoredTokenWorks: a read about to store a renewed
\* token has the one Anthropic accepts, and if that can be replaced once more
\* no other read and no entry of the store has it as well.
Newest(tok, g) == tok.grant = g /\ tok.gen = grants[g].gen

RenewedIsNewest ==
  \A r \in Readers :
    reader[r].pc = "save" =>
      LET g == reader[r].tok.grant
      IN  /\ Newest(reader[r].tok, g)
          /\ g \in Rotating /\ grants[g].gen < MaxRenewals =>
               /\ \A q \in Readers \ {r} : ~Newest(reader[q].tok, g)
               /\ \A a \in Accounts : ~Newest(tokens[a], g)

\* The strengthening of TokenAndRow: a read past the store's entry, and a
\* sign-in about to store its row, have a token beside them, a sign-out about
\* to delete the row has none.
Kept ==
  /\ \A r \in Readers : reader[r].pc \in {"renew", "save", "usage"} /\ reader[r].acct \notin halves
       => tokens[reader[r].acct] # NoToken
  /\ task.pc = "saveRow" => tokens[task.acct] # NoToken
  /\ task.pc = "dropRow" /\ task.acct \notin halves => tokens[task.acct] = NoToken
  /\ \A a \in Accounts \ halves :
       ~(task.acct = a /\ task.pc \in {"saveRow", "dropRow"})
         => (tokens[a] = NoToken <=> rows[a] = None)

LInv == LoginsTyped /\ TokensGenuine /\ FreshSignIn /\ RenewedIsNewest /\ StoredTokenWorks /\ Kept

-----------------------------------------------------------------------------
(***************************************************************************)
(* What a step makes of the reads and of the credential store.             *)
(***************************************************************************)
\* Read r becomes x and the other one is left alone.
Moved(r, x) ==
  /\ x \in Reading /\ reader' \in [Readers -> Reading]
  /\ reader'[r] = x
  /\ \A q \in Readers \ {r} : reader'[q] = reader[q]

\* The bounds are numbers, and None is no account, sign-in or plan.
LEMMA LoginBounds ==
  /\ MaxRenewals \in Nat /\ MaxFails \in Nat /\ MaxPlans \in Nat
  /\ None \notin Accounts /\ None \notin Grants /\ None \notin Plans
  /\ Rotating \subseteq Grants
BY LoginConstants

\* A token is not a missing one.
LEMMA TokenIsOne == \A tok \in Token : tok # NoToken /\ tok.grant \in Grants /\ tok.gen \in 0..MaxRenewals
BY LoginBounds DEF Token, NoToken

\* No read under way is a well typed one.
LEMMA IdleReading ==
  NotReading \in Reading /\ NotReading.pc = "idle" /\ NotReading.acct = None /\ NotReading.tok = NoToken
BY DEF NotReading, Reading

\* A read becoming any well typed one leaves the reads typed.
LEMMA Becomes ==
  ASSUME TypeOK, NEW r \in Readers, NEW x \in Reading, reader' = [reader EXCEPT ![r] = x]
  PROVE  Moved(r, x)
BY DEF TypeOK, Moved

\* A read that stops.
LEMMA Stops ==
  ASSUME TypeOK, NEW r \in Readers, Stop(r)
  PROVE  Moved(r, NotReading)
BY Becomes, IdleReading DEF Stop

\* A read that is past its token.
LEMMA Steps ==
  ASSUME TypeOK, NEW r \in Readers, Step(r, "usage")
  PROVE  \E x : Moved(r, x) /\ x.pc = "usage" /\ x.acct = reader[r].acct /\ x.tok = NoToken
<1> DEFINE x == [reader[r] EXCEPT !.pc = "usage", !.tok = NoToken]
<1>1. reader[r] \in Reading
  BY DEF TypeOK
<1>2. x \in Reading /\ x.pc = "usage" /\ x.acct = reader[r].acct /\ x.tok = NoToken
  BY <1>1 DEF Reading
<1>3. reader' = [reader EXCEPT ![r] = x]
  BY <1>1 DEF Step, TypeOK, Reading
<1> HIDE DEF x
<1> QED BY <1>2, <1>3, Becomes

\* A read that goes on with a token.
Carry(r, tok, pc) == reader' = [reader EXCEPT ![r].tok = tok, ![r].pc = pc]

LEMMA Carries ==
  ASSUME TypeOK, NEW r \in Readers, NEW tok \in Token, NEW pc \in {"renew", "save"}, Carry(r, tok, pc)
  PROVE  \E x : Moved(r, x) /\ x.pc = pc /\ x.acct = reader[r].acct /\ x.tok = tok
<1> DEFINE x == [reader[r] EXCEPT !.tok = tok, !.pc = pc]
<1>1. reader[r] \in Reading
  BY DEF TypeOK
<1>2. x \in Reading /\ x.pc = pc /\ x.acct = reader[r].acct /\ x.tok = tok
  BY <1>1 DEF Reading
<1>3. reader' = [reader EXCEPT ![r] = x]
  BY <1>1 DEF Carry, TypeOK, Reading
<1> HIDE DEF x
<1> QED BY <1>2, <1>3, Becomes

\* A read that begins.
Begun(r, a, p) == reader' = [reader EXCEPT ![r].pc = "secret", ![r].acct = a, ![r].plan = p]

LEMMA Begins ==
  ASSUME TypeOK, NEW r \in Readers, NEW a \in Accounts, NEW p \in Plans, Begun(r, a, p)
  PROVE  \E x : Moved(r, x) /\ x.pc = "secret" /\ x.acct = a /\ x.tok = reader[r].tok
<1> DEFINE x == [reader[r] EXCEPT !.pc = "secret", !.acct = a, !.plan = p]
<1>1. reader[r] \in Reading
  BY DEF TypeOK
<1>2. x \in Reading /\ x.pc = "secret" /\ x.acct = a /\ x.tok = reader[r].tok
  BY <1>1 DEF Reading
<1>3. reader' = [reader EXCEPT ![r] = x]
  BY <1>1 DEF Begun, TypeOK, Reading
<1> HIDE DEF x
<1> QED BY <1>2, <1>3, Becomes

\* What a renewal answers with: the same sign-in's next token if it rotates,
\* its token if not.
LEMMA RenewedToken ==
  ASSUME NEW tok \in Token, NEW renewed,
         renewed = [tok EXCEPT !.gen = IF tok.grant \in Rotating /\ tok.gen < MaxRenewals THEN @ + 1 ELSE @,
                               !.fresh = TRUE]
  PROVE  /\ renewed \in Token /\ renewed.grant = tok.grant
         /\ IF tok.grant \in Rotating /\ tok.gen < MaxRenewals
            THEN renewed.gen = tok.gen + 1 ELSE renewed.gen = tok.gen
<1> DEFINE n == IF tok.grant \in Rotating /\ tok.gen < MaxRenewals THEN tok.gen + 1 ELSE tok.gen
<1>1. n \in 0..MaxRenewals
  BY LoginBounds DEF Token
<1>2. renewed = [tok EXCEPT !.gen = n, !.fresh = TRUE]
  BY DEF Token
<1>3. IF tok.grant \in Rotating /\ tok.gen < MaxRenewals THEN n = tok.gen + 1 ELSE n = tok.gen
  OBVIOUS
<1> HIDE DEF n
<1> QED BY <1>1, <1>2, <1>3 DEF Token

\* A read may become anything typed that knows its account.
LEMMA ReadTyped ==
  ASSUME LoginsTyped, NEW r \in Readers, NEW x, Moved(r, x),
         x.pc # "idle" => x.acct \in Accounts,
         x.pc \in {"renew", "save"} <=> x.tok # NoToken,
         r = "task" /\ x.pc # "idle" => task'.pc = "read" /\ x.acct = task'.acct,
         r # "task" => task' = task
  PROVE  /\ reader' \in [Readers -> Reading]
         /\ \A q \in Readers : reader'[q].pc \in {"renew", "save"} <=> reader'[q].tok # NoToken
         /\ \A q \in Readers : reader'[q].pc # "idle" => reader'[q].acct \in Accounts
         /\ reader'["task"].pc # "idle" => task'.pc = "read" /\ reader'["task"].acct = task'.acct
BY DEF LoginsTyped, TypeOK, Moved, Readers

\* The types hold before the first sign-in.
LEMMA InitTyped == Init => LoginsTyped
<1> SUFFICES ASSUME Init PROVE LoginsTyped
  OBVIOUS
<1> USE LoginBounds
<1>1. 0 \in 0..MaxRenewals /\ 0 \in 0..MaxFails /\ 0 \in 0..MaxPlans
  OBVIOUS
<1>2. TypeOK
  BY <1>1, IdleReading DEF Init, TypeOK, AtRest, Readers
<1> QED BY <1>2, IdleReading DEF Init, LoginsTyped, Task, AtRest, Readers

\* Every step keeps the types.
LEMMA NextTyped == LoginsTyped /\ [Next]_vars => LoginsTyped'
<1> SUFFICES ASSUME LoginsTyped, [Next]_vars PROVE LoginsTyped'
  OBVIOUS
<1> USE LoginBounds DEF anthropic, device, history
<1>0. TypeOK
  BY DEF LoginsTyped
<1>f. ASSUME Fails PROVE fails' \in 0..MaxFails
  BY <1>0, <1>f DEF Fails, TypeOK
<1>1. CASE RoundStarts
  BY <1>1 DEF LoginsTyped, TypeOK, RoundStarts, Listed
<1>2. CASE NextLogin
  <2>1. PICK row \in todo :
          /\ todo' = todo \ {row}
          /\ reader' = IF row.acct \in paused THEN reader
                       ELSE [reader EXCEPT !["loop"].pc = "secret", !["loop"].acct = row.acct,
                                           !["loop"].plan = row.plan]
    BY Zenon, <1>2 DEF NextLogin
  <2>2. row.acct \in Accounts /\ row.plan \in Plans
    BY <1>0, <2>1 DEF TypeOK, Row
  <2>3. CASE reader' = reader
    BY <1>2, <2>1, <2>3 DEF LoginsTyped, TypeOK, NextLogin
  <2>4. CASE reader' # reader
    <3>1. PICK x : Moved("loop", x) /\ x.pc = "secret" /\ x.acct = row.acct /\ x.tok = reader["loop"].tok
      <4>1. Begun("loop", row.acct, row.plan)
        BY <2>1, <2>4 DEF Begun
      <4> QED BY <1>0, <2>2, <4>1, Begins DEF Readers
    <3>2. x.tok = NoToken
      BY <1>0, <1>2, <3>1 DEF TypeOK, NextLogin, Readers
    <3> QED BY <1>2, <2>1, <2>2, <3>1, <3>2, ReadTyped DEF LoginsTyped, TypeOK, NextLogin, Readers
  <2> QED BY <2>3, <2>4
<1>3. ASSUME NEW r \in Readers, ReadSecret(r) PROVE LoginsTyped'
  <2>1. reader[r].acct \in Accounts /\ tokens[reader[r].acct] \in Token \cup {NoToken}
    BY <1>3 DEF ReadSecret, LoginsTyped, TypeOK
  <2>2. \E x : /\ Moved(r, x)
               /\ x.pc # "idle" => x.pc \in {"usage", "renew"} /\ x.acct = reader[r].acct
               /\ x.pc \in {"renew", "save"} <=> x.tok # NoToken
    <3> DEFINE tok == tokens[reader[r].acct]
    <3>1. CASE Stop(r)
      BY <1>0, <3>1, Stops, IdleReading
    <3>2. CASE Step(r, "usage")
      BY <1>0, <3>2, Steps
    <3>3. CASE tok # NoToken /\ reader' = [reader EXCEPT ![r].tok = tok, ![r].pc = "renew"]
      <4>1. tok \in Token
        BY <2>1, <3>3
      <4> HIDE DEF tok
      <4>2. PICK x : Moved(r, x) /\ x.pc = "renew" /\ x.acct = reader[r].acct /\ x.tok = tok
        <5>1. Carry(r, tok, "renew")
          BY <3>3 DEF Carry
        <5> QED BY <1>0, <4>1, <5>1, Carries
      <4> QED BY <3>3, <4>2
    <3> QED BY <1>3, <3>1, <3>2, <3>3 DEF ReadSecret, StoredToken
  <2>3. r = "task" => task.pc = "read" /\ reader[r].acct = task.acct
    BY <1>3 DEF ReadSecret, LoginsTyped
  <2>4. fails' \in 0..MaxFails
    BY <1>0, <1>3, <1>f DEF ReadSecret, TypeOK
  <2>5. UNCHANGED <<grants, planNow, plans, tokens, rows, todo, task, paused, lost, halves>>
    BY <1>3 DEF ReadSecret
  <2> QED BY <2>1, <2>2, <2>3, <2>4, <2>5, ReadTyped DEF LoginsTyped, TypeOK
<1>4. ASSUME NEW r \in Readers, Renew(r) PROVE LoginsTyped'
  <2>1. reader[r].acct \in Accounts /\ reader[r].tok \in Token
    BY <1>4 DEF Renew, LoginsTyped, TypeOK, Reading
  <2> DEFINE tok == reader[r].tok
             g == tok.grant
             rotates == g \in Rotating /\ tok.gen < MaxRenewals
             renewed == [tok EXCEPT !.gen = IF rotates THEN @ + 1 ELSE @, !.fresh = TRUE]
  <2>2. renewed \in Token /\ renewed.gen \in 0..MaxRenewals /\ g \in Grants
    BY Zenon, <2>1, RenewedToken, TokenIsOne
  <2>3. \E x : /\ Moved(r, x)
               /\ x.pc # "idle" => x.acct = reader[r].acct
               /\ x.pc \in {"renew", "save"} <=> x.tok # NoToken
    <3>1. CASE Stop(r)
      BY <1>0, <3>1, Stops, IdleReading
    <3>2. CASE reader' = [reader EXCEPT ![r].tok = renewed, ![r].pc = "save"]
      <4> HIDE DEF renewed
      <4>1. PICK x : Moved(r, x) /\ x.pc = "save" /\ x.acct = reader[r].acct /\ x.tok = renewed
        <5>1. Carry(r, renewed, "save")
          BY <3>2 DEF Carry
        <5> QED BY <1>0, <2>2, <5>1, Carries
      <4> QED BY <2>2, <4>1, TokenIsOne
    <3> QED BY <1>4, <3>1, <3>2 DEF Renew
  <2>4. grants' = grants \/ grants' = [grants EXCEPT ![g].gen = renewed.gen]
    BY <1>4 DEF Renew
  <2>5. grants' \in [Grants -> [acct : Accounts \cup {None}, gen : 0..MaxRenewals]]
    BY <1>0, <2>2, <2>4 DEF TypeOK
  <2>6. lost' \subseteq Grants
    BY <1>0, <1>4, <2>2 DEF Renew, TypeOK
  <2>7. fails' \in 0..MaxFails
    BY <1>0, <1>4, <1>f DEF Renew, TypeOK
  <2>8. UNCHANGED <<planNow, plans, tokens, rows, todo, task, paused, halves>>
    BY <1>4 DEF Renew
  <2>9. r = "task" => task.pc = "read" /\ reader[r].acct = task.acct
    BY <1>4 DEF Renew, LoginsTyped
  <2> HIDE DEF tok, g, rotates, renewed
  <2> QED BY <2>1, <2>3, <2>5, <2>6, <2>7, <2>8, <2>9, ReadTyped DEF LoginsTyped, TypeOK
<1>5. ASSUME NEW r \in Readers, SaveRenewed(r) PROVE LoginsTyped'
  <2>1. reader[r].acct \in Accounts /\ reader[r].tok \in Token /\ reader[r].tok.grant \in Grants
    BY <1>5, TokenIsOne DEF SaveRenewed, LoginsTyped, TypeOK, Reading
  <2>2. \E x : /\ Moved(r, x)
               /\ x.pc # "idle" => x.acct = reader[r].acct
               /\ x.pc \in {"renew", "save"} <=> x.tok # NoToken
    <3>1. CASE Stop(r)
      BY <1>0, <3>1, Stops, IdleReading
    <3>2. CASE Step(r, "usage")
      BY <1>0, <3>2, Steps
    <3> QED BY <1>5, <3>1, <3>2 DEF SaveRenewed
  <2>3. tokens' \in [Accounts -> Token \cup {NoToken}]
    BY <1>0, <1>5, <2>1 DEF SaveRenewed, SaveTokens, TypeOK
  <2>4. lost' \subseteq Grants
    BY <1>0, <1>5, <2>1 DEF SaveRenewed, TypeOK
  <2>5. fails' \in 0..MaxFails
    BY <1>0, <1>5, <1>f DEF SaveRenewed, TypeOK
  <2>6. UNCHANGED <<grants, planNow, plans, rows, todo, task, paused, halves>>
    BY <1>5 DEF SaveRenewed
  <2>7. r = "task" => task.pc = "read" /\ reader[r].acct = task.acct
    BY <1>5 DEF SaveRenewed, LoginsTyped
  <2> QED BY <2>1, <2>2, <2>3, <2>4, <2>5, <2>6, <2>7, ReadTyped DEF LoginsTyped, TypeOK
<1>6. ASSUME NEW r \in Readers, UsageRead(r) \/ UsageUnread(r) PROVE LoginsTyped'
  <2>1. reader[r].acct \in Accounts
    BY <1>6 DEF UsageRead, UsageUnread, LoginsTyped
  <2>2. Moved(r, NotReading)
    BY <1>0, <1>6, Stops DEF UsageRead, UsageUnread
  <2>3. rows' \in [Accounts -> Plans \cup {None}]
    BY <1>0, <1>6, <2>1 DEF UsageRead, UsageUnread, UpsertRow, Profile, TypeOK
  <2>4. paused' \subseteq Accounts
    BY <1>0, <1>6, <2>1 DEF UsageRead, UsageUnread, TypeOK
  <2>5. fails' \in 0..MaxFails
    BY <1>0, <1>6, <1>f DEF UsageRead, UsageUnread, TypeOK
  <2>6. UNCHANGED <<grants, planNow, plans, tokens, todo, task, lost, halves>>
    BY <1>6 DEF UsageRead, UsageUnread
  <2> QED BY <2>2, <2>3, <2>4, <2>5, <2>6, ReadTyped, IdleReading DEF LoginsTyped, TypeOK
<1>7. CASE StartLogin \/ Submit \/ WaitGivesUp \/ Unlink
  <2>0. /\ task.pc \in {"idle", "waiting"} /\ task.acct = None
        /\ task.grant \in Grants \cup {None} /\ task.code \in Codes \cup {None}
        /\ task = [pc |-> task.pc, acct |-> task.acct, grant |-> task.grant, code |-> task.code]
    BY Zenon, <1>7 DEF StartLogin, Submit, WaitGivesUp, Unlink, LoginsTyped, Task
  <2>1. /\ task' \in Task
        /\ task'.pc \in {"idle", "waiting", "drop"}
        /\ task'.acct = None <=> task'.pc \in {"idle", "waiting"}
    <3>1. CASE StartLogin
      BY <2>0, <3>1 DEF StartLogin, Task
    <3>2. CASE Submit
      BY <2>0, <3>2 DEF Submit, Task
    <3>3. CASE WaitGivesUp
      BY <3>3 DEF WaitGivesUp, Task, AtRest
    <3>4. CASE Unlink
      BY <2>0, <3>4 DEF Unlink, Task
    <3> QED BY <1>7, <3>1, <3>2, <3>3, <3>4
  <2>2. task.pc # "read"
    BY <2>0
  <2>3. UNCHANGED <<grants, planNow, plans, tokens, rows, reader, todo, paused, lost, halves, fails>>
    BY Zenon, <1>7 DEF StartLogin, Submit, WaitGivesUp, Unlink
  <2> QED BY <2>1, <2>2, <2>3 DEF LoginsTyped, TypeOK
<1>8. CASE WaitTakesCode
  <2>1. grants' \in [Grants -> [acct : Accounts \cup {None}, gen : 0..MaxRenewals]]
    BY <1>0, <1>8 DEF WaitTakesCode, TypeOK
  <2>2. /\ task' \in Task /\ task.pc # "read" /\ task'.pc \in {"idle", "saveToken"}
        /\ task'.acct = None <=> task'.pc \in {"idle", "waiting"}
        /\ task'.pc = "saveToken" => task'.grant \in Grants
    BY <1>8 DEF WaitTakesCode, Task, AtRest, Issued
  <2>3. fails' \in 0..MaxFails
    BY <1>0, <1>8, <1>f DEF WaitTakesCode, TypeOK
  <2> QED BY <1>8, <2>1, <2>2, <2>3 DEF WaitTakesCode, LoginsTyped, TypeOK
<1>9. CASE LinkToken
  <2>1. task.acct \in Accounts /\ task.grant \in Grants /\ 0 \in 0..MaxRenewals
    BY <1>9 DEF LinkToken, LoginsTyped, Task
  <2> DEFINE tok == [grant |-> task.grant, gen |-> 0, fresh |-> TRUE]
  <2>a. tok \in Token
    BY <2>1 DEF Token
  <2>2. tokens' \in [Accounts -> Token \cup {NoToken}]
    <3> HIDE DEF tok
    <3>1. tokens' = tokens \/ tokens' = [tokens EXCEPT ![task.acct] = tok]
      BY <1>9 DEF LinkToken, SaveTokens, tok
    <3> QED BY <1>0, <2>a, <3>1 DEF TypeOK
  <2>3. /\ task' \in Task /\ task.pc # "read" /\ task'.pc \in {"idle", "saveRow"}
        /\ task'.acct = None <=> task'.pc \in {"idle", "waiting"}
    <3>1. CASE task' = AtRest
      BY <1>9, <3>1 DEF LinkToken, Task, AtRest
    <3>2. CASE task' = [task EXCEPT !.pc = "saveRow", !.grant = None]
      <4>1. task \in Task
        BY DEF LoginsTyped
      <4> QED BY <1>9, <2>1, <3>2, <4>1 DEF LinkToken, Task
    <3> QED BY <1>9, <3>1, <3>2 DEF LinkToken
  <2>4. fails' \in 0..MaxFails
    BY <1>0, <1>9, <1>f DEF LinkToken, TypeOK
  <2> QED BY <1>9, <2>2, <2>3, <2>4 DEF LinkToken, LoginsTyped, TypeOK
<1>10. CASE LinkRow
  <2>1. task.acct \in Accounts /\ Profile(task.acct) \in Plans
    BY <1>0, <1>10 DEF LinkRow, LoginsTyped, Task, TypeOK, Profile
  <2>2. /\ task' \in Task /\ task'.pc \in {"idle", "read"}
        /\ task'.acct = None <=> task'.pc \in {"idle", "waiting"}
        /\ task'.pc = "read" => task'.acct = task.acct
    BY <1>10 DEF LinkRow, Task, AtRest, LoginsTyped
  <2>3. fails' \in 0..MaxFails
    BY <1>0, <1>10, <1>f DEF LinkRow, TypeOK
  <2>4. rows' \in [Accounts -> Plans \cup {None}] /\ halves' \subseteq Accounts
    BY <1>0, <1>10, <2>1 DEF LinkRow, UpsertRow, TypeOK
  <2>5. reader["task"].pc = "idle" /\ reader["task"].tok = NoToken
    BY <1>10 DEF LinkRow, LoginsTyped, TypeOK, Readers
  <2>6. UNCHANGED <<grants, planNow, plans, tokens, todo, paused, lost>>
    BY <1>10 DEF LinkRow
  <2>7. CASE reader' = reader
    BY <1>10, <2>2, <2>3, <2>4, <2>5, <2>6, <2>7 DEF LoginsTyped, TypeOK
  <2>8. CASE reader' # reader
    <3>1. PICK x : Moved("task", x) /\ x.pc = "secret" /\ x.acct = task.acct /\ x.tok = NoToken
      <4>1. "task" \in Readers
        BY DEF Readers
      <4>2. Begun("task", task.acct, Profile(task.acct))
        BY <1>10, <2>8 DEF LinkRow, Begun
      <4> QED BY <1>0, <2>1, <2>5, <4>1, <4>2, Begins
    <3>2. task'.pc = "read"
      BY <1>10, <2>8 DEF LinkRow, LoginsTyped, Task
    <3> QED BY <2>1, <2>2, <2>3, <2>4, <2>6, <3>1, <3>2, ReadTyped DEF LoginsTyped, TypeOK, Readers
  <2> QED BY <2>7, <2>8
<1>11. CASE LinkDone
  BY <1>11 DEF LinkDone, LoginsTyped, TypeOK, Task, AtRest
<1>12. CASE UnlinkToken \/ UnlinkRow
  <2>1. task.acct \in Accounts
    BY <1>12 DEF UnlinkToken, UnlinkRow, LoginsTyped, Task
  <2>2. tokens' \in [Accounts -> Token \cup {NoToken}] /\ rows' \in [Accounts -> Plans \cup {None}]
    BY <1>0, <1>12 DEF UnlinkToken, UnlinkRow, DropTokens, DropRow, TypeOK
  <2>3. /\ task' \in Task /\ task.pc # "read" /\ task'.pc \in {"idle", "dropRow"}
        /\ task'.acct = None <=> task'.pc \in {"idle", "waiting"}
    BY <1>12 DEF UnlinkToken, UnlinkRow, Task, AtRest, LoginsTyped
  <2>4. fails' \in 0..MaxFails /\ halves' \subseteq Accounts
    BY <1>0, <1>12, <1>f, <2>1 DEF UnlinkToken, UnlinkRow, TypeOK
  <2>5. UNCHANGED <<grants, planNow, plans, reader, todo, paused, lost>>
    BY <1>12 DEF UnlinkToken, UnlinkRow
  <2> QED BY <2>2, <2>3, <2>4, <2>5 DEF LoginsTyped, TypeOK
<1>13. CASE TokenExpires
  <2>1. PICK a \in Accounts : tokens[a].fresh /\ tokens' = [tokens EXCEPT ![a].fresh = FALSE]
    BY <1>13 DEF TokenExpires
  <2>2. tokens[a] \in Token
    BY <1>0, <2>1 DEF TypeOK, NoToken
  <2>3. tokens' \in [Accounts -> Token \cup {NoToken}]
    BY <1>0, <2>1, <2>2 DEF TypeOK, Token
  <2> QED BY <1>13, <2>3 DEF TokenExpires, LoginsTyped, TypeOK
<1>14. CASE PlanChanges \/ PauseOver
  BY <1>14 DEF PlanChanges, PauseOver, LoginsTyped, TypeOK
<1>15. CASE LoopCrash
  <2>1. Moved("loop", NotReading)
    BY <1>0, <1>15, Stops DEF LoopCrash, Readers
  <2>2. fails' \in 0..MaxFails /\ lost' \subseteq Grants
    BY <1>0, <1>15, <1>f DEF LoopCrash, TypeOK, Unsaved
  <2> QED BY <1>15, <2>1, <2>2, ReadTyped, IdleReading DEF LoopCrash, LoginsTyped, TypeOK, Readers
<1>16. CASE TaskCrash
  <2>1. Moved("task", NotReading)
    BY <1>0, <1>16, Stops DEF TaskCrash, Readers
  <2>2. fails' \in 0..MaxFails /\ lost' \subseteq Grants
    BY <1>0, <1>16, <1>f DEF TaskCrash, TypeOK, Unsaved
  <2>3. halves' \subseteq Accounts
    BY <1>0, <1>16 DEF TaskCrash, TypeOK, LoginsTyped, Task
  <2>4. task' \in Task /\ task'.pc = "idle" /\ task'.acct = None
    BY <1>16 DEF TaskCrash, AtRest, Task
  <2>5. /\ reader' \in [Readers -> Reading]
        /\ \A q \in Readers : reader'[q].pc \in {"renew", "save"} <=> reader'[q].tok # NoToken
        /\ \A q \in Readers : reader'[q].pc # "idle" => reader'[q].acct \in Accounts
        /\ reader'["task"].pc # "idle" => task'.pc = "read" /\ reader'["task"].acct = task'.acct
    BY <2>1, ReadTyped, IdleReading DEF Readers
  <2> QED BY <1>16, <2>2, <2>3, <2>4, <2>5 DEF TaskCrash, LoginsTyped, TypeOK
<1>17. CASE UNCHANGED vars
  BY <1>17 DEF vars, LoginsTyped, TypeOK
<1> QED
  BY <1>1, <1>2, <1>3, <1>4, <1>5, <1>6, <1>7, <1>8, <1>9, <1>10, <1>11, <1>12, <1>13, <1>14, <1>15,
     <1>16, <1>17 DEF Next, Loop, Link, SignOut, World, ProbeLogin, Readers

-----------------------------------------------------------------------------
(***************************************************************************)
(* What becomes of the tokens.  A step hands out none; or it reads one,    *)
(* renews one, stores a renewed one, has a sign-in approved or stores the  *)
(* sign-in's first token.                                                  *)
(***************************************************************************)
\* Nothing new: entries of the store are dropped or age, reads stop or are
\* done with their token, one about to be stored being lost then.
HandsOutNone ==
  /\ grants' = grants /\ lost \subseteq lost'
  /\ \A a \in Accounts :
       tokens'[a] # NoToken => /\ tokens[a] # NoToken
                               /\ tokens'[a].grant = tokens[a].grant /\ tokens'[a].gen = tokens[a].gen
  /\ \A q \in Readers :
       reader'[q] # reader[q] => /\ reader'[q].tok = NoToken /\ reader'[q].pc # "save"
                                 /\ reader[q].pc = "save" => reader[q].tok.grant \in lost'
  /\ task'.pc = "saveToken" => task' = task

\* Read r alone goes on, with the account it is of.
GoesOn(r, pc) ==
  /\ reader'[r].pc = pc /\ reader'[r].acct = reader[r].acct
  /\ \A q \in Readers \ {r} : reader'[q] = reader[q]

\* It has read its account's token.
ReadsOne(r) ==
  /\ UNCHANGED <<grants, tokens, task, lost>>
  /\ reader[r].pc = "secret" /\ GoesOn(r, "renew")
  /\ reader'[r].tok = tokens[reader[r].acct]

\* Renewing the token replaces it.
Rotates(tok) == tok.grant \in Rotating /\ tok.gen < MaxRenewals

\* It has its token renewed, and carries the answer unless it is lost.
RenewsOne(r) ==
  LET tok == reader[r].tok
      n == IF Rotates(tok) THEN tok.gen + 1 ELSE tok.gen
  IN  /\ UNCHANGED <<tokens, task>> /\ lost \subseteq lost'
      /\ reader[r].pc = "renew" /\ tok.gen = grants[tok.grant].gen
      /\ grants'[tok.grant].acct = grants[tok.grant].acct /\ grants'[tok.grant].gen = n
      /\ \A g \in Grants \ {tok.grant} : grants'[g] = grants[g]
      /\ \/ /\ GoesOn(r, "save")
            /\ reader'[r].tok # NoToken
            /\ reader'[r].tok.grant = tok.grant /\ reader'[r].tok.gen = n
         \/ /\ reader'[r].tok = NoToken /\ reader'[r].pc = "idle"
            /\ \A q \in Readers \ {r} : reader'[q] = reader[q]
            /\ Rotates(tok) => tok.grant \in lost'

\* It stores its renewed token.
StoresOne(r) ==
  /\ UNCHANGED <<grants, task, lost>>
  /\ reader[r].pc = "save" /\ GoesOn(r, "usage") /\ reader'[r].tok = NoToken
  /\ tokens' = [tokens EXCEPT ![reader[r].acct] = reader[r].tok]

\* Anthropic approves a new sign-in, which has no token yet.
Approves ==
  /\ UNCHANGED <<tokens, reader, lost>>
  /\ \E a \in Accounts, g \in Grants \ Issued :
       /\ grants' = [grants EXCEPT ![g].acct = a]
       /\ task'.acct = a /\ task'.grant = g

\* The sign-in's first token is stored.
StoresFirst ==
  /\ UNCHANGED <<grants, reader, lost>>
  /\ task.pc = "saveToken" /\ task'.pc = "saveRow"
  /\ tokens' = [tokens EXCEPT ![task.acct] = [grant |-> task.grant, gen |-> 0, fresh |-> TRUE]]

\* Any of these.
TokenStep ==
  \/ HandsOutNone
  \/ \E r \in Readers : ReadsOne(r) \/ RenewsOne(r) \/ StoresOne(r)
  \/ Approves
  \/ StoresFirst

\* Nothing new where the store, Anthropic and the reads are left alone.
LEMMA LeftAlone ==
  ASSUME LoginsTyped, UNCHANGED <<grants, tokens, reader>>, lost' = lost,
         task'.pc = "saveToken" => task' = task
  PROVE  HandsOutNone
BY DEF HandsOutNone

\* A read that stops has a token to lose only when it was about to store it.
LEMMA StopHandsOutNone ==
  ASSUME LoginsTyped, NEW r \in Readers, Moved(r, NotReading), UNCHANGED <<grants, tokens>>, lost \subseteq lost',
         reader[r].pc = "save" => reader[r].tok.grant \in lost',
         task'.pc = "saveToken" => task' = task
  PROVE  HandsOutNone
BY IdleReading DEF HandsOutNone, Moved

\* Every step is one of these.
LEMMA TokenSteps == LoginsTyped /\ [Next]_vars => TokenStep
<1> SUFFICES ASSUME LoginsTyped, [Next]_vars PROVE TokenStep
  OBVIOUS
<1> USE LoginBounds DEF anthropic, device, history, TokenStep
<1>0. TypeOK
  BY DEF LoginsTyped
<1>1. CASE RoundStarts \/ PauseOver \/ PlanChanges \/ UNCHANGED vars
  BY <1>1, LeftAlone DEF RoundStarts, PauseOver, PlanChanges, vars
<1>2. CASE NextLogin
  <2>1. PICK row \in todo :
          reader' = IF row.acct \in paused THEN reader
                    ELSE [reader EXCEPT !["loop"].pc = "secret", !["loop"].acct = row.acct,
                                        !["loop"].plan = row.plan]
    BY Zenon, <1>2 DEF NextLogin
  <2>2. CASE reader' = reader
    BY <1>2, <2>2, LeftAlone DEF NextLogin
  <2>3. CASE reader' # reader
    <3>1. PICK x : Moved("loop", x) /\ x.pc = "secret" /\ x.tok = reader["loop"].tok
      <4>1. row.acct \in Accounts /\ row.plan \in Plans
        BY <1>0, <2>1 DEF TypeOK, Row
      <4>2. Begun("loop", row.acct, row.plan)
        BY <2>1, <2>3 DEF Begun
      <4> QED BY <1>0, <4>1, <4>2, Begins DEF Readers
    <3>2. x.tok = NoToken /\ reader["loop"].pc = "idle"
      BY <1>0, <1>2, <3>1 DEF TypeOK, NextLogin, Readers
    <3> QED BY <1>2, <3>1, <3>2 DEF NextLogin, HandsOutNone, Moved
  <2> QED BY <2>2, <2>3
<1>3. ASSUME NEW r \in Readers, ReadSecret(r) PROVE TokenStep
  <2> DEFINE tok == tokens[reader[r].acct]
  <2>0. reader[r].pc = "secret" /\ UNCHANGED <<grants, tokens, task, lost>>
    BY <1>3 DEF ReadSecret
  <2>1. CASE Stop(r)
    BY <1>0, <2>0, <2>1, Stops, StopHandsOutNone
  <2>2. CASE Step(r, "usage")
    <3>1. PICK x : Moved(r, x) /\ x.pc = "usage" /\ x.acct = reader[r].acct /\ x.tok = NoToken
      BY <1>0, <2>2, Steps
    <3> QED BY <2>0, <3>1 DEF HandsOutNone, Moved
  <2>3. CASE tok # NoToken /\ reader' = [reader EXCEPT ![r].tok = tok, ![r].pc = "renew"]
    <3>1. tok \in Token
      BY <1>0, <1>3, <2>0, <2>3 DEF LoginsTyped, TypeOK
    <3>2. Carry(r, tok, "renew")
      BY <2>3 DEF Carry
    <3> HIDE DEF tok
    <3>3. PICK x : Moved(r, x) /\ x.pc = "renew" /\ x.acct = reader[r].acct /\ x.tok = tok
      BY <1>0, <3>1, <3>2, Carries
    <3>4. ReadsOne(r)
      BY <2>0, <3>3 DEF ReadsOne, GoesOn, Moved, tok
    <3> QED BY <3>4
  <2> QED BY <1>3, <2>1, <2>2, <2>3 DEF ReadSecret, StoredToken
<1>4. ASSUME NEW r \in Readers, Renew(r) PROVE TokenStep
  <2> DEFINE tok == reader[r].tok
             g == tok.grant
             rotates == g \in Rotating /\ tok.gen < MaxRenewals
             renewed == [tok EXCEPT !.gen = IF rotates THEN @ + 1 ELSE @, !.fresh = TRUE]
  <2>0. reader[r].pc = "renew" /\ UNCHANGED <<tokens, task>>
    BY <1>4 DEF Renew
  <2>1. tok \in Token /\ g \in Grants
    BY <2>0, TokenIsOne DEF LoginsTyped, TypeOK, Reading
  <2>2. /\ renewed \in Token /\ renewed # NoToken /\ renewed.grant = g
        /\ renewed.gen = IF Rotates(tok) THEN tok.gen + 1 ELSE tok.gen
    <3>1. /\ renewed \in Token /\ renewed.grant = tok.grant
          /\ IF tok.grant \in Rotating /\ tok.gen < MaxRenewals
             THEN renewed.gen = tok.gen + 1 ELSE renewed.gen = tok.gen
      BY Zenon, <2>1, RenewedToken
    <3> HIDE DEF renewed, tok
    <3> QED BY <3>1, TokenIsOne DEF Rotates
  <2>3. CASE tok.gen # grants[g].gen
    <3>1. Stop(r) /\ UNCHANGED <<grants, lost>>
      BY <1>4, <2>3 DEF Renew
    <3> QED BY <1>0, <2>0, <3>1, Stops, StopHandsOutNone
  <2>4. CASE tok.gen = grants[g].gen
    <3>1. grants' = [grants EXCEPT ![g].gen = renewed.gen]
      BY <1>4, <2>4 DEF Renew
    <3>2. /\ grants'[g].acct = grants[g].acct /\ grants'[g].gen = renewed.gen
          /\ \A h \in Grants \ {g} : grants'[h] = grants[h]
      BY <1>0, <2>1, <3>1 DEF TypeOK
    <3>3. CASE reader' = [reader EXCEPT ![r].tok = renewed, ![r].pc = "save"] /\ lost' = lost
      <4>1. Carry(r, renewed, "save")
        BY <3>3 DEF Carry
      <4> HIDE DEF renewed
      <4>2. PICK x : Moved(r, x) /\ x.pc = "save" /\ x.acct = reader[r].acct /\ x.tok = renewed
        BY <1>0, <2>2, <4>1, Carries
      <4>3. RenewsOne(r)
        BY <2>0, <2>2, <2>4, <3>2, <3>3, <4>2 DEF RenewsOne, GoesOn, Moved
      <4> QED BY <4>3
    <3>4. CASE Stop(r) /\ lost' = IF rotates THEN lost \cup {g} ELSE lost
      <4>1. Moved(r, NotReading)
        BY <1>0, <3>4, Stops
      <4>2. lost \subseteq lost' /\ (Rotates(tok) => g \in lost')
        BY <3>4 DEF Rotates
      <4> HIDE DEF renewed
      <4>3. RenewsOne(r)
        BY <2>0, <2>2, <2>4, <3>2, <4>1, <4>2, IdleReading DEF RenewsOne, Moved
      <4> QED BY <4>3
    <3> QED BY <1>4, <2>4, <3>3, <3>4 DEF Renew
  <2> QED BY <2>3, <2>4
<1>5. ASSUME NEW r \in Readers, SaveRenewed(r) PROVE TokenStep
  <2>0. reader[r].pc = "save" /\ UNCHANGED <<grants, task>>
    BY <1>5 DEF SaveRenewed
  <2>1. CASE Step(r, "usage") /\ SaveTokens(reader[r].acct, reader[r].tok) /\ lost' = lost
    <3>1. PICK x : Moved(r, x) /\ x.pc = "usage" /\ x.acct = reader[r].acct /\ x.tok = NoToken
      BY <1>0, <2>1, Steps
    <3>2. StoresOne(r)
      BY <2>0, <2>1, <3>1 DEF StoresOne, GoesOn, Moved, SaveTokens
    <3> QED BY <3>2
  <2>2. CASE Stop(r) /\ lost' = lost \cup {reader[r].tok.grant} /\ tokens' = tokens
    BY <1>0, <2>0, <2>2, Stops, StopHandsOutNone
  <2> QED BY <1>5, <2>1, <2>2 DEF SaveRenewed
<1>6. ASSUME NEW r \in Readers, UsageRead(r) \/ UsageUnread(r) PROVE TokenStep
  BY <1>0, <1>6, Stops, StopHandsOutNone DEF UsageRead, UsageUnread
<1>7. CASE StartLogin \/ Submit \/ WaitGivesUp \/ Unlink
  <2>1. task'.pc # "saveToken"
    <3>1. task \in Task
      BY DEF LoginsTyped
    <3>2. CASE StartLogin
      BY <3>1, <3>2 DEF StartLogin, Task
    <3>3. CASE Submit
      BY <3>1, <3>3 DEF Submit, Task
    <3>4. CASE WaitGivesUp
      BY <3>4 DEF WaitGivesUp, AtRest
    <3>5. CASE Unlink
      BY <3>1, <3>5 DEF Unlink, Task
    <3> QED BY <1>7, <3>2, <3>3, <3>4, <3>5
  <2> QED BY Zenon, <1>7, <2>1, LeftAlone DEF StartLogin, Submit, WaitGivesUp, Unlink
<1>8. CASE WaitTakesCode
  <2>1. CASE task' = AtRest /\ grants' = grants
    BY <1>8, <2>1, LeftAlone DEF WaitTakesCode, AtRest
  <2>2. CASE \E a \in Accounts, g \in Grants \ Issued :
               /\ grants' = [grants EXCEPT ![g].acct = a]
               /\ task' = [pc |-> "saveToken", acct |-> a, grant |-> g, code |-> None]
    <3>1. Approves
      <4>1. PICK a \in Accounts, g \in Grants \ Issued :
               /\ grants' = [grants EXCEPT ![g].acct = a]
               /\ task' = [pc |-> "saveToken", acct |-> a, grant |-> g, code |-> None]
        BY <2>2
      <4>2. task'.acct = a /\ task'.grant = g
        BY <4>1
      <4>3. UNCHANGED <<tokens, reader, lost>>
        BY <1>8 DEF WaitTakesCode
      <4> QED BY <4>1, <4>2, <4>3 DEF Approves
    <3> QED BY <3>1
  <2> QED BY <1>8, <2>1, <2>2 DEF WaitTakesCode
<1>9. CASE LinkToken
  <2>1. CASE task' = AtRest /\ tokens' = tokens
    BY <1>9, <2>1, LeftAlone DEF LinkToken, AtRest
  <2>2. CASE SaveTokens(task.acct, [grant |-> task.grant, gen |-> 0, fresh |-> TRUE]) /\ task' = [task EXCEPT !.pc = "saveRow", !.grant = None]
    <3>1. task'.pc = "saveRow"
      BY <2>2 DEF LoginsTyped, Task
    <3>2. StoresFirst
      BY <1>9, <2>2, <3>1 DEF LinkToken, SaveTokens, StoresFirst
    <3> QED BY <3>2
  <2> QED BY <1>9, <2>1, <2>2 DEF LinkToken
<1>10. CASE LinkRow
  <2>1. task'.pc # "saveToken"
    BY <1>10 DEF LinkRow, AtRest, LoginsTyped, Task
  <2>2. CASE reader' = reader
    BY <1>10, <2>1, <2>2, LeftAlone DEF LinkRow
  <2>3. CASE reader' # reader
    <3>1. task.acct \in Accounts /\ Profile(task.acct) \in Plans
      BY <1>0, <1>10 DEF LinkRow, LoginsTyped, Task, TypeOK, Profile
    <3>2. reader["task"].pc = "idle" /\ reader["task"].tok = NoToken
      BY <1>10 DEF LinkRow, LoginsTyped, TypeOK, Readers
    <3>3. Begun("task", task.acct, Profile(task.acct)) /\ "task" \in Readers
      BY <1>10, <2>3 DEF LinkRow, Begun, Readers
    <3>4. PICK x : Moved("task", x) /\ x.pc = "secret" /\ x.tok = NoToken
      BY <1>0, <3>1, <3>2, <3>3, Begins
    <3> QED BY <1>10, <2>1, <3>2, <3>4 DEF LinkRow, HandsOutNone, Moved
  <2> QED BY <2>2, <2>3
<1>11. CASE LinkDone
  BY <1>11, LeftAlone DEF LinkDone, AtRest
<1>12. CASE UnlinkToken
  <2>1. task'.pc # "saveToken" /\ task.acct \in Accounts
    BY <1>12 DEF UnlinkToken, AtRest, LoginsTyped, Task
  <2>2. \A a \in Accounts : tokens'[a] = NoToken \/ tokens'[a] = tokens[a]
    BY <1>0, <1>12 DEF UnlinkToken, DropTokens, TypeOK
  <2> QED BY <1>12, <2>1, <2>2 DEF UnlinkToken, HandsOutNone
<1>13. CASE UnlinkRow
  BY <1>13, LeftAlone DEF UnlinkRow, AtRest
<1>14. CASE TokenExpires
  <2>1. PICK a \in Accounts : tokens[a].fresh /\ tokens' = [tokens EXCEPT ![a].fresh = FALSE]
    BY <1>14 DEF TokenExpires
  <2>2. tokens[a] # NoToken
    BY <2>1 DEF NoToken
  <2>3. tokens[a] \in Token
    BY <1>0, <2>2 DEF TypeOK
  <2>4. \A b \in Accounts : b # a => tokens'[b] = tokens[b]
    BY <1>0, <2>1 DEF TypeOK
  <2>5. tokens'[a].grant = tokens[a].grant /\ tokens'[a].gen = tokens[a].gen
    BY <1>0, <2>1, <2>3 DEF TypeOK, Token
  <2>6. UNCHANGED <<grants, reader, task, lost>>
    BY <1>14 DEF TokenExpires
  <2> QED BY <2>2, <2>4, <2>5, <2>6 DEF HandsOutNone
<1>15. CASE LoopCrash
  <2>1. reader["loop"].pc = "save" => reader["loop"].tok.grant \in lost'
    <3>1. reader["loop"].pc = "save" => reader["loop"].tok.grant \in Grants
      BY TokenIsOne DEF LoginsTyped, TypeOK, Reading, Readers
    <3> QED BY <1>15, <3>1 DEF LoopCrash, Unsaved
  <2> QED BY <1>0, <1>15, <2>1, Stops, StopHandsOutNone DEF LoopCrash, Readers
<1>16. CASE TaskCrash
  <2>1. reader["task"].pc = "save" => reader["task"].tok.grant \in lost'
    <3>1. reader["task"].pc = "save" => reader["task"].tok.grant \in Grants
      BY TokenIsOne DEF LoginsTyped, TypeOK, Reading, Readers
    <3> QED BY <1>16, <3>1 DEF TaskCrash, Unsaved
  <2>2. task'.pc = "idle"
    BY <1>16 DEF TaskCrash, AtRest
  <2> QED BY <1>0, <1>16, <2>1, <2>2, Stops, StopHandsOutNone DEF TaskCrash, Readers
<1> QED
  BY <1>1, <1>2, <1>3, <1>4, <1>5, <1>6, <1>7, <1>8, <1>9, <1>10, <1>11, <1>12, <1>13, <1>14, <1>15,
     <1>16 DEF Next, Loop, Link, SignOut, World, ProbeLogin, Readers

-----------------------------------------------------------------------------
(***************************************************************************)
(* The tokens are genuine, and a sign-in is given out once.                *)
(***************************************************************************)
\* The invariants that say where tokens come from.
GInv == LoginsTyped /\ TokensGenuine /\ FreshSignIn

\* Every step keeps them.
LEMMA NextGenuine ==
  ASSUME GInv, LoginsTyped', TokenStep
  PROVE  TokensGenuine' /\ FreshSignIn'
<1> USE LoginBounds DEF GInv, TokensGenuine, FreshSignIn, Genuine, Unused
<1>0. /\ TypeOK /\ TypeOK'
      /\ \A r \in Readers : reader[r].tok \in Token \cup {NoToken}
      /\ \A r \in Readers : reader[r].pc \in {"renew", "save"} => reader[r].tok \in Token /\ reader[r].acct \in Accounts
      /\ \A r \in Readers : reader[r].tok # NoToken => reader[r].acct \in Accounts
      /\ \A a \in Accounts : tokens[a] \in Token \cup {NoToken}
  BY DEF LoginsTyped, TypeOK, Reading
<1>n. NoToken.grant = None
  BY DEF NoToken
<1>1. CASE HandsOutNone
  <2>1. grants' = grants /\ (task'.pc = "saveToken" => task' = task)
    BY <1>1 DEF HandsOutNone
  <2>2. \A a \in Accounts :
          tokens'[a] # NoToken => /\ tokens[a] # NoToken
                                  /\ tokens'[a].grant = tokens[a].grant /\ tokens'[a].gen = tokens[a].gen
    BY <1>1 DEF HandsOutNone
  <2>3. \A q \in Readers : reader'[q] = reader[q] \/ reader'[q].tok = NoToken
    BY <1>1 DEF HandsOutNone
  <2>4. \A a \in Accounts : Genuine(tokens[a], a)'
    BY <2>1, <2>2
  <2>5. \A q \in Readers : Genuine(reader[q].tok, reader[q].acct)'
    BY <2>1, <2>3
  <2>6. ASSUME NEW g \in Grants, Unused(g) PROVE Unused(g)'
    BY <1>n, <2>2, <2>3, <2>6
  <2>7. task.pc = "saveToken" => task.grant \in Grants
    BY DEF LoginsTyped
  <2>8. FreshSignIn'
    <3>1. \A g \in Grants : grants'[g].acct = None => grants'[g].gen = 0
      BY <2>1
    <3>2. ASSUME task'.pc = "saveToken"
          PROVE  grants'[task'.grant] = [acct |-> task'.acct, gen |-> 0] /\ Unused(task.grant)'
      <4>1. task' = task /\ task.grant \in Grants /\ Unused(task.grant)
        BY <2>1, <2>7, <3>2
      <4>2. Unused(task.grant)'
        BY <2>6, <4>1
      <4> QED BY <2>1, <3>2, <4>1, <4>2
    <3> QED BY <3>1, <3>2
  <2> QED BY <2>4, <2>5, <2>8
<1>2. ASSUME NEW r \in Readers, ReadsOne(r) PROVE TokensGenuine' /\ FreshSignIn'
  <2>1. reader[r].acct \in Accounts
    BY <1>2 DEF ReadsOne, LoginsTyped
  <2> QED BY <1>2, <2>1 DEF ReadsOne, GoesOn
<1>3. ASSUME NEW r \in Readers, RenewsOne(r) PROVE TokensGenuine' /\ FreshSignIn'
  <2> DEFINE tok == reader[r].tok
             g == tok.grant
  <2>1. tok \in Token /\ tok # NoToken /\ g \in Grants /\ tok.gen \in Nat
    BY <1>0, <1>3, TokenIsOne DEF RenewsOne
  <2>2. /\ grants'[g].acct = grants[g].acct
        /\ grants'[g].gen \in Nat /\ grants[g].gen \in Nat /\ grants'[g].gen >= grants[g].gen
        /\ \A h \in Grants \ {g} : grants'[h] = grants[h]
    BY <1>0, <1>3, <2>1 DEF RenewsOne, TypeOK
  <2>3. \A a \in Accounts : Genuine(tokens[a], a)'
    BY <1>0, <1>3, <2>2, TokenIsOne DEF RenewsOne
  <2>4. \A q \in Readers : Genuine(reader[q].tok, reader[q].acct)'
    BY <1>0, <1>3, <2>1, <2>2, TokenIsOne DEF RenewsOne, GoesOn
  <2>5. g # None /\ grants[g].acct # None
    BY <1>3, <2>1 DEF RenewsOne, LoginsTyped
  <2>6. FreshSignIn'
    <3>1. \A h \in Grants : grants'[h].acct = None => grants'[h].gen = 0
      BY <2>2, <2>5
    <3>2. ASSUME task'.pc = "saveToken"
          PROVE  grants'[task'.grant] = [acct |-> task'.acct, gen |-> 0] /\ Unused(task.grant)'
      <4>1. task' = task /\ Unused(task.grant) /\ task.grant \in Grants /\ task.grant # g
        BY <1>3, <3>2 DEF RenewsOne, LoginsTyped
      <4>2. grants'[task'.grant] = [acct |-> task'.acct, gen |-> 0]
        BY <2>2, <3>2, <4>1
      <4> QED BY <1>3, <1>n, <4>1, <4>2 DEF RenewsOne, GoesOn
    <3> QED BY <3>1, <3>2
  <2> QED BY <2>3, <2>4, <2>6
<1>4. ASSUME NEW r \in Readers, StoresOne(r) PROVE TokensGenuine' /\ FreshSignIn'
  <2>1. reader[r].acct \in Accounts
    BY <1>0, <1>4 DEF StoresOne
  <2>2. tokens'[reader[r].acct] = reader[r].tok /\ \A a \in Accounts : a # reader[r].acct => tokens'[a] = tokens[a]
    BY <1>0, <1>4, <2>1 DEF StoresOne, TypeOK
  <2>3. UNCHANGED <<grants, task>> /\ \A q \in Readers : reader'[q] = reader[q] \/ reader'[q].tok = NoToken
    BY <1>4 DEF StoresOne, GoesOn
  <2>4. \A a \in Accounts : Genuine(tokens[a], a)'
    BY <2>1, <2>2, <2>3
  <2>5. \A q \in Readers : Genuine(reader[q].tok, reader[q].acct)'
    BY <2>3
  <2>6. ASSUME NEW g \in Grants, Unused(g) PROVE Unused(g)'
    BY <1>n, <2>2, <2>3, <2>6
  <2>7. task.pc = "saveToken" => task.grant \in Grants
    BY DEF LoginsTyped
  <2>8. FreshSignIn'
    BY <2>3, <2>6, <2>7
  <2> QED BY <2>4, <2>5, <2>8
<1>5. CASE Approves
  <2>1. PICK a \in Accounts, g \in Grants \ Issued :
          grants' = [grants EXCEPT ![g].acct = a] /\ task'.acct = a /\ task'.grant = g
    BY <1>5 DEF Approves
  <2>2. g \in Grants /\ grants[g].acct = None /\ grants[g].gen = 0
    BY <2>1 DEF Issued
  <2>3. grants'[g] = [acct |-> a, gen |-> 0] /\ \A h \in Grants \ {g} : grants'[h] = grants[h]
    BY <1>0, <2>1, <2>2 DEF TypeOK
  <2>4. Unused(g)
    <3>1. \A b \in Accounts : tokens[b] # NoToken => grants[tokens[b].grant].acct # None
      BY <1>0
    <3>2. \A q \in Readers : reader[q].tok # NoToken => grants[reader[q].tok.grant].acct # None
      BY <1>0 DEF LoginsTyped
    <3> QED BY <1>n, <2>2, <3>1, <3>2
  <2>5. \A b \in Accounts : tokens[b] # NoToken => tokens[b].grant \in Grants \ {g}
    BY <1>0, <2>4, TokenIsOne
  <2>6. \A q \in Readers : reader[q].tok # NoToken => reader[q].tok.grant \in Grants \ {g}
    BY <1>0, <2>4, TokenIsOne
  <2>7. TokensGenuine'
    BY <1>5, <2>3, <2>5, <2>6 DEF Approves
  <2>8. FreshSignIn'
    BY <1>5, <2>1, <2>2, <2>3, <2>4 DEF Approves
  <2> QED BY <2>7, <2>8
<1>6. CASE StoresFirst
  <2> DEFINE tok == [grant |-> task.grant, gen |-> 0, fresh |-> TRUE]
  <2>1. task.acct \in Accounts /\ task.grant \in Grants
    BY <1>6 DEF StoresFirst, LoginsTyped, Task
  <2>2. grants[task.grant] = [acct |-> task.acct, gen |-> 0]
    BY <1>6 DEF StoresFirst
  <2>3. tokens'[task.acct] = tok /\ \A a \in Accounts : a # task.acct => tokens'[a] = tokens[a]
    BY <1>0, <1>6, <2>1 DEF StoresFirst, TypeOK
  <2> QED BY <1>6, <2>1, <2>2, <2>3 DEF StoresFirst
<1> QED BY <1>1, <1>2, <1>3, <1>4, <1>5, <1>6 DEF TokenStep

-----------------------------------------------------------------------------
(***************************************************************************)
(* The newest token is in the store or on its way there.                   *)
(***************************************************************************)
\* What the tokens are, read off the types.
LEMMA TokenFacts ==
  ASSUME LoginsTyped
  PROVE  /\ TypeOK
         /\ \A r \in Readers : reader[r].tok # NoToken =>
              /\ reader[r].tok \in Token /\ reader[r].tok.grant \in Grants /\ reader[r].tok.gen \in Nat
              /\ reader[r].acct \in Accounts
         /\ \A r \in Readers : reader[r].pc \in {"renew", "save"} => reader[r].tok # NoToken
         /\ \A a \in Accounts : tokens[a] # NoToken =>
              /\ tokens[a] \in Token /\ tokens[a].grant \in Grants /\ tokens[a].gen \in Nat
         /\ \A g \in Grants : grants[g].gen \in Nat
         /\ NoToken.grant = None
<1>1. TypeOK
  BY DEF LoginsTyped
<1>2. \A r \in Readers : reader[r].tok # NoToken =>
        /\ reader[r].tok \in Token /\ reader[r].tok.grant \in Grants /\ reader[r].tok.gen \in Nat
        /\ reader[r].acct \in Accounts
  <2> SUFFICES ASSUME NEW r \in Readers, reader[r].tok # NoToken
               PROVE  /\ reader[r].tok \in Token /\ reader[r].tok.grant \in Grants /\ reader[r].tok.gen \in Nat
                      /\ reader[r].acct \in Accounts
    OBVIOUS
  <2>1. reader[r].tok \in Token
    BY <1>1 DEF TypeOK, Reading
  <2>2. reader[r].acct \in Accounts
    BY DEF LoginsTyped, TypeOK
  <2> QED BY <2>1, <2>2, TokenIsOne, LoginBounds
<1>3. \A r \in Readers : reader[r].pc \in {"renew", "save"} => reader[r].tok # NoToken
  BY <1>1 DEF TypeOK
<1>4. \A a \in Accounts : tokens[a] # NoToken =>
        /\ tokens[a] \in Token /\ tokens[a].grant \in Grants /\ tokens[a].gen \in Nat
  BY <1>1, TokenIsOne, LoginBounds DEF TypeOK
<1>5. \A g \in Grants : grants[g].gen \in Nat
  BY <1>1, LoginBounds DEF TypeOK
<1>6. NoToken.grant = None
  BY DEF NoToken
<1> QED BY <1>1, <1>2, <1>3, <1>4, <1>5, <1>6

\* Every step leaves a renewed token about to be stored the newest one.
LEMMA NextNewest ==
  ASSUME GInv, RenewedIsNewest, TokenStep
  PROVE  RenewedIsNewest'
<1> USE LoginBounds, TokenFacts DEF GInv, Newest
<1>0. ASSUME NEW q \in Readers, reader[q].pc = "save"
      PROVE  /\ reader[q].tok.grant \in Grants
             /\ Newest(reader[q].tok, reader[q].tok.grant)
             /\ reader[q].tok.grant \in Rotating /\ grants[reader[q].tok.grant].gen < MaxRenewals =>
                  /\ \A p \in Readers \ {q} : ~Newest(reader[p].tok, reader[q].tok.grant)
                  /\ \A a \in Accounts : ~Newest(tokens[a], reader[q].tok.grant)
  BY <1>0 DEF RenewedIsNewest
<1> DEFINE After(tok, g) == tok.grant = g /\ tok.gen = grants'[g].gen
           Goal(q, g) == /\ After(reader'[q].tok, g)
                         /\ g \in Rotating /\ grants'[g].gen < MaxRenewals =>
                              /\ \A p \in Readers \ {q} : ~After(reader'[p].tok, g)
                              /\ \A a \in Accounts : ~After(tokens'[a], g)
<1> SUFFICES ASSUME NEW q \in Readers, reader'[q].pc = "save"
             PROVE  Goal(q, reader'[q].tok.grant)
  BY DEF RenewedIsNewest
<1> DEFINE h == reader[q].tok.grant
<1>1. CASE HandsOutNone
  <2>1. reader'[q] = reader[q] /\ grants' = grants
    BY <1>1 DEF HandsOutNone
  <2>2. \A p \in Readers : reader'[p] = reader[p] \/ reader'[p].tok = NoToken
    BY <1>1 DEF HandsOutNone
  <2>3. \A a \in Accounts : tokens'[a] # NoToken => tokens'[a].grant = tokens[a].grant /\ tokens'[a].gen = tokens[a].gen
    BY <1>1 DEF HandsOutNone
  <2> QED BY <1>0, <2>1, <2>2, <2>3
<1>2. ASSUME NEW r \in Readers, ReadsOne(r) PROVE Goal(q, reader'[q].tok.grant)
  <2>1. q # r /\ reader'[q] = reader[q] /\ UNCHANGED <<grants, tokens>>
    BY <1>2 DEF ReadsOne, GoesOn
  <2>2. reader[r].acct \in Accounts /\ reader'[r].tok = tokens[reader[r].acct]
    BY <1>2 DEF ReadsOne, LoginsTyped
  <2>3. \A p \in Readers \ {r} : reader'[p] = reader[p]
    BY <1>2 DEF ReadsOne, GoesOn
  <2> QED BY <1>0, <2>1, <2>2, <2>3
<1>3. ASSUME NEW r \in Readers, RenewsOne(r) PROVE Goal(q, reader'[q].tok.grant)
  <2> DEFINE tok == reader[r].tok
             g == tok.grant
  <2>1. g \in Grants /\ tok.gen = grants[g].gen /\ tok.gen \in Nat /\ tok \in Token /\ tok # NoToken
    BY <1>3 DEF RenewsOne
  <2>2. /\ grants'[g].gen = IF Rotates(tok) THEN tok.gen + 1 ELSE tok.gen
        /\ \A f \in Grants \ {g} : grants'[f] = grants[f]
        /\ tokens' = tokens
        /\ \A p \in Readers \ {r} : reader'[p] = reader[p]
        /\ reader[r].pc = "renew"
    BY <1>3 DEF RenewsOne, GoesOn
  <2>3. \A a \in Accounts : tokens[a] # NoToken /\ tokens[a].grant = g => tokens[a].gen <= grants[g].gen
    BY DEF TokensGenuine, Genuine
  <2>4. \A p \in Readers : reader[p].tok # NoToken /\ reader[p].tok.grant = g => reader[p].tok.gen <= grants[g].gen
    BY DEF TokensGenuine, Genuine
  <2>5. CASE q = r
    <3>1. reader'[q].tok.grant = g /\ reader'[q].tok.gen = grants'[g].gen
      BY <1>3, <2>2, <2>5 DEF RenewsOne
    <3>2. ASSUME g \in Rotating, grants'[g].gen < MaxRenewals
          PROVE  grants'[g].gen = grants[g].gen + 1
      BY <2>1, <2>2, <3>2 DEF Rotates
    <3>3. ASSUME g \in Rotating, grants'[g].gen < MaxRenewals
          PROVE  /\ \A p \in Readers \ {q} : ~(reader'[p].tok.grant = g /\ reader'[p].tok.gen = grants'[g].gen)
                 /\ \A a \in Accounts : ~(tokens'[a].grant = g /\ tokens'[a].gen = grants'[g].gen)
      <4>1. \A p \in Readers \ {q} : reader'[p].tok.grant = g => reader'[p].tok # NoToken
        BY <2>1
      <4>2. \A a \in Accounts : tokens'[a].grant = g => tokens'[a] # NoToken
        BY <2>1
      <4> QED BY <2>1, <2>2, <2>3, <2>4, <2>5, <3>2, <3>3, <4>1, <4>2
    <3> HIDE DEF tok, g
    <3> QED BY <3>1, <3>3
  <2>6. CASE q # r
    <3>1. reader'[q] = reader[q] /\ h \in Grants /\ reader[q].pc = "save"
      BY <1>0, <2>2, <2>6
    <3>2. CASE h # g
      <4>1. grants'[h] = grants[h]
        BY <2>2, <3>1, <3>2
      <4>2. \A p \in Readers \ {q} : After(reader'[p].tok, h) => reader'[p].tok = reader[p].tok
        <5>1. reader'[r].tok = NoToken \/ reader'[r].tok.grant = g
          BY <1>3 DEF RenewsOne
        <5> QED BY <2>2, <3>1, <3>2, <5>1
      <4> QED BY <1>0, <2>2, <3>1, <4>1, <4>2
    <3>3. CASE h = g
      <4>1. ~Rotates(tok)
        <5>1. Newest(reader[r].tok, h)
          BY <2>1, <3>3
        <5>2. ~(h \in Rotating /\ grants[h].gen < MaxRenewals)
          BY <1>0, <2>6, <3>1, <5>1
        <5> QED BY <2>1, <3>3, <5>2 DEF Rotates
      <4>2. grants'[h].gen = grants[h].gen
        BY <2>1, <2>2, <3>3, <4>1
      <4>3. ~(h \in Rotating /\ grants'[h].gen < MaxRenewals)
        BY <2>1, <3>3, <4>1, <4>2 DEF Rotates
      <4> QED BY <1>0, <3>1, <4>2, <4>3
    <3> QED BY <3>2, <3>3
  <2> QED BY <2>5, <2>6
<1>4. ASSUME NEW r \in Readers, StoresOne(r) PROVE Goal(q, reader'[q].tok.grant)
  <2>1. /\ q # r /\ grants' = grants /\ reader[r].pc = "save"
        /\ reader'[r].tok = NoToken /\ \A p \in Readers \ {r} : reader'[p] = reader[p]
    BY <1>4 DEF StoresOne, GoesOn
  <2>2. \A a \in Accounts : tokens'[a] = tokens[a] \/ tokens'[a] = reader[r].tok
    BY <1>4 DEF StoresOne, TypeOK
  <2>3. reader'[q] = reader[q] /\ reader[q].pc = "save" /\ h \in Grants
    BY <1>0, <2>1
  <2>4. h \in Rotating /\ grants[h].gen < MaxRenewals => ~Newest(reader[r].tok, h)
    BY <1>0, <2>1, <2>3
  <2> QED BY <1>0, <2>1, <2>2, <2>3, <2>4
<1>5. CASE Approves
  <2>1. PICK a \in Accounts, g \in Grants : grants' = [grants EXCEPT ![g].acct = a]
    BY <1>5 DEF Approves
  <2>2. \A f \in Grants : grants'[f].gen = grants[f].gen
    BY <2>1 DEF TypeOK
  <2>3. UNCHANGED <<tokens, reader>>
    BY <1>5 DEF Approves
  <2> QED BY <1>0, <2>2, <2>3
<1>6. CASE StoresFirst
  <2>1. UNCHANGED <<grants, reader>> /\ task.grant \in Grants /\ Unused(task.grant)
    BY <1>6 DEF StoresFirst, LoginsTyped, FreshSignIn
  <2>2. \A a \in Accounts : tokens'[a] = tokens[a] \/ tokens'[a].grant = task.grant
    BY <1>6 DEF StoresFirst, TypeOK
  <2>3. h # task.grant
    BY <2>1 DEF Unused
  <2> QED BY <1>0, <2>1, <2>2, <2>3
<1> QED BY <1>1, <1>2, <1>3, <1>4, <1>5, <1>6 DEF TokenStep

\* Every step keeps the newest token in the store, on its way there or lost.
LEMMA NextWorks ==
  ASSUME GInv, RenewedIsNewest, StoredTokenWorks, TokenStep
  PROVE  StoredTokenWorks'
<1> USE LoginBounds, TokenFacts DEF GInv
<1> DEFINE Saving(a) == \E r \in Readers : /\ reader[r].pc = "save" /\ reader[r].acct = a
                                           /\ reader[r].tok.grant = tokens[a].grant
<1>0. ASSUME NEW a \in Accounts, tokens[a] # NoToken
      PROVE  \/ tokens[a].gen = grants[tokens[a].grant].gen
             \/ tokens[a].grant \in lost
             \/ Saving(a)
  BY <1>0 DEF StoredTokenWorks
<1> SUFFICES ASSUME NEW a \in Accounts, tokens'[a] # NoToken
             PROVE  \/ tokens'[a].gen = grants'[tokens'[a].grant].gen
                    \/ tokens'[a].grant \in lost'
                    \/ \E r \in Readers : /\ reader'[r].pc = "save" /\ reader'[r].acct = a
                                          /\ reader'[r].tok.grant = tokens'[a].grant
  BY DEF StoredTokenWorks
<1> DEFINE Goal == \/ tokens'[a].gen = grants'[tokens'[a].grant].gen
                   \/ tokens'[a].grant \in lost'
                   \/ \E r \in Readers : /\ reader'[r].pc = "save" /\ reader'[r].acct = a
                                         /\ reader'[r].tok.grant = tokens'[a].grant
<1>1. CASE HandsOutNone
  <2>1. /\ tokens[a] # NoToken /\ tokens'[a].grant = tokens[a].grant /\ tokens'[a].gen = tokens[a].gen
        /\ grants' = grants /\ lost \subseteq lost'
    BY <1>1 DEF HandsOutNone
  <2>2. \A r \in Readers : reader[r].pc = "save" => reader'[r] = reader[r] \/ reader[r].tok.grant \in lost'
    BY <1>1 DEF HandsOutNone
  <2> QED BY <1>0, <2>1, <2>2
<1>2. ASSUME NEW r \in Readers, ReadsOne(r) PROVE Goal
  <2>1. UNCHANGED <<grants, tokens, lost>> /\ \A q \in Readers : reader[q].pc = "save" => reader'[q] = reader[q]
    BY <1>2 DEF ReadsOne, GoesOn
  <2> QED BY <1>0, <2>1
<1>3. ASSUME NEW r \in Readers, RenewsOne(r) PROVE Goal
  <2> DEFINE tok == reader[r].tok
             g == tok.grant
  <2>1. g \in Grants /\ tok # NoToken /\ tok.gen = grants[g].gen
    BY <1>3 DEF RenewsOne
  <2>2. /\ grants'[g].gen = IF Rotates(tok) THEN tok.gen + 1 ELSE tok.gen
        /\ \A f \in Grants \ {g} : grants'[f] = grants[f]
        /\ tokens' = tokens /\ lost \subseteq lost'
        /\ \A p \in Readers : reader[p].pc = "save" => reader'[p] = reader[p]
    BY <1>3 DEF RenewsOne, GoesOn
  <2>3. CASE tokens[a].gen = grants[tokens[a].grant].gen
    <3>1. CASE tokens[a].grant # g \/ ~Rotates(tok)
      BY <2>1, <2>2, <2>3, <3>1
    <3>2. CASE tokens[a].grant = g /\ Rotates(tok)
      <4>1. grants[g].acct = a /\ grants[g].acct = reader[r].acct
        BY <2>1, <2>2, <3>2 DEF TokensGenuine, Genuine
      <4>2. \/ reader'[r].pc = "save" /\ reader'[r].acct = reader[r].acct /\ reader'[r].tok.grant = g
            \/ g \in lost'
        BY <1>3, <3>2 DEF RenewsOne, GoesOn
      <4> QED BY <2>2, <3>2, <4>1, <4>2
    <3> QED BY <3>1, <3>2
  <2> QED BY <1>0, <2>2, <2>3
<1>4. ASSUME NEW r \in Readers, StoresOne(r) PROVE Goal
  <2>1. /\ reader[r].acct \in Accounts /\ reader[r].pc = "save" /\ grants' = grants /\ lost' = lost
        /\ \A q \in Readers \ {r} : reader'[q] = reader[q]
    BY <1>4 DEF StoresOne, GoesOn
  <2>2. tokens'[reader[r].acct] = reader[r].tok /\ (a # reader[r].acct => tokens'[a] = tokens[a])
    BY <1>4, <2>1 DEF StoresOne, TypeOK
  <2>3. reader[r].tok.gen = grants[reader[r].tok.grant].gen
    BY <2>1 DEF RenewedIsNewest, Newest
  <2>4. CASE a = reader[r].acct
    BY <2>1, <2>2, <2>3, <2>4
  <2>5. CASE a # reader[r].acct
    BY <1>0, <2>1, <2>2, <2>5
  <2> QED BY <2>4, <2>5
<1>5. CASE Approves
  <2>1. PICK b \in Accounts, g \in Grants : grants' = [grants EXCEPT ![g].acct = b]
    BY <1>5 DEF Approves
  <2>2. \A f \in Grants : grants'[f].gen = grants[f].gen
    BY <2>1 DEF TypeOK
  <2>3. UNCHANGED <<tokens, reader, lost>>
    BY <1>5 DEF Approves
  <2> QED BY <1>0, <2>2, <2>3
<1>6. CASE StoresFirst
  <2> DEFINE tok == [grant |-> task.grant, gen |-> 0, fresh |-> TRUE]
  <2>1. UNCHANGED <<grants, reader, lost>> /\ task.acct \in Accounts
    BY <1>6 DEF StoresFirst, LoginsTyped, Task
  <2>2. tokens'[task.acct] = tok /\ (a # task.acct => tokens'[a] = tokens[a])
    BY <1>6, <2>1 DEF StoresFirst, TypeOK
  <2>3. grants[task.grant].gen = 0
    BY <1>6 DEF StoresFirst, FreshSignIn
  <2> QED BY <1>0, <2>1, <2>2, <2>3
<1> QED BY <1>1, <1>2, <1>3, <1>4, <1>5, <1>6 DEF TokenStep

-----------------------------------------------------------------------------
(***************************************************************************)
(* A sign-in has its token and its row, or neither.                        *)
(***************************************************************************)
\* A read that had its token.
Past == {"renew", "save", "usage"}
\* A sign-in or sign-out between its two writes.
Halfway == {"saveRow", "dropRow"}

\* A step that neither stores a sign-in nor drops a part of one: reads go on
\* with a token, a token they renewed replaces one, a row they rewrite is
\* there, and a sign-in or sign-out that stops half-way is known.
LEMMA KeptStill ==
  ASSUME LoginsTyped, Kept, halves \subseteq halves',
         task'.pc \in Halfway => task' = task,
         task.pc \in Halfway => task' = task \/ task.acct \in halves',
         \A q \in Readers : reader'[q].pc \in Past =>
           /\ reader'[q].acct \in Accounts
           /\ \/ reader[q].pc \in Past /\ reader'[q].acct = reader[q].acct
              \/ tokens[reader'[q].acct] # NoToken,
         \A a \in Accounts : tokens[a] # NoToken => tokens'[a] # NoToken,
         \A a \in Accounts \ halves' : tokens[a] = NoToken => tokens'[a] = NoToken,
         \A a \in Accounts \ halves' :
           (task.acct = a /\ task.pc \in Halfway) \/ (rows'[a] = None <=> rows[a] = None)
  PROVE  Kept'
<1> USE DEF Kept, Past, Halfway
<1>0. task.pc \in Halfway => task.acct \in Accounts
  BY DEF LoginsTyped, Task
<1>1. \A r \in Readers : reader'[r].pc \in Past /\ reader'[r].acct \notin halves' => tokens'[reader'[r].acct] # NoToken
  OBVIOUS
<1>2. task'.pc = "saveRow" => tokens'[task'.acct] # NoToken
  BY <1>0
<1>3. task'.pc = "dropRow" /\ task'.acct \notin halves' => tokens'[task'.acct] = NoToken
  BY <1>0
<1>4. ASSUME NEW a \in Accounts \ halves', ~(task'.acct = a /\ task'.pc \in Halfway)
      PROVE  tokens'[a] = NoToken <=> rows'[a] = None
  <2>1. ~(task.acct = a /\ task.pc \in Halfway)
    BY <1>4
  <2>2. a \notin halves
    BY <1>4
  <2>3. tokens[a] = NoToken <=> rows[a] = None
    BY <2>1, <2>2
  <2> QED BY <1>4, <2>1, <2>3
<1> QED BY <1>1, <1>2, <1>3, <1>4

\* The same where the store and the table are left alone and reads only stop
\* or begin.
LEMMA KeptAlone ==
  ASSUME LoginsTyped, Kept, UNCHANGED <<tokens, rows>>, halves \subseteq halves',
         task'.pc \in Halfway => task' = task,
         task.pc \in Halfway => task' = task \/ task.acct \in halves',
         \A q \in Readers : reader'[q] = reader[q] \/ reader'[q].pc \notin Past
  PROVE  Kept'
<1>1. \A q \in Readers : reader[q].pc \in Past => reader[q].acct \in Accounts
  BY DEF LoginsTyped, Past
<1> QED BY <1>1, KeptStill

\* Every step keeps it so.
LEMMA NextKept == LoginsTyped /\ Kept /\ [Next]_vars => Kept'
<1> SUFFICES ASSUME LoginsTyped, Kept, [Next]_vars PROVE Kept'
  OBVIOUS
<1> USE LoginBounds DEF anthropic, device, history
<1>0. TypeOK /\ task \in Task
  BY DEF LoginsTyped
<1>a. ASSUME NEW r \in Readers, Stop(r)
      PROVE  \A q \in Readers : reader'[q] = reader[q] \/ reader'[q].pc \notin Past
  BY <1>0, <1>a, Stops, IdleReading DEF Moved, Past
<1>1. CASE RoundStarts \/ PauseOver \/ PlanChanges \/ UNCHANGED vars
  BY <1>1, KeptAlone DEF RoundStarts, PauseOver, PlanChanges, vars
<1>2. CASE NextLogin
  <2>1. PICK row \in todo :
          reader' = IF row.acct \in paused THEN reader
                    ELSE [reader EXCEPT !["loop"].pc = "secret", !["loop"].acct = row.acct,
                                        !["loop"].plan = row.plan]
    BY Zenon, <1>2 DEF NextLogin
  <2>2. CASE reader' = reader
    BY <1>2, <2>2, KeptAlone DEF NextLogin
  <2>3. CASE reader' # reader
    <3>1. row.acct \in Accounts /\ row.plan \in Plans
      BY <1>0, <2>1 DEF TypeOK, Row
    <3>2. Begun("loop", row.acct, row.plan)
      BY <2>1, <2>3 DEF Begun
    <3>3. PICK x : Moved("loop", x) /\ x.pc = "secret"
      BY <1>0, <3>1, <3>2, Begins DEF Readers
    <3> QED BY <1>2, <3>3, KeptAlone DEF NextLogin, Moved, Past
  <2> QED BY <2>2, <2>3
<1>3. ASSUME NEW r \in Readers, ReadSecret(r) PROVE Kept'
  <2> DEFINE tok == tokens[reader[r].acct]
  <2>0. /\ UNCHANGED <<tokens, rows, task, halves>> /\ reader[r].acct \in Accounts
        /\ \A q \in Readers : reader[q].pc \in Past => reader[q].acct \in Accounts
    BY <1>3 DEF ReadSecret, LoginsTyped, Past
  <2>1. CASE Stop(r)
    BY <1>a, <2>0, <2>1, KeptAlone
  <2>2. CASE tok # NoToken /\ Step(r, "usage")
    <3>1. PICK x : Moved(r, x) /\ x.acct = reader[r].acct
      BY <1>0, <2>2, Steps
    <3> QED BY <2>0, <2>2, <3>1, KeptStill DEF Moved
  <2>3. CASE tok # NoToken /\ reader' = [reader EXCEPT ![r].tok = tok, ![r].pc = "renew"]
    <3>1. tok \in Token
      BY <1>0, <2>0, <2>3 DEF TypeOK
    <3>2. Carry(r, tok, "renew")
      BY <2>3 DEF Carry
    <3> HIDE DEF tok
    <3>3. PICK x : Moved(r, x) /\ x.acct = reader[r].acct
      BY <1>0, <3>1, <3>2, Carries
    <3>4. tokens[reader[r].acct] # NoToken
      BY <2>3 DEF tok
    <3> QED BY <2>0, <3>3, <3>4, KeptStill DEF Moved
  <2> QED BY <1>3, <2>1, <2>2, <2>3 DEF ReadSecret, StoredToken
<1>4. ASSUME NEW r \in Readers, Renew(r) PROVE Kept'
  <2>0. /\ UNCHANGED <<tokens, rows, task, halves>> /\ reader[r].pc = "renew"
        /\ \A q \in Readers : reader[q].pc \in Past => reader[q].acct \in Accounts
    BY <1>4 DEF Renew, LoginsTyped, Past
  <2> DEFINE tok == reader[r].tok
             rotates == tok.grant \in Rotating /\ tok.gen < MaxRenewals
             renewed == [tok EXCEPT !.gen = IF rotates THEN @ + 1 ELSE @, !.fresh = TRUE]
  <2>1. CASE Stop(r)
    BY <1>a, <2>0, <2>1, KeptAlone
  <2>2. CASE reader' = [reader EXCEPT ![r].tok = renewed, ![r].pc = "save"]
    <3>1. tok \in Token
      BY <1>0, <2>0 DEF TypeOK, Reading
    <3>2. renewed \in Token
      BY Zenon, <3>1, RenewedToken
    <3>3. Carry(r, renewed, "save")
      BY <2>2 DEF Carry
    <3> HIDE DEF renewed
    <3>4. PICK x : Moved(r, x) /\ x.acct = reader[r].acct
      BY <1>0, <3>2, <3>3, Carries
    <3> QED BY <2>0, <3>4, KeptStill DEF Moved, Past
  <2> QED BY <1>4, <2>1, <2>2 DEF Renew
<1>5. ASSUME NEW r \in Readers, SaveRenewed(r) PROVE Kept'
  <2>0. /\ UNCHANGED <<rows, task, halves>> /\ reader[r].pc = "save"
        /\ \A q \in Readers : reader[q].pc \in Past => reader[q].acct \in Accounts
    BY <1>5 DEF SaveRenewed, LoginsTyped, Past
  <2>1. CASE Stop(r) /\ UNCHANGED tokens
    BY <1>a, <2>0, <2>1, KeptAlone
  <2>2. CASE Step(r, "usage") /\ SaveTokens(reader[r].acct, reader[r].tok)
    <3>1. PICK x : Moved(r, x) /\ x.acct = reader[r].acct
      BY <1>0, <2>2, Steps
    <3>2. reader[r].tok # NoToken /\ reader[r].acct \in Accounts
      BY <1>0, <2>0 DEF TypeOK, Past
    <3>3. tokens'[reader[r].acct] # NoToken /\ \A a \in Accounts : a # reader[r].acct => tokens'[a] = tokens[a]
      BY <1>0, <2>2, <3>2 DEF SaveTokens, TypeOK
    <3>4. reader[r].acct \notin halves => tokens[reader[r].acct] # NoToken
      BY <2>0 DEF Kept
    <3> QED BY <2>0, <3>1, <3>3, <3>4, KeptStill DEF Moved, Past
  <2> QED BY <1>5, <2>1, <2>2 DEF SaveRenewed
<1>6. ASSUME NEW r \in Readers, UsageUnread(r) PROVE Kept'
  BY <1>6, <1>a, KeptAlone DEF UsageUnread
<1>7. ASSUME NEW r \in Readers, UsageRead(r) PROVE Kept'
  <2>0. /\ UNCHANGED <<tokens, task, halves>> /\ reader[r].pc = "usage" /\ reader[r].acct \in Accounts
        /\ \A q \in Readers : reader[q].pc \in Past => reader[q].acct \in Accounts
    BY <1>7 DEF UsageRead, LoginsTyped, Past
  <2>1. \A q \in Readers : reader'[q] = reader[q] \/ reader'[q].pc \notin Past
    BY <1>7, <1>a DEF UsageRead
  <2>2. /\ \A a \in Accounts : a # reader[r].acct => rows'[a] = rows[a]
        /\ rows'[reader[r].acct] = rows[reader[r].acct] \/ rows'[reader[r].acct] # None
    <3>1. Profile(reader[r].acct) # None
      BY <1>0, <2>0 DEF Profile, TypeOK
    <3> QED BY <1>0, <1>7, <2>0, <3>1 DEF UsageRead, UpsertRow, TypeOK
  <2>3. ASSUME NEW a \in Accounts \ halves
        PROVE  (task.acct = a /\ task.pc \in Halfway) \/ (rows'[a] = None <=> rows[a] = None)
    <3>1. CASE a # reader[r].acct
      BY <2>2, <3>1
    <3>2. CASE a = reader[r].acct
      <4>1. tokens[a] # NoToken
        BY <2>0, <3>2 DEF Kept
      <4> QED BY <2>2, <3>2, <4>1 DEF Kept, Halfway
    <3> QED BY <3>1, <3>2
  <2> QED BY <2>0, <2>1, <2>3, KeptStill
<1>8. CASE StartLogin \/ Submit \/ WaitGivesUp \/ Unlink
  <2>1. task.pc \notin Halfway /\ task'.pc \notin Halfway
    <3>1. CASE StartLogin
      BY <1>0, <3>1 DEF StartLogin, Task, Halfway
    <3>2. CASE Submit
      BY <1>0, <3>2 DEF Submit, Task, Halfway
    <3>3. CASE WaitGivesUp
      BY <3>3 DEF WaitGivesUp, AtRest, Halfway
    <3>4. CASE Unlink
      BY <1>0, <3>4 DEF Unlink, Task, Halfway
    <3> QED BY <1>8, <3>1, <3>2, <3>3, <3>4
  <2> QED BY Zenon, <1>8, <2>1, KeptAlone DEF StartLogin, Submit, WaitGivesUp, Unlink
<1>9. CASE WaitTakesCode
  <2>1. task.pc \notin Halfway /\ task'.pc \notin Halfway
    BY <1>9 DEF WaitTakesCode, AtRest, Halfway
  <2> QED BY <1>9, <2>1, KeptAlone DEF WaitTakesCode
<1>10. CASE LinkToken
  <2>0. task.pc = "saveToken" /\ task.acct \in Accounts /\ UNCHANGED <<rows, reader, halves>>
    BY <1>10 DEF LinkToken, LoginsTyped, Task
  <2>1. CASE task' = AtRest /\ UNCHANGED tokens
    BY <2>0, <2>1, KeptAlone DEF AtRest, Halfway
  <2>2. CASE task' = [task EXCEPT !.pc = "saveRow", !.grant = None]
             /\ SaveTokens(task.acct, [grant |-> task.grant, gen |-> 0, fresh |-> TRUE])
    <3>1. task'.pc = "saveRow" /\ task'.acct = task.acct
      BY <1>0, <2>2 DEF Task
    <3>2. tokens'[task.acct] = [grant |-> task.grant, gen |-> 0, fresh |-> TRUE]
      BY <1>0, <2>0, <2>2 DEF SaveTokens, TypeOK
    <3>3. tokens'[task.acct] # NoToken
      <4>1. task.grant # None
        BY <2>0 DEF LoginsTyped
      <4> QED BY <3>2, <4>1 DEF NoToken
    <3>4. \A a \in Accounts : a # task.acct => tokens'[a] = tokens[a]
      BY <1>0, <2>0, <2>2 DEF SaveTokens, TypeOK
    <3>5. \A q \in Readers : reader[q].pc \in Past => reader[q].acct \in Accounts
      BY DEF LoginsTyped, Past
    <3> QED BY <2>0, <3>1, <3>3, <3>4, <3>5 DEF Kept, Past
  <2> QED BY <1>10, <2>1, <2>2 DEF LinkToken
<1>11. CASE LinkRow
  <2>0. task.pc = "saveRow" /\ task.acct \in Accounts /\ UNCHANGED tokens /\ tokens[task.acct] # NoToken
    BY <1>11 DEF LinkRow, LoginsTyped, Task, Kept
  <2>1. CASE task' = AtRest /\ halves' = halves \cup {task.acct} /\ UNCHANGED <<rows, reader>>
    BY <2>0, <2>1, KeptAlone DEF AtRest, Halfway
  <2>2. CASE /\ UpsertRow(task.acct, Profile(task.acct))
             /\ reader' = [reader EXCEPT !["task"].pc = "secret", !["task"].acct = task.acct,
                                         !["task"].plan = Profile(task.acct)]
             /\ task' = [task EXCEPT !.pc = "read"]
             /\ halves' = halves \ {task.acct}
    <3>1. Profile(task.acct) \in Plans
      BY <1>0, <2>0 DEF Profile, TypeOK
    <3>2. Begun("task", task.acct, Profile(task.acct)) /\ "task" \in Readers
      BY <2>2 DEF Begun, Readers
    <3>3. PICK x : Moved("task", x) /\ x.pc = "secret"
      BY <1>0, <2>0, <3>1, <3>2, Begins
    <3>4. rows'[task.acct] # None /\ \A a \in Accounts : a # task.acct => rows'[a] = rows[a]
      BY <1>0, <2>0, <2>2, <3>1 DEF UpsertRow, TypeOK
    <3>5. task'.pc = "read"
      BY <1>0, <2>2 DEF Task
    <3>6. \A q \in Readers : reader'[q] = reader[q] \/ reader'[q].pc \notin Past
      BY <3>3 DEF Moved, Past
    <3>7. ASSUME NEW q \in Readers, reader'[q].pc \in Past, reader'[q].acct \notin halves'
          PROVE  tokens[reader'[q].acct] # NoToken
      <4>1. reader'[q] = reader[q]
        BY <3>6, <3>7
      <4>2. CASE reader[q].acct = task.acct
        BY <2>0, <4>1, <4>2
      <4>3. CASE reader[q].acct # task.acct
        <5>1. reader[q].acct \notin halves
          <6>1. halves' = halves \ {task.acct}
            BY <2>2
          <6>2. reader[q].acct \notin halves'
            BY <3>7, <4>1
          <6> QED BY <4>3, <6>1, <6>2
        <5> QED BY <3>7, <4>1, <5>1 DEF Kept, Past
      <4> QED BY <4>2, <4>3
    <3>8. ASSUME NEW a \in Accounts \ halves' PROVE tokens[a] = NoToken <=> rows'[a] = None
      BY <2>0, <2>2, <3>4 DEF Kept
    <3> QED BY <2>0, <3>5, <3>7, <3>8 DEF Kept, Past
  <2> QED BY <1>11, <2>1, <2>2 DEF LinkRow
<1>12. CASE LinkDone
  BY <1>12, KeptAlone DEF LinkDone, AtRest, Halfway
<1>13. CASE UnlinkToken
  <2>0. task.pc = "drop" /\ task.acct \in Accounts /\ UNCHANGED <<rows, reader>>
    BY <1>13 DEF UnlinkToken, LoginsTyped, Task
  <2>1. CASE task' = AtRest /\ UNCHANGED <<tokens, halves>>
    BY <2>0, <2>1, KeptAlone DEF AtRest, Halfway
  <2>2. CASE /\ DropTokens(task.acct)
             /\ task' = [task EXCEPT !.pc = "dropRow"]
             /\ halves' = IF MidRead(task.acct) THEN halves \cup {task.acct} ELSE halves
    <3>1. task'.pc = "dropRow" /\ task'.acct = task.acct
      BY <1>0, <2>2 DEF Task
    <3>2. tokens'[task.acct] = NoToken /\ \A a \in Accounts : a # task.acct => tokens'[a] = tokens[a]
      BY <1>0, <2>0, <2>2 DEF DropTokens, TypeOK
    <3>3. halves \subseteq halves'
      BY <2>2
    <3>4. ASSUME NEW q \in Readers, reader'[q].pc \in Past, reader'[q].acct \notin halves'
          PROVE  tokens'[reader'[q].acct] # NoToken
      <4>1. reader[q].acct # task.acct
        BY <2>0, <2>2, <3>4 DEF MidRead, Past
      <4>2. reader[q].acct \in Accounts
        BY <2>0, <3>4 DEF LoginsTyped, Past
      <4>3. tokens[reader[q].acct] # NoToken
        BY <2>0, <3>3, <3>4 DEF Kept, Past
      <4> QED BY <2>0, <3>2, <4>1, <4>2, <4>3
    <3>5. ASSUME NEW a \in Accounts \ halves', a # task.acct
          PROVE  tokens'[a] = NoToken <=> rows'[a] = None
      BY <2>0, <3>2, <3>3, <3>5 DEF Kept
    <3> QED BY <3>1, <3>2, <3>4, <3>5 DEF Kept, Past
  <2> QED BY <1>13, <2>1, <2>2 DEF UnlinkToken
<1>14. CASE UnlinkRow
  <2>0. task.pc = "dropRow" /\ task.acct \in Accounts /\ UNCHANGED <<tokens, reader>> /\ task' = AtRest
    BY <1>14 DEF UnlinkRow, LoginsTyped, Task
  <2>1. CASE halves' = halves \cup {task.acct} /\ UNCHANGED rows
    BY <2>0, <2>1, KeptAlone DEF AtRest, Halfway
  <2>2. CASE DropRow(task.acct) /\ UNCHANGED halves
    <3>1. rows'[task.acct] = None /\ \A a \in Accounts : a # task.acct => rows'[a] = rows[a]
      BY <1>0, <2>0, <2>2 DEF DropRow, TypeOK
    <3>2. ASSUME NEW a \in Accounts \ halves' PROVE tokens'[a] = NoToken <=> rows'[a] = None
      BY <2>0, <2>2, <3>1 DEF Kept
    <3> QED BY <2>0, <2>2, <3>2 DEF Kept, AtRest
  <2> QED BY <1>14, <2>1, <2>2 DEF UnlinkRow
<1>15. CASE TokenExpires
  <2>1. PICK a \in Accounts : tokens[a].fresh /\ tokens' = [tokens EXCEPT ![a].fresh = FALSE]
    BY <1>15 DEF TokenExpires
  <2>2. tokens[a] # NoToken
    BY <2>1 DEF NoToken
  <2>3. tokens[a] \in Token
    BY <1>0, <2>2 DEF TypeOK
  <2>4. \A b \in Accounts : b # a => tokens'[b] = tokens[b]
    BY <1>0, <2>1 DEF TypeOK
  <2>5. tokens'[a].grant = tokens[a].grant /\ tokens[a].grant # None
    BY <1>0, <2>1, <2>3, TokenIsOne DEF TypeOK, Token
  <2>6. tokens'[a] # NoToken
    BY <2>5 DEF NoToken
  <2>7. UNCHANGED <<rows, reader, task, halves>> /\ \A q \in Readers : reader[q].pc \in Past => reader[q].acct \in Accounts
    BY <1>15 DEF TokenExpires, LoginsTyped, Past
  <2> QED BY <2>2, <2>4, <2>6, <2>7, KeptStill
<1>16. CASE LoopCrash
  BY <1>16, <1>a, KeptAlone DEF LoopCrash, Readers
<1>17. CASE TaskCrash
  BY <1>17, <1>a, KeptAlone DEF TaskCrash, Readers, AtRest, Halfway
<1> QED
  BY <1>1, <1>2, <1>3, <1>4, <1>5, <1>6, <1>7, <1>8, <1>9, <1>10, <1>11, <1>12, <1>13, <1>14, <1>15,
     <1>16, <1>17 DEF Next, Loop, Link, SignOut, World, ProbeLogin, Readers

-----------------------------------------------------------------------------
(***************************************************************************)
(* The theorems.                                                           *)
(***************************************************************************)
\* Everything holds before the first sign-in.
LEMMA InitLInv == Init => LInv
<1> SUFFICES ASSUME Init PROVE LInv
  OBVIOUS
<1>1. LoginsTyped
  BY InitTyped
<1>2. /\ \A a \in Accounts : tokens[a] = NoToken /\ rows[a] = None
      /\ \A r \in Readers : reader[r] = NotReading
      /\ \A g \in Grants : grants[g] = [acct |-> None, gen |-> 0]
      /\ task.pc = "idle"
  BY DEF Init, AtRest
<1>3. TokensGenuine
  BY <1>2, IdleReading DEF TokensGenuine, Genuine
<1>4. FreshSignIn
  BY <1>2 DEF FreshSignIn
<1>5. RenewedIsNewest /\ StoredTokenWorks
  BY <1>2, IdleReading DEF RenewedIsNewest, StoredTokenWorks
<1>6. Kept
  BY <1>2, IdleReading DEF Kept
<1> QED BY <1>1, <1>3, <1>4, <1>5, <1>6 DEF LInv

\* The whole invariant holds in every reachable state.
THEOREM AlwaysLInv == Spec => []LInv
<1>1. LInv /\ [Next]_vars => LInv'
  <2> SUFFICES ASSUME LInv, [Next]_vars PROVE LInv'
    OBVIOUS
  <2>1. LoginsTyped' /\ TokenStep /\ GInv
    BY NextTyped, TokenSteps DEF LInv, GInv
  <2>2. TokensGenuine' /\ FreshSignIn'
    BY <2>1, NextGenuine
  <2>3. RenewedIsNewest' /\ StoredTokenWorks'
    BY <2>1, NextNewest, NextWorks DEF LInv
  <2>4. Kept'
    BY NextKept DEF LInv
  <2> QED BY <2>1, <2>2, <2>3, <2>4 DEF LInv
<1> QED BY <1>1, InitLInv, PTL DEF Spec

\* The sign-ins are well typed, whatever accounts, sign-ins and plans there are.
THEOREM LoginsTypeCorrect == Spec => []TypeOK
<1>1. LInv => TypeOK
  BY DEF LInv, LoginsTyped
<1> QED BY <1>1, AlwaysLInv, PTL

\* A stored token is the one Anthropic accepts, unless its successor is about
\* to be stored or was lost (probeLogin, internal/client/agent): for any
\* number of accounts and sign-ins, renewed any number of times by two reads
\* at once, with sign-ins, sign-outs, failures and crashes in between.
THEOREM StoredTokensWork == Spec => []StoredTokenWorks
<1>1. LInv => StoredTokenWorks
  BY DEF LInv
<1> QED BY <1>1, AlwaysLInv, PTL

\* An account has both its token and its row or neither, outside of signing in
\* and out, and unless one of these was cut short or crossed by a read that
\* had the token already (LinkClaude and UnlinkClaude).
THEOREM SignInsAreWhole == Spec => []TokenAndRow
<1>1. LInv => TokenAndRow
  <2> SUFFICES ASSUME LInv, NEW a \in Accounts \ halves,
                      task.acct # a \/ task.pc = "saveToken" \/ task.pc = "read"
               PROVE  tokens[a] = NoToken <=> rows[a] = None
    BY DEF TokenAndRow
  <2>1. ~(task.acct = a /\ task.pc \in {"saveRow", "dropRow"})
    OBVIOUS
  <2> QED BY <2>1 DEF LInv, Kept
<1> QED BY <1>1, AlwaysLInv, PTL
=============================================================================
