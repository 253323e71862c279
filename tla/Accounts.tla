------------------------------ MODULE Accounts ------------------------------
(***************************************************************************)
(* The accounts of the server as uploads and the admin pages change them:  *)
(* an account's row appears with the first upload that names it and takes  *)
(* its plan from the readings, in whatever order those arrive; admins      *)
(* arrange the accounts, keep the history of an account's plans and delete *)
(* an account, each from a page that may be out of date.                   *)
(*                                                                         *)
(* Transactions run at READ COMMITTED: a statement that writes a row waits *)
(* for the transaction that wrote it last.                                 *)
(***************************************************************************)
EXTENDS Naturals, Sequences, FiniteSets, SequencesExt

CONSTANTS
  Accounts,  \* accounts, as a provider names them
  Admins,    \* admins at work at the same time
  Bases,     \* plans, without a tier
  Tiers,     \* tiers a reading may add to a plan
  None,      \* no row, no tier, no plan, no position, no lock
  MaxTime,   \* bound: moments of readings and plan intervals
  MaxWork    \* bound: uploads and admins' requests

VARIABLES
  rows,       \* the accounts table
  intervals,  \* the plan_intervals table
  locks,      \* the transaction that last wrote an account's row
  tx,         \* the request each admin has under way
  sent,       \* history: readings of a plan since an account's row exists
  arranged,   \* history: the last order saved
  work        \* uploads and requests so far; row and interval ids come from it

vars == <<rows, intervals, locks, tx, sent, arranged, work>>

Times == 1..MaxTime
Ids == 1..MaxWork
Plan == [base : Bases, tier : Tiers \cup {None}]
PlanReading == [plan : Plan, at : Times]
Row == [id : Ids, plan : Plan \cup {None}, planAt : 0..MaxTime, position : Nat \cup {None}]
\* An open interval ends after every moment.
Interval == [id : Ids, account : Ids, from : Times, to : 2..(MaxTime + 1)]
Idle == [pc |-> "idle", id |-> 0, order |-> <<>>, interval |-> None]

TypeOK ==
  /\ rows \in [Accounts -> Row \cup {None}]
  /\ intervals \subseteq Interval
  /\ \A x, y \in intervals : x.id = y.id => x = y
  /\ locks \in [Accounts -> Admins \cup {None}]
  /\ \A d \in Admins :
       /\ tx[d].pc \in {"idle", "order", "ordered", "save", "check", "write", "delete", "deleted", "gone"}
       /\ tx[d].pc \in {"idle", "order", "save", "delete", "deleted"} => \A a \in Accounts : locks[a] # d
       /\ tx[d].pc \in {"check", "write"} => tx[d].interval \in Interval
  /\ sent \in [Accounts -> SUBSET PlanReading]
  /\ \A i, j \in DOMAIN arranged : arranged[i] = arranged[j] => i = j
  /\ work \in 0..MaxWork

Init ==
  /\ rows = [a \in Accounts |-> None]
  /\ intervals = {}
  /\ locks = [a \in Accounts |-> None]
  /\ tx = [d \in Admins |-> Idle]
  /\ sent = [a \in Accounts |-> {}]
  /\ arranged = <<>>
  /\ work = 0

-----------------------------------------------------------------------------
Exists(a) == rows[a] # None
Present(id) == {a \in Accounts : Exists(a) /\ rows[a].id = id}
Begin == work < MaxWork /\ work' = work + 1
Later(s, t) == IF s > t THEN s ELSE t

\* Mutant: the plan's moment is that of the reading that came last.
UpsertedLast(row, r) ==
  [row EXCEPT
     !.plan = IF \/ r.at < row.planAt
                 \/ @ # None /\ r.plan.tier = None /\ @.tier # None /\ @.base = r.plan.base
              THEN @ ELSE r.plan,
     !.planAt = r.at]

\* ensureAccount, for a reading with a plan: "only a newer reading changes
\* the plan", and "the plain plan never replaces" one with its tier.
Upserted(row, r) ==
  [row EXCEPT
     !.plan = IF \/ r.at < row.planAt
                 \/ @ # None /\ r.plan.tier = None /\ @.tier # None /\ @.base = r.plan.base
              THEN @ ELSE r.plan,
     !.planAt = Later(@, r.at)]

NewRow == [id |-> work', plan |-> None, planAt |-> 0, position |-> None]

\* A deletion that has the memberships of an account waits for its row,
\* which an upload holds while it waits for the membership: one of the two
\* is undone, here the deletion; when it is the upload, it comes again.
UndoDeletion(a) ==
  tx' = [d \in Admins |-> IF tx[d].pc = "deleted" /\ Exists(a) /\ tx[d].id = rows[a].id THEN Idle ELSE tx[d]]

\* Ingest: an item that names an account, with the plan read then or none.
Upload(a) ==
  /\ Begin
  /\ locks[a] = None
  /\ \E r \in PlanReading \cup {None} :
       LET row == IF Exists(a) THEN rows[a] ELSE NewRow
       IN  IF r = None
           THEN rows' = [rows EXCEPT ![a] = row] /\ UNCHANGED sent
           ELSE /\ rows' = [rows EXCEPT ![a] = Upserted(row, r)]
                /\ sent' = [sent EXCEPT ![a] = @ \cup {r}]
  /\ UndoDeletion(a)
  /\ UNCHANGED <<intervals, locks, arranged>>

-----------------------------------------------------------------------------
(***************************************************************************)
(* SetAccountOrder.                                                        *)
(***************************************************************************)
\* The page's ids, of which those that no longer exist are dropped.
OrderRead(d) ==
  /\ tx[d].pc = "idle"
  /\ Begin
  /\ \E refs \in SUBSET {a \in Accounts : Exists(a)} : \E seq \in SetToSeqs({rows[a].id : a \in refs}) :
       tx' = [tx EXCEPT ![d] = [Idle EXCEPT !.pc = "order", !.order = seq]]
  /\ UNCHANGED <<rows, intervals, locks, sent, arranged>>

\* Mutant: accounts that are not listed keep their position.
ArrangedListed(row, order) ==
  [row EXCEPT !.position = IF \E i \in DOMAIN order : order[i] = row.id
                           THEN CHOOSE i \in DOMAIN order : order[i] = row.id ELSE @]

\* Every row loses its position, then those listed get theirs.
Arranged(row, order) ==
  [row EXCEPT !.position = IF \E i \in DOMAIN order : order[i] = row.id
                           THEN CHOOSE i \in DOMAIN order : order[i] = row.id ELSE None]

\* The first statement writes every row there is.
OrderClear(d) ==
  /\ tx[d].pc = "order"
  /\ \A a \in Accounts : Exists(a) => locks[a] = None
  /\ locks' = [a \in Accounts |-> IF Exists(a) THEN d ELSE locks[a]]
  /\ tx' = [tx EXCEPT ![d].pc = "ordered"]
  /\ UNCHANGED <<rows, intervals, sent, arranged, work>>

Release(d) == locks' = [a \in Accounts |-> IF locks[a] = d THEN None ELSE locks[a]]

OrderCommit(d) ==
  /\ tx[d].pc = "ordered"
  /\ rows' = [a \in Accounts |-> IF locks[a] = d THEN Arranged(rows[a], tx[d].order) ELSE rows[a]]
  /\ arranged' = IF \E a \in Accounts : locks[a] = d THEN tx[d].order ELSE arranged
  /\ Release(d)
  /\ tx' = [tx EXCEPT ![d] = Idle]
  /\ UNCHANGED <<intervals, sent, work>>

-----------------------------------------------------------------------------
(***************************************************************************)
(* SavePlanInterval and DeletePlanInterval.                                *)
(***************************************************************************)
\* An interval of an account's page, new or edited, that does not end
\* before it begins.
SaveForm(d) ==
  /\ tx[d].pc = "idle"
  /\ Begin
  /\ \E a \in Accounts, from \in Times, to \in 2..(MaxTime + 1) :
       /\ Exists(a) /\ from < to
       /\ \E id \in {work'} \cup {x.id : x \in {y \in intervals : y.account = rows[a].id}} :
            tx' = [tx EXCEPT ![d] = [Idle EXCEPT !.pc = "save", !.id = rows[a].id,
                     !.interval = [id |-> id, account |-> rows[a].id, from |-> from, to |-> to]]]
  /\ UNCHANGED <<rows, intervals, locks, sent, arranged>>

\* Mutant: the account's row is read, not locked.
SaveReads(d) ==
  /\ tx[d].pc = "save"
  /\ tx' = [tx EXCEPT ![d] = IF Present(tx[d].id) = {} THEN Idle ELSE [@ EXCEPT !.pc = "check"]]
  /\ UNCHANGED <<rows, intervals, locks, sent, arranged, work>>

\* SELECT ... FOR UPDATE: waits for the row, and fails without one.
SaveLocks(d) ==
  /\ tx[d].pc = "save"
  /\ \A a \in Present(tx[d].id) : locks[a] = None
  /\ IF Present(tx[d].id) = {}
     THEN tx' = [tx EXCEPT ![d] = Idle] /\ UNCHANGED locks
     ELSE /\ locks' = [a \in Accounts |-> IF a \in Present(tx[d].id) THEN d ELSE locks[a]]
          /\ tx' = [tx EXCEPT ![d].pc = "check"]
  /\ UNCHANGED <<rows, intervals, sent, arranged, work>>

Overlap(x, y) == x.from < y.to /\ y.from < x.to

SaveChecks(d) ==
  LET in == tx[d].interval
  IN  /\ tx[d].pc = "check"
      /\ IF \E x \in intervals : x.account = in.account /\ x.id # in.id /\ Overlap(x, in)
         THEN Release(d) /\ tx' = [tx EXCEPT ![d] = Idle]
         ELSE tx' = [tx EXCEPT ![d].pc = "write"] /\ UNCHANGED locks
      /\ UNCHANGED <<rows, intervals, sent, arranged, work>>

\* A new interval is inserted; one that was edited is there to update, or
\* was deleted meanwhile, which undoes the request.
SaveWrites(d) ==
  LET in == tx[d].interval
      old == {x \in intervals : x.id = in.id}
  IN  /\ tx[d].pc = "write"
      /\ \/ old = {} /\ UNCHANGED intervals
         \/ intervals' = (intervals \ old) \cup {in}
      /\ Release(d)
      /\ tx' = [tx EXCEPT ![d] = Idle]
      /\ UNCHANGED <<rows, sent, arranged, work>>

DeletePlanInterval ==
  /\ Begin
  /\ \E x \in intervals : intervals' = intervals \ {x}
  /\ UNCHANGED <<rows, locks, tx, sent, arranged>>

-----------------------------------------------------------------------------
(***************************************************************************)
(* DeleteAccount.                                                          *)
(***************************************************************************)
DeleteForm(d) ==
  /\ tx[d].pc = "idle"
  /\ Begin
  /\ \E a \in Accounts :
       /\ Exists(a)
       /\ tx' = [tx EXCEPT ![d] = [Idle EXCEPT !.pc = "delete", !.id = rows[a].id]]
  /\ UNCHANGED <<rows, intervals, locks, sent, arranged>>

\* What is recorded on the account, its memberships among it; another
\* deletion that has those makes this one wait.
DeleteRecords(d) ==
  /\ tx[d].pc = "delete"
  /\ \A e \in Admins : tx[e].pc \in {"deleted", "gone"} => tx[e].id # tx[d].id
  /\ tx' = [tx EXCEPT ![d].pc = "deleted"]
  /\ UNCHANGED <<rows, intervals, locks, sent, arranged, work>>

DeleteRow(d) ==
  /\ tx[d].pc = "deleted"
  /\ \A a \in Present(tx[d].id) : locks[a] = None
  /\ IF Present(tx[d].id) = {}
     THEN tx' = [tx EXCEPT ![d] = Idle] /\ UNCHANGED locks
     ELSE /\ locks' = [a \in Accounts |-> IF a \in Present(tx[d].id) THEN d ELSE locks[a]]
          /\ tx' = [tx EXCEPT ![d].pc = "gone"]
  /\ UNCHANGED <<rows, intervals, sent, arranged, work>>

\* The row's plan intervals go with it.
DeleteCommit(d) ==
  /\ tx[d].pc = "gone"
  /\ rows' = [a \in Accounts |-> IF locks[a] = d THEN None ELSE rows[a]]
  /\ sent' = [a \in Accounts |-> IF locks[a] = d THEN {} ELSE sent[a]]
  /\ intervals' = {x \in intervals : x.account # tx[d].id}
  /\ Release(d)
  /\ tx' = [tx EXCEPT ![d] = Idle]
  /\ UNCHANGED <<arranged, work>>

-----------------------------------------------------------------------------
Order(d) == OrderRead(d) \/ OrderClear(d) \/ OrderCommit(d)
Save(d) == SaveForm(d) \/ SaveLocks(d) \/ SaveChecks(d) \/ SaveWrites(d)
Delete(d) == DeleteForm(d) \/ DeleteRecords(d) \/ DeleteRow(d) \/ DeleteCommit(d)

Next == \/ \E a \in Accounts : Upload(a)
        \/ \E d \in Admins : Order(d) \/ Save(d) \/ Delete(d)
        \/ DeletePlanInterval

Spec == Init /\ [][Next]_vars

-----------------------------------------------------------------------------
\* ensureAccount: whatever order the readings of an account's plan arrive
\* in, "a resync replays old sign-ins", its plan is that of a newest one, at
\* most with a tier that one did not carry.
PlanFollowsNewest ==
  \A a \in Accounts :
    sent[a] # {} =>
      \E r \in sent[a] : /\ \A x \in sent[a] : x.at <= r.at
                         /\ rows[a].plan.base = r.plan.base
                         /\ rows[a].plan.tier = r.plan.tier \/ r.plan.tier = None

\* IntervalAt takes "non-overlapping intervals": no two of an account's
\* overlap, with two admins saving, editing and deleting at once and the
\* account deleted under them.
IntervalsApart ==
  \A x, y \in intervals : x # y /\ x.account = y.account => ~Overlap(x, y)

\* SetAccountOrder: the positions are those of the list saved last, and
\* "accounts not listed keep no position and follow them".
OneOrder ==
  \A a \in {b \in Accounts : Exists(b)} :
    {i \in DOMAIN arranged : arranged[i] = rows[a].id} = {rows[a].position} \ {None}
=============================================================================
