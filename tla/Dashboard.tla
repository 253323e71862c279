----------------------------- MODULE Dashboard ------------------------------
(***************************************************************************)
(* The admin console's sessions and the dashboard it can publish.  Anyone  *)
(* may open a published dashboard; an admin sees it before.  An account's  *)
(* name there is its label, unless that is still the masked email a device *)
(* reported, which stays inside the console.  The overview a page is made  *)
(* of is read in two queries and kept for a while for all visitors, so     *)
(* uploads, renames and the clock come between any two steps.              *)
(***************************************************************************)
EXTENDS Naturals

CONSTANTS
  Visitors,    \* visitors of the dashboard at the same time
  Hints,       \* masked emails devices report of the account
  Names,       \* labels an admin gives
  None,        \* no hint, no label, nothing cached, no session
  SessionTTL,  \* moments a session lasts
  CacheTTL,    \* moments an overview is kept
  MaxTime,     \* bound: moments of the server's clock
  MaxLogins,   \* bound: sign-ins
  MaxRestarts  \* bound: restarts of the server

VARIABLES
  now,
  hint, label,  \* the account's row
  published,    \* the setting
  sessions,     \* Console.sessions: when each ends
  cookie,       \* the session a visitor's browser names
  cache,        \* dashboardCache.overview
  visit,        \* what each visitor waits for
  shown,        \* history: pages answered
  ended,        \* history: sessions logged out, or lost with the server
  logins, restarts

vars == <<now, hint, label, published, sessions, cookie, cache, visit, shown, ended, logins, restarts>>
account == <<hint, label>>
console == <<sessions, cookie, ended, logins>>

Times == 1..MaxTime
SessionIds == 1..MaxLogins
Labels == Hints \cup Names \cup {None}
Entry == [at : Times, label : Labels]
Away == [pc |-> "away", label |-> None, public |-> FALSE]

TypeOK ==
  /\ now \in Times
  /\ hint \in Hints \cup {None} /\ label \in Labels
  /\ published \in BOOLEAN
  /\ sessions \in [SessionIds -> 0..(MaxTime + SessionTTL)]
  /\ cookie \in [Visitors -> SessionIds \cup {None}]
  /\ cache \in Entry \cup {None}
  /\ visit \in [Visitors -> [pc : {"away", "get", "build", "page"}, label : Labels, public : BOOLEAN]]
  \* The cache's mutex: one visitor builds an overview.
  /\ \A v, w \in Visitors : visit[v].pc = "build" /\ visit[w].pc = "build" => v = w
  /\ shown \subseteq [label : Labels, public : BOOLEAN, session : SessionIds \cup {None}]
  /\ ended \subseteq SessionIds
  /\ logins \in 0..MaxLogins /\ restarts \in 0..MaxRestarts

Init ==
  /\ now = 1
  /\ hint = None /\ label = None
  /\ published = FALSE
  /\ sessions = [s \in SessionIds |-> 0]
  /\ cookie = [v \in Visitors |-> None]
  /\ cache = None
  /\ visit = [v \in Visitors |-> Away]
  /\ shown = {} /\ ended = {}
  /\ logins = 0 /\ restarts = 0

-----------------------------------------------------------------------------
Tick ==
  /\ now < MaxTime
  /\ now' = now + 1
  /\ UNCHANGED <<account, published, console, cache, visit, shown, restarts>>

\* ensureAccount: a reported hint is kept, and names an account without a
\* label.
Upload ==
  /\ \E h \in Hints : hint' = h /\ label' = IF label = None THEN h ELSE label
  /\ UNCHANGED <<now, published, console, cache, visit, shown, restarts>>

-----------------------------------------------------------------------------
(***************************************************************************)
(* Sessions, which live in the server's memory: 0 is no session.           *)
(***************************************************************************)
\* Mutant: a session does not run out by itself.
ValidForever(s) == s # None /\ sessions[s] > 0

Valid(s) == s # None /\ sessions[s] >= now

\* A sign-in drops what has run out.
Login(v) ==
  /\ logins < MaxLogins
  /\ logins' = logins + 1
  /\ sessions' = [s \in SessionIds |-> IF s = logins' THEN now + SessionTTL
                                     ELSE IF sessions[s] < now THEN 0 ELSE sessions[s]]
  /\ cookie' = [cookie EXCEPT ![v] = logins']
  /\ UNCHANGED <<now, account, published, cache, visit, shown, ended, restarts>>

Logout(v) ==
  /\ cookie[v] # None
  /\ sessions' = [sessions EXCEPT ![cookie[v]] = 0]
  /\ ended' = ended \cup {cookie[v]}
  /\ UNCHANGED <<now, account, published, cookie, cache, visit, shown, logins, restarts>>

\* setLabel and saveSettings, for who is signed in.
SetLabel(v) ==
  /\ Valid(cookie[v])
  /\ \E n \in Names : label' = n
  /\ hint # None  \* the account exists
  /\ UNCHANGED <<now, hint, published, console, cache, visit, shown, restarts>>

SaveSettings(v) ==
  /\ Valid(cookie[v])
  /\ published' = ~published
  /\ UNCHANGED <<now, account, console, cache, visit, shown, restarts>>

\* Everyone is signed out and what was kept is gone; requests fail.
Restart ==
  /\ restarts < MaxRestarts
  /\ restarts' = restarts + 1
  /\ sessions' = [s \in SessionIds |-> 0]
  /\ ended' = ended \cup {s \in SessionIds : s <= logins}
  /\ cache' = None
  /\ visit' = [v \in Visitors |-> Away]
  /\ UNCHANGED <<now, account, published, cookie, shown, logins>>

-----------------------------------------------------------------------------
(***************************************************************************)
(* A visit: the setting, the cache or two queries, the page.               *)
(***************************************************************************)
\* publicView: not found for who may not see it.
Open(v) ==
  /\ visit[v].pc = "away"
  /\ published \/ Valid(cookie[v])
  /\ visit' = [visit EXCEPT ![v] = [pc |-> "get", label |-> None, public |-> published]]
  /\ UNCHANGED <<now, account, published, console, cache, shown, restarts>>

\* ttlCache.get holds its mutex while it builds.
Building == \E v \in Visitors : visit[v].pc = "build"
Kept == cache # None /\ now - cache.at < CacheTTL

GetKept(v) ==
  /\ visit[v].pc = "get" /\ ~Building
  /\ Kept
  /\ visit' = [visit EXCEPT ![v].pc = "page", ![v].label = cache.label]
  /\ UNCHANGED <<now, account, published, console, cache, shown, restarts>>

\* query.Overview reads the labels ...
BuildOverview(v) ==
  /\ visit[v].pc = "get" /\ ~Building
  /\ ~Kept
  /\ visit' = [visit EXCEPT ![v].pc = "build", ![v].label = label]
  /\ UNCHANGED <<now, account, published, console, cache, shown, restarts>>

\* Mutant: only the account's present hint counts as one.
UnnamedIfHint(l) == IF l = hint THEN None ELSE l

\* "A label that is no longer the account's hint, because a later reading
\* reported another one, is still a masked email and stays unpublished."
PublicLabel(l) == IF l = hint \/ l \in Hints THEN None ELSE l

\* ... and publicOverview the hints, some time later; or a query fails.
BuildHints(v) ==
  /\ visit[v].pc = "build"
  /\ \/ /\ cache' = [at |-> now, label |-> PublicLabel(visit[v].label)]
        /\ visit' = [visit EXCEPT ![v].pc = "page", ![v].label = cache'.label]
     \/ /\ visit' = [visit EXCEPT ![v] = Away]
        /\ UNCHANGED cache
  /\ UNCHANGED <<now, account, published, console, shown, restarts>>

\* An account without a name is numbered.
Page(v) ==
  /\ visit[v].pc = "page"
  /\ shown' = {[label |-> visit[v].label, public |-> visit[v].public, session |-> cookie[v]]}
  /\ visit' = [visit EXCEPT ![v] = Away]
  /\ UNCHANGED <<now, account, published, console, cache, restarts>>

-----------------------------------------------------------------------------
Visit(v) == Open(v) \/ GetKept(v) \/ BuildOverview(v) \/ BuildHints(v) \/ Page(v)
Admin(v) == Login(v) \/ Logout(v) \/ SetLabel(v) \/ SaveSettings(v)

Next == Tick \/ Upload \/ Restart \/ \E v \in Visitors : Visit(v) \/ Admin(v)

Spec == Init /\ [][Next]_vars

-----------------------------------------------------------------------------
\* publicOverview: "an account still named by its masked email is left
\* unnamed".  No page ever shows a masked email, whatever is uploaded between
\* the two queries, and whoever renames the account beside them.
NoEmailShown == \A p \in shown : p.label \notin Hints

\* publicView, signedIn: a request for a dashboard that is not published is
\* answered only if its cookie names a session that was opened less than
\* SessionTTL ago and not ended since, by a logout or by a restart.
PreviewIsAdmins ==
  [][\A v \in Visitors :
       visit[v].pc = "away" /\ visit'[v].pc = "get" /\ ~published
         => /\ cookie[v] \in SessionIds \ ended
            /\ sessions[cookie[v]] \in now..(now + SessionTTL)]_vars
=============================================================================
