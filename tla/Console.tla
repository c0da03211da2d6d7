------------------------------ MODULE Console ------------------------------
(***************************************************************************)
(* The manager console: one browser tab with its session (App.tsx, api.ts, *)
(* LoginPage.tsx) on the page of the matches (MatchesPage.tsx), and the    *)
(* handlers of the backend it calls.                                       *)
(*                                                                         *)
(* What can go wrong between them:                                         *)
(*   - answers arrive in any order, late, or not at all;                   *)
(*   - the page a request was made for is left, or loaded anew, before the *)
(*     answer comes;                                                       *)
(*   - sessions are kept in memory: a restart of the backend ends them;    *)
(*   - the matches change while the page shows what they were.             *)
(* A handler of the page runs up to its await in one action (Send), the    *)
(* backend's handler is another (Handle), and what follows the await a     *)
(* third (Deliver).  The other pages are one page that fetches once.       *)
(***************************************************************************)
EXTENDS Naturals, FiniteSets

CONSTANTS
  Matches,     (* bound: the matches that are ever created                 *)
  NoMatch,     (* a request that is about no match                         *)
  Tokens,      (* bound: session tokens in use at a time                   *)
  NoToken,     (* no cookie                                                *)
  MaxRequests  (* bound: requests of the browser under way                 *)

ASSUME ConsoleAssumption ==
  NoMatch \notin Matches /\ NoToken \notin Tokens /\ MaxRequests \in Nat

Ids == 1..MaxRequests

\* States of a match as the page tells them apart: not in the table,
\* ACTIVE_STATES, and the others.  A match never goes back.
States == {"none", "active", "final"}
Rank   == [s \in States |-> IF s = "none" THEN 0 ELSE IF s = "active" THEN 1 ELSE 2]
Rows   == [Matches -> States]
NoRows == [m \in Matches |-> "none"]

VARIABLES
  (* the backend *)
  row,       \* manager_matches.state
  sessions,  \* Backend.sessions
  (* the browser *)
  cookie,    \* mr1v1_session
  url,       \* the page shown
  page,      \* state of MatchesPage, Fresh while it is not mounted
  req        \* requests under way

vars == <<row, sessions, cookie, url, page, req>>

Urls  == {"login", "matches", "other"}
Kinds == {"list", "create", "stop", "logs", "server", "login", "logout", "data"}
Writes == {"create", "stop", "login", "logout"}

(* page.asked, .waiting and .cache are logsFetchedRef, logsLoading and      *)
(* logsCache, and under "server" the three of the same name.                *)
Details == {"logs", "server"}
Fresh ==
  [view |-> NoRows, loading |-> FALSE, createOpen |-> FALSE, creating |-> FALSE,
   expanded |-> {}, asked |-> [d \in Details |-> {}],
   waiting |-> [d \in Details |-> {}], cache |-> [d \in Details |-> {}]]

(* A request is sent, then answered ("ok", "failed": an error that is not   *)
(* 401, "denied": 401) unless nobody is there to be answered ("orphan").    *)
(* live: the page it was sent from is still mounted; rows and token are     *)
(* what a list and a login were answered.                                   *)
Phases == {"free", "sent", "orphan", "ok", "failed", "denied"}
NoRequest == [kind |-> "data", match |-> NoMatch, phase |-> "free", live |-> FALSE,
              token |-> NoToken, rows |-> NoRows]
Request(k, m) == [NoRequest EXCEPT !.kind = k, !.match = m, !.phase = "sent",
                                   !.live = TRUE, !.token = cookie]

Under(i)   == req[i].phase # "free"
Live(i, k) == Under(i) /\ req[i].kind = k /\ req[i].live

\* Sending: a request takes a free id, whichever.
Room(r)   == \E i \in Ids : r[i].phase = "free"
Put(r, q) == [r EXCEPT ![CHOOSE i \in Ids : r[i].phase = "free"] = q]
Send(k, m) == Room(req) /\ req' = Put(req, Request(k, m))

-----------------------------------------------------------------------------
(* MatchesPage: up to the await                                             *)

\* Seeded: the timer is missing, the table is fetched while it is empty.
FetchMatchesOnce ==
  /\ url = "matches" /\ page.view = NoRows
  /\ page' = [page EXCEPT !.loading = TRUE]
  /\ Send("list", NoMatch)
  /\ UNCHANGED <<row, sessions, cookie, url>>

\* fetchMatches, by the timer of eight seconds or the button.
FetchMatches ==
  /\ url = "matches"
  /\ page' = [page EXCEPT !.loading = TRUE]
  /\ Send("list", NoMatch)
  /\ UNCHANGED <<row, sessions, cookie, url>>

OpenCreate ==
  /\ url = "matches" /\ ~page.createOpen
  /\ page' = [page EXCEPT !.createOpen = TRUE]
  /\ UNCHANGED <<row, sessions, cookie, url, req>>

\* Seeded: cancelling also ends the loading of the button.
CancelCreateResets ==
  /\ page.createOpen
  /\ page' = [page EXCEPT !.createOpen = FALSE, !.creating = FALSE]
  /\ UNCHANGED <<row, sessions, cookie, url, req>>

\* Cancelling is possible while the creation is under way.
CancelCreate ==
  /\ page.createOpen
  /\ page' = [page EXCEPT !.createOpen = FALSE]
  /\ UNCHANGED <<row, sessions, cookie, url, req>>

\* handleCreate; a button that is loading takes no click (confirmLoading).
SubmitCreate ==
  /\ page.createOpen /\ ~page.creating
  /\ page' = [page EXCEPT !.creating = TRUE]
  /\ Send("create", NoMatch)
  /\ UNCHANGED <<row, sessions, cookie, url>>

\* Seeded: the row is shown as ended before the backend has answered.
StopOptimistic(m) ==
  /\ page.view[m] = "active"
  /\ page' = [page EXCEPT !.view[m] = "final"]
  /\ Send("stop", m)
  /\ UNCHANGED <<row, sessions, cookie, url>>

\* handleEnd and handleDestroy, which differ in what the agent does only.
\* The buttons are there for the matches the page takes for active.
Stop(m) ==
  /\ page.view[m] = "active"
  /\ Send("stop", m)
  /\ UNCHANGED <<row, sessions, cookie, url, page>>

\* fetchLogs and fetchServer (d) of a row, once until they are forgotten.
Asked(p, d, m) ==
  IF m \in p.asked[d] THEN p
  ELSE [p EXCEPT !.asked[d] = @ \cup {m}, !.waiting[d] = @ \cup {m}]
Ask(r, p, d, m) == IF m \in p.asked[d] THEN r ELSE Put(r, Request(d, m))
MayAsk(r, p, d, m) == m \in p.asked[d] \/ Room(r)

\* handleExpand, and the row that is rendered from then on (expandedRowRender).
Expand(m) ==
  /\ page.view[m] # "none" /\ m \notin page.expanded
  /\ MayAsk(req, page, "logs", m)
  /\ MayAsk(Ask(req, page, "logs", m), page, "server", m)
  /\ page' = Asked(Asked([page EXCEPT !.expanded = @ \cup {m}], "logs", m), "server", m)
  /\ req' = Ask(Ask(req, page, "logs", m), page, "server", m)
  /\ UNCHANGED <<row, sessions, cookie, url>>

Collapse(m) ==
  /\ m \in page.expanded
  /\ page' = [page EXCEPT !.expanded = @ \ {m}]
  /\ UNCHANGED <<row, sessions, cookie, url, req>>

\* Seeded: serverFetchedRef is kept, so that nothing is fetched again.
ForgottenCacheOnly(p, m) == [p EXCEPT !.cache["server"] = @ \ {m}]

\* refreshServer forgets what it has and fetches again, whatever is under way.
Forgotten(p, m) == [p EXCEPT !.asked["server"] = @ \ {m}, !.cache["server"] = @ \ {m}]
RefreshServer(m) ==
  /\ m \in page.expanded /\ page.view[m] = "active"
  /\ MayAsk(req, Forgotten(page, m), "server", m)
  /\ page' = Asked(Forgotten(page, m), "server", m)
  /\ req' = Ask(req, Forgotten(page, m), "server", m)
  /\ UNCHANGED <<row, sessions, cookie, url>>

-----------------------------------------------------------------------------
(* App and LoginPage: up to the await                                       *)

\* The requests of a page that is unmounted stay under way, and nobody sees
\* their answers.
Unmounted(r) == [i \in Ids |-> [r[i] EXCEPT !.live = FALSE]]

\* What is mounted on url u, with the cookie c, and the request it begins with.
Mount(u, r, c) ==
  /\ url' = u
  /\ page' = [Fresh EXCEPT !.loading = u = "matches"]
  /\ cookie' = c
  /\ IF u = "login" THEN req' = r
     ELSE Room(r) /\ req' = Put(r, [Request(IF u = "matches" THEN "list" ELSE "data", NoMatch)
                                      EXCEPT !.token = c])

\* The menu of MainLayout.
Navigate(u) ==
  /\ url # "login" /\ u \in {"matches", "other"} /\ u # url
  /\ Mount(u, Unmounted(req), cookie)
  /\ UNCHANGED <<row, sessions>>

\* The browser loads a page: nothing is left of the old one but the writes
\* that were already sent.
Abandoned(r) ==
  [i \in Ids |-> IF r[i].phase \in {"sent", "orphan"} /\ r[i].kind \in Writes
                 THEN [r[i] EXCEPT !.phase = "orphan", !.live = FALSE] ELSE NoRequest]

Open(u) ==
  /\ Mount(u, Abandoned(req), cookie)
  /\ UNCHANGED <<row, sessions>>

\* onFinish of LoginPage: the button is loading until the answer is there.
Login ==
  /\ url = "login" /\ \A i \in Ids : ~Live(i, "login")
  /\ Send("login", NoMatch)
  /\ UNCHANGED <<row, sessions, cookie, url, page>>

\* logout of MainLayout.
Logout ==
  /\ url # "login"
  /\ Send("logout", NoMatch)
  /\ UNCHANGED <<row, sessions, cookie, url, page>>

-----------------------------------------------------------------------------
(* The backend: authMiddleware and a handler                                *)

Answered(i, ph, rs, t) ==
  req' = [req EXCEPT ![i] = IF @.phase = "orphan" THEN NoRequest
                            ELSE [@ EXCEPT !.phase = ph, !.rows = rs, !.token = t]]

Arrived(i)    == req[i].phase \in {"sent", "orphan"}
Authorized(i) == req[i].kind \in {"login", "logout"} \/ req[i].token \in sessions

Deny(i) ==
  /\ Arrived(i) /\ ~Authorized(i)
  /\ Answered(i, "denied", NoRows, NoToken)
  /\ UNCHANGED <<row, sessions, cookie, url, page>>

\* The request is lost, or fails in the backend before it does anything.
Fail(i) ==
  /\ Arrived(i)
  /\ Answered(i, "failed", NoRows, NoToken)
  /\ UNCHANGED <<row, sessions, cookie, url, page>>

\* handleListMatches, handleMatchLogs, handleMatchServer and the other lists.
Read(i) ==
  /\ Arrived(i) /\ Authorized(i) /\ req[i].kind \in {"list", "logs", "server", "data"}
  /\ Answered(i, "ok", IF req[i].kind = "list" THEN row ELSE NoRows, NoToken)
  /\ UNCHANGED <<row, sessions, cookie, url, page>>

\* handleCreateMatch; whether it is answered or the answer is lost (ph).
HandleCreate(i, m, ph) ==
  /\ Arrived(i) /\ Authorized(i) /\ req[i].kind = "create"
  /\ row[m] = "none"
  /\ row' = [row EXCEPT ![m] = "active"]
  /\ Answered(i, ph, NoRows, NoToken)
  /\ UNCHANGED <<sessions, cookie, url, page>>

\* dispatchDestroy, which terminates the match whatever its state.
HandleStop(i, ph) ==
  /\ Arrived(i) /\ Authorized(i) /\ req[i].kind = "stop"
  /\ row' = [row EXCEPT ![req[i].match] = "final"]
  /\ Answered(i, ph, NoRows, NoToken)
  /\ UNCHANGED <<sessions, cookie, url, page>>

\* handleLogin.  A token is random: it is none that anybody may still send.
HandleLogin(i, t, ph) ==
  /\ Arrived(i) /\ req[i].kind = "login"
  /\ t \notin sessions \cup {cookie} \cup {req[j].token : j \in Ids}
  /\ sessions' = sessions \cup {t}
  /\ Answered(i, ph, NoRows, IF ph = "ok" THEN t ELSE NoToken)
  /\ UNCHANGED <<row, cookie, url, page>>

\* handleLogin of wrong credentials.
RefuseLogin(i) ==
  /\ Arrived(i) /\ req[i].kind = "login"
  /\ Answered(i, "denied", NoRows, NoToken)
  /\ UNCHANGED <<row, sessions, cookie, url, page>>

\* handleLogout.
HandleLogout(i, ph) ==
  /\ Arrived(i) /\ req[i].kind = "logout"
  /\ sessions' = sessions \ {req[i].token}
  /\ Answered(i, ph, NoRows, NoToken)
  /\ UNCHANGED <<row, cookie, url, page>>

\* The rest of the system makes and ends matches too; the backend restarts.
Progress(m) ==
  /\ \/ row[m] = "none"   /\ row' = [row EXCEPT ![m] = "active"]
     \/ row[m] = "active" /\ row' = [row EXCEPT ![m] = "final"]
  /\ UNCHANGED <<sessions, cookie, url, page, req>>

Restart ==
  /\ sessions' = {}
  /\ UNCHANGED <<row, cookie, url, page, req>>

-----------------------------------------------------------------------------
(* The browser: an answer arrives                                           *)

Freed(i) == [req EXCEPT ![i] = NoRequest]

\* Seeded: an answer is shown whatever is mounted by then.
OnPageAnyway(i, p) == page' = p

\* A state setter does nothing once its page is unmounted.
OnPage(i, p) == page' = IF req[i].live THEN p ELSE page

\* A fetchMatches that follows an answer: it takes the id that becomes free.
Refetch(i) ==
  req' = [req EXCEPT ![i] = [Request("list", NoMatch) EXCEPT !.live = req[i].live]]

\* Seeded: the interceptor leaves the 401 of a poll to the page.
DeliverDeniedQuietly(i) ==
  /\ req[i].phase = "denied"
  /\ IF req[i].kind = "list"
     THEN req' = Freed(i) /\ OnPage(i, [page EXCEPT !.loading = FALSE])
                          /\ UNCHANGED <<cookie, url>>
     ELSE Mount("login", Abandoned(req), cookie)
  /\ UNCHANGED <<row, sessions>>

\* The interceptor of api.ts: any 401 loads the login page.
DeliverDenied(i) ==
  /\ req[i].phase = "denied"
  /\ Mount("login", Abandoned(req), cookie)
  /\ UNCHANGED <<row, sessions>>

DeliverList(i) ==
  /\ req[i].kind = "list" /\ req[i].phase \in {"ok", "failed"}
  /\ OnPage(i, IF req[i].phase = "ok"
               THEN [page EXCEPT !.view = req[i].rows, !.loading = FALSE]
               ELSE [page EXCEPT !.loading = FALSE])
  /\ req' = Freed(i)
  /\ UNCHANGED <<row, sessions, cookie, url>>

\* The rest of handleCreate: whatever dialog is open by then is closed.
DeliverCreate(i) ==
  /\ req[i].kind = "create"
  /\ \/ /\ req[i].phase = "ok"
        /\ OnPage(i, [page EXCEPT !.createOpen = FALSE, !.creating = FALSE, !.loading = TRUE])
        /\ Refetch(i)
     \/ /\ req[i].phase = "failed"
        /\ OnPage(i, [page EXCEPT !.creating = FALSE])
        /\ req' = Freed(i)
  /\ UNCHANGED <<row, sessions, cookie, url>>

\* The rest of handleEnd and handleDestroy.
DeliverStop(i) ==
  /\ req[i].kind = "stop"
  /\ \/ /\ req[i].phase = "ok"
        /\ OnPage(i, [page EXCEPT !.loading = TRUE])
        /\ Refetch(i)
     \/ /\ req[i].phase = "failed"
        /\ req' = Freed(i)
        /\ UNCHANGED page
  /\ UNCHANGED <<row, sessions, cookie, url>>

\* The rest of fetchLogs and fetchServer; an error is shown as a result.
DeliverDetails(i) ==
  /\ req[i].kind \in Details /\ req[i].phase \in {"ok", "failed"}
  /\ LET d == req[i].kind
     IN  OnPage(i, [page EXCEPT !.cache[d]   = @ \cup {req[i].match},
                                !.waiting[d] = @ \ {req[i].match}])
  /\ req' = Freed(i)
  /\ UNCHANGED <<row, sessions, cookie, url>>

\* The rest of onFinish: the cookie is set and "/" redirects to the matches.
DeliverLogin(i) ==
  /\ req[i].kind = "login"
  /\ \/ req[i].phase = "ok" /\ Mount("matches", Freed(i), req[i].token)
     \/ req[i].phase = "failed" /\ req' = Freed(i) /\ UNCHANGED <<cookie, url, page>>
  /\ UNCHANGED <<row, sessions>>

\* The rest of logout, which shows the login page even if the call failed.
\* Who clicked twice is on it already, and that page stays mounted.
DeliverLogout(i) ==
  /\ req[i].kind = "logout" /\ req[i].phase \in {"ok", "failed"}
  /\ Mount("login", IF url = "login" THEN Freed(i) ELSE Unmounted(Freed(i)),
           IF req[i].phase = "ok" THEN NoToken ELSE cookie)
  /\ UNCHANGED <<row, sessions>>

DeliverData(i) ==
  /\ req[i].kind = "data" /\ req[i].phase \in {"ok", "failed"}
  /\ req' = Freed(i)
  /\ UNCHANGED <<row, sessions, cookie, url, page>>

-----------------------------------------------------------------------------

Init ==
  /\ row = NoRows /\ sessions = {} /\ cookie = NoToken
  /\ url = "login" /\ page = Fresh /\ req = [i \in Ids |-> NoRequest]

User ==
  \/ FetchMatches \/ OpenCreate \/ CancelCreate \/ SubmitCreate \/ Login \/ Logout
  \/ \E m \in Matches : Stop(m) \/ Expand(m) \/ Collapse(m) \/ RefreshServer(m)
  \/ \E u \in Urls : Navigate(u) \/ Open(u)

Backend(i) ==
  \/ Deny(i) \/ Fail(i) \/ Read(i) \/ RefuseLogin(i)
  \/ \E ph \in {"ok", "failed"} :
       \/ \E m \in Matches : HandleCreate(i, m, ph)
       \/ HandleStop(i, ph) \/ HandleLogout(i, ph)
       \/ \E t \in Tokens : HandleLogin(i, t, ph)

Deliver(i) ==
  \/ DeliverDenied(i) \/ DeliverList(i) \/ DeliverCreate(i) \/ DeliverStop(i)
  \/ DeliverDetails(i) \/ DeliverLogin(i) \/ DeliverLogout(i) \/ DeliverData(i)

Next ==
  \/ User
  \/ \E i \in Ids : Backend(i) \/ Deliver(i)
  \/ \E m \in Matches : Progress(m)
  \/ Restart

Spec == Init /\ [][Next]_vars

(* Fairness.  The timer of the page fires as long as the page is mounted    *)
(* (strong, for the bound on requests may block it for a while); every      *)
(* request is answered or fails, and every answer is processed; of the      *)
(* lists that are polled again and again some get through to the backend.   *)
Fairness ==
  /\ SF_vars(FetchMatches)
  /\ \A i \in Ids : WF_vars(Backend(i)) /\ WF_vars(Deliver(i))
  /\ SF_vars(\E i \in Ids : req[i].kind = "list" /\ req[i].live /\ (Read(i) \/ Deny(i)))

FairSpec == Spec /\ Fairness

-----------------------------------------------------------------------------
(* Properties                                                               *)

Pages ==
  [view : Rows, loading : BOOLEAN, createOpen : BOOLEAN, creating : BOOLEAN,
   expanded : SUBSET Matches, asked : [Details -> SUBSET Matches],
   waiting : [Details -> SUBSET Matches], cache : [Details -> SUBSET Matches]]
Requests ==
  [kind : Kinds, match : Matches \cup {NoMatch}, phase : Phases, live : BOOLEAN,
   token : Tokens \cup {NoToken}, rows : Rows]

TypeOK ==
  /\ row \in Rows /\ sessions \subseteq Tokens /\ cookie \in Tokens \cup {NoToken}
  /\ url \in Urls
  /\ page \in Pages /\ req \in [Ids -> Requests]
  /\ url # "matches" => page = Fresh

\* What the page shows as running on: the table's loading, the dialog's
\* button, and the two spinners of an expanded row (logTab, svrTab).
Spins(d, m) == m \in page.waiting[d] \/ m \notin page.cache[d]

(* Nothing spins for ever: whenever the table, the button of the dialog or   *)
(* a detail of an expanded row shows that something is under way, a request *)
(* of this very page is, whose answer will end it.  (fetchMatches,          *)
(* handleCreate, fetchLogs, fetchServer and refreshServer share flags       *)
(* between several requests of the same kind.)                              *)
SpinnersHaveRequests ==
  /\ page.loading => \E i \in Ids : Live(i, "list")
  /\ page.creating => \E i \in Ids : Live(i, "create")
  /\ \A m \in page.expanded, d \in Details :
       Spins(d, m) => \E i \in Ids : Live(i, d) /\ req[i].match = m

(* A page has one creation under way at most, and its button spins as long: *)
(* no second match is created by a second click, whatever is closed,        *)
(* reopened or answered in between (handleCreate).                          *)
OneCreationPerPage ==
  \A i, j \in Ids : Live(i, "create") /\ Live(j, "create") => i = j /\ page.creating

(* The table may lag behind the matches and even go back (a late answer),   *)
(* but it never runs ahead: a match shown as over is over, one shown exists *)
(* (fetchMatches, handleEnd and handleDestroy take nothing for granted).    *)
ViewIsPast == \A m \in Matches : Rank[page.view[m]] <= Rank[row[m]]

\* The user does not load pages for ever.
Patient == <>[][~\E u \in Urls : Open(u)]_vars

(* As long as the page of the matches is open the table converges to what   *)
(* the backend has, whatever was answered out of order before               *)
(* (the timer of fetchMatches).                                             *)
ViewConverges ==
  Patient => \A m \in Matches, s \in States :
    <>[](url = "matches" /\ row[m] = s) => <>[](page.view[m] = s)

(* Who sits in front of the matches with a session that is gone (a restart, *)
(* a logout) is shown the login page: the poll finds out (api.ts,           *)
(* authMiddleware).                                                         *)
DeadSessionIsNoticed ==
  Patient => ((url = "matches" /\ cookie \notin sessions) ~> url # "matches")

=============================================================================
