--------------------------- MODULE ConsoleProofs ---------------------------
(***************************************************************************)
(* Proofs about Console, for any matches, tokens and number of requests.   *)
(*                                                                         *)
(* The argument: a request is live only as long as the page it was sent    *)
(* from is mounted (Owned), so whatever an answer does it does to that     *)
(* page; every flag of the page that says "under way" stands for such a    *)
(* request (Flagged); and what an answer carries was true of the backend   *)
(* once, which never goes back (Past).                                     *)
(***************************************************************************)
EXTENDS Console, TLAPS

-----------------------------------------------------------------------------
(* Requests                                                                 *)

LEMMA NoRequestFacts ==
  /\ NoRequest \in Requests /\ NoRows \in Rows
  /\ NoRequest.kind = "data" /\ NoRequest.match = NoMatch /\ NoRequest.phase = "free"
  /\ NoRequest.live = FALSE /\ NoRequest.rows = NoRows /\ NoRequest.token = NoToken
<1>1. NoRows \in Rows
  BY DEF NoRows, Rows, States
<1> QED
  BY <1>1 DEF NoRequest, Requests, Kinds, Phases

\* What a request is when it is sent, by whatever cookie.
LEMMA RequestFacts ==
  ASSUME NEW k \in Kinds, NEW m \in Matches \cup {NoMatch}, cookie \in Tokens \cup {NoToken}
  PROVE  /\ Request(k, m) \in Requests
         /\ Request(k, m).kind = k /\ Request(k, m).match = m
         /\ Request(k, m).phase = "sent" /\ Request(k, m).live = TRUE
         /\ Request(k, m).rows = NoRows
BY NoRequestFacts DEF Request, NoRequest, Requests, Phases

\* A request that is sent takes the place of one that is over.
LEMMA PutFact ==
  ASSUME NEW r \in [Ids -> Requests], NEW q \in Requests, Room(r)
  PROVE  \E i \in Ids : /\ r[i].phase = "free"
                       /\ Put(r, q) \in [Ids -> Requests]
                       /\ Put(r, q) = [r EXCEPT ![i] = q]
<1> DEFINE i == CHOOSE j \in Ids : r[j].phase = "free"
<1>1. i \in Ids /\ r[i].phase = "free"
  BY DEF Room
<1>2. Put(r, q) = [r EXCEPT ![i] = q]
  BY DEF Put
<1> QED
  BY <1>1, <1>2

\* Mount, apart from what becomes of the old requests (r).
LEMMA MountFact ==
  ASSUME TypeOK, NEW u \in Urls, NEW r \in [Ids -> Requests], NEW c \in Tokens \cup {NoToken},
         Mount(u, r, c)
  PROVE  /\ url' = u /\ cookie' = c
         /\ page' = [Fresh EXCEPT !.loading = (u = "matches")]
         /\ \/ u = "login" /\ req' = r
            \/ \E i \in Ids, q \in Requests :
                 /\ u # "login" /\ r[i].phase = "free" /\ req' = [r EXCEPT ![i] = q]
                 /\ q.kind = (IF u = "matches" THEN "list" ELSE "data")
                 /\ q.phase = "sent" /\ q.live = TRUE /\ q.rows = NoRows
<1> DEFINE k == IF u = "matches" THEN "list" ELSE "data"
           q == [Request(k, NoMatch) EXCEPT !.token = c]
<1>1. CASE u = "login"
  BY <1>1 DEF Mount
<1>2. CASE u # "login"
  <2>0. k \in Kinds /\ NoMatch \in Matches \cup {NoMatch} /\ cookie \in Tokens \cup {NoToken}
    BY DEF TypeOK, Kinds
  <2> HIDE DEF k
  <2>1. Request(k, NoMatch) \in Requests /\ Request(k, NoMatch).kind = k
        /\ Request(k, NoMatch).phase = "sent" /\ Request(k, NoMatch).live = TRUE
        /\ Request(k, NoMatch).rows = NoRows
    BY <2>0, RequestFacts, Zenon
  <2>2. q \in Requests /\ q.kind = k /\ q.phase = "sent" /\ q.live = TRUE /\ q.rows = NoRows
    BY <2>1 DEF Requests
  <2>3. Room(r) /\ req' = Put(r, q)
    BY <1>2 DEF Mount, k
  <2> HIDE DEF q
  <2>4. \E i \in Ids : r[i].phase = "free" /\ req' = [r EXCEPT ![i] = q]
    BY <2>2, <2>3, PutFact
  <2> QED
    BY <1>2, <2>2, <2>4 DEF Mount, k
<1> QED
  BY <1>1, <1>2

\* What is left of the requests when a page is unmounted, or loaded anew, and
\* when one is over.
LEMMA UnmountedFact ==
  ASSUME NEW r \in [Ids -> Requests]
  PROVE  /\ Unmounted(r) \in [Ids -> Requests]
         /\ \A i \in Ids : /\ Unmounted(r)[i].live = FALSE /\ Unmounted(r)[i].kind = r[i].kind
                           /\ Unmounted(r)[i].phase = r[i].phase
                           /\ Unmounted(r)[i].rows = r[i].rows
BY DEF Unmounted, Requests

LEMMA AbandonedFact ==
  ASSUME NEW r \in [Ids -> Requests]
  PROVE  /\ Abandoned(r) \in [Ids -> Requests]
         /\ \A i \in Ids : /\ Abandoned(r)[i].live = FALSE
                           /\ Abandoned(r)[i].phase \in {"free", "orphan"}
                           /\ Abandoned(r)[i].rows \in {r[i].rows, NoRows}
BY NoRequestFacts DEF Abandoned, Requests, Phases

LEMMA FreedFact ==
  ASSUME TypeOK, NEW i \in Ids
  PROVE  /\ Freed(i) \in [Ids -> Requests] /\ Freed(i)[i] = NoRequest
         /\ \A j \in Ids \ {i} : Freed(i)[j] = req[j]
BY NoRequestFacts DEF Freed, TypeOK

\* An answer is of the request that was made, unless nobody waits for it.
LEMMA AnsweredFact ==
  ASSUME TypeOK, NEW i \in Ids, NEW ph \in Phases, NEW rs \in Rows,
         NEW t \in Tokens \cup {NoToken}, Answered(i, ph, rs, t)
  PROVE  /\ req' \in [Ids -> Requests]
         /\ \A j \in Ids \ {i} : req'[j] = req[j]
         /\ \/ req[i].phase = "orphan" /\ req'[i] = NoRequest
            \/ /\ req[i].phase # "orphan" /\ req'[i].phase = ph /\ req'[i].rows = rs
               /\ req'[i].kind = req[i].kind /\ req'[i].match = req[i].match
               /\ req'[i].live = req[i].live
BY NoRequestFacts DEF Answered, TypeOK, Requests

LEMMA RefetchFact ==
  ASSUME TypeOK, NEW i \in Ids, Refetch(i)
  PROVE  /\ req' \in [Ids -> Requests]
         /\ \A j \in Ids \ {i} : req'[j] = req[j]
         /\ req'[i].kind = "list" /\ req'[i].phase = "sent"
         /\ req'[i].live = req[i].live /\ req'[i].rows = NoRows
<1> DEFINE q == [Request("list", NoMatch) EXCEPT !.live = req[i].live]
<1>0. "list" \in Kinds /\ NoMatch \in Matches \cup {NoMatch} /\ cookie \in Tokens \cup {NoToken}
  BY DEF TypeOK, Kinds
<1>1. /\ Request("list", NoMatch) \in Requests
      /\ Request("list", NoMatch).kind = "list"
      /\ Request("list", NoMatch).phase = "sent" /\ Request("list", NoMatch).rows = NoRows
  BY <1>0, RequestFacts, Zenon
<1>2. req[i].live \in BOOLEAN
  BY DEF TypeOK, Requests
<1>3. q \in Requests /\ q.kind = "list" /\ q.phase = "sent" /\ q.rows = NoRows
      /\ q.live = req[i].live
  BY <1>1, <1>2 DEF Requests
<1>4. req' = [req EXCEPT ![i] = q]
  BY DEF Refetch
<1> HIDE DEF q
<1> QED
  BY <1>3, <1>4 DEF TypeOK

\* Sending from the page that is shown.
Sent(k, m) ==
  \E i \in Ids, q \in Requests :
    /\ req[i].phase = "free" /\ req' = [req EXCEPT ![i] = q]
    /\ q.kind = k /\ q.match = m /\ q.phase = "sent" /\ q.live = TRUE /\ q.rows = NoRows

LEMMA SendFact ==
  ASSUME TypeOK
  PROVE  \A k \in Kinds, m \in Matches \cup {NoMatch} : Send(k, m) => Sent(k, m)
<1> SUFFICES ASSUME NEW k \in Kinds, NEW m \in Matches \cup {NoMatch}, Send(k, m)
             PROVE  Sent(k, m)
  OBVIOUS
<1>1. Request(k, m) \in Requests /\ Request(k, m).kind = k /\ Request(k, m).match = m
      /\ Request(k, m).phase = "sent" /\ Request(k, m).live = TRUE
      /\ Request(k, m).rows = NoRows
  BY RequestFacts DEF TypeOK
<1>2. PICK i \in Ids : req[i].phase = "free" /\ req' = [req EXCEPT ![i] = Request(k, m)]
  BY <1>1, PutFact DEF Send, TypeOK
<1> QED
  BY <1>1, <1>2 DEF Sent

\* Asking for details: there is a request more (r2), or one was made already.
Adds(r, r2, p, d, m) ==
  \/ m \in p.asked[d] /\ r2 = r
  \/ \E i \in Ids, q \in Requests :
       /\ m \notin p.asked[d] /\ r[i].phase = "free"
       /\ r2 = [r EXCEPT ![i] = q]
       /\ q.kind = d /\ q.match = m /\ q.phase = "sent" /\ q.live = TRUE /\ q.rows = NoRows

LEMMA AskFact ==
  ASSUME cookie \in Tokens \cup {NoToken}, NEW r \in [Ids -> Requests], NEW p \in Pages,
         NEW d \in Details, NEW m \in Matches, MayAsk(r, p, d, m)
  PROVE  Ask(r, p, d, m) \in [Ids -> Requests] /\ Adds(r, Ask(r, p, d, m), p, d, m)
<1>1. CASE m \in p.asked[d]
  BY <1>1 DEF Ask, Adds
<1>2. CASE m \notin p.asked[d]
  <2>1. d \in Kinds /\ m \in Matches \cup {NoMatch}
    BY DEF Details, Kinds
  <2>2. Request(d, m) \in Requests /\ Request(d, m).kind = d /\ Request(d, m).match = m
        /\ Request(d, m).phase = "sent" /\ Request(d, m).live = TRUE
        /\ Request(d, m).rows = NoRows
    BY <2>1, RequestFacts, Zenon
  <2>3. Room(r) /\ Ask(r, p, d, m) = Put(r, Request(d, m))
    BY <1>2 DEF MayAsk, Ask
  <2>4. \E i \in Ids : /\ r[i].phase = "free" /\ Put(r, Request(d, m)) \in [Ids -> Requests]
                       /\ Put(r, Request(d, m)) = [r EXCEPT ![i] = Request(d, m)]
    BY <2>2, <2>3, PutFact
  <2> QED
    BY <1>2, <2>2, <2>3, <2>4 DEF Adds
<1> QED
  BY <1>1, <1>2

-----------------------------------------------------------------------------
(* Requests belong to a page                                                *)

\* What the page shown by a url may have asked for.
KindsOn(u) ==
  IF u = "login" THEN {"login"}
  ELSE IF u = "matches" THEN {"list", "create", "stop", "logs", "server", "logout"}
  ELSE {"data", "logout"}

\* A request is live only on the page that sends such requests, an unanswered
\* login is always live, and there is one; details are those of a match.
Owned ==
  /\ \A i \in Ids : req[i].live => /\ req[i].kind \in KindsOn(url)
                                   /\ req[i].phase \notin {"free", "orphan"}
  /\ \A i \in Ids : req[i].kind = "login" /\ req[i].phase \notin {"free", "orphan"}
                      => req[i].live
  /\ \A i, j \in Ids : Live(i, "login") /\ Live(j, "login") => i = j
  /\ \A i \in Ids : req[i].live /\ req[i].kind \in Details => req[i].match \in Matches

MaySend(k) == k \notin Details /\ (k = "login" => \A i \in Ids : ~Live(i, "login"))

LEMMA SendOwned ==
  ASSUME TypeOK, Owned, NEW k \in Kinds, k \in KindsOn(url), NEW m \in Matches \cup {NoMatch},
         MaySend(k),
         Send(k, m), url' = url
  PROVE  req' \in [Ids -> Requests] /\ Owned'
<1>1. Sent(k, m)
  BY SendFact
<1>2. PICK i \in Ids, q \in Requests :
        /\ req[i].phase = "free" /\ req' = [req EXCEPT ![i] = q]
        /\ q.kind = k /\ q.match = m /\ q.phase = "sent" /\ q.live = TRUE /\ q.rows = NoRows
  BY <1>1 DEF Sent
<1> QED
  BY <1>2 DEF Owned, Live, Under, TypeOK, MaySend

LEMMA AnsweredOwned ==
  ASSUME TypeOK, Owned, NEW i \in Ids, NEW ph \in {"ok", "failed", "denied"}, NEW rs \in Rows,
         NEW t \in Tokens \cup {NoToken}, Arrived(i), Answered(i, ph, rs, t), url' = url
  PROVE  req' \in [Ids -> Requests] /\ Owned'
<1>1. ph \in Phases
  BY DEF Phases
<1>2. /\ req' \in [Ids -> Requests]
      /\ \A j \in Ids \ {i} : req'[j] = req[j]
      /\ \/ req[i].phase = "orphan" /\ req'[i] = NoRequest
         \/ /\ req[i].phase # "orphan" /\ req'[i].phase = ph /\ req'[i].rows = rs
            /\ req'[i].kind = req[i].kind /\ req'[i].match = req[i].match
            /\ req'[i].live = req[i].live
  BY <1>1, AnsweredFact
<1> QED
  BY <1>2, NoRequestFacts DEF Owned, Live, Under, Arrived

LEMMA FreedOwned ==
  ASSUME TypeOK, Owned, NEW i \in Ids, req' = Freed(i), url' = url
  PROVE  req' \in [Ids -> Requests] /\ Owned'
<1>1. /\ req' \in [Ids -> Requests] /\ req'[i] = NoRequest
      /\ \A j \in Ids \ {i} : req'[j] = req[j]
  BY FreedFact
<1>2. \A j \in Ids : \/ req'[j] = req[j]
                     \/ req'[j].live = FALSE /\ req'[j].kind = "data"
  BY <1>1, NoRequestFacts
<1> QED
  BY <1>1, <1>2 DEF Owned, Live, Under

LEMMA RefetchOwned ==
  ASSUME TypeOK, Owned, NEW i \in Ids, req[i].kind \in {"create", "stop"}, Refetch(i), url' = url
  PROVE  req' \in [Ids -> Requests] /\ Owned'
<1>1. /\ req' \in [Ids -> Requests]
      /\ \A j \in Ids \ {i} : req'[j] = req[j]
      /\ req'[i].kind = "list" /\ req'[i].phase = "sent" /\ req'[i].live = req[i].live
  BY RefetchFact
<1>2. req[i].live => "list" \in KindsOn(url)
  BY DEF Owned, KindsOn
<1>3. "list" \notin Details
  BY DEF Details
<1> QED
  BY <1>1, <1>2, <1>3 DEF Owned, Live, Under

\* A page is mounted: of the old requests none is live (Gone).
Gone(r) == \A i \in Ids : /\ r[i].live = FALSE
                          /\ r[i].kind = "login" => r[i].phase \in {"free", "orphan"}

LEMMA UnmountedGone ==
  ASSUME TypeOK, Owned, url # "login"
  PROVE  Unmounted(req) \in [Ids -> Requests] /\ Gone(Unmounted(req))
<1>1. \A j \in Ids : req[j].kind = "login" => req[j].phase \in {"free", "orphan"}
  BY DEF Owned, KindsOn
<1> QED
  BY <1>1, UnmountedFact DEF Gone, TypeOK

LEMMA MountOwned ==
  ASSUME TypeOK, NEW u \in Urls, NEW r \in [Ids -> Requests], NEW c \in Tokens \cup {NoToken},
         Gone(r), Mount(u, r, c)
  PROVE  /\ req' \in [Ids -> Requests] /\ Owned' /\ url' \in Urls
         /\ cookie' \in Tokens \cup {NoToken} /\ page' \in Pages
         /\ url' # "matches" => page' = Fresh
<1>1. /\ url' = u /\ cookie' = c
      /\ page' = [Fresh EXCEPT !.loading = (u = "matches")]
      /\ \/ u = "login" /\ req' = r
         \/ \E i \in Ids, q \in Requests :
              /\ u # "login" /\ r[i].phase = "free" /\ req' = [r EXCEPT ![i] = q]
              /\ q.kind = (IF u = "matches" THEN "list" ELSE "data")
              /\ q.phase = "sent" /\ q.live = TRUE /\ q.rows = NoRows
  BY MountFact
<1>2. Fresh \in Pages
  BY NoRequestFacts DEF Fresh, Pages, Details
<1>3. page' \in Pages /\ (url' # "matches" => page' = Fresh)
  BY <1>1, <1>2 DEF Pages, Fresh
<1>4. CASE u = "login" /\ req' = r
  <2>1. \A j \in Ids : req'[j] = r[j]
    BY <1>4
  <2>2. \A j \in Ids : ~req'[j].live /\ (req'[j].kind = "login" => req'[j].phase \in {"free", "orphan"})
    BY <2>1 DEF Gone
  <2>3. req' \in [Ids -> Requests] /\ Owned'
    BY <1>4, <2>2 DEF Owned, Live, Under
  <2> QED
    BY <1>1, <1>3, <2>3
<1>5. ASSUME NEW i \in Ids, NEW q \in Requests,
             u # "login" /\ r[i].phase = "free" /\ req' = [r EXCEPT ![i] = q],
             q.kind = (IF u = "matches" THEN "list" ELSE "data"),
             q.phase = "sent" /\ q.live = TRUE /\ q.rows = NoRows
      PROVE  req' \in [Ids -> Requests] /\ Owned'
  <2>0. req' \in [Ids -> Requests]
    BY <1>5
  <2>1. req'[i] = q /\ \A j \in Ids \ {i} : req'[j] = r[j]
    BY <1>5
  <2>2. q.kind \in KindsOn(url') /\ q.kind # "login" /\ q.kind \notin Details
    BY <1>1, <1>5 DEF KindsOn, Details
  <2>3. \A j \in Ids : req'[j].live => j = i
    BY <2>1 DEF Gone
  <2>4. req'[i].phase = "sent" /\ req'[i].kind # "login"
    BY <1>5, <2>1, <2>2
  <2>5. \A j \in Ids : req'[j].kind = "login" => req'[j].phase \in {"free", "orphan"}
    BY <2>1, <2>4 DEF Gone
  <2> QED
    BY <2>0, <2>1, <2>2, <2>3, <2>4, <2>5 DEF Owned, Live, Under
<1> QED
  BY <1>1, <1>3, <1>4, <1>5

-----------------------------------------------------------------------------
(* What the handlers do                                                     *)

\* Matches do not go back.
Later == \A m \in Matches : Rank[row[m]] <= Rank[row'[m]]

LEMMA RankFact ==
  /\ \A s \in States : Rank[s] \in Nat /\ Rank["none"] <= Rank[s] /\ Rank[s] <= Rank["final"]
  /\ "none" \in States /\ "active" \in States /\ "final" \in States
BY DEF Rank, States

\* A handler of the backend answers, a list with the matches as they are.
AnswerStep(i) ==
  \E ph \in {"ok", "failed", "denied"}, rs \in Rows, t \in Tokens \cup {NoToken} :
    /\ Arrived(i) /\ Answered(i, ph, rs, t)
    /\ rs \in {row, NoRows}

LEMMA BackendFact ==
  ASSUME TypeOK, NEW i \in Ids, Backend(i)
  PROVE  /\ AnswerStep(i) /\ Later
         /\ row' \in Rows /\ sessions' \subseteq Tokens /\ UNCHANGED <<cookie, url, page>>
<1>0. row \in Rows /\ sessions \subseteq Tokens /\ NoRows \in Rows
      /\ NoToken \in Tokens \cup {NoToken}
  BY NoRequestFacts DEF TypeOK
<1>1. row' = row => row' \in Rows /\ Later
  BY <1>0, RankFact DEF Later, Rows
<1>2. CASE Deny(i)
  <2>1. AnswerStep(i)
    BY <1>0, <1>2 DEF Deny, AnswerStep
  <2> QED
    BY <1>0, <1>1, <1>2, <2>1 DEF Deny
<1>3. CASE Fail(i)
  <2>1. AnswerStep(i)
    BY <1>0, <1>3 DEF Fail, AnswerStep
  <2> QED
    BY <1>0, <1>1, <1>3, <2>1 DEF Fail
<1>4. CASE Read(i)
  <2>1. AnswerStep(i)
    BY <1>0, <1>4 DEF Read, AnswerStep
  <2> QED
    BY <1>0, <1>1, <1>4, <2>1 DEF Read
<1>5. CASE RefuseLogin(i)
  <2>1. AnswerStep(i)
    BY <1>0, <1>5 DEF RefuseLogin, AnswerStep
  <2> QED
    BY <1>0, <1>1, <1>5, <2>1 DEF RefuseLogin
<1>6. ASSUME NEW ph \in {"ok", "failed"}, NEW m \in Matches, HandleCreate(i, m, ph)
      PROVE  /\ AnswerStep(i) /\ Later
             /\ row' \in Rows /\ sessions' \subseteq Tokens /\ UNCHANGED <<cookie, url, page>>
  <2>1. AnswerStep(i)
    BY <1>0, <1>6 DEF HandleCreate, AnswerStep
  <2>2. row' \in Rows /\ Later
    BY <1>0, <1>6, RankFact DEF HandleCreate, Rows, Later
  <2> QED
    BY <1>0, <1>6, <2>1, <2>2 DEF HandleCreate
<1>7. ASSUME NEW ph \in {"ok", "failed"}, HandleStop(i, ph)
      PROVE  /\ AnswerStep(i) /\ Later
             /\ row' \in Rows /\ sessions' \subseteq Tokens /\ UNCHANGED <<cookie, url, page>>
  <2>1. AnswerStep(i)
    BY <1>0, <1>7 DEF HandleStop, AnswerStep
  <2>2. row' \in Rows /\ \A m \in Matches : row[m] \in States /\ row'[m] \in {row[m], "final"}
    <3>1. row' = [row EXCEPT ![req[i].match] = "final"]
      BY <1>7 DEF HandleStop
    <3> DEFINE n == req[i].match
    <3> HIDE DEF n
    <3>2. row' = [row EXCEPT ![n] = "final"]
      BY <3>1 DEF n
    <3> QED
      BY <1>0, <3>2, RankFact DEF Rows
  <2>3. Later
    BY <2>2, RankFact DEF Later
  <2> QED
    BY <1>0, <1>7, <2>1, <2>2, <2>3 DEF HandleStop
<1>8. ASSUME NEW ph \in {"ok", "failed"}, HandleLogout(i, ph)
      PROVE  /\ AnswerStep(i) /\ Later
             /\ row' \in Rows /\ sessions' \subseteq Tokens /\ UNCHANGED <<cookie, url, page>>
  <2>1. AnswerStep(i)
    BY <1>0, <1>8 DEF HandleLogout, AnswerStep
  <2> QED
    BY <1>0, <1>1, <1>8, <2>1 DEF HandleLogout
<1>9. ASSUME NEW ph \in {"ok", "failed"}, NEW t \in Tokens, HandleLogin(i, t, ph)
      PROVE  /\ AnswerStep(i) /\ Later
             /\ row' \in Rows /\ sessions' \subseteq Tokens /\ UNCHANGED <<cookie, url, page>>
  <2>1. AnswerStep(i)
    BY <1>0, <1>9 DEF HandleLogin, AnswerStep
  <2> QED
    BY <1>0, <1>1, <1>9, <2>1 DEF HandleLogin
<1> QED
  BY <1>2, <1>3, <1>4, <1>5, <1>6, <1>7, <1>8, <1>9 DEF Backend

\* What Asked and Forgotten change of a page.
AsksOn(p, p2, d, m) ==
  /\ p2 \in Pages /\ p2.view = p.view /\ p2.loading = p.loading
  /\ p2.creating = p.creating /\ p2.expanded = p.expanded /\ p2.cache = p.cache
  /\ p2.asked = [p.asked EXCEPT ![d] = @ \cup {m}]
  /\ p2.waiting = IF m \in p.asked[d] THEN p.waiting ELSE [p.waiting EXCEPT ![d] = @ \cup {m}]

LEMMA AskedFact ==
  ASSUME NEW p \in Pages, NEW d \in Details, NEW m \in Matches
  PROVE  AsksOn(p, Asked(p, d, m), d, m)
<1>1. CASE m \in p.asked[d]
  <2>1. Asked(p, d, m) = p
    BY <1>1 DEF Asked
  <2>2. p.asked = [p.asked EXCEPT ![d] = @ \cup {m}]
    <3>1. p.asked \in [Details -> SUBSET Matches] /\ p.asked[d] \cup {m} = p.asked[d]
      BY <1>1 DEF Pages
    <3> QED
      BY <3>1
  <2> QED
    BY <1>1, <2>1, <2>2 DEF AsksOn
<1>2. CASE m \notin p.asked[d]
  BY <1>2 DEF Asked, Pages, AsksOn
<1> QED
  BY <1>1, <1>2

LEMMA ForgottenFact ==
  ASSUME NEW p \in Pages, NEW m \in Matches
  PROVE  /\ Forgotten(p, m) \in Pages
         /\ Forgotten(p, m).view = p.view /\ Forgotten(p, m).loading = p.loading
         /\ Forgotten(p, m).creating = p.creating /\ Forgotten(p, m).expanded = p.expanded
         /\ Forgotten(p, m).waiting = p.waiting
         /\ Forgotten(p, m).asked = [p.asked EXCEPT !["server"] = @ \ {m}]
         /\ Forgotten(p, m).cache = [p.cache EXCEPT !["server"] = @ \ {m}]
BY DEF Forgotten, Pages, Details

\* Some details (ds) of a match are asked for, in places that are free.
AsksFor(m, ds) ==
  /\ req' \in [Ids -> Requests]
  /\ \A j \in Ids : \/ req'[j] = req[j]
                    \/ /\ req[j].phase = "free" /\ req'[j].kind \in Details
                       /\ req'[j].match = m /\ req'[j].phase = "sent"
                       /\ req'[j].live = TRUE /\ req'[j].rows = NoRows
  /\ \A d \in ds : \E j \in Ids : /\ req'[j].kind = d /\ req'[j].match = m
                                  /\ req'[j].phase = "sent" /\ req'[j].live = TRUE

LEMMA ExpandFact ==
  ASSUME TypeOK, NEW m \in Matches, Expand(m)
  PROVE  /\ AsksFor(m, {d \in Details : m \notin page.asked[d]})
         /\ page' \in Pages /\ page'.view = page.view /\ page'.loading = page.loading
         /\ page'.creating = page.creating /\ page'.expanded = page.expanded \cup {m}
         /\ page'.cache = page.cache
         /\ page'.asked = [d \in Details |-> page.asked[d] \cup {m}]
         /\ page'.waiting = [d \in Details |-> IF m \in page.asked[d] THEN page.waiting[d]
                                               ELSE page.waiting[d] \cup {m}]
<1> DEFINE p0 == [page EXCEPT !.expanded = @ \cup {m}]
           p1 == Asked(p0, "logs", m)
           r1 == Ask(req, page, "logs", m)
<1>1. /\ page \in Pages /\ req \in [Ids -> Requests] /\ cookie \in Tokens \cup {NoToken}
      /\ "logs" \in Details /\ "server" \in Details
  BY DEF TypeOK, Details
<1>2. /\ p0 \in Pages /\ p0.view = page.view /\ p0.loading = page.loading
      /\ p0.creating = page.creating /\ p0.expanded = page.expanded \cup {m}
      /\ p0.cache = page.cache /\ p0.asked = page.asked /\ p0.waiting = page.waiting
  BY <1>1 DEF Pages
<1>3. /\ MayAsk(req, page, "logs", m) /\ MayAsk(r1, page, "server", m)
      /\ page' = Asked(p1, "server", m) /\ req' = Ask(r1, page, "server", m)
  BY DEF Expand
<1> HIDE DEF p0
<1>3a. AsksOn(p0, p1, "logs", m)
  BY <1>1, <1>2, AskedFact
<1>4. /\ p1 \in Pages /\ p1.view = page.view /\ p1.loading = page.loading
      /\ p1.creating = page.creating /\ p1.expanded = page.expanded \cup {m}
      /\ p1.cache = page.cache
      /\ p1.asked = [page.asked EXCEPT !["logs"] = @ \cup {m}]
      /\ p1.waiting = IF m \in page.asked["logs"] THEN page.waiting
                      ELSE [page.waiting EXCEPT !["logs"] = @ \cup {m}]
  BY <1>2, <1>3a DEF AsksOn
<1> HIDE DEF p1
<1>4a. AsksOn(p1, page', "server", m)
  BY <1>1, <1>3, <1>4, AskedFact
<1>5. /\ page' \in Pages /\ page'.view = page.view /\ page'.loading = page.loading
      /\ page'.creating = page.creating /\ page'.expanded = page.expanded \cup {m}
      /\ page'.cache = page.cache
      /\ page'.asked = [p1.asked EXCEPT !["server"] = @ \cup {m}]
      /\ page'.waiting = IF m \in p1.asked["server"] THEN p1.waiting
                         ELSE [p1.waiting EXCEPT !["server"] = @ \cup {m}]
  BY <1>4, <1>4a DEF AsksOn
<1>6. page.asked \in [Details -> SUBSET Matches] /\ page.waiting \in [Details -> SUBSET Matches]
  BY <1>1 DEF Pages
<1>7. /\ page'.asked = [d \in Details |-> page.asked[d] \cup {m}]
      /\ page'.waiting = [d \in Details |-> IF m \in page.asked[d] THEN page.waiting[d]
                                            ELSE page.waiting[d] \cup {m}]
  <2>1. p1.asked \in [Details -> SUBSET Matches] /\ p1.waiting \in [Details -> SUBSET Matches]
    BY <1>4 DEF Pages
  <2>2. /\ p1.asked["server"] = page.asked["server"]
        /\ p1.waiting["server"] = page.waiting["server"]
        /\ p1.asked["logs"] = page.asked["logs"] \cup {m}
        /\ p1.waiting["logs"] = IF m \in page.asked["logs"] THEN page.waiting["logs"]
                                ELSE page.waiting["logs"] \cup {m}
    BY <1>1, <1>4, <1>6
  <2>3. /\ page'.asked \in [Details -> SUBSET Matches]
        /\ page'.waiting \in [Details -> SUBSET Matches]
    BY <1>5 DEF Pages
  <2>4. page'.asked["server"] = page.asked["server"] \cup {m}
        /\ page'.asked["logs"] = page.asked["logs"] \cup {m}
    BY <1>1, <1>5, <2>1, <2>2
  <2>5. /\ page'.waiting["logs"] = p1.waiting["logs"]
        /\ page'.waiting["server"] = IF m \in page.asked["server"] THEN page.waiting["server"]
                                     ELSE page.waiting["server"] \cup {m}
    BY <1>1, <1>5, <2>1, <2>2
  <2>6. page'.asked = [d \in Details |-> page.asked[d] \cup {m}]
    BY <2>3, <2>4 DEF Details
  <2>7. page'.waiting = [d \in Details |-> IF m \in page.asked[d] THEN page.waiting[d]
                                           ELSE page.waiting[d] \cup {m}]
    BY <2>2, <2>3, <2>5 DEF Details
  <2> QED
    BY <2>6, <2>7
<1>8. /\ r1 \in [Ids -> Requests]
      /\ \/ m \in page.asked["logs"] /\ r1 = req
         \/ \E i \in Ids, q \in Requests :
              /\ m \notin page.asked["logs"] /\ req[i].phase = "free"
              /\ r1 = [req EXCEPT ![i] = q]
              /\ q.kind = "logs" /\ q.match = m /\ q.phase = "sent" /\ q.live = TRUE
              /\ q.rows = NoRows
  <2>1. r1 \in [Ids -> Requests] /\ Adds(req, r1, page, "logs", m)
    BY <1>1, <1>3, AskFact
  <2> QED
    BY <2>1 DEF Adds
<1> HIDE DEF r1
<1>9. /\ req' \in [Ids -> Requests]
      /\ \/ m \in page.asked["server"] /\ req' = r1
         \/ \E i \in Ids, q \in Requests :
              /\ m \notin page.asked["server"] /\ r1[i].phase = "free"
              /\ req' = [r1 EXCEPT ![i] = q]
              /\ q.kind = "server" /\ q.match = m /\ q.phase = "sent" /\ q.live = TRUE
              /\ q.rows = NoRows
  <2>1. req' \in [Ids -> Requests] /\ Adds(r1, req', page, "server", m)
    BY <1>1, <1>3, <1>8, AskFact
  <2> QED
    BY <2>1 DEF Adds
<1>10. \A j \in Ids : \/ r1[j] = req[j]
                      \/ /\ req[j].phase = "free" /\ r1[j].kind \in Details
                         /\ r1[j].match = m /\ r1[j].phase = "sent"
                         /\ r1[j].live = TRUE /\ r1[j].rows = NoRows
  BY <1>1, <1>8
<1>11. \A j \in Ids : \/ req'[j] = r1[j]
                      \/ /\ r1[j].phase = "free" /\ req'[j].kind \in Details
                         /\ req'[j].match = m /\ req'[j].phase = "sent"
                         /\ req'[j].live = TRUE /\ req'[j].rows = NoRows
  BY <1>1, <1>9, <1>8
<1>12. \A d \in {e \in Details : m \notin page.asked[e]} :
         \E j \in Ids : /\ req'[j].kind = d /\ req'[j].match = m
                        /\ req'[j].phase = "sent" /\ req'[j].live = TRUE
  <2>1. m \notin page.asked["logs"] =>
          \E j \in Ids : /\ r1[j].kind = "logs" /\ r1[j].match = m
                         /\ r1[j].phase = "sent" /\ r1[j].live = TRUE
    BY <1>1, <1>8
  <2>2. m \notin page.asked["logs"] =>
          \E j \in Ids : /\ req'[j].kind = "logs" /\ req'[j].match = m
                         /\ req'[j].phase = "sent" /\ req'[j].live = TRUE
    BY <2>1, <1>11
  <2>3. m \notin page.asked["server"] =>
          \E j \in Ids : /\ req'[j].kind = "server" /\ req'[j].match = m
                         /\ req'[j].phase = "sent" /\ req'[j].live = TRUE
    BY <1>8, <1>9
  <2> QED
    BY <2>2, <2>3 DEF Details
<1>13. AsksFor(m, {d \in Details : m \notin page.asked[d]})
  BY <1>9, <1>10, <1>11, <1>12 DEF AsksFor
<1> QED
  BY <1>5, <1>7, <1>13

LEMMA RefreshFact ==
  ASSUME TypeOK, NEW m \in Matches, RefreshServer(m)
  PROVE  /\ AsksFor(m, {"server"})
         /\ page' \in Pages /\ page'.view = page.view /\ page'.loading = page.loading
         /\ page'.creating = page.creating /\ page'.expanded = page.expanded
         /\ page'.cache = [page.cache EXCEPT !["server"] = @ \ {m}]
         /\ page'.asked = [page.asked EXCEPT !["server"] = @ \cup {m}]
         /\ page'.waiting = [page.waiting EXCEPT !["server"] = @ \cup {m}]
<1> DEFINE p0 == Forgotten(page, m)
<1>1. /\ page \in Pages /\ req \in [Ids -> Requests] /\ cookie \in Tokens \cup {NoToken}
      /\ "server" \in Details
  BY DEF TypeOK, Details
<1>2. MayAsk(req, p0, "server", m) /\ page' = Asked(p0, "server", m)
      /\ req' = Ask(req, p0, "server", m)
  BY DEF RefreshServer
<1>3. /\ p0 \in Pages /\ p0.view = page.view /\ p0.loading = page.loading
      /\ p0.creating = page.creating /\ p0.expanded = page.expanded
      /\ p0.waiting = page.waiting
      /\ p0.asked = [page.asked EXCEPT !["server"] = @ \ {m}]
      /\ p0.cache = [page.cache EXCEPT !["server"] = @ \ {m}]
  BY <1>1, ForgottenFact
<1>4. page.asked \in [Details -> SUBSET Matches] /\ m \notin p0.asked["server"]
  BY <1>1, <1>3 DEF Pages
<1> HIDE DEF p0
<1>4a. AsksOn(p0, page', "server", m)
  BY <1>1, <1>2, <1>3, AskedFact
<1>5. /\ page' \in Pages /\ page'.view = p0.view /\ page'.loading = p0.loading
      /\ page'.creating = p0.creating /\ page'.expanded = p0.expanded
      /\ page'.cache = p0.cache
      /\ page'.asked = [p0.asked EXCEPT !["server"] = @ \cup {m}]
      /\ page'.waiting = [p0.waiting EXCEPT !["server"] = @ \cup {m}]
  BY <1>4, <1>4a DEF AsksOn
<1>6. page'.asked = [page.asked EXCEPT !["server"] = @ \cup {m}]
  BY <1>3, <1>4, <1>5
<1>7. /\ req' \in [Ids -> Requests]
      /\ \E i \in Ids, q \in Requests :
           /\ req[i].phase = "free" /\ req' = [req EXCEPT ![i] = q]
           /\ q.kind = "server" /\ q.match = m /\ q.phase = "sent" /\ q.live = TRUE
           /\ q.rows = NoRows
  <2>1. req' \in [Ids -> Requests] /\ Adds(req, req', p0, "server", m)
    BY <1>1, <1>2, <1>3, AskFact
  <2> QED
    BY <1>4, <2>1 DEF Adds
<1>8. AsksFor(m, {"server"})
  BY <1>1, <1>7 DEF AsksFor
<1> QED
  BY <1>3, <1>5, <1>6, <1>8

-----------------------------------------------------------------------------
(* Types, and the owners of the requests                                    *)

LEMMA AsksOwned ==
  ASSUME TypeOK, Owned, NEW m \in Matches, NEW ds, AsksFor(m, ds), url = "matches", url' = url
  PROVE  Owned'
<1>1. \A j \in Ids : \/ req'[j] = req[j]
                     \/ /\ req'[j].kind \in KindsOn(url) /\ req'[j].kind # "login"
                        /\ req'[j].phase = "sent" /\ req'[j].match \in Matches
  BY DEF AsksFor, Details, KindsOn
<1> QED
  BY <1>1 DEF Owned, Live, Under

LEMMA FreshFact ==
  /\ Fresh \in Pages /\ Fresh.createOpen = FALSE /\ Fresh.creating = FALSE
  /\ Fresh.loading = FALSE /\ Fresh.expanded = {} /\ Fresh.view = NoRows
  /\ \A m \in Matches : Fresh.view[m] = "none"
  /\ \A d \in Details : Fresh.asked[d] = {} /\ Fresh.waiting[d] = {} /\ Fresh.cache[d] = {}
BY NoRequestFacts DEF Fresh, Pages, Details, NoRows

\* A handler changes the page it was started on, if that is still mounted.
LEMMA OnPageFact ==
  ASSUME TypeOK, Owned, NEW i \in Ids, NEW p \in Pages, OnPage(i, p),
         req[i].kind \in {"list", "create", "stop", "logs", "server"}, url' = url
  PROVE  page' \in Pages /\ (url' # "matches" => page' = Fresh)
BY DEF OnPage, TypeOK, Owned, KindsOn

LEMMA UserTyped ==
  ASSUME TypeOK, Owned, User
  PROVE  TypeOK' /\ Owned'
<1>0. /\ page \in Pages /\ cookie \in Tokens \cup {NoToken} /\ req \in [Ids -> Requests]
      /\ url \in Urls /\ NoMatch \in Matches \cup {NoMatch}
  BY DEF TypeOK
<1>1. CASE FetchMatches
  <2>1. /\ Send("list", NoMatch) /\ UNCHANGED <<row, sessions, cookie, url>> /\ url = "matches"
        /\ page' = [page EXCEPT !.loading = TRUE]
    BY <1>1 DEF FetchMatches
  <2>2. "list" \in Kinds /\ "list" \in KindsOn(url) /\ MaySend("list")
    BY <2>1 DEF Kinds, KindsOn, MaySend, Details
  <2>3. req' \in [Ids -> Requests] /\ Owned'
    BY <1>0, <2>1, <2>2, SendOwned
  <2>4. page' \in Pages
    BY <1>0, <2>1 DEF Pages
  <2> QED
    BY <2>1, <2>3, <2>4 DEF TypeOK
<1>2. CASE OpenCreate
  <2>1. UNCHANGED <<row, sessions, cookie, url, req>> /\ url = "matches"
        /\ page' = [page EXCEPT !.createOpen = TRUE]
    BY <1>2 DEF OpenCreate
  <2>2. page' \in Pages
    BY <1>0, <2>1 DEF Pages
  <2> QED
    BY <2>1, <2>2 DEF TypeOK, Owned, Live, Under
<1>3. CASE CancelCreate
  <2>1. UNCHANGED <<row, sessions, cookie, url, req>> /\ page.createOpen
        /\ page' = [page EXCEPT !.createOpen = FALSE]
    BY <1>3 DEF CancelCreate
  <2>2. page' \in Pages /\ url = "matches"
    BY <1>0, <2>1, FreshFact DEF Pages, TypeOK
  <2> QED
    BY <2>1, <2>2 DEF TypeOK, Owned, Live, Under
<1>4. CASE SubmitCreate
  <2>1. /\ Send("create", NoMatch) /\ UNCHANGED <<row, sessions, cookie, url>>
        /\ page.createOpen /\ page' = [page EXCEPT !.creating = TRUE]
    BY <1>4 DEF SubmitCreate
  <2>2. url = "matches" /\ page' \in Pages
    BY <1>0, <2>1, FreshFact DEF Pages, TypeOK
  <2>3. "create" \in Kinds /\ "create" \in KindsOn(url) /\ MaySend("create")
    BY <2>2 DEF Kinds, KindsOn, MaySend, Details
  <2>4. req' \in [Ids -> Requests] /\ Owned'
    BY <1>0, <2>1, <2>3, SendOwned
  <2> QED
    BY <2>1, <2>2, <2>4 DEF TypeOK
<1>5. CASE Login
  <2>1. /\ Send("login", NoMatch) /\ UNCHANGED <<row, sessions, cookie, url, page>>
        /\ url = "login" /\ \A i \in Ids : ~Live(i, "login")
    BY <1>5 DEF Login
  <2>2. "login" \in Kinds /\ "login" \in KindsOn(url) /\ MaySend("login")
    BY <2>1 DEF Kinds, KindsOn, MaySend, Details
  <2>3. req' \in [Ids -> Requests] /\ Owned'
    BY <1>0, <2>1, <2>2, SendOwned
  <2> QED
    BY <2>1, <2>3 DEF TypeOK
<1>6. CASE Logout
  <2>1. /\ Send("logout", NoMatch) /\ UNCHANGED <<row, sessions, cookie, url, page>>
        /\ url # "login"
    BY <1>6 DEF Logout
  <2>2. "logout" \in Kinds /\ "logout" \in KindsOn(url) /\ MaySend("logout")
    BY <2>1 DEF Kinds, KindsOn, MaySend, Details
  <2>3. req' \in [Ids -> Requests] /\ Owned'
    BY <1>0, <2>1, <2>2, SendOwned
  <2> QED
    BY <2>1, <2>3 DEF TypeOK
<1>7. ASSUME NEW m \in Matches, Stop(m)
      PROVE  TypeOK' /\ Owned'
  <2>1. /\ Send("stop", m) /\ UNCHANGED <<row, sessions, cookie, url, page>>
        /\ page.view[m] = "active"
    BY <1>7 DEF Stop
  <2>2. url = "matches" /\ m \in Matches \cup {NoMatch}
    BY <2>1, FreshFact DEF TypeOK
  <2>3. "stop" \in Kinds /\ "stop" \in KindsOn(url) /\ MaySend("stop")
    BY <2>2 DEF Kinds, KindsOn, MaySend, Details
  <2>4. req' \in [Ids -> Requests] /\ Owned'
    BY <2>1, <2>2, <2>3, SendOwned
  <2> QED
    BY <2>1, <2>4 DEF TypeOK
<1>8. ASSUME NEW m \in Matches, Expand(m)
      PROVE  TypeOK' /\ Owned'
  <2>1. AsksFor(m, {d \in Details : m \notin page.asked[d]}) /\ page' \in Pages
    BY <1>8, ExpandFact
  <2>2. UNCHANGED <<row, sessions, cookie, url>> /\ page.view[m] # "none"
    BY <1>8 DEF Expand
  <2>3. url = "matches"
    BY <2>2, FreshFact DEF TypeOK
  <2>4. Owned'
    BY <2>1, <2>2, <2>3, AsksOwned
  <2> QED
    BY <2>1, <2>2, <2>3, <2>4 DEF TypeOK, AsksFor
<1>9. ASSUME NEW m \in Matches, Collapse(m)
      PROVE  TypeOK' /\ Owned'
  <2>1. UNCHANGED <<row, sessions, cookie, url, req>> /\ m \in page.expanded
        /\ page' = [page EXCEPT !.expanded = @ \ {m}]
    BY <1>9 DEF Collapse
  <2>2. page' \in Pages /\ url = "matches"
    BY <1>0, <2>1, FreshFact DEF Pages, TypeOK
  <2> QED
    BY <2>1, <2>2 DEF TypeOK, Owned, Live, Under
<1>10. ASSUME NEW m \in Matches, RefreshServer(m)
       PROVE  TypeOK' /\ Owned'
  <2>1. AsksFor(m, {"server"}) /\ page' \in Pages
    BY <1>10, RefreshFact
  <2>2. UNCHANGED <<row, sessions, cookie, url>> /\ m \in page.expanded
    BY <1>10 DEF RefreshServer
  <2>3. url = "matches"
    BY <2>2, FreshFact DEF TypeOK
  <2>4. Owned'
    BY <2>1, <2>2, <2>3, AsksOwned
  <2> QED
    BY <2>1, <2>2, <2>3, <2>4 DEF TypeOK, AsksFor
<1>11. ASSUME NEW u \in Urls, Navigate(u)
       PROVE  TypeOK' /\ Owned'
  <2>1. /\ url # "login" /\ Mount(u, Unmounted(req), cookie) /\ UNCHANGED <<row, sessions>>
    BY <1>11 DEF Navigate
  <2>2. Unmounted(req) \in [Ids -> Requests] /\ Gone(Unmounted(req))
    BY <2>1, UnmountedGone
  <2> QED
    BY <1>0, <2>1, <2>2, MountOwned DEF TypeOK
<1>12. ASSUME NEW u \in Urls, Open(u)
       PROVE  TypeOK' /\ Owned'
  <2>1. Mount(u, Abandoned(req), cookie) /\ UNCHANGED <<row, sessions>>
    BY <1>12 DEF Open
  <2>2. Abandoned(req) \in [Ids -> Requests] /\ Gone(Abandoned(req))
    BY <1>0, AbandonedFact DEF Gone
  <2> QED
    BY <1>0, <2>1, <2>2, MountOwned DEF TypeOK
<1> QED
  BY <1>1, <1>2, <1>3, <1>4, <1>5, <1>6, <1>7, <1>8, <1>9, <1>10, <1>11, <1>12 DEF User

\* When a login is answered nothing else of its page is under way.
LEMMA LoginGone ==
  ASSUME TypeOK, Owned, NEW i \in Ids, req[i].kind = "login", req[i].phase = "ok"
  PROVE  Freed(i) \in [Ids -> Requests] /\ Gone(Freed(i))
<1>1. /\ Freed(i) \in [Ids -> Requests] /\ Freed(i)[i] = NoRequest
      /\ \A j \in Ids \ {i} : Freed(i)[j] = req[j]
  BY FreedFact
<1>2. req[i].live = TRUE /\ url = "login"
  BY DEF Owned, KindsOn, Requests, TypeOK
<1>3. \A j \in Ids \ {i} : req[j].live = FALSE
  BY <1>2 DEF Owned, KindsOn, Live, Under, Requests, TypeOK
<1>4. \A j \in Ids \ {i} : req[j].kind = "login" => req[j].phase \in {"free", "orphan"}
  BY <1>3 DEF Owned
<1> QED
  BY <1>1, <1>3, <1>4, NoRequestFacts DEF Gone

LEMMA DeliverTyped ==
  ASSUME TypeOK, Owned, NEW i \in Ids, Deliver(i)
  PROVE  TypeOK' /\ Owned'
<1>0. /\ page \in Pages /\ cookie \in Tokens \cup {NoToken} /\ req \in [Ids -> Requests]
      /\ url \in Urls /\ "login" \in Urls /\ "matches" \in Urls
      /\ NoToken \in Tokens \cup {NoToken} /\ req[i] \in Requests
  BY DEF TypeOK, Urls
<1>1. CASE DeliverDenied(i)
  <2>1. Mount("login", Abandoned(req), cookie) /\ UNCHANGED <<row, sessions>>
    BY <1>1 DEF DeliverDenied
  <2>2. Abandoned(req) \in [Ids -> Requests] /\ Gone(Abandoned(req))
    BY <1>0, AbandonedFact DEF Gone
  <2> QED
    BY <1>0, <2>1, <2>2, MountOwned DEF TypeOK
<1>2. CASE DeliverList(i)
  <2> DEFINE p == IF req[i].phase = "ok"
                  THEN [page EXCEPT !.view = req[i].rows, !.loading = FALSE]
                  ELSE [page EXCEPT !.loading = FALSE]
  <2>1. /\ req[i].kind = "list" /\ req' = Freed(i) /\ OnPage(i, p)
        /\ UNCHANGED <<row, sessions, cookie, url>>
    BY <1>2 DEF DeliverList
  <2>2. p \in Pages
    BY <1>0 DEF Pages, Requests
  <2> HIDE DEF p
  <2>3. page' \in Pages /\ (url' # "matches" => page' = Fresh)
    BY <2>1, <2>2, OnPageFact
  <2>4. req' \in [Ids -> Requests] /\ Owned'
    BY <2>1, FreedOwned
  <2> QED
    BY <2>1, <2>3, <2>4 DEF TypeOK
<1>3. CASE DeliverCreate(i)
  <2> DEFINE p == [page EXCEPT !.createOpen = FALSE, !.creating = FALSE, !.loading = TRUE]
             q == [page EXCEPT !.creating = FALSE]
  <2>1. p \in Pages /\ q \in Pages
    BY <1>0 DEF Pages
  <2>2. /\ req[i].kind = "create" /\ UNCHANGED <<row, sessions, cookie, url>>
        /\ (OnPage(i, p) /\ Refetch(i)) \/ (OnPage(i, q) /\ req' = Freed(i))
    BY <1>3 DEF DeliverCreate
  <2> HIDE DEF p, q
  <2>3. page' \in Pages /\ (url' # "matches" => page' = Fresh)
    BY <2>1, <2>2, OnPageFact
  <2>4. req' \in [Ids -> Requests] /\ Owned'
    BY <2>2, FreedOwned, RefetchOwned
  <2> QED
    BY <2>2, <2>3, <2>4 DEF TypeOK
<1>4. CASE DeliverStop(i)
  <2> DEFINE p == [page EXCEPT !.loading = TRUE]
  <2>1. p \in Pages
    BY <1>0 DEF Pages
  <2>2. /\ req[i].kind = "stop" /\ UNCHANGED <<row, sessions, cookie, url>>
        /\ (OnPage(i, p) /\ Refetch(i)) \/ (UNCHANGED page /\ req' = Freed(i))
    BY <1>4 DEF DeliverStop
  <2> HIDE DEF p
  <2>3. page' \in Pages /\ (url' # "matches" => page' = Fresh)
    <3>1. CASE OnPage(i, p)
      BY <2>1, <2>2, <3>1, OnPageFact
    <3>2. CASE UNCHANGED page
      BY <1>0, <2>2, <3>2 DEF TypeOK
    <3> QED
      BY <2>2, <3>1, <3>2
  <2>4. req' \in [Ids -> Requests] /\ Owned'
    BY <2>2, FreedOwned, RefetchOwned
  <2> QED
    BY <2>2, <2>3, <2>4 DEF TypeOK
<1>5. CASE DeliverDetails(i)
  <2> DEFINE p == [page EXCEPT !.cache[req[i].kind]   = @ \cup {req[i].match},
                               !.waiting[req[i].kind] = @ \ {req[i].match}]
  <2>1. /\ req[i].kind \in Details /\ req' = Freed(i) /\ OnPage(i, p)
        /\ UNCHANGED <<row, sessions, cookie, url>>
    BY <1>5 DEF DeliverDetails
  <2>2. page' \in Pages /\ (url' # "matches" => page' = Fresh)
    <3>1. CASE req[i].live
      <4>1. req[i].match \in Matches /\ page' = p /\ url = "matches"
        BY <2>1, <3>1 DEF OnPage, Owned, KindsOn, Details
      <4>2. p \in Pages
        BY <1>0, <2>1, <4>1 DEF Pages
      <4> QED
        BY <2>1, <4>1, <4>2
    <3>2. CASE ~req[i].live
      BY <1>0, <2>1, <3>2 DEF OnPage, TypeOK
    <3> QED
      BY <3>1, <3>2
  <2>3. req' \in [Ids -> Requests] /\ Owned'
    BY <2>1, FreedOwned
  <2> QED
    BY <2>1, <2>2, <2>3 DEF TypeOK
<1>6. CASE DeliverLogin(i)
  <2>1. req[i].kind = "login" /\ UNCHANGED <<row, sessions>>
    BY <1>6 DEF DeliverLogin
  <2>2. CASE req[i].phase = "ok" /\ Mount("matches", Freed(i), req[i].token)
    <3>1. Freed(i) \in [Ids -> Requests] /\ Gone(Freed(i))
      BY <2>1, <2>2, LoginGone
    <3>2. req[i].token \in Tokens \cup {NoToken}
      BY <1>0 DEF Requests
    <3> QED
      BY <1>0, <2>1, <2>2, <3>1, <3>2, MountOwned DEF TypeOK
  <2>3. CASE req' = Freed(i) /\ UNCHANGED <<cookie, url, page>>
    BY <2>1, <2>3, FreedOwned DEF TypeOK
  <2> QED
    BY <1>6, <2>2, <2>3 DEF DeliverLogin
<1>7. CASE DeliverLogout(i)
  <2> DEFINE c == IF req[i].phase = "ok" THEN NoToken ELSE cookie
  <2>1. /\ c \in Tokens \cup {NoToken} /\ UNCHANGED <<row, sessions>>
        /\ Mount("login", IF url = "login" THEN Freed(i) ELSE Unmounted(Freed(i)), c)
    BY <1>0, <1>7 DEF DeliverLogout
  <2>2. /\ Freed(i) \in [Ids -> Requests] /\ Freed(i)[i] = NoRequest
        /\ \A j \in Ids \ {i} : Freed(i)[j] = req[j]
    BY FreedFact
  <2> HIDE DEF c
  <2>3. CASE url = "login"
    <3>1. /\ url' = "login" /\ cookie' = c /\ req' = Freed(i)
          /\ page' = [Fresh EXCEPT !.loading = FALSE]
      BY <2>1, <2>3 DEF Mount
    <3>2. page' \in Pages /\ page' = Fresh
      BY <3>1, FreshFact DEF Fresh
    <3>3. req' \in [Ids -> Requests] /\ Owned'
      BY <2>3, <3>1, FreedOwned
    <3> QED
      BY <1>0, <2>1, <3>1, <3>2, <3>3 DEF TypeOK
  <2>4. CASE url # "login"
    <3>1. \A j \in Ids : Freed(i)[j].kind = "login" => Freed(i)[j].phase \in {"free", "orphan"}
      BY <2>2, <2>4, NoRequestFacts DEF Owned, KindsOn
    <3>2. Unmounted(Freed(i)) \in [Ids -> Requests] /\ Gone(Unmounted(Freed(i)))
      BY <2>2, <3>1, UnmountedFact DEF Gone
    <3> QED
      BY <1>0, <2>1, <2>4, <3>2, MountOwned DEF TypeOK
  <2> QED
    BY <2>3, <2>4
<1>8. CASE DeliverData(i)
  <2>1. req' = Freed(i) /\ UNCHANGED <<row, sessions, cookie, url, page>>
    BY <1>8 DEF DeliverData
  <2> QED
    BY <2>1, FreedOwned DEF TypeOK
<1> QED
  BY <1>1, <1>2, <1>3, <1>4, <1>5, <1>6, <1>7, <1>8 DEF Deliver

LEMMA ProgressFact ==
  ASSUME TypeOK, NEW m \in Matches, Progress(m)
  PROVE  row' \in Rows /\ Later /\ UNCHANGED <<sessions, cookie, url, page, req>>
<1>1. row \in Rows
  BY DEF TypeOK
<1> QED
  BY <1>1, RankFact DEF Progress, Rows, Later

LEMMA NextTyped ==
  ASSUME TypeOK, Owned, [Next]_vars
  PROVE  TypeOK' /\ Owned'
<1>1. ASSUME NEW i \in Ids, Backend(i)
      PROVE  TypeOK' /\ Owned'
  <2>1. AnswerStep(i) /\ row' \in Rows /\ sessions' \subseteq Tokens /\ UNCHANGED <<cookie, url, page>>
    BY <1>1, BackendFact
  <2>2. row \in Rows /\ NoRows \in Rows
    BY NoRequestFacts DEF TypeOK
  <2>3. req' \in [Ids -> Requests] /\ Owned'
    BY <2>1, <2>2, AnsweredOwned DEF AnswerStep
  <2> QED
    BY <2>1, <2>3 DEF TypeOK
<1>2. ASSUME NEW m \in Matches, Progress(m)
      PROVE  TypeOK' /\ Owned'
  BY <1>2, ProgressFact DEF TypeOK, Owned, Live, Under
<1>3. CASE Restart
  BY <1>3 DEF Restart, TypeOK, Owned, Live, Under
<1>4. CASE UNCHANGED vars
  BY <1>4 DEF vars, TypeOK, Owned, Live, Under
<1> QED
  BY <1>1, <1>2, <1>3, <1>4, UserTyped, DeliverTyped DEF Next

LEMMA InitTyped == Init => TypeOK /\ Owned
<1> SUFFICES ASSUME Init PROVE TypeOK /\ Owned
  OBVIOUS
<1>1. TypeOK
  BY NoRequestFacts, FreshFact DEF Init, TypeOK, Urls
<1>2. \A i \in Ids : req[i] = NoRequest
  BY DEF Init
<1>3. Owned
  BY <1>2, NoRequestFacts DEF Owned, Live, Under
<1> QED
  BY <1>1, <1>3

\* The console keeps its types, and a page that is not the one of the matches
\* keeps nothing of it: answers that come late change no page (OnPage).
THEOREM TypeCorrect == Spec => [](TypeOK /\ Owned)
<1>1. (TypeOK /\ Owned) /\ [Next]_vars => (TypeOK /\ Owned)'
  BY NextTyped
<1> QED
  BY <1>1, InitTyped, PTL DEF Spec

-----------------------------------------------------------------------------
(* What is shown was true once                                              *)

\* What an answer carries, and what is shown, is not ahead of the matches.
Past == /\ \A i \in Ids, m \in Matches : Rank[req[i].rows[m]] <= Rank[row[m]]
        /\ ViewIsPast

\* The rows that are carried and shown after a step were there before it.
Carried ==
  /\ \A j \in Ids : req'[j].rows \in {req[j].rows, row, NoRows}
  /\ page'.view \in {page.view, NoRows} \cup {req[j].rows : j \in Ids}

LEMMA PastStep ==
  ASSUME TypeOK, TypeOK', Past, Later, Carried
  PROVE  Past'
<1> DEFINE Behind(rs) == \A m \in Matches : Rank[rs[m]] <= Rank[row'[m]]
<1>1. /\ row \in Rows /\ row' \in Rows /\ page.view \in Rows
      /\ \A j \in Ids : req[j].rows \in Rows
  BY DEF TypeOK, Pages, Requests
<1>2. Behind(row)
  BY DEF Later
<1>3. Behind(NoRows)
  BY <1>1, RankFact DEF NoRows, Rows
<1>4. ASSUME NEW rs \in Rows, \A m \in Matches : Rank[rs[m]] <= Rank[row[m]]
      PROVE  Behind(rs)
  <2> SUFFICES ASSUME NEW m \in Matches PROVE Rank[rs[m]] <= Rank[row'[m]]
    OBVIOUS
  <2>1. rs[m] \in States /\ row[m] \in States /\ row'[m] \in States
    BY <1>1 DEF Rows
  <2> QED
    BY <1>4, <2>1, RankFact DEF Later
<1>5. Behind(page.view) /\ \A j \in Ids : Behind(req[j].rows)
  BY <1>1, <1>4 DEF Past, ViewIsPast
<1> HIDE DEF Behind
<1>6. Behind(page'.view) /\ \A j \in Ids : Behind(req'[j].rows)
  BY <1>2, <1>3, <1>5 DEF Carried
<1> QED
  BY <1>6 DEF Behind, Past, ViewIsPast

\* Mounting shows nothing, and the request it begins with carries nothing.
LEMMA MountCarried ==
  ASSUME TypeOK, NEW u \in Urls, NEW r \in [Ids -> Requests], NEW c \in Tokens \cup {NoToken},
         Mount(u, r, c), \A j \in Ids : r[j].rows \in {req[j].rows, NoRows}
  PROVE  Carried
<1>1. /\ page' = [Fresh EXCEPT !.loading = (u = "matches")]
      /\ \/ u = "login" /\ req' = r
         \/ \E i \in Ids, q \in Requests :
              /\ u # "login" /\ r[i].phase = "free" /\ req' = [r EXCEPT ![i] = q]
              /\ q.kind = (IF u = "matches" THEN "list" ELSE "data")
              /\ q.phase = "sent" /\ q.live = TRUE /\ q.rows = NoRows
  BY MountFact
<1>2. \A j \in Ids : req'[j].rows \in {req[j].rows, NoRows}
  BY <1>1
<1>3. page'.view = NoRows
  BY <1>1, FreshFact DEF Fresh
<1> QED
  BY <1>2, <1>3 DEF Carried

LEMMA FreedRows ==
  ASSUME TypeOK, NEW i \in Ids
  PROVE  \A j \in Ids : Freed(i)[j].rows \in {req[j].rows, NoRows}
<1>1. /\ Freed(i)[i] = NoRequest
      /\ \A j \in Ids \ {i} : Freed(i)[j] = req[j]
  BY FreedFact
<1> QED
  BY <1>1, NoRequestFacts

LEMMA SentCarried ==
  ASSUME TypeOK, NEW k, NEW m, Sent(k, m), page'.view = page.view
  PROVE  Carried
<1>1. PICK i \in Ids, q \in Requests :
        /\ req[i].phase = "free" /\ req' = [req EXCEPT ![i] = q]
        /\ q.kind = k /\ q.match = m /\ q.phase = "sent" /\ q.live = TRUE /\ q.rows = NoRows
  BY DEF Sent
<1>2. \A j \in Ids : req'[j].rows \in {req[j].rows, NoRows}
  BY <1>1 DEF TypeOK
<1> QED
  BY <1>2 DEF Carried

LEMMA UserCarried ==
  ASSUME TypeOK, Owned, User
  PROVE  Carried
<1>0. /\ page \in Pages /\ cookie \in Tokens \cup {NoToken} /\ req \in [Ids -> Requests]
      /\ {"list", "create", "stop", "login", "logout"} \subseteq Kinds
      /\ NoMatch \in Matches \cup {NoMatch}
  BY DEF TypeOK, Kinds
<1>1. CASE FetchMatches
  <2>1. Send("list", NoMatch) /\ page'.view = page.view
    BY <1>0, <1>1 DEF FetchMatches, Pages
  <2> QED
    BY <1>0, <2>1, SendFact, SentCarried
<1>2. CASE OpenCreate
  BY <1>0, <1>2 DEF OpenCreate, Pages, Carried
<1>3. CASE CancelCreate
  BY <1>0, <1>3 DEF CancelCreate, Pages, Carried
<1>4. CASE SubmitCreate
  <2>1. Send("create", NoMatch) /\ page'.view = page.view
    BY <1>0, <1>4 DEF SubmitCreate, Pages
  <2> QED
    BY <1>0, <2>1, SendFact, SentCarried
<1>5. CASE Login
  BY <1>0, <1>5, SendFact, SentCarried DEF Login
<1>6. CASE Logout
  BY <1>0, <1>6, SendFact, SentCarried DEF Logout
<1>7. ASSUME NEW m \in Matches, Stop(m)
      PROVE  Carried
  <2>1. Send("stop", m) /\ page'.view = page.view
    BY <1>7 DEF Stop
  <2> QED
    BY <1>0, <2>1, SendFact, SentCarried
<1>8. ASSUME NEW m \in Matches, Expand(m)
      PROVE  Carried
  BY <1>8, ExpandFact DEF AsksFor, Carried
<1>9. ASSUME NEW m \in Matches, Collapse(m)
      PROVE  Carried
  BY <1>0, <1>9 DEF Collapse, Pages, Carried
<1>10. ASSUME NEW m \in Matches, RefreshServer(m)
       PROVE  Carried
  BY <1>10, RefreshFact DEF AsksFor, Carried
<1>11. ASSUME NEW u \in Urls, Navigate(u)
       PROVE  Carried
  BY <1>0, <1>11, UnmountedFact, MountCarried DEF Navigate
<1>12. ASSUME NEW u \in Urls, Open(u)
       PROVE  Carried
  BY <1>0, <1>12, AbandonedFact, MountCarried DEF Open
<1> QED
  BY <1>1, <1>2, <1>3, <1>4, <1>5, <1>6, <1>7, <1>8, <1>9, <1>10, <1>11, <1>12 DEF User

LEMMA DeliverCarried ==
  ASSUME TypeOK, Owned, NEW i \in Ids, Deliver(i)
  PROVE  Carried
<1>0. /\ page \in Pages /\ cookie \in Tokens \cup {NoToken} /\ req[i] \in Requests
      /\ "login" \in Urls /\ "matches" \in Urls /\ NoToken \in Tokens \cup {NoToken}
      /\ req \in [Ids -> Requests]
  BY DEF TypeOK, Urls
<1>1. Freed(i) \in [Ids -> Requests] /\ \A j \in Ids : Freed(i)[j].rows \in {req[j].rows, NoRows}
  BY FreedFact, FreedRows
<1>2. Refetch(i) => \A j \in Ids : req'[j].rows \in {req[j].rows, NoRows}
  BY RefetchFact
<1>3. CASE DeliverDenied(i)
  BY <1>0, <1>3, AbandonedFact, MountCarried DEF DeliverDenied
<1>4. CASE DeliverList(i)
  <2>1. req' = Freed(i)
    BY <1>4 DEF DeliverList
  <2>2. page'.view \in {page.view, req[i].rows}
    BY <1>0, <1>4 DEF DeliverList, OnPage, Pages
  <2> QED
    BY <1>1, <2>1, <2>2 DEF Carried
<1>5. CASE DeliverCreate(i)
  <2>1. page'.view = page.view
    BY <1>0, <1>5 DEF DeliverCreate, OnPage, Pages
  <2>2. Refetch(i) \/ req' = Freed(i)
    BY <1>5 DEF DeliverCreate
  <2> QED
    BY <1>1, <1>2, <2>1, <2>2 DEF Carried
<1>6. CASE DeliverStop(i)
  <2>1. page'.view = page.view
    BY <1>0, <1>6 DEF DeliverStop, OnPage, Pages
  <2>2. Refetch(i) \/ req' = Freed(i)
    BY <1>6 DEF DeliverStop
  <2> QED
    BY <1>1, <1>2, <2>1, <2>2 DEF Carried
<1>7. CASE DeliverDetails(i)
  <2>1. page'.view = page.view
    BY <1>0, <1>7 DEF DeliverDetails, OnPage, Pages
  <2>2. req' = Freed(i)
    BY <1>7 DEF DeliverDetails
  <2> QED
    BY <1>1, <2>1, <2>2 DEF Carried
<1>8. CASE DeliverLogin(i)
  <2>1. CASE Mount("matches", Freed(i), req[i].token)
    <3>1. req[i].token \in Tokens \cup {NoToken}
      BY <1>0 DEF Requests
    <3> QED
      BY <1>0, <1>1, <2>1, <3>1, MountCarried
  <2>2. CASE req' = Freed(i) /\ UNCHANGED <<cookie, url, page>>
    BY <1>1, <2>2 DEF Carried
  <2> QED
    BY <1>8, <2>1, <2>2 DEF DeliverLogin
<1>9. CASE DeliverLogout(i)
  <2> DEFINE r == IF url = "login" THEN Freed(i) ELSE Unmounted(Freed(i))
             c == IF req[i].phase = "ok" THEN NoToken ELSE cookie
  <2>1. c \in Tokens \cup {NoToken} /\ Mount("login", r, c)
    BY <1>0, <1>9 DEF DeliverLogout
  <2>2. r \in [Ids -> Requests] /\ \A j \in Ids : r[j].rows \in {req[j].rows, NoRows}
    BY <1>1, UnmountedFact
  <2> HIDE DEF r, c
  <2> QED
    BY <1>0, <2>1, <2>2, MountCarried
<1>10. CASE DeliverData(i)
  BY <1>1, <1>10 DEF DeliverData, Carried
<1> QED
  BY <1>3, <1>4, <1>5, <1>6, <1>7, <1>8, <1>9, <1>10 DEF Deliver

\* Only the backend, and the rest of the system, change the matches.
LEMMA StaysLater ==
  ASSUME TypeOK, row' = row
  PROVE  Later
BY RankFact DEF TypeOK, Rows, Later

LEMMA UserKeepsRows ==
  ASSUME User \/ \E i \in Ids : Deliver(i)
  PROVE  row' = row
<1>1. CASE User
  BY <1>1 DEF User, FetchMatches, OpenCreate, CancelCreate, SubmitCreate, Login, Logout, Stop,
              Expand, Collapse, RefreshServer, Navigate, Open
<1>2. ASSUME NEW i \in Ids, Deliver(i)
      PROVE  row' = row
  BY <1>2 DEF Deliver, DeliverDenied, DeliverList, DeliverCreate, DeliverStop, DeliverDetails,
              DeliverLogin, DeliverLogout, DeliverData
<1> QED
  BY <1>1, <1>2

LEMMA NextPast ==
  ASSUME TypeOK, Owned, Past, [Next]_vars
  PROVE  Past'
<1>0. TypeOK'
  BY NextTyped
<1>1. CASE User
  BY <1>0, <1>1, UserCarried, UserKeepsRows, StaysLater, PastStep
<1>2. ASSUME NEW i \in Ids, Deliver(i)
      PROVE  Past'
  BY <1>0, <1>2, DeliverCarried, UserKeepsRows, StaysLater, PastStep
<1>3. ASSUME NEW i \in Ids, Backend(i)
      PROVE  Past'
  <2>1. AnswerStep(i) /\ Later /\ UNCHANGED page
    BY <1>3, BackendFact
  <2>2. PICK ph \in {"ok", "failed", "denied"}, rs \in Rows, t \in Tokens \cup {NoToken} :
          Answered(i, ph, rs, t) /\ rs \in {row, NoRows}
    BY <2>1 DEF AnswerStep
  <2>3. ph \in Phases
    BY DEF Phases
  <2>4. /\ \A j \in Ids \ {i} : req'[j] = req[j]
        /\ req'[i] = NoRequest \/ req'[i].rows = rs
    BY <2>2, <2>3, AnsweredFact
  <2>5. Carried
    BY <2>1, <2>2, <2>4, NoRequestFacts DEF Carried
  <2> QED
    BY <1>0, <2>1, <2>5, PastStep
<1>4. ASSUME NEW m \in Matches, Progress(m)
      PROVE  Past'
  <2>1. Later /\ UNCHANGED <<page, req>>
    BY <1>4, ProgressFact
  <2>2. Carried
    BY <2>1 DEF Carried
  <2> QED
    BY <1>0, <2>1, <2>2, PastStep
<1>5. CASE Restart \/ UNCHANGED vars
  BY <1>5 DEF Restart, vars, Past, ViewIsPast
<1> QED
  BY <1>1, <1>2, <1>3, <1>4, <1>5 DEF Next

LEMMA InitPast == Init => Past
<1> SUFFICES ASSUME Init PROVE Past
  OBVIOUS
<1>1. /\ row = NoRows /\ page.view = NoRows /\ \A i \in Ids : req[i].rows = NoRows
  BY NoRequestFacts, FreshFact DEF Init
<1>2. \A m \in Matches : Rank[NoRows[m]] \in Nat
  BY NoRequestFacts, RankFact DEF Rows
<1> QED
  BY <1>1, <1>2 DEF Past, ViewIsPast

\* The table never runs ahead of the matches: what it shows as over is over,
\* in whatever order the polls, the writes and their answers come.
THEOREM ViewStaysPast == Spec => []ViewIsPast
<1> DEFINE I == TypeOK /\ Owned /\ Past
<1>1. Init => I
  BY InitTyped, InitPast
<1>2. I /\ [Next]_vars => I'
  BY NextTyped, NextPast
<1>3. I => ViewIsPast
  BY DEF Past
<1> QED
  BY <1>1, <1>2, <1>3, PTL DEF Spec

-----------------------------------------------------------------------------
(* What spins has a request, and a creation is the only one                 *)

\* A detail of a match that spins, or will as soon as its row is expanded.
Needs(d, m) == m \in page.waiting[d] \/ m \in page.asked[d] \ page.cache[d]
Runs(d, m)  == \E i \in Ids : Live(i, d) /\ req[i].match = m

Flagged ==
  /\ page.loading  => \E i \in Ids : Live(i, "list")
  /\ page.creating => \E i \in Ids : Live(i, "create")
  /\ \A d \in Details, m \in Matches : Needs(d, m) => Runs(d, m)
  /\ \A d \in Details : page.expanded \subseteq page.asked[d]

LEMMA FlaggedSpins ==
  ASSUME TypeOK, Flagged
  PROVE  SpinnersHaveRequests
<1>1. page.expanded \subseteq Matches
  BY DEF TypeOK, Pages
<1>2. ASSUME NEW m \in page.expanded, NEW d \in Details, Spins(d, m)
      PROVE  \E i \in Ids : Live(i, d) /\ req[i].match = m
  <2>1. m \in Matches /\ Needs(d, m)
    BY <1>1, <1>2 DEF Flagged, Needs, Spins
  <2> QED
    BY <2>1 DEF Flagged, Runs
<1> QED
  BY <1>2 DEF Flagged, SpinnersHaveRequests

\* The live requests, but those that are answered (gone), are under way after
\* a step too; and those of kind k that are, were so before.
Persist(gone) ==
  \A j \in Ids \ gone : req[j].live = TRUE =>
    /\ req'[j].live = TRUE /\ req'[j].phase # "free"
    /\ req'[j].kind = req[j].kind /\ req'[j].match = req[j].match
NoneNew(k) ==
  \A j \in Ids : req'[j].live = TRUE /\ req'[j].kind = k
                   => req[j].live = TRUE /\ req[j].kind = k

LEMMA LiveFact ==
  ASSUME TypeOK, Owned
  PROVE  \A i \in Ids, k \in Kinds : Live(i, k) <=> req[i].live = TRUE /\ req[i].kind = k
BY DEF TypeOK, Owned, Live, Under, Requests

\* A step keeps Flagged when whatever the page says is under way is so by a
\* request that persists, or by a new one.
LEMMA FlaggedStep ==
  ASSUME TypeOK, TypeOK', Owned, Owned', Flagged, NEW gone, Persist(gone),
         page'.loading => \/ \E i \in Ids : Live(i, "list")'
                          \/ page.loading /\ \A i \in gone : req[i].kind # "list" \/ ~req[i].live,
         page'.creating => \/ \E i \in Ids : Live(i, "create")'
                           \/ page.creating /\ \A i \in gone : req[i].kind # "create" \/ ~req[i].live,
         \A d \in Details, m \in Matches : Needs(d, m)' =>
           \/ Runs(d, m)'
           \/ Needs(d, m) /\ \A i \in gone : req[i].kind # d \/ req[i].match # m \/ ~req[i].live,
         \A d \in Details : page'.expanded \subseteq page'.asked[d]
  PROVE  Flagged'
<1>0. /\ \A i \in Ids, k \in Kinds : Live(i, k) <=> req[i].live = TRUE /\ req[i].kind = k
      /\ {"list", "create"} \cup Details \subseteq Kinds
      /\ \A i \in Ids : req[i].live \in BOOLEAN
  BY LiveFact DEF Kinds, Details, TypeOK, Requests
<1>1. ASSUME NEW i \in Ids, NEW k \in Kinds, Live(i, k), i \notin gone
      PROVE  Live(i, k)' /\ req'[i].match = req[i].match
  BY <1>0, <1>1 DEF Persist, Live, Under
<1>2. page'.loading => \E i \in Ids : Live(i, "list")'
  <2> SUFFICES ASSUME page.loading, \A i \in gone : req[i].kind # "list" \/ ~req[i].live
               PROVE  \E i \in Ids : Live(i, "list")'
    OBVIOUS
  <2>1. PICK i \in Ids : Live(i, "list")
    BY DEF Flagged
  <2>2. i \notin gone
    BY <1>0, <2>1
  <2> QED
    BY <1>0, <1>1, <2>1, <2>2
<1>3. page'.creating => \E i \in Ids : Live(i, "create")'
  <2> SUFFICES ASSUME page.creating, \A i \in gone : req[i].kind # "create" \/ ~req[i].live
               PROVE  \E i \in Ids : Live(i, "create")'
    OBVIOUS
  <2>1. PICK i \in Ids : Live(i, "create")
    BY DEF Flagged
  <2>2. i \notin gone
    BY <1>0, <2>1
  <2> QED
    BY <1>0, <1>1, <2>1, <2>2
<1>4. ASSUME NEW d \in Details, NEW m \in Matches, Needs(d, m)'
      PROVE  Runs(d, m)'
  <2> SUFFICES ASSUME Needs(d, m),
                      \A i \in gone : req[i].kind # d \/ req[i].match # m \/ ~req[i].live
               PROVE  Runs(d, m)'
    BY <1>4
  <2>1. PICK i \in Ids : Live(i, d) /\ req[i].match = m
    BY DEF Flagged, Runs
  <2>2. i \notin gone /\ d \in Kinds
    BY <1>0, <2>1
  <2> QED
    BY <1>1, <2>1, <2>2 DEF Runs
<1> QED
  BY <1>2, <1>3, <1>4 DEF Flagged

\* A step keeps the one creation when it adds none, and the button spins on.
LEMMA CreationStep ==
  ASSUME TypeOK, TypeOK', Owned, Owned', OneCreationPerPage, NoneNew("create"),
         page'.creating = page.creating \/ \A j \in Ids : ~(req'[j].live = TRUE /\ req'[j].kind = "create")
  PROVE  OneCreationPerPage'
<1>1. \A i \in Ids : Live(i, "create") <=> req[i].live = TRUE /\ req[i].kind = "create"
  BY LiveFact DEF Kinds
<1>2. \A i \in Ids : Live(i, "create")' => req'[i].live = TRUE /\ req'[i].kind = "create"
  BY DEF TypeOK, Live, Under, Requests
<1>3. \A i \in Ids : Live(i, "create")' => Live(i, "create")
  BY <1>1, <1>2 DEF NoneNew
<1> QED
  BY <1>2, <1>3 DEF OneCreationPerPage

LEMMA SentShape ==
  ASSUME TypeOK, Owned, NEW k \in Kinds, NEW m, Sent(k, m)
  PROVE  /\ Persist({}) /\ \E j \in Ids : Live(j, k)'
         /\ k # "create" => NoneNew("create")
<1>1. PICK i \in Ids, q \in Requests :
        /\ req[i].phase = "free" /\ req' = [req EXCEPT ![i] = q]
        /\ q.kind = k /\ q.match = m /\ q.phase = "sent" /\ q.live = TRUE /\ q.rows = NoRows
  BY DEF Sent
<1>2. req'[i] = q /\ \A j \in Ids \ {i} : req'[j] = req[j]
  BY <1>1 DEF TypeOK
<1>3. req[i].live # TRUE
  BY <1>1 DEF Owned
<1>4. Persist({})
  <2> SUFFICES ASSUME NEW j \in Ids, req[j].live = TRUE
               PROVE  /\ req'[j].live = TRUE /\ req'[j].phase # "free"
                      /\ req'[j].kind = req[j].kind /\ req'[j].match = req[j].match
    BY DEF Persist
  <2>1. req'[j] = req[j] /\ req[j].phase # "free"
    BY <1>2, <1>3 DEF Owned
  <2> QED
    BY <2>1
<1>5. Live(i, k)'
  BY <1>1, <1>2 DEF Live, Under
<1>6. k # "create" => NoneNew("create")
  BY <1>1, <1>2 DEF NoneNew
<1> QED
  BY <1>4, <1>5, <1>6

LEMMA AsksShape ==
  ASSUME TypeOK, Owned, NEW m \in Matches, NEW ds \in SUBSET Details, AsksFor(m, ds)
  PROVE  Persist({}) /\ NoneNew("create") /\ \A d \in ds : Runs(d, m)'
<1>1. Persist({})
  <2> SUFFICES ASSUME NEW j \in Ids, req[j].live = TRUE
               PROVE  /\ req'[j].live = TRUE /\ req'[j].phase # "free"
                      /\ req'[j].kind = req[j].kind /\ req'[j].match = req[j].match
    BY DEF Persist
  <2>1. req[j].phase # "free"
    BY DEF Owned
  <2> QED
    BY <2>1 DEF AsksFor
<1>2. NoneNew("create")
  BY DEF AsksFor, NoneNew, Details
<1>3. \A d \in ds : Runs(d, m)'
  BY DEF AsksFor, Runs, Live, Under
<1> QED
  BY <1>1, <1>2, <1>3

LEMMA AnsweredShape ==
  ASSUME TypeOK, Owned, NEW i \in Ids, AnswerStep(i)
  PROVE  Persist({}) /\ NoneNew("create")
<1>1. PICK ph \in {"ok", "failed", "denied"}, rs \in Rows, t \in Tokens \cup {NoToken} :
        Answered(i, ph, rs, t)
  BY DEF AnswerStep
<1>2. ph \in Phases
  BY DEF Phases
<1>3. /\ \A j \in Ids \ {i} : req'[j] = req[j]
      /\ \/ req[i].phase = "orphan" /\ req'[i] = NoRequest
         \/ /\ req'[i].phase = ph
            /\ req'[i].kind = req[i].kind /\ req'[i].match = req[i].match
            /\ req'[i].live = req[i].live
  BY <1>1, <1>2, AnsweredFact
<1>4. \A j \in Ids : req[j].live = TRUE => req[j].phase \notin {"free", "orphan"}
  BY DEF Owned
<1>5. Persist({})
  BY <1>3, <1>4 DEF Persist
<1>6. NoneNew("create")
  BY <1>3, NoRequestFacts DEF NoneNew
<1> QED
  BY <1>5, <1>6

LEMMA FreedShape ==
  ASSUME TypeOK, Owned, NEW i \in Ids, req' = Freed(i)
  PROVE  Persist({i}) /\ NoneNew("create") /\ req'[i].live = FALSE
<1>1. req'[i] = NoRequest /\ \A j \in Ids \ {i} : req'[j] = req[j]
  BY FreedFact
<1>2. \A j \in Ids : req[j].live = TRUE => req[j].phase # "free"
  BY DEF Owned
<1>3. Persist({i})
  BY <1>1, <1>2 DEF Persist
<1>4. NoneNew("create") /\ req'[i].live = FALSE
  BY <1>1, NoRequestFacts DEF NoneNew
<1> QED
  BY <1>3, <1>4

LEMMA RefetchShape ==
  ASSUME TypeOK, Owned, NEW i \in Ids, Refetch(i)
  PROVE  /\ Persist({i}) /\ NoneNew("create") /\ req'[i].kind = "list"
         /\ req[i].live => Live(i, "list")'
<1>1. /\ \A j \in Ids \ {i} : req'[j] = req[j]
      /\ req'[i].kind = "list" /\ req'[i].phase = "sent" /\ req'[i].live = req[i].live
  BY RefetchFact
<1>2. \A j \in Ids : req[j].live = TRUE => req[j].phase # "free"
  BY DEF Owned
<1>3. Persist({i})
  BY <1>1, <1>2 DEF Persist
<1>4. NoneNew("create")
  BY <1>1 DEF NoneNew
<1>5. req[i].live => Live(i, "list")'
  BY <1>1 DEF Live, Under
<1> QED
  BY <1>1, <1>3, <1>4, <1>5

\* Nothing spins on a fresh page, but the table of the matches.
LEMMA FreshFlagged ==
  ASSUME \/ page' = Fresh
         \/ page' = [Fresh EXCEPT !.loading = TRUE] /\ \E i \in Ids : Live(i, "list")'
  PROVE  Flagged'
<1>1. /\ page'.loading => \E i \in Ids : Live(i, "list")'
      /\ page'.creating = FALSE /\ page'.expanded = {}
      /\ page'.asked = Fresh.asked /\ page'.waiting = Fresh.waiting
  BY FreshFact DEF Fresh
<1>2. \A d \in Details, m \in Matches : ~Needs(d, m)'
  BY <1>1, FreshFact DEF Needs
<1> QED
  BY <1>1, <1>2 DEF Flagged

LEMMA MountShape ==
  ASSUME TypeOK, NEW u \in Urls, NEW r \in [Ids -> Requests], NEW c \in Tokens \cup {NoToken},
         Gone(r), Mount(u, r, c)
  PROVE  Flagged' /\ OneCreationPerPage'
<1>1. /\ page' = [Fresh EXCEPT !.loading = (u = "matches")]
      /\ \/ u = "login" /\ req' = r
         \/ \E i \in Ids, q \in Requests :
              /\ u # "login" /\ r[i].phase = "free" /\ req' = [r EXCEPT ![i] = q]
              /\ q.kind = (IF u = "matches" THEN "list" ELSE "data")
              /\ q.phase = "sent" /\ q.live = TRUE /\ q.rows = NoRows
  BY MountFact
<1>2. u = "matches" => \E i \in Ids : Live(i, "list")'
  BY <1>1 DEF Live, Under
<1>3. u # "matches" => page' = Fresh
  BY <1>1, FreshFact DEF Fresh
<1>4. Flagged'
  BY <1>1, <1>2, <1>3, FreshFlagged
<1>5. \A j \in Ids : ~Live(j, "create")'
  BY <1>1 DEF Gone, Live, Under
<1> QED
  BY <1>4, <1>5 DEF OneCreationPerPage

LEMMA UserFlagged ==
  ASSUME TypeOK, TypeOK', Owned, Owned', Flagged, OneCreationPerPage, User
  PROVE  Flagged' /\ OneCreationPerPage'
<1>0. /\ page \in Pages /\ page' \in Pages /\ cookie \in Tokens \cup {NoToken}
      /\ req \in [Ids -> Requests]
      /\ {"list", "create", "stop", "login", "logout"} \subseteq Kinds
      /\ NoMatch \in Matches \cup {NoMatch}
  BY DEF TypeOK, Kinds
<1>a. /\ \A d \in Details : page.expanded \subseteq page.asked[d]
      /\ page.asked \in [Details -> SUBSET Matches] /\ page.cache \in [Details -> SUBSET Matches]
      /\ page.waiting \in [Details -> SUBSET Matches]
  BY <1>0 DEF Flagged, Pages
\* The flags that most of the handlers leave alone.
<1> DEFINE SameFlags == /\ page'.asked = page.asked /\ page'.waiting = page.waiting
                        /\ page'.cache = page.cache /\ page'.expanded \subseteq page.expanded
<1>b. ASSUME SameFlags
      PROVE  /\ \A d \in Details, m \in Matches : Needs(d, m)' => Needs(d, m)
             /\ \A d \in Details : page'.expanded \subseteq page'.asked[d]
  BY <1>a, <1>b DEF Needs
<1>1. CASE FetchMatches
  <2>1. /\ Send("list", NoMatch) /\ SameFlags /\ page'.creating = page.creating
    BY <1>0, <1>1 DEF FetchMatches, Pages
  <2>2. Persist({}) /\ NoneNew("create") /\ \E j \in Ids : Live(j, "list")'
    BY <1>0, <2>1, SendFact, SentShape
  <2>3. Flagged'
    BY <1>b, <2>1, <2>2, FlaggedStep
  <2> QED
    BY <2>1, <2>2, <2>3, CreationStep
<1>2. CASE OpenCreate \/ CancelCreate \/ \E m \in Matches : Collapse(m)
  <2>1. /\ UNCHANGED <<req, url>> /\ SameFlags /\ page'.creating = page.creating
        /\ page'.loading = page.loading
    BY <1>0, <1>2 DEF OpenCreate, CancelCreate, Collapse, Pages
  <2>2. Persist({}) /\ NoneNew("create")
    BY <2>1 DEF Persist, NoneNew, Owned
  <2>3. Flagged'
    BY <1>b, <2>1, <2>2, FlaggedStep
  <2> QED
    BY <2>1, <2>2, <2>3, CreationStep
<1>3. CASE SubmitCreate
  <2>1. /\ Send("create", NoMatch) /\ SameFlags /\ page'.creating = TRUE
        /\ page'.loading = page.loading /\ ~page.creating
    BY <1>0, <1>3 DEF SubmitCreate, Pages
  <2>2. Sent("create", NoMatch)
    BY <1>0, <2>1, SendFact
  <2>3. Persist({}) /\ \E j \in Ids : Live(j, "create")'
    BY <1>0, <2>2, SentShape
  <2>4. Flagged'
    BY <1>b, <2>1, <2>3, FlaggedStep
  <2>5. \A j \in Ids : ~Live(j, "create")
    BY <2>1 DEF OneCreationPerPage
  <2>6. OneCreationPerPage'
    <3>1. PICK i \in Ids, q \in Requests : req' = [req EXCEPT ![i] = q]
      BY <2>2 DEF Sent
    <3>2. \A j \in Ids \ {i} : req'[j] = req[j]
      BY <3>1
    <3>3. \A j \in Ids \ {i} : ~Live(j, "create")'
      BY <2>5, <3>2 DEF Live, Under
    <3> QED
      BY <2>1, <3>3 DEF OneCreationPerPage
  <2> QED
    BY <2>4, <2>6
<1>4. CASE Login \/ Logout \/ \E m \in Matches : Stop(m)
  <2>1. UNCHANGED page /\ \E k \in Kinds \ {"create"}, m \in Matches \cup {NoMatch} : Sent(k, m)
    BY <1>0, <1>4, SendFact DEF Login, Logout, Stop
  <2>2. Persist({}) /\ NoneNew("create")
    BY <2>1, SentShape
  <2>3. Flagged'
    BY <1>b, <2>1, <2>2, FlaggedStep
  <2> QED
    BY <2>1, <2>2, <2>3, CreationStep
<1>5. ASSUME NEW m \in Matches, Expand(m)
      PROVE  Flagged' /\ OneCreationPerPage'
  <2> DEFINE ds == {d \in Details : m \notin page.asked[d]}
  <2>1. /\ AsksFor(m, ds) /\ page'.loading = page.loading
        /\ page'.creating = page.creating /\ page'.expanded = page.expanded \cup {m}
        /\ page'.cache = page.cache
        /\ page'.asked = [d \in Details |-> page.asked[d] \cup {m}]
        /\ page'.waiting = [d \in Details |-> IF m \in page.asked[d] THEN page.waiting[d]
                                              ELSE page.waiting[d] \cup {m}]
    BY <1>5, ExpandFact
  <2>2. ds \in SUBSET Details
    OBVIOUS
  <2> HIDE DEF ds
  <2>3. Persist({}) /\ NoneNew("create") /\ \A d \in ds : Runs(d, m)'
    BY <2>1, <2>2, AsksShape
  <2>4. \A d \in Details : page'.expanded \subseteq page'.asked[d]
    BY <1>a, <2>1
  <2>5. \A d \in Details, n \in Matches : Needs(d, n)' => Needs(d, n) \/ (n = m /\ d \in ds)
    BY <1>a, <2>1 DEF Needs, ds
  <2>6. Flagged'
    BY <2>1, <2>3, <2>4, <2>5, FlaggedStep
  <2> QED
    BY <2>1, <2>3, <2>6, CreationStep
<1>6. ASSUME NEW m \in Matches, RefreshServer(m)
      PROVE  Flagged' /\ OneCreationPerPage'
  <2>1. /\ AsksFor(m, {"server"}) /\ page'.loading = page.loading
        /\ page'.creating = page.creating /\ page'.expanded = page.expanded
        /\ page'.cache = [page.cache EXCEPT !["server"] = @ \ {m}]
        /\ page'.asked = [page.asked EXCEPT !["server"] = @ \cup {m}]
        /\ page'.waiting = [page.waiting EXCEPT !["server"] = @ \cup {m}]
    BY <1>6, RefreshFact
  <2>2. {"server"} \in SUBSET Details
    BY DEF Details
  <2>3. Persist({}) /\ NoneNew("create") /\ Runs("server", m)'
    BY <2>1, <2>2, AsksShape
  <2>4. \A d \in Details : page'.expanded \subseteq page'.asked[d]
    BY <1>a, <2>1
  <2>5. \A d \in Details, n \in Matches : Needs(d, n)' => Needs(d, n) \/ (n = m /\ d = "server")
    BY <1>a, <2>1 DEF Needs
  <2>6. Flagged'
    BY <2>1, <2>3, <2>4, <2>5, FlaggedStep
  <2> QED
    BY <2>1, <2>3, <2>6, CreationStep
<1>7. ASSUME NEW u \in Urls, Navigate(u)
      PROVE  Flagged' /\ OneCreationPerPage'
  <2>1. url # "login" /\ Mount(u, Unmounted(req), cookie)
    BY <1>7 DEF Navigate
  <2>2. Unmounted(req) \in [Ids -> Requests] /\ Gone(Unmounted(req))
    BY <2>1, UnmountedGone
  <2> QED
    BY <1>0, <2>1, <2>2, MountShape
<1>8. ASSUME NEW u \in Urls, Open(u)
      PROVE  Flagged' /\ OneCreationPerPage'
  <2>1. Abandoned(req) \in [Ids -> Requests] /\ Gone(Abandoned(req))
    BY <1>0, AbandonedFact DEF Gone
  <2> QED
    BY <1>0, <1>8, <2>1, MountShape DEF Open
<1> QED
  BY <1>1, <1>2, <1>3, <1>4, <1>5, <1>6, <1>7, <1>8 DEF User

LEMMA DeliverFlagged ==
  ASSUME TypeOK, TypeOK', Owned, Owned', Flagged, OneCreationPerPage,
         NEW i \in Ids, Deliver(i)
  PROVE  Flagged' /\ OneCreationPerPage'
<1>0. /\ page \in Pages /\ page' \in Pages /\ cookie \in Tokens \cup {NoToken}
      /\ req \in [Ids -> Requests] /\ req[i] \in Requests
      /\ "login" \in Urls /\ "matches" \in Urls /\ NoToken \in Tokens \cup {NoToken}
  BY DEF TypeOK, Urls
<1>a. /\ \A d \in Details : page.expanded \subseteq page.asked[d]
      /\ page.asked \in [Details -> SUBSET Matches] /\ page.cache \in [Details -> SUBSET Matches]
      /\ page.waiting \in [Details -> SUBSET Matches]
  BY <1>0 DEF Flagged, Pages
<1> DEFINE SameFlags == /\ page'.asked = page.asked /\ page'.waiting = page.waiting
                        /\ page'.cache = page.cache /\ page'.expanded = page.expanded
<1>b. ASSUME SameFlags
      PROVE  /\ \A d \in Details, m \in Matches : Needs(d, m)' => Needs(d, m)
             /\ \A d \in Details : page'.expanded \subseteq page'.asked[d]
  BY <1>a, <1>b DEF Needs
<1>c. req[i].live \in BOOLEAN
  BY <1>0 DEF Requests
<1>1. CASE DeliverDenied(i)
  <2>1. Abandoned(req) \in [Ids -> Requests] /\ Gone(Abandoned(req))
    BY <1>0, AbandonedFact DEF Gone
  <2> QED
    BY <1>0, <1>1, <2>1, MountShape DEF DeliverDenied
<1>2. CASE DeliverList(i)
  <2>1. /\ req[i].kind = "list" /\ req' = Freed(i) /\ SameFlags
        /\ page'.creating = page.creating
        /\ page'.loading => page.loading /\ ~req[i].live
    BY <1>0, <1>2 DEF DeliverList, OnPage, Pages
  <2>2. Persist({i}) /\ NoneNew("create")
    BY <2>1, FreedShape
  <2>3. "list" \notin Details
    BY DEF Details
  <2>4. Flagged'
    BY <1>b, <2>1, <2>2, <2>3, FlaggedStep
  <2> QED
    BY <2>1, <2>2, <2>4, CreationStep
<1>3. CASE DeliverCreate(i)
  <2>1. /\ req[i].kind = "create" /\ SameFlags
        /\ page'.creating => page.creating
        /\ page'.creating = page.creating \/ req[i].live
        /\ req[i].live => ~page'.creating
    BY <1>0, <1>3 DEF DeliverCreate, OnPage, Pages
  <2>2. \/ Refetch(i) /\ (page'.loading => page.loading \/ req[i].live)
        \/ req' = Freed(i) /\ page'.loading = page.loading
    BY <1>0, <1>3 DEF DeliverCreate, OnPage, Pages
  <2>3. /\ Persist({i}) /\ NoneNew("create")
        /\ req'[i].kind = "list" \/ req'[i].live = FALSE
        /\ page'.loading => page.loading \/ Live(i, "list")'
    <3>1. CASE Refetch(i) /\ (page'.loading => page.loading \/ req[i].live)
      BY <3>1, RefetchShape
    <3>2. CASE req' = Freed(i) /\ page'.loading = page.loading
      BY <3>2, FreedShape
    <3> QED
      BY <2>2, <3>1, <3>2
  <2>4. "create" \notin Details
    BY DEF Details
  <2>5. Flagged'
    BY <1>b, <1>c, <2>1, <2>3, <2>4, FlaggedStep
  <2>6. req[i].live => \A j \in Ids : ~(req'[j].live = TRUE /\ req'[j].kind = "create")
    <3> SUFFICES ASSUME req[i].live, NEW j \in Ids,
                        req'[j].live = TRUE /\ req'[j].kind = "create"
                 PROVE  FALSE
      OBVIOUS
    <3>1. req[j].live = TRUE /\ req[j].kind = "create"
      BY <2>3 DEF NoneNew
    <3>2. Live(i, "create") /\ Live(j, "create")
      BY <1>c, <2>1, <3>1, LiveFact DEF Kinds
    <3>3. i = j
      BY <3>2 DEF OneCreationPerPage
    <3> QED
      BY <2>3, <3>3
  <2> QED
    BY <2>1, <2>3, <2>5, <2>6, CreationStep
<1>4. CASE DeliverStop(i)
  <2>1. /\ req[i].kind = "stop" /\ SameFlags /\ page'.creating = page.creating
    BY <1>0, <1>4 DEF DeliverStop, OnPage, Pages
  <2>2. \/ Refetch(i) /\ (page'.loading => page.loading \/ req[i].live)
        \/ req' = Freed(i) /\ page'.loading = page.loading
    BY <1>0, <1>4 DEF DeliverStop, OnPage, Pages
  <2>3. /\ Persist({i}) /\ NoneNew("create")
        /\ page'.loading => page.loading \/ Live(i, "list")'
    <3>1. CASE Refetch(i) /\ (page'.loading => page.loading \/ req[i].live)
      BY <3>1, RefetchShape
    <3>2. CASE req' = Freed(i) /\ page'.loading = page.loading
      BY <3>2, FreedShape
    <3> QED
      BY <2>2, <3>1, <3>2
  <2>4. "stop" \notin Details
    BY DEF Details
  <2>5. Flagged'
    BY <1>b, <2>1, <2>3, <2>4, FlaggedStep
  <2> QED
    BY <2>1, <2>3, <2>5, CreationStep
<1>5. CASE DeliverDetails(i)
  <2>1. /\ req[i].kind \in Details /\ req' = Freed(i)
        /\ page'.creating = page.creating /\ page'.loading = page.loading
        /\ page'.asked = page.asked /\ page'.expanded = page.expanded
    BY <1>0, <1>5 DEF DeliverDetails, OnPage, Pages
  <2>2. \A d \in Details, m \in Matches :
          Needs(d, m)' => Needs(d, m) /\ (req[i].kind # d \/ req[i].match # m \/ ~req[i].live)
    <3>1. CASE req[i].live
      <4>1. page' = [page EXCEPT !.cache[req[i].kind]   = @ \cup {req[i].match},
                                 !.waiting[req[i].kind] = @ \ {req[i].match}]
        BY <1>5, <3>1 DEF DeliverDetails, OnPage
      <4>2. /\ page'.cache = [page.cache EXCEPT ![req[i].kind] = @ \cup {req[i].match}]
            /\ page'.waiting = [page.waiting EXCEPT ![req[i].kind] = @ \ {req[i].match}]
        BY <1>0, <4>1 DEF Pages
      <4> QED
        BY <1>a, <2>1, <4>2 DEF Needs
    <3>2. CASE ~req[i].live
      BY <1>5, <3>2 DEF DeliverDetails, OnPage, Needs
    <3> QED
      BY <3>1, <3>2
  <2>3. Persist({i}) /\ NoneNew("create")
    BY <2>1, FreedShape
  <2>4. \A d \in Details : page'.expanded \subseteq page'.asked[d]
    BY <1>a, <2>1
  <2>5. "list" \notin Details /\ "create" \notin Details
    BY DEF Details
  <2>6. Flagged'
    BY <2>1, <2>2, <2>3, <2>4, <2>5, FlaggedStep
  <2> QED
    BY <2>1, <2>3, <2>6, CreationStep
<1>6. CASE DeliverLogin(i)
  <2>1. req[i].kind = "login"
    BY <1>6 DEF DeliverLogin
  <2>2. CASE Mount("matches", Freed(i), req[i].token) /\ req[i].phase = "ok"
    <3>1. Freed(i) \in [Ids -> Requests] /\ Gone(Freed(i))
      BY <2>1, <2>2, LoginGone
    <3>2. req[i].token \in Tokens \cup {NoToken}
      BY <1>0 DEF Requests
    <3> QED
      BY <1>0, <2>2, <3>1, <3>2, MountShape
  <2>3. CASE req' = Freed(i) /\ UNCHANGED <<cookie, url, page>>
    <3>1. Persist({i}) /\ NoneNew("create")
      BY <2>3, FreedShape
    <3>2. "login" \notin Details
      BY DEF Details
    <3>3. SameFlags
      BY <2>3
    <3>4. Flagged'
      BY <1>b, <2>1, <2>3, <3>1, <3>2, <3>3, FlaggedStep
    <3> QED
      BY <2>3, <3>1, <3>4, CreationStep
  <2> QED
    BY <1>6, <2>2, <2>3 DEF DeliverLogin
<1>7. CASE DeliverLogout(i)
  <2> DEFINE c == IF req[i].phase = "ok" THEN NoToken ELSE cookie
  <2>1. /\ c \in Tokens \cup {NoToken}
        /\ Mount("login", IF url = "login" THEN Freed(i) ELSE Unmounted(Freed(i)), c)
    BY <1>0, <1>7 DEF DeliverLogout
  <2>2. /\ Freed(i) \in [Ids -> Requests] /\ Freed(i)[i] = NoRequest
        /\ \A j \in Ids \ {i} : Freed(i)[j] = req[j]
    BY FreedFact
  <2> HIDE DEF c
  <2>3. CASE url = "login"
    <3>1. req' = Freed(i) /\ page' = [Fresh EXCEPT !.loading = FALSE]
      BY <2>1, <2>3 DEF Mount
    <3>2. page' = Fresh
      BY <3>1, FreshFact DEF Fresh
    <3>3. Flagged'
      BY <3>2, FreshFlagged
    <3>4. NoneNew("create")
      BY <3>1, FreedShape
    <3>5. \A j \in Ids : ~(req[j].live = TRUE /\ req[j].kind = "create")
      BY <2>3 DEF Owned, KindsOn
    <3>6. \A j \in Ids : ~(req'[j].live = TRUE /\ req'[j].kind = "create")
      BY <3>4, <3>5 DEF NoneNew
    <3> QED
      BY <3>3, <3>4, <3>6, CreationStep
  <2>4. CASE url # "login"
    <3>1. \A j \in Ids : Freed(i)[j].kind = "login" => Freed(i)[j].phase \in {"free", "orphan"}
      BY <2>2, <2>4, NoRequestFacts DEF Owned, KindsOn
    <3>2. Unmounted(Freed(i)) \in [Ids -> Requests] /\ Gone(Unmounted(Freed(i)))
      BY <2>2, <3>1, UnmountedFact DEF Gone
    <3> QED
      BY <1>0, <2>1, <2>4, <3>2, MountShape
  <2> QED
    BY <2>3, <2>4
<1>8. CASE DeliverData(i)
  <2>1. req[i].kind = "data" /\ req' = Freed(i) /\ UNCHANGED page /\ SameFlags
    BY <1>8 DEF DeliverData
  <2>2. Persist({i}) /\ NoneNew("create")
    BY <2>1, FreedShape
  <2>3. "data" \notin Details
    BY DEF Details
  <2>4. Flagged'
    BY <1>b, <2>1, <2>2, <2>3, FlaggedStep
  <2> QED
    BY <2>1, <2>2, <2>4, CreationStep
<1> QED
  BY <1>1, <1>2, <1>3, <1>4, <1>5, <1>6, <1>7, <1>8 DEF Deliver

LEMMA NextFlagged ==
  ASSUME TypeOK, Owned, Flagged, OneCreationPerPage, [Next]_vars
  PROVE  Flagged' /\ OneCreationPerPage'
<1>0. TypeOK' /\ Owned'
  BY NextTyped
<1>1. ASSUME Persist({}), NoneNew("create"), UNCHANGED page
      PROVE  Flagged' /\ OneCreationPerPage'
  <2>1. /\ \A d \in Details, m \in Matches : Needs(d, m)' => Needs(d, m)
        /\ \A d \in Details : page'.expanded \subseteq page'.asked[d]
    BY <1>1 DEF Needs, Flagged
  <2>2. Flagged'
    BY <1>0, <1>1, <2>1, FlaggedStep
  <2> QED
    BY <1>0, <1>1, <2>2, CreationStep
<1>2. ASSUME NEW i \in Ids, Backend(i)
      PROVE  Flagged' /\ OneCreationPerPage'
  BY <1>1, <1>2, BackendFact, AnsweredShape
<1>3. CASE Restart \/ (\E m \in Matches : Progress(m)) \/ UNCHANGED vars
  <2>1. UNCHANGED <<page, req>>
    BY <1>3 DEF Restart, Progress, vars
  <2>2. Persist({}) /\ NoneNew("create")
    BY <2>1 DEF Persist, NoneNew, Owned
  <2> QED
    BY <1>1, <2>1, <2>2
<1> QED
  BY <1>0, <1>2, <1>3, UserFlagged, DeliverFlagged DEF Next

LEMMA InitFlagged == Init => Flagged /\ OneCreationPerPage
<1> SUFFICES ASSUME Init PROVE Flagged /\ OneCreationPerPage
  OBVIOUS
<1>1. page = Fresh /\ \A i \in Ids : req[i] = NoRequest
  BY DEF Init
<1>2. Flagged
  BY <1>1, FreshFact DEF Flagged, Needs
<1>3. OneCreationPerPage
  BY <1>1, NoRequestFacts DEF OneCreationPerPage, Live, Under
<1> QED
  BY <1>2, <1>3

\* The inductive invariant of the two theorems below.
SpinInv == TypeOK /\ Owned /\ Flagged /\ OneCreationPerPage

LEMMA SpinInvariance == Spec => []SpinInv
<1>1. Init => SpinInv
  BY InitTyped, InitFlagged DEF SpinInv
<1>2. SpinInv /\ [Next]_vars => SpinInv'
  BY NextTyped, NextFlagged DEF SpinInv
<1> QED
  BY <1>1, <1>2, PTL DEF Spec

\* Nothing on the page of the matches spins without a request whose answer
\* ends it (handleCreate, fetchLogs, fetchServer, refreshServer).
THEOREM SpinnersEnd == Spec => []SpinnersHaveRequests
<1>1. SpinInv => SpinnersHaveRequests
  BY FlaggedSpins DEF SpinInv
<1> QED
  BY <1>1, SpinInvariance, PTL

\* A page never has two creations under way, however often the button is
\* pressed and however late the answers come (handleCreate, creating).
THEOREM CreatesOnce == Spec => []OneCreationPerPage
<1>1. SpinInv => OneCreationPerPage
  BY DEF SpinInv
<1> QED
  BY <1>1, SpinInvariance, PTL

=============================================================================
