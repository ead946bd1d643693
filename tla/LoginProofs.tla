----------------------------- MODULE LoginProofs -----------------------------
(***************************************************************************)
(* Proofs about Auth and RateLimit as Login composes them, for any users,  *)
(* links, sessions, requests, limits and times, and every environment a    *)
(* process agrees to serve with.                                           *)
(*                                                                         *)
(* The argument about Auth: rows only move forward, from unissued to       *)
(* stored to deleted, and a suspension is for good; so what barred a       *)
(* request when it came in still bars it when the session is looked up,    *)
(* whatever a refresh of another request does in between.                  *)
(*                                                                         *)
(* The argument about RateLimit: who is about to insert a hit holds the    *)
(* lock of the bucket, so what it counted is still below the limit; and    *)
(* every window the new hit falls into lies within the one it counted.     *)
(***************************************************************************)
EXTENDS Login, FiniteSetTheorems, TLAPS

\* What the step of a request says of the rows it names.
RequestOK(x) ==
    /\ x.step \in {"limited", "user", "issue", "mail"} => x.user \in Users
    /\ x.step \in {"mail", "verify", "open"} => x.link \in Links /\ link[x.link].row # "unissued"
    /\ x.step \in {"authenticate", "refresh", "admitted"} =>
          x.session \in Sessions /\ session[x.session].row # "unissued"
    /\ x.barred => x.step = "authenticate" /\ Barred(x.session)

\* A link's row: whose it is, what it opened and who has seen it.
LinkOK(l) ==
    /\ link[l].row # "unissued" => link[l].user \in Users
    /\ link[l].known \/ link[l].used => link[l].row # "unissued"
    /\ link[l].used <=> \E s \in Sessions : session[s].link = l
    /\ link[l].mail \in {"delivered", "console"} => link[l].known

\* A session's row: whose it is, and what opened it.
SessionOK(s) ==
    /\ session[s].row # "unissued" => session[s].user \in Users
    /\ session[s].row = "unissued" => session[s].link = None

\* Only an environment that was accepted is served with.
ServingValid == Up => ConfigValid(config)

\* Both tables.
RowsOK == (\A l \in Links : LinkOK(l)) /\ (\A s \in Sessions : SessionOK(s))

AuthIInv ==
    /\ AuthTypeOK
    /\ RowsOK
    /\ \A r \in Requests : RequestOK(req[r])
    /\ ServingValid

-----------------------------------------------------------------------------
(* Lemmas.                                                                 *)

\* The request that is no request names no row.
LEMMA IdleFacts == Idle \in RequestState /\ Idle.step = "idle" /\ RequestOK(Idle)
  BY DEF Idle, RequestState, RequestOK

\* What is known of a request from its type.
LEMMA RequestTyped ==
    ASSUME AuthTypeOK, NEW r \in Requests
    PROVE  /\ req[r] \in RequestState
           /\ req[r].user \in Users \union {None} /\ req[r].link \in Links \union {None}
           /\ req[r].session \in Sessions \union {None}
           /\ req[r].logout \in BOOLEAN /\ req[r].barred \in BOOLEAN
           /\ req[r].step # "idle" => Up
  BY DEF AuthTypeOK, RequestState

\* What a request relies on is never taken back: rows are not unissued again, and what
\* bars a session bars it for good.
Forward ==
    /\ \A l \in Links : link[l].row # "unissued" => link'[l].row # "unissued"
    /\ \A s \in Sessions : session[s].row # "unissued" =>
          session'[s].row # "unissued" /\ (Barred(s) => Barred(s)')

\* A step that goes forward, and answers for the rows and for the requests it moves,
\* keeps the invariant.
LEMMA ForwardInv ==
    ASSUME AuthIInv, Forward, AuthTypeOK', RowsOK', ServingValid',
           \A q \in Requests : req'[q] = req[q] \/ RequestOK(req[q])'
    PROVE  AuthIInv'
  <1>1. ASSUME NEW x, RequestOK(x), x.session \in Sessions \/ ~x.barred PROVE RequestOK(x)'
    BY <1>1 DEF Forward, RequestOK
  <1>2. ASSUME NEW q \in Requests, req'[q] = req[q] PROVE RequestOK(req[q])'
    <2>1. RequestOK(req[q])
      BY DEF AuthIInv
    <2> QED BY <2>1, <1>1, <1>2 DEF RequestOK
  <1> QED BY <1>2 DEF AuthIInv

\* A step that changes no row of status, link or session.
LEMMA RowsSame ==
    ASSUME AuthIInv, UNCHANGED <<config, status, link, session>>
    PROVE  Forward /\ RowsOK' /\ ServingValid'
  <1>1. RowsOK'
    BY DEF AuthIInv, RowsOK, LinkOK, SessionOK
  <1>2. ServingValid'
    BY DEF AuthIInv, ServingValid, Up
  <1>3. Forward
    BY DEF Forward, Barred
  <1> QED BY <1>1, <1>2, <1>3

\* One request becomes another that is well formed, and no row changes.
LEMMA RequestMoves ==
    ASSUME AuthIInv, UNCHANGED <<config, now, status, link, session>>,
           NEW r \in Requests, NEW new \in RequestState,
           req' = [req EXCEPT ![r] = new], RequestOK(new), new.step # "idle" => Up
    PROVE  AuthIInv'
  <1>1. /\ req' \in [Requests -> RequestState] /\ req'[r] = new
        /\ \A q \in Requests \ {r} : req'[q] = req[q]
    BY DEF AuthIInv, AuthTypeOK
  <1>2. AuthTypeOK'
    BY <1>1 DEF AuthIInv, AuthTypeOK, Up
  <1>3. RequestOK(req[r])'
    BY <1>1 DEF RequestOK, Barred
  <1> QED BY <1>1, <1>2, <1>3, RowsSame, ForwardInv

-----------------------------------------------------------------------------
(* Steps that move a request and change no row.                            *)

\* A request begins: its rows exist, and it is barred if its session is.
LEMMA BeginInv ==
    ASSUME AuthIInv, UNCHANGED <<config, now>>, NEW r \in Requests,
           \/ \E u \in Users : StartLogin(r, u)
           \/ \E l \in Links : StartVerify(r, l)
           \/ \E s \in Sessions, logout \in BOOLEAN : StartCall(r, s, logout)
    PROVE  AuthIInv'
  <1>1. ASSUME NEW u \in Users, StartLogin(r, u) PROVE AuthIInv'
    <2> DEFINE new == [Idle EXCEPT !.step = "limited", !.user = u]
    <2>1. new \in RequestState /\ RequestOK(new)
      BY DEF Idle, RequestState, RequestOK
    <2> HIDE DEF new
    <2> QED BY <1>1, <2>1, RequestMoves DEF StartLogin, Begin, new
  <1>2. ASSUME NEW l \in Links, StartVerify(r, l) PROVE AuthIInv'
    <2> DEFINE new == [Idle EXCEPT !.step = "verify", !.link = l]
    <2>1. link[l].row # "unissued"
      BY <1>2 DEF StartVerify, AuthIInv, RowsOK, LinkOK
    <2>2. new \in RequestState /\ RequestOK(new)
      BY <2>1 DEF Idle, RequestState, RequestOK
    <2> HIDE DEF new
    <2> QED BY <1>2, <2>2, RequestMoves DEF StartVerify, Begin, new
  <1>3. ASSUME NEW s \in Sessions, NEW logout \in BOOLEAN, StartCall(r, s, logout) PROVE AuthIInv'
    <2> DEFINE new == [Idle EXCEPT !.step = "authenticate", !.session = s, !.logout = logout,
                                   !.barred = Barred(s)]
    <2>1. Barred(s) \in BOOLEAN
      BY DEF Barred
    <2>2. new \in RequestState /\ RequestOK(new)
      BY <1>3, <2>1 DEF Idle, RequestState, RequestOK, StartCall
    <2> HIDE DEF new
    <2> QED BY <1>3, <2>2, RequestMoves DEF StartCall, Begin, new
  <1> QED BY <1>1, <1>2, <1>3

\* A request that ends leaves nothing to answer for.
LEMMA EndInv ==
    ASSUME AuthIInv, UNCHANGED <<config, now, status, link, session>>, NEW r \in Requests, End(r)
    PROVE  AuthIInv'
  BY IdleFacts, RequestMoves DEF End

\* A request that goes on to a step its rows allow.
LEMMA GoToInv ==
    ASSUME AuthIInv, UNCHANGED <<config, now, status, link, session>>,
           NEW r \in Requests, NEW step \in {"user", "open", "refresh", "admitted"},
           GoTo(r, step), req[r].step # "idle", ~req[r].barred,
           step = "user" => req[r].step = "limited",
           step = "open" => req[r].step = "verify",
           step \in {"refresh", "admitted"} => req[r].step \in {"authenticate", "refresh"}
    PROVE  AuthIInv'
  <1> DEFINE new == [req[r] EXCEPT !.step = step]
  <1>1. req[r] \in RequestState /\ RequestOK(req[r]) /\ Up
    BY RequestTyped DEF AuthIInv
  <1>2. /\ new \in RequestState /\ new.step = step
        /\ new.user = req[r].user /\ new.link = req[r].link /\ new.session = req[r].session
        /\ new.barred = req[r].barred
    BY <1>1 DEF RequestState
  <1>3. req' = [req EXCEPT ![r] = new]
    BY DEF GoTo
  <1> HIDE DEF new
  <1>4. RequestOK(new)
    BY <1>1, <1>2 DEF RequestOK
  <1> QED BY <1>1, <1>2, <1>3, <1>4, RequestMoves

\* The decisions that touch no row: the limit, the link's lookup, the session's lookup
\* (which lets nobody in who was barred), and a failure.
LEMMA DecisionInv ==
    ASSUME AuthIInv, UNCHANGED <<config, now>>, NEW r \in Requests,
           PassLimit(r) \/ RateLimited(r) \/ FindToken(r) \/ Authenticate(r) \/ AbortRequest(r)
    PROVE  AuthIInv'
  <1>1. RequestOK(req[r]) /\ req[r] \in RequestState
    BY RequestTyped DEF AuthIInv
  <1>2. CASE PassLimit(r)
    BY <1>1, <1>2, GoToInv DEF PassLimit, RequestOK, RequestState
  <1>3. CASE RateLimited(r) \/ AbortRequest(r)
    BY <1>3, EndInv DEF RateLimited, AbortRequest
  <1>4. CASE FindToken(r)
    <2>1. CASE Usable(req[r].link)
      BY <1>1, <1>4, <2>1, GoToInv DEF FindToken, RequestOK, RequestState
    <2>2. CASE ~Usable(req[r].link)
      BY <1>4, <2>2, EndInv DEF FindToken
    <2> QED BY <2>1, <2>2
  <1>5. CASE Authenticate(r)
    <2>1. CASE Live(req[r].session)
      <3>1. ~req[r].barred
        BY <1>1, <2>1 DEF RequestOK, Live, Barred
      <3>2. \/ GoTo(r, "refresh")
            \/ GoTo(r, "admitted")
        BY <1>5, <2>1 DEF Authenticate
      <3> QED BY <1>5, <3>1, <3>2, GoToInv DEF Authenticate
    <2>2. CASE ~Live(req[r].session)
      BY <1>5, <2>2, EndInv DEF Authenticate
    <2> QED BY <2>1, <2>2
  <1> QED BY <1>2, <1>3, <1>4, <1>5

-----------------------------------------------------------------------------
(* Steps that change a row.                                                *)

\* An account is made for who has none; nobody is freed of a suspension.
LEMMA GetOrCreateUserInv ==
    ASSUME AuthIInv, UNCHANGED <<config, now>>, NEW r \in Requests, GetOrCreateUser(r)
    PROVE  AuthIInv'
  <1> USE DEF GetOrCreateUser
  <1>1. /\ req[r] \in RequestState /\ RequestOK(req[r]) /\ Up
        /\ req[r].user \in Users /\ ~req[r].barred
    BY RequestTyped DEF AuthIInv, RequestOK
  <1>2. /\ req' \in [Requests -> RequestState]
        /\ req'[r].step = "issue" /\ req'[r].user = req[r].user /\ ~req'[r].barred
        /\ \A q \in Requests \ {r} : req'[q] = req[q]
    BY <1>1 DEF GoTo, AuthIInv, AuthTypeOK, RequestState
  <1>3. status' \in [Users -> {"NONE", "ACTIVE", "SUSPENDED"}]
    BY DEF AuthIInv, AuthTypeOK
  <1>4. \A u \in Users : status[u] = "SUSPENDED" => status'[u] = "SUSPENDED"
    BY DEF AuthIInv, AuthTypeOK
  <1>5. AuthTypeOK'
    BY <1>1, <1>2, <1>3 DEF AuthIInv, AuthTypeOK, Up
  <1>6. Forward
    BY <1>4 DEF Forward, Barred, AuthIInv, RowsOK, SessionOK
  <1>7. RowsOK' /\ ServingValid'
    BY DEF AuthIInv, RowsOK, LinkOK, SessionOK, ServingValid, Up
  <1>8. RequestOK(req[r])'
    BY <1>1, <1>2 DEF RequestOK
  <1> QED BY <1>2, <1>5, <1>6, <1>7, <1>8, ForwardInv

\* A link is issued to the user of the request: no session has come of it yet, and no
\* mail has gone out.
LEMMA IssueLoginTokenInv ==
    ASSUME AuthIInv, UNCHANGED <<config, now>>, NEW r \in Requests, IssueLoginToken(r)
    PROVE  AuthIInv'
  <1> PICK l \in Links :
        /\ link[l].row = "unissued"
        /\ link' = [link EXCEPT ![l] = [row |-> "stored", user |-> req[r].user, used |-> FALSE,
               known |-> FALSE, expires |-> now + LinkTTL, mail |-> "none"]]
        /\ req' = [req EXCEPT ![r].step = "mail", ![r].link = l]
    BY DEF IssueLoginToken
  <1>1. /\ req[r] \in RequestState /\ RequestOK(req[r]) /\ Up /\ req[r].step = "issue"
        /\ req[r].user \in Users /\ ~req[r].barred
    BY RequestTyped DEF AuthIInv, RequestOK, IssueLoginToken
  <1>2. /\ req' \in [Requests -> RequestState]
        /\ req'[r].step = "mail" /\ req'[r].user = req[r].user /\ req'[r].link = l
        /\ ~req'[r].barred
        /\ \A q \in Requests \ {r} : req'[q] = req[q]
    BY <1>1 DEF AuthIInv, AuthTypeOK, RequestState
  <1>3. now + LinkTTL \in Int
    BY AuthAssumption DEF AuthIInv, AuthTypeOK, Time
  <1>4. /\ link' \in [Links -> LinkRow]
        /\ link'[l].row = "stored" /\ link'[l].user = req[r].user
        /\ ~link'[l].used /\ ~link'[l].known /\ link'[l].mail = "none"
        /\ \A m \in Links \ {l} : link'[m] = link[m]
    BY <1>1, <1>3 DEF AuthIInv, AuthTypeOK, LinkRow, Rows
  <1>5. UNCHANGED <<status, session>>
    BY DEF IssueLoginToken
  <1>6. AuthTypeOK'
    BY <1>1, <1>2, <1>4, <1>5 DEF AuthIInv, AuthTypeOK, Up
  <1>7. \A s \in Sessions : session'[s].link # l
    BY <1>5 DEF AuthIInv, RowsOK, LinkOK
  <1>8. RowsOK' /\ ServingValid'
    BY <1>1, <1>4, <1>5, <1>7 DEF AuthIInv, RowsOK, LinkOK, SessionOK, ServingValid, Up
  <1>9. Forward /\ RequestOK(req[r])'
    BY <1>1, <1>2, <1>4, <1>5 DEF Forward, Barred, RequestOK
  <1> QED BY <1>2, <1>6, <1>8, <1>9, ForwardInv

\* What may become of a mail: an environment that serves and logs its mails only is no
\* production environment, so its answer shows the token.
LEMMA OutcomeKnown ==
    ASSUME AuthIInv, Up, NEW u, NEW outcome \in Outcomes(u)
    PROVE  /\ outcome \in {"delivered", "undelivered", "blocked", "console"}
           /\ outcome = "console" => ~config.production
  BY ServerAssumption DEF AuthIInv, AuthTypeOK, ServingValid, ConfigValid, Outcomes, Environment, Up

\* The mail goes out, or not.
LEMMA SendMagicLinkInv ==
    ASSUME AuthIInv, UNCHANGED <<config, now>>, NEW r \in Requests, SendMagicLink(r)
    PROVE  AuthIInv'
  <1> PICK outcome \in Outcomes(req[r].user) :
        link' = [link EXCEPT ![req[r].link].mail = outcome,
                             ![req[r].link].known = outcome = "delivered" \/ ~config.production]
    BY DEF SendMagicLink
  <1> PICK l \in Links : l = req[r].link
    BY RequestTyped DEF AuthIInv, RequestOK, SendMagicLink
  <1>1. /\ req[r] \in RequestState /\ RequestOK(req[r]) /\ Up
        /\ l \in Links /\ link[l].row # "unissued"
    BY RequestTyped DEF AuthIInv, RequestOK, SendMagicLink
  <1>2. /\ outcome \in {"delivered", "undelivered", "blocked", "console"}
        /\ outcome = "console" => ~config.production
    BY <1>1, OutcomeKnown
  <1>3. config.production \in BOOLEAN
    BY <1>1, ServerAssumption DEF AuthIInv, AuthTypeOK, Environment, Up
  <1>4. /\ link' \in [Links -> LinkRow]
        /\ link'[l].row = link[l].row /\ link'[l].user = link[l].user
        /\ link'[l].used = link[l].used
        /\ link'[l].mail = outcome
        /\ link'[l].known <=> outcome = "delivered" \/ ~config.production
        /\ \A m \in Links \ {l} : link'[m] = link[m]
    BY <1>1, <1>2, <1>3 DEF AuthIInv, AuthTypeOK, LinkRow
  <1>5. UNCHANGED <<status, session>> /\ End(r)
    BY DEF SendMagicLink
  <1>6. /\ req' \in [Requests -> RequestState] /\ req'[r] = Idle
        /\ \A q \in Requests \ {r} : req'[q] = req[q]
    BY <1>5, IdleFacts DEF End, AuthIInv, AuthTypeOK
  <1>7. AuthTypeOK'
    BY <1>1, <1>4, <1>5, <1>6 DEF AuthIInv, AuthTypeOK, Up
  <1>8. RowsOK' /\ ServingValid'
    <2>1. LinkOK(l)'
      <3>1. LinkOK(l)
        BY <1>1 DEF AuthIInv, RowsOK
      <3> QED BY <1>1, <1>2, <1>4, <1>5, <3>1 DEF LinkOK
    <2>2. \A m \in Links \ {l} : LinkOK(m)'
      BY <1>4, <1>5 DEF AuthIInv, RowsOK, LinkOK
    <2>3. \A s \in Sessions : SessionOK(s)'
      BY <1>5 DEF AuthIInv, RowsOK, SessionOK
    <2>4. ServingValid'
      BY DEF AuthIInv, ServingValid, Up
    <2> QED BY <2>1, <2>2, <2>3, <2>4 DEF RowsOK
  <1>9. Forward /\ RequestOK(req[r])'
    BY <1>1, <1>4, <1>5, <1>6 DEF Forward, Barred, RequestOK, Idle
  <1> QED BY <1>6, <1>7, <1>8, <1>9, ForwardInv

\* A link and the session it opens: both rows change or neither does.
LEMMA OpenSessionInv ==
    ASSUME AuthIInv, UNCHANGED <<config, now>>, NEW r \in Requests, OpenSession(r)
    PROVE  AuthIInv'
  <1> PICK s \in Sessions :
        /\ session[s].row = "unissued"
        /\ session' = [session EXCEPT ![s] =
               [row |-> "stored", user |-> link[req[r].link].user, link |-> req[r].link,
                expires |-> now + SessionTTL, lastUsed |-> now]]
    BY DEF OpenSession
  <1> PICK l \in Links : l = req[r].link
    BY RequestTyped DEF AuthIInv, RequestOK, OpenSession
  <1>1. /\ req[r] \in RequestState /\ RequestOK(req[r]) /\ Up
        /\ l \in Links /\ link[l].row = "stored" /\ link[l].user \in Users
    BY RequestTyped DEF AuthIInv, RequestOK, RowsOK, LinkOK, OpenSession
  <1>2. now \in Int /\ now + SessionTTL \in Int
    BY AuthAssumption DEF AuthIInv, AuthTypeOK, Time
  <1>3. /\ session' \in [Sessions -> SessionRow]
        /\ session'[s].row = "stored" /\ session'[s].user = link[l].user /\ session'[s].link = l
        /\ \A t \in Sessions \ {s} : session'[t] = session[t]
    BY <1>1, <1>2 DEF AuthIInv, AuthTypeOK, SessionRow, Rows
  <1>4. link' = [link EXCEPT ![l].used = TRUE] /\ UNCHANGED status /\ End(r)
    BY DEF OpenSession
  <1>5. /\ link' \in [Links -> LinkRow]
        /\ link'[l].row = "stored" /\ link'[l].user = link[l].user /\ link'[l].used
        /\ link'[l].mail = link[l].mail /\ link'[l].known = link[l].known
        /\ \A m \in Links \ {l} : link'[m] = link[m]
    BY <1>1, <1>4 DEF AuthIInv, AuthTypeOK, LinkRow
  <1>6. /\ req' \in [Requests -> RequestState] /\ req'[r] = Idle
        /\ \A q \in Requests \ {r} : req'[q] = req[q]
    BY <1>4, IdleFacts DEF End, AuthIInv, AuthTypeOK
  <1>7. AuthTypeOK'
    BY <1>1, <1>3, <1>4, <1>5, <1>6 DEF AuthIInv, AuthTypeOK, Up
  <1>8. RowsOK' /\ ServingValid'
    <2>1. LinkOK(l)'
      <3>1. LinkOK(l)
        BY <1>1 DEF AuthIInv, RowsOK
      <3> QED BY <1>1, <1>3, <1>5, <3>1 DEF LinkOK
    <2>2. ASSUME NEW m \in Links \ {l} PROVE LinkOK(m)'
      <3>1. LinkOK(m)
        BY DEF AuthIInv, RowsOK
      <3>2. m # None /\ session[s].link = None
        BY AuthAssumption DEF AuthIInv, RowsOK, SessionOK
      <3>3. (\E t \in Sessions : session[t].link = m) <=> \E t \in Sessions : session'[t].link = m
        BY <1>3, <3>2
      <3> QED BY <1>5, <3>1, <3>3 DEF LinkOK
    <2>3. \A t \in Sessions : SessionOK(t)'
      BY <1>1, <1>3 DEF AuthIInv, RowsOK, SessionOK
    <2>4. ServingValid'
      BY DEF AuthIInv, ServingValid, Up
    <2> QED BY <2>1, <2>2, <2>3, <2>4 DEF RowsOK
  <1>9. Forward /\ RequestOK(req[r])'
    BY <1>1, <1>3, <1>4, <1>5, <1>6 DEF Forward, Barred, RequestOK, Idle
  <1> QED BY <1>6, <1>7, <1>8, <1>9, ForwardInv

\* A refresh moves the times of a row that is still stored, and brings none back.
LEMMA RefreshInv ==
    ASSUME AuthIInv, UNCHANGED <<config, now>>, NEW r \in Requests, Refresh(r)
    PROVE  AuthIInv'
  <1> DEFINE s == req[r].session
  <1>1. /\ req[r] \in RequestState /\ RequestOK(req[r]) /\ Up
        /\ s \in Sessions /\ session[s].row = "stored" /\ ~req[r].barred
    BY RequestTyped DEF AuthIInv, RequestOK, Refresh
  <1>2. now \in Int /\ now + SessionTTL \in Int
    BY AuthAssumption DEF AuthIInv, AuthTypeOK, Time
  <1>3. session' = Refreshed(s) /\ GoTo(r, "admitted") /\ UNCHANGED <<status, link>>
    BY DEF Refresh
  <1>4. /\ session' \in [Sessions -> SessionRow]
        /\ \A t \in Sessions : /\ session'[t].row = session[t].row
                               /\ session'[t].user = session[t].user
                               /\ session'[t].link = session[t].link
    BY <1>1, <1>2, <1>3 DEF Refreshed, AuthIInv, AuthTypeOK, SessionRow
  <1>5. /\ req' \in [Requests -> RequestState]
        /\ req'[r].step = "admitted" /\ req'[r].session = s /\ ~req'[r].barred
        /\ \A q \in Requests \ {r} : req'[q] = req[q]
    BY <1>1, <1>3 DEF GoTo, AuthIInv, AuthTypeOK, RequestState
  <1> HIDE DEF s
  <1>6. AuthTypeOK'
    BY <1>1, <1>3, <1>4, <1>5 DEF AuthIInv, AuthTypeOK, Up
  <1>7. RowsOK' /\ ServingValid'
    BY <1>3, <1>4 DEF AuthIInv, RowsOK, LinkOK, SessionOK, ServingValid, Up
  <1>8. Forward /\ RequestOK(req[r])'
    BY <1>1, <1>3, <1>4, <1>5 DEF Forward, Barred, RequestOK
  <1> QED BY <1>5, <1>6, <1>7, <1>8, ForwardInv

\* A deletion changes nothing of a session but that its row is gone.
LEMMA DeletionFacts ==
    ASSUME AuthIInv, NEW S \in SUBSET Sessions, DeleteSessions(S), UNCHANGED <<config, status, link>>
    PROVE  /\ session' \in [Sessions -> SessionRow]
           /\ RowsOK' /\ ServingValid' /\ Forward
  <1>1. /\ session' \in [Sessions -> SessionRow]
        /\ \A t \in Sessions :
              /\ session'[t].row = session[t].row
                    \/ (session[t].row = "stored" /\ session'[t].row = "deleted")
              /\ session'[t].user = session[t].user
              /\ session'[t].link = session[t].link
    BY DEF DeleteSessions, AuthIInv, AuthTypeOK, SessionRow, Rows
  <1>2. RowsOK' /\ ServingValid'
    BY <1>1 DEF AuthIInv, RowsOK, LinkOK, SessionOK, ServingValid, Up
  <1>3. Forward
    BY <1>1 DEF Forward, Barred
  <1> QED BY <1>1, <1>2, <1>3

\* A request that was let in does its work; a logout deletes its session.
LEMMA HandleInv ==
    ASSUME AuthIInv, UNCHANGED <<config, now>>, NEW r \in Requests, Handle(r)
    PROVE  AuthIInv'
  <1>1. PICK S \in SUBSET Sessions : DeleteSessions(S)
    <2>1. req[r].session \in Sessions
      BY DEF Handle, AuthIInv, RequestOK
    <2>2. DeleteSessions(IF req[r].logout THEN {req[r].session} ELSE {})
      BY DEF Handle
    <2> QED BY <2>1, <2>2
  <1>2. UNCHANGED <<status, link>> /\ End(r)
    BY DEF Handle
  <1>3. /\ req' \in [Requests -> RequestState] /\ req'[r] = Idle
        /\ \A q \in Requests \ {r} : req'[q] = req[q]
    BY <1>2, IdleFacts DEF End, AuthIInv, AuthTypeOK
  <1>4. session' \in [Sessions -> SessionRow] /\ RowsOK' /\ ServingValid' /\ Forward
    BY <1>1, <1>2, DeletionFacts
  <1>5. AuthTypeOK'
    BY <1>2, <1>3, <1>4 DEF AuthIInv, AuthTypeOK, Up, Idle
  <1>6. RequestOK(req[r])'
    BY <1>3 DEF RequestOK, Idle
  <1> QED BY <1>3, <1>4, <1>5, <1>6, ForwardInv

\* A dispute and the sweeps move rows forward, and no request.
LEMMA BesideInv ==
    ASSUME AuthIInv, UNCHANGED <<config, now>>,
           \/ \E u \in Users : SuspendUser(u) \/ DestroyAllSessions(u)
           \/ SweepExpiredSessions \/ SweepExpiredLinks
    PROVE  AuthIInv'
  <1>1. ASSUME NEW u \in Users, SuspendUser(u) PROVE AuthIInv'
    <2>1. /\ status' \in [Users -> {"NONE", "ACTIVE", "SUSPENDED"}]
          /\ \A v \in Users : status[v] = "SUSPENDED" => status'[v] = "SUSPENDED"
      BY <1>1 DEF SuspendUser, AuthIInv, AuthTypeOK
    <2>2. AuthTypeOK'
      BY <1>1, <2>1 DEF SuspendUser, AuthIInv, AuthTypeOK, Up
    <2>3. RowsOK' /\ ServingValid'
      BY <1>1 DEF SuspendUser, AuthIInv, RowsOK, LinkOK, SessionOK, ServingValid, Up
    <2>4. Forward
      BY <1>1, <2>1 DEF SuspendUser, Forward, Barred, AuthIInv, RowsOK, SessionOK
    <2>5. req' = req
      BY <1>1 DEF SuspendUser
    <2> QED BY <2>2, <2>3, <2>4, <2>5, ForwardInv
  <1>2. ASSUME NEW S \in SUBSET Sessions, DeleteSessions(S), UNCHANGED <<status, link, req>>
        PROVE  AuthIInv'
    <2>1. session' \in [Sessions -> SessionRow] /\ RowsOK' /\ ServingValid' /\ Forward
      BY <1>2, DeletionFacts
    <2>2. AuthTypeOK'
      BY <1>2, <2>1 DEF AuthIInv, AuthTypeOK, Up
    <2> QED BY <1>2, <2>1, <2>2, ForwardInv
  <1>3. CASE SweepExpiredLinks
    <2>1. /\ link' \in [Links -> LinkRow]
          /\ \A l \in Links :
                /\ link'[l].row = link[l].row \/ (link[l].row = "stored" /\ link'[l].row = "deleted")
                /\ link'[l].user = link[l].user /\ link'[l].used = link[l].used
                /\ link'[l].known = link[l].known /\ link'[l].mail = link[l].mail
      BY <1>3 DEF SweepExpiredLinks, AuthIInv, AuthTypeOK, LinkRow, Rows
    <2>2. AuthTypeOK'
      BY <1>3, <2>1 DEF SweepExpiredLinks, AuthIInv, AuthTypeOK, Up
    <2>3. RowsOK' /\ ServingValid'
      BY <1>3, <2>1 DEF SweepExpiredLinks, AuthIInv, RowsOK, LinkOK, SessionOK, ServingValid, Up
    <2>4. Forward
      BY <1>3, <2>1 DEF SweepExpiredLinks, Forward, Barred
    <2>5. req' = req
      BY <1>3 DEF SweepExpiredLinks
    <2> QED BY <2>2, <2>3, <2>4, <2>5, ForwardInv
  <1>4. ASSUME NEW u \in Users, DestroyAllSessions(u) PROVE AuthIInv'
    <2>1. {s \in Sessions : session[s].user = u} \in SUBSET Sessions
      OBVIOUS
    <2> QED BY <1>2, <1>4, <2>1 DEF DestroyAllSessions
  <1>5. CASE SweepExpiredSessions
    <2>1. {s \in Sessions : session[s].expires < now} \in SUBSET Sessions
      OBVIOUS
    <2> QED BY <1>2, <1>5, <2>1 DEF SweepExpiredSessions
  <1> QED BY <1>1, <1>3, <1>4, <1>5

\* A process that ends takes its requests with it and leaves the rows.
LEMMA StopInv == ASSUME AuthIInv, Stop PROVE AuthIInv'
  <1>1. /\ config' = Down /\ UNCHANGED <<now, status, link, session>>
        /\ req' = [r \in Requests |-> Idle]
    BY DEF Stop, Exit, LoseRequests
  <1>2. AuthTypeOK'
    BY <1>1, IdleFacts DEF AuthIInv, AuthTypeOK
  <1>3. RowsOK' /\ Forward
    BY <1>1 DEF AuthIInv, RowsOK, LinkOK, SessionOK, Forward, Barred
  <1>4. ServingValid'
    BY <1>1 DEF ServingValid, Up
  <1>5. \A r \in Requests : RequestOK(req[r])'
    BY <1>1 DEF RequestOK, Idle
  <1> QED BY <1>2, <1>3, <1>4, <1>5, ForwardInv

\* A process serves only with what it accepted at its start.
LEMMA StartInv == ASSUME AuthIInv, Start PROVE AuthIInv'
  <1>1. /\ UNCHANGED <<now, status, link, session, req>>
        /\ config' \in Configs /\ ConfigValid(config')
    BY DEF Start, Boot, authVars
  <1>2. config' # Down
    BY <1>1, ServerAssumption
  <1>3. AuthTypeOK'
    BY <1>1, <1>2 DEF AuthIInv, AuthTypeOK, Up
  <1>4. RowsOK' /\ Forward
    BY <1>1 DEF AuthIInv, RowsOK, LinkOK, SessionOK, Forward, Barred
  <1>5. ServingValid'
    BY <1>1 DEF ServingValid
  <1> QED BY <1>1, <1>3, <1>4, <1>5, ForwardInv

\* What the rate limit does, and the clock, touches no row of Auth.
LEMMA ElsewhereInv ==
    ASSUME AuthIInv, UNCHANGED <<config, authVars>>, now' \in Time
    PROVE  AuthIInv'
  <1>1. UNCHANGED <<status, link, session, req>>
    BY DEF authVars
  <1>2. AuthTypeOK'
    BY <1>1 DEF AuthIInv, AuthTypeOK, Up
  <1> QED BY <1>1, <1>2, RowsSame, ForwardInv

-----------------------------------------------------------------------------
(* The rate limit.                                                         *)

\* Only a login that waits for its limit is in consume, and its window ended when it
\* called or before.
CallersOK ==
    \A r \in Callers : consume[r].step # "none" =>
        req[r].step = "limited" /\ consume[r].since + Window <= now

\* The advisory lock: no two callers are about to insert into one bucket.
OneRecorder ==
    \A q, r \in Callers :
        consume[q].step = "record" /\ consume[r].step = "record"
            /\ consume[q].bucket = consume[r].bucket => q = r

\* What a caller counted under the lock is still below the limit.
StillAllowed == \A r \in Callers : consume[r].step = "record" => Used(r) < Limit

\* The rows of a bucket and a time are numbered below their number.
Numbered == \A h \in hits : h.id < HitsIn(h.bucket, h.createdAt, h.createdAt)

LimitOK ==
    /\ RateLimitTypeOK
    /\ CallersOK
    /\ OneRecorder
    /\ StillAllowed
    /\ Numbered
    /\ NeverOverLimit

LimitIInv == AuthIInv /\ LimitOK

\* The hits that HitsIn counts.
InWindow(b, from, to) == {h \in hits : h.bucket = b /\ from <= h.createdAt /\ h.createdAt <= to}

\* A count is a number of a finite set of rows.
LEMMA CountedSet ==
    ASSUME IsFiniteSet(hits), NEW b, NEW from, NEW to
    PROVE  /\ IsFiniteSet(InWindow(b, from, to))
           /\ HitsIn(b, from, to) = Cardinality(InWindow(b, from, to))
           /\ HitsIn(b, from, to) \in Nat
  <1>1. InWindow(b, from, to) \subseteq hits
    BY DEF InWindow
  <1>2. IsFiniteSet(InWindow(b, from, to))
    BY <1>1, FS_Subset
  <1> QED BY <1>2, FS_CardinalityType DEF HitsIn, InWindow

\* A narrower window holds no more hits.
LEMMA CountNarrower ==
    ASSUME IsFiniteSet(hits), hits \subseteq Hit, NEW b,
           NEW from \in Int, NEW to \in Int, NEW lo \in Int, NEW hi \in Int, lo <= from, to <= hi
    PROVE  HitsIn(b, from, to) <= HitsIn(b, lo, hi)
  <1>1. \A h \in hits : h.createdAt \in Int
    BY ServerAssumption DEF Hit, Time
  <1>2. InWindow(b, from, to) \subseteq InWindow(b, lo, hi)
    BY <1>1 DEF InWindow
  <1> QED BY <1>2, CountedSet, FS_Subset

\* Fewer rows count for no more.
LEMMA CountFewer ==
    ASSUME IsFiniteSet(hits), hits' \subseteq hits, NEW b, NEW from, NEW to
    PROVE  HitsIn(b, from, to)' <= HitsIn(b, from, to)
  <1>1. InWindow(b, from, to)' \subseteq InWindow(b, from, to)
    BY DEF InWindow
  <1>2. HitsIn(b, from, to)' = Cardinality(InWindow(b, from, to)')
    BY DEF HitsIn, InWindow
  <1> QED BY <1>1, <1>2, CountedSet, FS_Subset

\* A new row counts for one in the windows of its bucket that it falls into, and for
\* nothing elsewhere.
LEMMA CountInserted ==
    ASSUME IsFiniteSet(hits), NEW h, h \notin hits, hits' = hits \union {h},
           NEW b, NEW from, NEW to
    PROVE  HitsIn(b, from, to)' =
              IF h.bucket = b /\ from <= h.createdAt /\ h.createdAt <= to
              THEN HitsIn(b, from, to) + 1 ELSE HitsIn(b, from, to)
  <1>1. HitsIn(b, from, to)' = Cardinality(InWindow(b, from, to)')
    BY DEF HitsIn, InWindow
  <1>2. CASE h.bucket = b /\ from <= h.createdAt /\ h.createdAt <= to
    <2>1. InWindow(b, from, to)' = InWindow(b, from, to) \union {h} /\ h \notin InWindow(b, from, to)
      BY <1>2 DEF InWindow
    <2>2. IsFiniteSet(InWindow(b, from, to)) /\ HitsIn(b, from, to) = Cardinality(InWindow(b, from, to))
      BY CountedSet
    <2>3. Cardinality(InWindow(b, from, to) \union {h}) = Cardinality(InWindow(b, from, to)) + 1
      BY <2>1, <2>2, FS_AddElement
    <2> QED BY <1>1, <1>2, <2>1, <2>2, <2>3
  <1>3. CASE ~(h.bucket = b /\ from <= h.createdAt /\ h.createdAt <= to)
    <2>1. InWindow(b, from, to)' = InWindow(b, from, to)
      BY <1>3 DEF InWindow
    <2> QED BY <1>1, <1>3, <2>1, CountedSet
  <1> QED BY <1>2, <1>3

\* Times are numbers, and the limit and the window too.
LEMMA LimitNumbers ==
    /\ Limit \in Nat /\ Window \in Nat /\ Kept \in Nat /\ MaxTime \in Nat
    /\ Time \subseteq Nat
    /\ \A t \in Time : t - Window \in Int /\ t <= MaxTime /\ t - Window \in (0 - Window) .. MaxTime
  BY ServerAssumption, RateLimitAssumption DEF Time

\* What is known of a call of consume from its type.
LEMMA ConsumeTyped ==
    ASSUME RateLimitTypeOK, NEW r \in Callers, consume[r].step # "none"
    PROVE  /\ consume[r] = [step |-> consume[r].step, bucket |-> consume[r].bucket,
                            since |-> consume[r].since]
           /\ consume[r].step \in {"count", "record"} /\ consume[r].bucket \in Buckets
           /\ consume[r].since \in (0 - Window) .. MaxTime /\ consume[r].since \in Int
  <1>1. consume[r] \in [step : {"count", "record"}, bucket : Buckets, since : (0 - Window) .. MaxTime]
    BY DEF RateLimitTypeOK, ConsumeCall, NotConsuming
  <1> QED BY <1>1, LimitNumbers

\* A call of consume starts with the window that ends now.
LEMMA CallFacts ==
    ASSUME now \in Time, NEW b \in Buckets
    PROVE  /\ Call(b) \in ConsumeCall
           /\ Call(b).step = "count" /\ Call(b).since + Window = now
  BY LimitNumbers DEF Call, ConsumeCall

\* Nothing of the limit changes, time goes on, and who is in consume stays there.
LEMMA LimitSame ==
    ASSUME LimitOK, UNCHANGED limitVars, now \in Time, now' \in Time, now <= now',
           \A q \in Callers : consume[q].step # "none" => req'[q].step = req[q].step
    PROVE  LimitOK'
  <1>1. UNCHANGED <<hits, consume>>
    BY DEF limitVars
  <1>2. \A b, from, to : HitsIn(b, from, to)' = HitsIn(b, from, to)
    BY <1>1 DEF HitsIn
  <1>3. \A q \in Callers : Used(q)' = Used(q)
    BY <1>1, <1>2 DEF Used
  <1>4. CallersOK'
    <2> SUFFICES ASSUME NEW q \in Callers, consume[q].step # "none"
                 PROVE  req'[q].step = "limited" /\ consume[q].since + Window <= now'
      BY <1>1 DEF CallersOK
    <2>1. req[q].step = "limited" /\ consume[q].since + Window <= now
      BY DEF LimitOK, CallersOK
    <2>2. consume[q].since \in Int
      BY ConsumeTyped DEF LimitOK
    <2> QED BY <2>1, <2>2, LimitNumbers
  <1>5. RateLimitTypeOK' /\ OneRecorder' /\ StillAllowed'
    BY <1>1, <1>3 DEF LimitOK, RateLimitTypeOK, OneRecorder, StillAllowed
  <1>6. Numbered' /\ NeverOverLimit'
    BY <1>1, <1>2 DEF LimitOK, Numbered, NeverOverLimit
  <1> QED BY <1>4, <1>5, <1>6 DEF LimitOK

\* One caller moves, and no hit is inserted: who counts under the lock is alone with the
\* bucket, and below its limit.
LEMMA ConsumeMoves ==
    ASSUME LimitOK, now \in Time, UNCHANGED <<hits, now>>, NEW r \in Callers, NEW new \in ConsumeCall,
           consume' = [consume EXCEPT ![r] = new],
           \A q \in Callers \ {r} : req'[q] = req[q],
           new.step # "none" => req'[r].step = "limited" /\ new.since + Window <= now,
           new.step = "record" =>
              /\ HitsIn(new.bucket, new.since, MaxTime) < Limit
              /\ \A q \in Callers \ {r} : consume[q].step = "record" => consume[q].bucket # new.bucket
    PROVE  LimitOK'
  <1>1. /\ consume' \in [Callers -> ConsumeCall] /\ consume'[r] = new
        /\ \A q \in Callers \ {r} : consume'[q] = consume[q]
    BY DEF LimitOK, RateLimitTypeOK
  <1>2. \A b, from, to : HitsIn(b, from, to)' = HitsIn(b, from, to)
    BY DEF HitsIn
  <1>3. RateLimitTypeOK' /\ Numbered' /\ NeverOverLimit'
    BY <1>1, <1>2 DEF LimitOK, RateLimitTypeOK, Numbered, NeverOverLimit
  <1>4. CallersOK'
    BY <1>1 DEF LimitOK, CallersOK
  <1>5. OneRecorder'
    BY <1>1 DEF LimitOK, OneRecorder
  <1>6. \A q \in Callers : Used(q)' = HitsIn(consume'[q].bucket, consume'[q].since, MaxTime)
    BY <1>2 DEF Used
  <1>7. StillAllowed'
    BY <1>1, <1>6 DEF LimitOK, StillAllowed, Used
  <1> QED BY <1>3, <1>4, <1>5, <1>7 DEF LimitOK

\* What a caller inserts is a hit of its bucket, at a time its window did not reach
\* before, and a new row.
LEMMA InsertedHit ==
    ASSUME LimitOK, now \in Time, NEW r \in Callers, consume[r].step = "record",
           NEW at \in (consume[r].since + Window) .. now
    PROVE  LET h == NewHit(consume[r].bucket, at)
           IN  h \in Hit /\ h \notin hits /\ h.bucket = consume[r].bucket /\ h.createdAt = at
                 /\ at \in Time /\ consume[r].since + Window <= at
                 /\ h.id = HitsIn(consume[r].bucket, at, at)
  <1> DEFINE b == consume[r].bucket
  <1>1. b \in Buckets /\ consume[r].since \in (0 - Window) .. MaxTime /\ IsFiniteSet(hits)
    BY ConsumeTyped DEF LimitOK, RateLimitTypeOK
  <1>2. at \in Time /\ consume[r].since + Window <= at
    BY <1>1, LimitNumbers DEF Time
  <1>3. HitsIn(b, at, at) \in Nat
    BY <1>1, CountedSet
  <1> HIDE DEF b
  <1> DEFINE h == NewHit(b, at)
  <1>4. h \in Hit /\ h.bucket = b /\ h.createdAt = at /\ h.id = HitsIn(b, at, at)
    BY <1>1, <1>2, <1>3 DEF NewHit, Hit
  <1>5. h \notin hits
    <2>1. ~(h.id < HitsIn(h.bucket, h.createdAt, h.createdAt))
      BY <1>3, <1>4
    <2> HIDE DEF h
    <2> QED BY <2>1 DEF LimitOK, Numbered
  <1> QED BY <1>2, <1>4, <1>5 DEF b

\* A hit is inserted under the lock: every window it falls into lies within the one its
\* caller counted, where there was room.
LEMMA HitInserted ==
    ASSUME LimitOK, now \in Time, UNCHANGED now, NEW r \in Callers, NEW next \in ConsumeCall,
           RecordHit(r, next), next.step # "record",
           \A q \in Callers \ {r} : req'[q] = req[q],
           next.step # "none" => req'[r].step = "limited" /\ next.since + Window <= now
    PROVE  LimitOK'
  <1> PICK b \in Buckets, since \in Int : b = consume[r].bucket /\ since = consume[r].since
    BY ConsumeTyped DEF RecordHit, LimitOK
  <1>1. PICK at \in (since + Window) .. now : hits' = hits \union {NewHit(b, at)}
    BY DEF RecordHit
  <1>2. consume[r].step = "record" /\ consume' = [consume EXCEPT ![r] = next]
    BY DEF RecordHit
  <1>3. PICK h : /\ h \in Hit /\ h \notin hits /\ h.bucket = b /\ h.createdAt = at
                 /\ at \in Time /\ since + Window <= at /\ h.id = HitsIn(b, at, at)
                 /\ hits' = hits \union {h}
    BY <1>1, <1>2, InsertedHit
  <1>4. IsFiniteSet(hits) /\ hits \subseteq Hit
    BY DEF LimitOK, RateLimitTypeOK
  <1>5. Used(r) = HitsIn(b, since, MaxTime)
    BY DEF Used
  <1>6. \A c, from, to : HitsIn(c, from, to)' = IF b = c /\ from <= at /\ at <= to
                                                THEN HitsIn(c, from, to) + 1 ELSE HitsIn(c, from, to)
    BY <1>3, <1>4, CountInserted
  <1>7. \A c, from, to : HitsIn(c, from, to) \in Nat
    BY <1>4, CountedSet
  <1>8. /\ consume' \in [Callers -> ConsumeCall] /\ consume'[r] = next
        /\ \A q \in Callers \ {r} : consume'[q] = consume[q]
    BY <1>2 DEF LimitOK, RateLimitTypeOK
  <1>9. IsFiniteSet(hits') /\ hits' \subseteq Hit
    BY <1>3, <1>4, FS_AddElement
  <1>10. RateLimitTypeOK' /\ CallersOK' /\ OneRecorder'
    BY <1>8, <1>9 DEF LimitOK, RateLimitTypeOK, CallersOK, OneRecorder, Hit
  <1>11. StillAllowed'
    <2> SUFFICES ASSUME NEW q \in Callers, consume'[q].step = "record"
                 PROVE  Used(q)' < Limit
      BY DEF StillAllowed
    <2>1. q # r /\ consume'[q] = consume[q]
      BY <1>8
    <2>2. consume[q].bucket # b /\ HitsIn(consume[q].bucket, consume[q].since, MaxTime) < Limit
      BY <1>2, <2>1 DEF LimitOK, OneRecorder, StillAllowed, Used
    <2>3. Used(q)' = HitsIn(consume[q].bucket, consume[q].since, MaxTime)
      BY <1>6, <2>1, <2>2 DEF Used
    <2> QED BY <2>2, <2>3
  <1>12. Numbered'
    <2> SUFFICES ASSUME NEW g \in hits'
                 PROVE  g.id < HitsIn(g.bucket, g.createdAt, g.createdAt)'
      BY DEF Numbered
    <2>1. CASE g = h
      <3>1. HitsIn(b, at, at)' = HitsIn(b, at, at) + 1
        BY <1>3, <1>6, LimitNumbers
      <3> QED BY <1>3, <1>7, <2>1, <3>1
    <2>2. CASE g \in hits
      <3>1. g.id \in Nat /\ g.id < HitsIn(g.bucket, g.createdAt, g.createdAt)
        BY <1>4, <2>2 DEF LimitOK, Numbered, Hit
      <3> QED BY <1>6, <1>7, <3>1
    <2> QED BY <1>3, <2>1, <2>2
  <1>13. NeverOverLimit'
    <2> SUFFICES ASSUME NEW c \in Buckets, NEW t \in Time
                 PROVE  HitsIn(c, t - Window, t)' <= Limit
      BY DEF NeverOverLimit
    <2>1. HitsIn(c, t - Window, t) <= Limit
      BY DEF LimitOK, NeverOverLimit
    <2>2. CASE b = c /\ t - Window <= at /\ at <= t
      <3>1. since <= t - Window /\ t <= MaxTime
        BY <1>2, <1>3, <2>2, LimitNumbers
      <3>2. MaxTime \in Int /\ t \in Int /\ t - Window \in Int
        BY LimitNumbers
      <3>3. HitsIn(b, t - Window, t) <= HitsIn(b, since, MaxTime)
        BY <1>4, <3>1, <3>2, CountNarrower
      <3>4. HitsIn(b, since, MaxTime) < Limit
        BY <1>2, <1>5 DEF LimitOK, StillAllowed
      <3> QED BY <1>6, <1>7, <2>2, <3>3, <3>4, LimitNumbers
    <2>3. CASE ~(b = c /\ t - Window <= at /\ at <= t)
      BY <1>6, <2>1, <2>3
    <2> QED BY <2>2, <2>3
  <1> QED BY <1>10, <1>11, <1>12, <1>13 DEF LimitOK

\* The sweep takes all rows of a time or none, so those that stay keep their numbers.
LEMMA HitsSwept ==
    ASSUME LimitOK, now \in Time, UNCHANGED <<now, req>>, SweepHits
    PROVE  LimitOK'
  <1>1. /\ hits' = {h \in hits : h.createdAt >= now - Kept} /\ consume' = consume
        /\ hits' \subseteq hits /\ IsFiniteSet(hits) /\ hits \subseteq Hit
    BY DEF SweepHits, LimitOK, RateLimitTypeOK
  <1>2. IsFiniteSet(hits')
    BY <1>1, FS_Subset
  <1>3. \A b, from, to : HitsIn(b, from, to)' <= HitsIn(b, from, to)
                           /\ HitsIn(b, from, to) \in Nat /\ HitsIn(b, from, to)' \in Nat
    <2> SUFFICES ASSUME NEW b, NEW from, NEW to
                 PROVE  HitsIn(b, from, to)' <= HitsIn(b, from, to)
                           /\ HitsIn(b, from, to) \in Nat /\ HitsIn(b, from, to)' \in Nat
      OBVIOUS
    <2>1. HitsIn(b, from, to)' \in Nat
      <3>1. {h \in hits' : h.bucket = b /\ from <= h.createdAt /\ h.createdAt <= to} \subseteq hits'
        OBVIOUS
      <3> QED BY <1>2, <3>1, FS_Subset, FS_CardinalityType DEF HitsIn
    <2> QED BY <1>1, <2>1, CountFewer, CountedSet
  <1>4. RateLimitTypeOK' /\ CallersOK' /\ OneRecorder'
    BY <1>1, <1>2 DEF LimitOK, RateLimitTypeOK, CallersOK, OneRecorder, Hit
  <1>5. StillAllowed'
    BY <1>1, <1>3, LimitNumbers DEF LimitOK, StillAllowed, Used
  <1>6. NeverOverLimit'
    BY <1>3, LimitNumbers DEF LimitOK, NeverOverLimit
  <1>7. Numbered'
    <2> SUFFICES ASSUME NEW g \in hits'
                 PROVE  g.id < HitsIn(g.bucket, g.createdAt, g.createdAt)'
      BY DEF Numbered
    <2>1. g \in hits /\ g.createdAt >= now - Kept
      BY <1>1
    <2>2. \A h \in hits : g.createdAt <= h.createdAt /\ h.createdAt <= g.createdAt
                            => h.createdAt >= now - Kept
      <3>1. \A h \in hits : h.createdAt \in Int
        BY <1>1, ServerAssumption DEF Hit, Time
      <3>2. now - Kept \in Int
        BY LimitNumbers
      <3> QED BY <2>1, <3>1, <3>2
    <2>3. HitsIn(g.bucket, g.createdAt, g.createdAt)' = HitsIn(g.bucket, g.createdAt, g.createdAt)
      <3>1. {h \in hits' : h.bucket = g.bucket /\ g.createdAt <= h.createdAt /\ h.createdAt <= g.createdAt}
              = {h \in hits : h.bucket = g.bucket /\ g.createdAt <= h.createdAt /\ h.createdAt <= g.createdAt}
        BY <1>1, <2>2
      <3> QED BY <3>1 DEF HitsIn
    <2> QED BY <2>1, <2>3 DEF LimitOK, Numbered
  <1> QED BY <1>4, <1>5, <1>6, <1>7 DEF LimitOK

\* A statement that is not about the limit, and a request that comes in, move one request,
\* which does not wait for its limit.
LEMMA OthersWait ==
    ASSUME AuthIInv, NEW r \in Requests,
           \/ AuthStatement(r)
           \/ \E l \in Links : StartVerify(r, l)
           \/ \E s \in Sessions, logout \in BOOLEAN : StartCall(r, s, logout)
    PROVE  req[r].step # "limited" /\ \A q \in Requests \ {r} : req'[q] = req[q]
  <1>1. ASSUME NEW step, GoTo(r, step) PROVE \A q \in Requests \ {r} : req'[q] = req[q]
    BY <1>1 DEF GoTo, AuthIInv, AuthTypeOK
  <1>2. ASSUME End(r) PROVE \A q \in Requests \ {r} : req'[q] = req[q]
    BY <1>2 DEF End, AuthIInv, AuthTypeOK
  <1>3. ASSUME NEW new, Begin(r, new)
        PROVE  req[r].step # "limited" /\ \A q \in Requests \ {r} : req'[q] = req[q]
    BY <1>3 DEF Begin, Idle, AuthIInv, AuthTypeOK
  <1>4. CASE \/ \E l \in Links : StartVerify(r, l)
             \/ \E s \in Sessions, logout \in BOOLEAN : StartCall(r, s, logout)
    BY <1>3, <1>4 DEF StartVerify, StartCall
  <1>5. CASE IssueLoginToken(r)
    BY <1>5 DEF IssueLoginToken, AuthIInv, AuthTypeOK
  <1>6. CASE GetOrCreateUser(r) \/ SendMagicLink(r) \/ OpenSession(r) \/ Refresh(r) \/ Handle(r)
    BY <1>1, <1>2, <1>6 DEF GetOrCreateUser, SendMagicLink, OpenSession, Refresh, Handle
  <1>7. CASE FindToken(r) \/ Authenticate(r)
    <2>1. req[r].step # "limited"
      BY <1>7 DEF FindToken, Authenticate
    <2>2. \/ End(r)
          \/ GoTo(r, "open") \/ GoTo(r, "refresh") \/ GoTo(r, "admitted")
      BY <1>7 DEF FindToken, Authenticate
    <2> QED BY <1>1, <1>2, <2>1, <2>2
  <1> QED BY <1>4, <1>5, <1>6, <1>7 DEF AuthStatement

\* A login comes in, counts, is let on or turned away, or fails: one caller moves.
LEMMA CallerMoves ==
    ASSUME LimitIInv, NEW r \in Requests,
           \/ \E u \in Users, ip \in Ips : Login(r, u, ip)
           \/ Count(r) \/ TooMany(r) \/ Abort(r)
    PROVE  LimitOK'
  <1>1. /\ r \in Callers /\ now \in Time /\ LimitOK /\ AuthIInv
        /\ NotConsuming \in ConsumeCall /\ NotConsuming.step = "none"
        /\ req \in [Requests -> RequestState] /\ Requests = Callers
    BY LoginAssumption DEF LimitIInv, AuthIInv, AuthTypeOK, ConsumeCall, NotConsuming
  <1>2. ASSUME NEW u \in Users, NEW ip \in Ips, Login(r, u, ip) PROVE LimitOK'
    <2>1. /\ Call(ip) \in ConsumeCall /\ Call(ip).step = "count" /\ Call(ip).since + Window = now
      BY <1>1, LoginAssumption, CallFacts
    <2>2. /\ UNCHANGED <<hits, now>> /\ consume' = [consume EXCEPT ![r] = Call(ip)]
          /\ req'[r].step = "limited" /\ \A q \in Callers \ {r} : req'[q] = req[q]
      BY <1>1, <1>2 DEF Login, StartLogin, Begin, Idle, serverVars
    <2>3. PICK new \in ConsumeCall : new = Call(ip)
      BY <2>1
    <2>4. new.step = "count" /\ new.since + Window <= now
      BY <1>1, <2>1, <2>3, LimitNumbers
    <2> QED BY <1>1, <2>2, <2>3, <2>4, ConsumeMoves
  <1>3. CASE Count(r)
    <2>1. /\ consume[r].step = "count" /\ Used(r) < Limit /\ ~Locked(r)
          /\ consume' = [consume EXCEPT ![r].step = "record"]
          /\ UNCHANGED <<hits, now, req>>
      BY <1>3 DEF Count, CountHits, Allows, serverVars, authVars
    <2> DEFINE new == [consume[r] EXCEPT !.step = "record"]
    <2>2. /\ consume[r] = [step |-> "count", bucket |-> consume[r].bucket, since |-> consume[r].since]
          /\ consume[r].bucket \in Buckets /\ consume[r].since \in (0 - Window) .. MaxTime
      BY <1>1, <2>1, ConsumeTyped DEF LimitOK
    <2>3. /\ new \in ConsumeCall /\ new.step = "record"
          /\ new.bucket = consume[r].bucket /\ new.since = consume[r].since
      BY <2>2 DEF ConsumeCall
    <2>4. consume' = [consume EXCEPT ![r] = new]
      BY <2>1
    <2> HIDE DEF new
    <2>5. HitsIn(new.bucket, new.since, MaxTime) < Limit
      BY <2>1, <2>3 DEF Used
    <2>6. \A q \in Callers \ {r} : consume[q].step = "record" => consume[q].bucket # new.bucket
      BY <2>1, <2>3 DEF Locked
    <2>7. req'[r].step = "limited" /\ new.since + Window <= now
      BY <1>1, <2>1, <2>3 DEF LimitOK, CallersOK
    <2> QED BY <1>1, <2>1, <2>3, <2>4, <2>5, <2>6, <2>7, ConsumeMoves
  <1>4. CASE TooMany(r) \/ Abort(r)
    <2>1. /\ consume' = [consume EXCEPT ![r] = NotConsuming] /\ UNCHANGED <<hits, now>>
          /\ End(r)
      BY <1>4 DEF TooMany, Abort, RateLimited, AbortRequest, serverVars
    <2>2. \A q \in Callers \ {r} : req'[q] = req[q]
      BY <1>1, <2>1 DEF End
    <2> QED BY <1>1, <2>1, <2>2, ConsumeMoves
  <1> QED BY <1>2, <1>3, <1>4

\* A login that was counted inserts its hit, and goes on to the bucket of the e-mail or
\* to the account.
LEMMA CallerRecords ==
    ASSUME LimitIInv, NEW r \in Requests, HitIp(r) \/ HitEmail(r)
    PROVE  LimitOK'
  <1>1. /\ r \in Callers /\ now \in Time /\ LimitOK /\ AuthIInv
        /\ NotConsuming \in ConsumeCall /\ NotConsuming.step = "none"
        /\ req \in [Requests -> RequestState] /\ Requests = Callers
    BY LoginAssumption DEF LimitIInv, AuthIInv, AuthTypeOK, ConsumeCall, NotConsuming
  <1>2. CASE HitIp(r)
    <2>1. /\ consume[r].step = "record" /\ RecordHit(r, Call(req[r].user))
          /\ UNCHANGED <<now, req>>
      BY <1>2 DEF HitIp, serverVars, authVars
    <2>2. req[r].step = "limited" /\ req[r].user \in Users
      BY <1>1, <2>1 DEF LimitOK, CallersOK, AuthIInv, RequestOK
    <2>3. PICK b \in Buckets : b = req[r].user
      BY <2>2, LoginAssumption
    <2>4. Call(b) \in ConsumeCall /\ Call(b).step = "count" /\ Call(b).since + Window = now
      BY <1>1, CallFacts
    <2>5. now \in Int
      BY <1>1, LimitNumbers
    <2>6. RecordHit(r, Call(b)) /\ UNCHANGED now /\ req'[r].step = "limited"
            /\ Call(b).since + Window <= now /\ Call(b).step # "record"
            /\ \A q \in Callers \ {r} : req'[q] = req[q]
      BY <2>1, <2>2, <2>3, <2>4, <2>5
    <2> QED BY <1>1, <2>4, <2>6, HitInserted
  <1>3. CASE HitEmail(r)
    <2>1. RecordHit(r, NotConsuming) /\ GoTo(r, "user") /\ UNCHANGED now
      BY <1>3 DEF HitEmail, PassLimit, serverVars
    <2>2. \A q \in Callers \ {r} : req'[q] = req[q]
      BY <1>1, <2>1 DEF GoTo
    <2> QED BY <1>1, <2>1, <2>2, HitInserted
  <1> QED BY <1>2, <1>3

\* No hit is stored and nobody calls at the start.
LEMMA LimitInit == LoginInit => LimitOK
  <1> SUFFICES ASSUME LoginInit
               PROVE  LimitOK
    OBVIOUS
  <1>1. hits = {} /\ consume = [r \in Callers |-> NotConsuming]
    BY DEF LoginInit, RateLimitInit
  <1>2. \A b, from, to : HitsIn(b, from, to) = 0
    <2>1. \A b, from, to : {h \in hits : h.bucket = b /\ from <= h.createdAt /\ h.createdAt <= to} = {}
      BY <1>1
    <2> QED BY <2>1, FS_EmptySet DEF HitsIn
  <1>3. RateLimitTypeOK
    BY <1>1, FS_EmptySet DEF RateLimitTypeOK, ConsumeCall
  <1>4. NeverOverLimit
    BY <1>2, LimitNumbers DEF NeverOverLimit
  <1>5. CallersOK /\ OneRecorder /\ StillAllowed
    BY <1>1 DEF CallersOK, OneRecorder, StillAllowed, NotConsuming
  <1>6. Numbered
    BY <1>1 DEF Numbered
  <1> QED BY <1>3, <1>4, <1>5, <1>6 DEF LimitOK

-----------------------------------------------------------------------------
(* The theorems.                                                           *)

\* No row is issued, no request is served and no process runs at the start.
THEOREM LoginInitInv == LoginInit => AuthIInv
  <1> SUFFICES ASSUME LoginInit
               PROVE  AuthIInv
    OBVIOUS
  <1> USE DEF LoginInit, AuthInit
  <1>1. AuthTypeOK
    <2>1. now \in Time
      BY ServerAssumption DEF Time
    <2>2. link \in [Links -> LinkRow]
      BY DEF LinkRow, Rows
    <2>3. session \in [Sessions -> SessionRow]
      BY DEF SessionRow, Rows
    <2> QED BY <2>1, <2>2, <2>3, IdleFacts DEF AuthTypeOK
  <1>2. \A l \in Links : LinkOK(l)
    BY AuthAssumption DEF LinkOK
  <1>3. \A s \in Sessions : SessionOK(s)
    BY DEF SessionOK
  <1> QED BY <1>1, <1>2, <1>3, IdleFacts DEF AuthIInv, RowsOK, ServingValid, Up

\* Every statement of a request, every sweep, start and stop keeps the invariant.
THEOREM LoginStepInv == AuthIInv /\ [LoginNext]_loginVars => AuthIInv'
  <1> SUFFICES ASSUME AuthIInv, [LoginNext]_loginVars
               PROVE  AuthIInv'
    OBVIOUS
  <1>1. now \in Time
    BY DEF AuthIInv, AuthTypeOK
  <1>2. ASSUME NEW r \in Requests, Arrive(r) PROVE AuthIInv'
    <2>1. UNCHANGED <<config, now>>
      BY <1>2 DEF Arrive, Login, serverVars
    <2>2. \/ \E u \in Users : StartLogin(r, u)
          \/ \E l \in Links : StartVerify(r, l)
          \/ \E s \in Sessions, logout \in BOOLEAN : StartCall(r, s, logout)
      BY <1>2 DEF Arrive, Login
    <2> QED BY <2>1, <2>2, BeginInv
  <1>3. ASSUME NEW r \in Requests, Count(r) \/ HitIp(r) PROVE AuthIInv'
    BY <1>1, <1>3, ElsewhereInv DEF Count, HitIp, serverVars
  <1>4. ASSUME NEW r \in Requests, HitEmail(r) \/ TooMany(r) \/ Abort(r) PROVE AuthIInv'
    BY <1>4, DecisionInv DEF HitEmail, TooMany, Abort, serverVars
  <1>5. ASSUME NEW r \in Requests, AuthStatement(r) PROVE AuthIInv'
    BY <1>5, DecisionInv, GetOrCreateUserInv, IssueLoginTokenInv, SendMagicLinkInv, OpenSessionInv,
       RefreshInv, HandleInv DEF AuthStatement, serverVars
  <1>6. CASE Beside
    <2>1. CASE Up /\ SweepHits /\ UNCHANGED <<serverVars, authVars>>
      BY <1>1, <2>1, ElsewhereInv DEF serverVars
    <2>2. CASE /\ \/ \E u \in Users : SuspendUser(u) \/ DestroyAllSessions(u)
                  \/ Up /\ (SweepExpiredSessions \/ SweepExpiredLinks)
               /\ UNCHANGED <<serverVars, limitVars>>
      BY <2>2, BesideInv DEF serverVars
    <2> QED BY <1>6, <2>1, <2>2 DEF Beside
  <1>7. CASE Start
    BY <1>7, StartInv
  <1>8. CASE Stop
    BY <1>8, StopInv
  <1>9. CASE Tick
    <2>1. now' \in Time
      BY <1>1, <1>9, ServerAssumption DEF Tick, Time
    <2> QED BY <1>9, <2>1, ElsewhereInv DEF Tick
  <1>10. CASE UNCHANGED loginVars
    BY <1>1, <1>10, ElsewhereInv DEF loginVars, serverVars
  <1> QED BY <1>2, <1>3, <1>4, <1>5, <1>6, <1>7, <1>8, <1>9, <1>10 DEF LoginNext, Statement

\* The inductive invariant holds in every state.
THEOREM LoginInv == LoginSpec => []AuthIInv
  BY LoginInitInv, LoginStepInv, PTL DEF LoginSpec

\* Every statement of a request, every sweep, start and stop keeps the rate limit.
THEOREM LimitStepInv == LimitIInv /\ [LoginNext]_loginVars => LimitIInv'
  <1> SUFFICES ASSUME LimitIInv, [LoginNext]_loginVars
               PROVE  LimitOK'
    BY LoginStepInv DEF LimitIInv
  <1>1. /\ now \in Time /\ now \in Int /\ LimitOK /\ AuthIInv /\ Requests = Callers
        /\ now <= now
    BY LimitNumbers, LoginAssumption DEF LimitIInv, AuthIInv, AuthTypeOK
  <1>2. ASSUME NEW r \in Requests, Arrive(r) PROVE LimitOK'
    <2>1. CASE \E u \in Users, ip \in Ips : Login(r, u, ip)
      BY <2>1, CallerMoves
    <2>2. CASE /\ \/ \E l \in Links : StartVerify(r, l)
                  \/ \E s \in Sessions, logout \in BOOLEAN : StartCall(r, s, logout)
               /\ UNCHANGED <<serverVars, limitVars>>
      <3>1. req[r].step # "limited" /\ \A q \in Requests \ {r} : req'[q] = req[q]
        BY <1>1, <2>2, OthersWait
      <3>2. \A q \in Callers : consume[q].step # "none" => req'[q].step = req[q].step
        BY <1>1, <3>1 DEF LimitOK, CallersOK
      <3> QED BY <1>1, <2>2, <3>2, LimitSame DEF serverVars
    <2> QED BY <1>2, <2>1, <2>2 DEF Arrive
  <1>3. ASSUME NEW r \in Requests, Count(r) \/ TooMany(r) \/ Abort(r) PROVE LimitOK'
    BY <1>3, CallerMoves
  <1>4. ASSUME NEW r \in Requests, HitIp(r) \/ HitEmail(r) PROVE LimitOK'
    BY <1>4, CallerRecords
  <1>5. ASSUME NEW r \in Requests, AuthStatement(r) PROVE LimitOK'
    <2>1. req[r].step # "limited" /\ \A q \in Requests \ {r} : req'[q] = req[q]
      BY <1>1, <1>5, OthersWait
    <2>2. \A q \in Callers : consume[q].step # "none" => req'[q].step = req[q].step
      BY <1>1, <2>1 DEF LimitOK, CallersOK
    <2>3. UNCHANGED <<now, limitVars>>
      BY <1>5 DEF AuthStatement, serverVars
    <2> QED BY <1>1, <2>2, <2>3, LimitSame
  <1>6. CASE Beside
    <2>1. UNCHANGED <<now, req>>
      BY <1>6 DEF Beside, SuspendUser, DestroyAllSessions, SweepExpiredSessions, SweepExpiredLinks,
                  serverVars, authVars
    <2>2. SweepHits \/ UNCHANGED limitVars
      BY <1>6 DEF Beside
    <2> QED BY <1>1, <2>1, <2>2, HitsSwept, LimitSame
  <1>7. CASE Start \/ UNCHANGED loginVars
    <2>1. UNCHANGED <<now, req, limitVars>>
      BY <1>7 DEF Start, loginVars, serverVars, authVars
    <2> QED BY <1>1, <2>1, LimitSame
  <1>8. CASE Stop
    <2>1. consume' = [r \in Callers |-> NotConsuming] /\ UNCHANGED <<now, hits>>
      BY <1>8 DEF Stop
    <2>2. \A b, from, to : HitsIn(b, from, to)' = HitsIn(b, from, to)
      BY <2>1 DEF HitsIn
    <2>3. RateLimitTypeOK' /\ CallersOK' /\ OneRecorder' /\ StillAllowed'
      BY <1>1, <2>1 DEF LimitOK, RateLimitTypeOK, CallersOK, OneRecorder, StillAllowed,
                        NotConsuming, ConsumeCall
    <2>4. Numbered' /\ NeverOverLimit'
      BY <1>1, <2>1, <2>2 DEF LimitOK, Numbered, NeverOverLimit
    <2> QED BY <2>3, <2>4 DEF LimitOK
  <1>9. CASE Tick
    <2>1. now' \in Time /\ now <= now' /\ UNCHANGED <<req, limitVars>>
      BY <1>1, <1>9, ServerAssumption DEF Tick, Time, authVars
    <2> QED BY <1>1, <2>1, LimitSame
  <1> QED BY <1>2, <1>3, <1>4, <1>5, <1>6, <1>7, <1>8, <1>9 DEF LoginNext, Statement

\* The invariant with the rate limit holds in every state.
THEOREM LimitInv == LoginSpec => []LimitIInv
  <1>1. LoginInit => LimitIInv
    BY LoginInitInv, LimitInit DEF LimitIInv
  <1> QED BY <1>1, LimitStepInv, PTL DEF LoginSpec

\* Every row and every request of the login is well formed, the hits included.
THEOREM LoginTypeCorrect == LoginSpec => []LoginTypeOK
  <1>1. LimitIInv => LoginTypeOK
    BY DEF LimitIInv, LimitOK, AuthIInv, LoginTypeOK
  <1> QED BY <1>1, LimitInv, PTL

\* No window of an address or an e-mail holds more hits than the limit, for any number of
\* logins at once that wait for each other, fail, and are swept behind.
THEOREM LoginLimit == LoginSpec => []NeverOverLimit
  <1>1. LimitIInv => NeverOverLimit
    BY DEF LimitIInv, LimitOK
  <1> QED BY <1>1, LimitInv, PTL

\* Nobody who was signed out or suspended when the request came in is let in, for any
\* number of requests that refresh the session meanwhile.
THEOREM LoginSignedOut == LoginSpec => []SignedOutStaysOut
  <1>1. AuthIInv => SignedOutStaysOut
    BY DEF AuthIInv, RequestOK, SignedOutStaysOut
  <1> QED BY <1>1, LoginInv, PTL

\* A link is marked used exactly when it opened a session.
THEOREM LoginBurned == LoginSpec => []BurnedForSession
  <1>1. AuthIInv => BurnedForSession
    BY DEF AuthIInv, RowsOK, LinkOK, BurnedForSession
  <1> QED BY <1>1, LoginInv, PTL

\* Whatever environment is accepted, no user is left without a link that was sent.
THEOREM LoginLinks == LoginSpec => []LinkReachesUser
  <1>1. AuthIInv => LinkReachesUser
    BY DEF AuthIInv, RowsOK, LinkOK, LinkReachesUser
  <1> QED BY <1>1, LoginInv, PTL
=============================================================================
