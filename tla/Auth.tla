-------------------------------- MODULE Auth --------------------------------
(***************************************************************************)
(* lib/auth.ts, lib/email.ts and the /auth routes of routes/api.ts: a      *)
(* magic link is issued, mailed and exchanged for a session, which every   *)
(* later request presents.  Each statement commits by itself, but for the  *)
(* two of verifyLoginToken.  Whether the rate limit lets a login through   *)
(* is left open here; Login decides it.                                    *)
(***************************************************************************)
EXTENDS Server

CONSTANTS
    Requests,     \* the requests that may be served at once
    Users,        \* the e-mail addresses
    Allowlist,    \* EMAIL_ALLOWLIST, or Users when it is empty
    Links,        \* the login tokens that may be issued
    Sessions,     \* the session tokens that may be issued
    LinkTTL,      \* LOGIN_TOKEN_TTL_MINUTES
    LinkKept,     \* a day: how long an expired login token is kept
    SessionTTL,   \* SESSION_TTL_HOURS
    RefreshAfter, \* a minute: how often a session's expiry is moved
    None

ASSUME AuthAssumption ==
    /\ {LinkTTL, LinkKept, SessionTTL, RefreshAfter} \subseteq Nat
    /\ Allowlist \subseteq Users
    /\ None \notin Users \union Links \union Sessions

VARIABLES
    status,  \* status[u]: the User row
    link,    \* link[l]: the LoginToken row, and what became of the mail
    session, \* session[s]: the Session row; .link is the token that opened it
    req      \* req[r]: the request that r serves

authVars == <<status, link, session, req>>

Rows == {"unissued", "stored", "deleted"}

\* known: the user has seen the token.
LinkRow == [row : Rows, user : Users \union {None}, expires : Int, used : BOOLEAN, known : BOOLEAN,
            mail : {"none", "delivered", "undelivered", "blocked", "console"}]

SessionRow == [row : Rows, user : Users \union {None}, expires : Int, lastUsed : Int,
               link : Links \union {None}]

\* barred: the session was gone, or its user suspended, when the request came in.
RequestState ==
    [step : {"idle", "limited", "user", "issue", "mail", "verify", "open",
             "authenticate", "refresh", "admitted"},
     user : Users \union {None}, link : Links \union {None},
     session : Sessions \union {None}, logout : BOOLEAN, barred : BOOLEAN]

Idle == [step |-> "idle", user |-> None, link |-> None, session |-> None,
         logout |-> FALSE, barred |-> FALSE]

AuthTypeOK ==
    /\ now \in Time
    /\ config \in Configs \union {Down}
    /\ status \in [Users -> {"NONE", "ACTIVE", "SUSPENDED"}]
    /\ link \in [Links -> LinkRow]
    /\ session \in [Sessions -> SessionRow]
    /\ req \in [Requests -> RequestState]
    /\ \A r \in Requests : req[r].step # "idle" => Up

AuthInit ==
    /\ now = 0
    /\ config = Down
    /\ status = [u \in Users |-> "NONE"]
    /\ link = [l \in Links |-> [row |-> "unissued", user |-> None, expires |-> 0,
                                used |-> FALSE, known |-> FALSE, mail |-> "none"]]
    /\ session = [s \in Sessions |-> [row |-> "unissued", user |-> None, expires |-> 0,
                                      lastUsed |-> 0, link |-> None]]
    /\ req = [r \in Requests |-> Idle]

Begin(r, state) == Up /\ req[r] = Idle /\ req' = [req EXCEPT ![r] = state]

GoTo(r, step) == req' = [req EXCEPT ![r].step = step]

End(r) == req' = [req EXCEPT ![r] = Idle]

-----------------------------------------------------------------------------
(* POST /auth/login.                                                       *)

StartLogin(r, u) ==
    /\ Begin(r, [Idle EXCEPT !.step = "limited", !.user = u])
    /\ UNCHANGED <<status, link, session>>

PassLimit(r) ==
    /\ req[r].step = "limited"
    /\ GoTo(r, "user")
    /\ UNCHANGED <<status, link, session>>

\* 429, with Retry-After.
RateLimited(r) ==
    /\ req[r].step = "limited"
    /\ End(r)
    /\ UNCHANGED <<status, link, session>>

GetOrCreateUser(r) ==
    /\ req[r].step = "user"
    /\ status' = [status EXCEPT ![req[r].user] = IF @ = "NONE" THEN "ACTIVE" ELSE @]
    /\ GoTo(r, "issue")
    /\ UNCHANGED <<link, session>>

IssueLoginToken(r) ==
    /\ req[r].step = "issue"
    /\ \E l \in Links :
        /\ link[l].row = "unissued"
        /\ link' = [link EXCEPT ![l] = [row |-> "stored", user |-> req[r].user, used |-> FALSE,
               known |-> FALSE, expires |-> now + LinkTTL, mail |-> "none"]]
        /\ req' = [req EXCEPT ![r].step = "mail", ![r].link = l]
    /\ UNCHANGED <<status, session>>

\* What the transport may come to; whatever it is, the answer is 200.  Outside of
\* production that answer shows the token.
Outcomes(u) ==
    IF u \notin Allowlist THEN {"blocked"}
    ELSE IF config.provider \in {"resend", "smtp"} THEN {"delivered", "undelivered"}
    ELSE {"console"}

SendMagicLink(r) ==
    /\ req[r].step = "mail"
    /\ \E outcome \in Outcomes(req[r].user) :
        link' = [link EXCEPT ![req[r].link].mail = outcome,
                             ![req[r].link].known = outcome = "delivered" \/ ~config.production]
    /\ End(r)
    /\ UNCHANGED <<status, session>>

-----------------------------------------------------------------------------
(* POST /auth/verify.                                                      *)

StartVerify(r, l) ==
    /\ Begin(r, [Idle EXCEPT !.step = "verify", !.link = l])
    /\ link[l].known
    /\ UNCHANGED <<status, link, session>>

Usable(l) == link[l].row = "stored" /\ ~link[l].used /\ link[l].expires >= now

FindToken(r) ==
    /\ req[r].step = "verify"
    /\ IF Usable(req[r].link) THEN GoTo(r, "open") ELSE End(r)
    /\ UNCHANGED <<status, link, session>>

\* Mutant: the two statements without their transaction, and a crash in between.
BurnOnly(r) ==
    /\ req[r].step = "open"
    /\ link[req[r].link].row = "stored"
    /\ link' = [link EXCEPT ![req[r].link].used = TRUE]
    /\ End(r)
    /\ UNCHANGED <<status, session>>

\* A second transaction waits for the first one's row and then updates it too:
\* the update does not ask for usedAt to be null.
OpenSession(r) ==
    /\ req[r].step = "open"
    /\ link[req[r].link].row = "stored"
    /\ \E s \in Sessions :
        /\ session[s].row = "unissued"
        /\ session' = [session EXCEPT ![s] =
               [row |-> "stored", user |-> link[req[r].link].user, link |-> req[r].link,
                expires |-> now + SessionTTL, lastUsed |-> now]]
    /\ link' = [link EXCEPT ![req[r].link].used = TRUE]
    /\ End(r)
    /\ UNCHANGED status

-----------------------------------------------------------------------------
(* A request behind requireAuth: it reads or changes something, or it is   *)
(* POST /auth/logout.                                                      *)

Barred(s) == session[s].row = "deleted" \/ status[session[s].user] = "SUSPENDED"

StartCall(r, s, logout) ==
    /\ session[s].row # "unissued"
    /\ Begin(r, [Idle EXCEPT !.step = "authenticate", !.session = s, !.logout = logout,
                             !.barred = Barred(s)])
    /\ UNCHANGED <<status, link, session>>

Live(s) ==
    /\ session[s].row = "stored" /\ session[s].expires >= now
    /\ status[session[s].user] = "ACTIVE"

Authenticate(r) ==
    /\ req[r].step = "authenticate"
    /\ IF ~Live(req[r].session) THEN End(r)
       ELSE GoTo(r, IF now - session[req[r].session].lastUsed > RefreshAfter
                    THEN "refresh" ELSE "admitted")
    /\ UNCHANGED <<status, link, session>>

Refreshed(s) ==
    [session EXCEPT ![s].lastUsed = now, ![s].expires = now + SessionTTL]

\* Mutant: the refresh stores the session it read again.
RefreshUpsert(r) ==
    /\ req[r].step = "refresh"
    /\ session' = [Refreshed(req[r].session) EXCEPT ![req[r].session].row = "stored"]
    /\ GoTo(r, "admitted")
    /\ UNCHANGED <<status, link>>

\* The update of a row that is gone throws: the request ends with a 500.
Refresh(r) ==
    /\ req[r].step = "refresh"
    /\ session[req[r].session].row = "stored"
    /\ session' = Refreshed(req[r].session)
    /\ GoTo(r, "admitted")
    /\ UNCHANGED <<status, link>>

DeleteSessions(S) ==
    session' = [s \in Sessions |->
        IF s \in S /\ session[s].row = "stored" THEN [session[s] EXCEPT !.row = "deleted"]
                                                ELSE session[s]]

Handle(r) ==
    /\ req[r].step = "admitted"
    /\ DeleteSessions(IF req[r].logout THEN {req[r].session} ELSE {})
    /\ End(r)
    /\ UNCHANGED <<status, link>>

-----------------------------------------------------------------------------
(* What happens beside the requests.                                       *)

\* A dispute suspends the user, and then deletes the sessions (Checkout).
SuspendUser(u) ==
    /\ status[u] = "ACTIVE"
    /\ status' = [status EXCEPT ![u] = "SUSPENDED"]
    /\ UNCHANGED <<link, session, req>>

DestroyAllSessions(u) ==
    /\ status[u] = "SUSPENDED"
    /\ \E s \in Sessions : session[s].row = "stored" /\ session[s].user = u
    /\ DeleteSessions({s \in Sessions : session[s].user = u})
    /\ UNCHANGED <<status, link, req>>

SweepExpiredSessions ==
    /\ DeleteSessions({s \in Sessions : session[s].expires < now})
    /\ UNCHANGED <<status, link, req>>

SweepExpiredLinks ==
    /\ link' = [l \in Links |->
           IF link[l].row = "stored" /\ link[l].expires < now - LinkKept
           THEN [link[l] EXCEPT !.row = "deleted"] ELSE link[l]]
    /\ UNCHANGED <<status, session, req>>

\* A statement fails: the request ends with a 500, or a 401 for a link.
AbortRequest(r) ==
    /\ req[r].step # "idle"
    /\ End(r)
    /\ UNCHANGED <<status, link, session>>

\* Mutant: they go on.
LoseNothing == UNCHANGED <<status, link, session, req>>

\* The process ends and takes its requests with it.
LoseRequests ==
    /\ req' = [r \in Requests |-> Idle]
    /\ UNCHANGED <<status, link, session>>

-----------------------------------------------------------------------------
(* Properties.                                                             *)

\* A request that comes in when its session was deleted or its user suspended is
\* never let in, whatever other requests of the session are still doing: no
\* refresh brings it back (auth.ts, requireAuth, destroySession, destroyAllSessions).
SignedOutStaysOut ==
    \A r \in Requests : req[r].step = "admitted" => ~req[r].barred

\* A link is marked used if and only if it opened a session: no failure or exit
\* burns a link and opens nothing, or opens a session and leaves the link good
\* (auth.ts, verifyLoginToken: "happen in one transaction").
BurnedForSession ==
    \A l \in Links : link[l].used <=> \E s \in Sessions : session[s].link = l

\* The transport that sends nothing never leaves a user without a link: who does
\* not get one was refused by the mail server or is outside of the allowlist
\* (email.ts, sendMagicLink: "Never in production: assertConfigValid refuses").
LinkReachesUser ==
    \A l \in Links : link[l].mail \in {"delivered", "console"} => link[l].known
=============================================================================
