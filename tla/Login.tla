------------------------------- MODULE Login -------------------------------
(***************************************************************************)
(* The service as a customer who signs in meets it: Server, the login      *)
(* route of routes/api.ts, which asks RateLimit twice, Auth, and the       *)
(* sweeps of scheduler.ts.  The request r of Auth is the caller r of       *)
(* RateLimit while its step is "limited".                                  *)
(***************************************************************************)
EXTENDS Auth, RateLimit

CONSTANT Ips \* the addresses that requests come from

ASSUME LoginAssumption ==
    /\ Callers = Requests
    /\ Ips \intersect Users = {}
    /\ Buckets = Ips \union Users

limitVars == <<hits, consume>>
serverVars == <<config, now>>
loginVars == <<serverVars, authVars, limitVars>>

LoginTypeOK == AuthTypeOK /\ RateLimitTypeOK

LoginInit == AuthInit /\ RateLimitInit

Login(r, u, ip) ==
    /\ StartLogin(r, u)
    /\ consume' = [consume EXCEPT ![r] = Call(ip)]
    /\ UNCHANGED <<serverVars, hits>>

Count(r) == CountHits(r) /\ UNCHANGED <<serverVars, authVars>>

\* First the bucket of the address, then that of the e-mail, each counted when
\* the loop comes to it.
HitIp(r) ==
    /\ consume[r].step = "record" /\ consume[r].bucket \in Ips
    /\ RecordHit(r, Call(req[r].user))
    /\ UNCHANGED <<serverVars, authVars>>

HitEmail(r) ==
    /\ consume[r].step = "record" /\ consume[r].bucket \in Users
    /\ RecordHit(r, NotConsuming)
    /\ PassLimit(r)
    /\ UNCHANGED serverVars

TooMany(r) ==
    /\ Refuses(r)
    /\ RateLimited(r)
    /\ consume' = [consume EXCEPT ![r] = NotConsuming]
    /\ UNCHANGED <<serverVars, hits>>

AuthStatement(r) ==
    /\ \/ GetOrCreateUser(r) \/ IssueLoginToken(r) \/ SendMagicLink(r)
       \/ FindToken(r) \/ OpenSession(r)
       \/ Authenticate(r) \/ Refresh(r) \/ Handle(r)
    /\ UNCHANGED <<serverVars, limitVars>>

Statement(r) == Count(r) \/ HitIp(r) \/ HitEmail(r) \/ TooMany(r) \/ AuthStatement(r)

Abort(r) ==
    /\ AbortRequest(r)
    /\ consume' = [consume EXCEPT ![r] = NotConsuming]
    /\ UNCHANGED <<serverVars, hits>>

Arrive(r) ==
    \/ \E u \in Users, ip \in Ips : Login(r, u, ip)
    \/ /\ \/ \E l \in Links : StartVerify(r, l)
          \/ \E s \in Sessions, logout \in BOOLEAN : StartCall(r, s, logout)
       /\ UNCHANGED <<serverVars, limitVars>>

Beside ==
    \/ /\ \/ \E u \in Users : SuspendUser(u) \/ DestroyAllSessions(u)
          \/ Up /\ (SweepExpiredSessions \/ SweepExpiredLinks)
       /\ UNCHANGED <<serverVars, limitVars>>
    \/ Up /\ SweepHits /\ UNCHANGED <<serverVars, authVars>>

Start == Boot /\ UNCHANGED <<now, authVars, limitVars>>

Stop ==
    /\ Exit
    /\ LoseRequests
    /\ consume' = [r \in Callers |-> NotConsuming]
    /\ UNCHANGED <<now, status, link, session, hits>>

Tick ==
    /\ now < MaxTime
    /\ now' = now + 1
    /\ UNCHANGED <<config, authVars, limitVars>>

LoginNext ==
    \/ \E r \in Requests : Arrive(r) \/ Statement(r) \/ Abort(r)
    \/ Beside \/ Start \/ Stop \/ Tick

LoginSpec == LoginInit /\ [][LoginNext]_loginVars
=============================================================================
