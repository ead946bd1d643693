------------------------------- MODULE Server -------------------------------
(***************************************************************************)
(* lib/env.ts, lib/prisma.ts and server.ts: what a deployment's            *)
(* environment may hold, and which of it the process agrees to serve with. *)
(* A start that is refused leaves no trace, so Boot is the accepted start. *)
(***************************************************************************)
EXTENDS Integers

CONSTANTS
    Configs, \* the environments that a deployment may be started with
    Down,    \* no process is serving
    MaxTime  \* bound: the clock stops here

Urls == {"https", "http", "path", "own_port", "*", "invalid"}

Environment ==
    [production : BOOLEAN, database : BOOLEAN, integers : BOOLEAN, devRoutes : BOOLEAN,
     stripe : BOOLEAN, provider : {"console", "resend", "smtp", "other"},
     credentials : BOOLEAN, cookieSecure : BOOLEAN,
     sameSite : {"lax", "strict", "none", "other"}, appUrl : Urls,
     origins : SUBSET Urls, role : {"app", "owner"}]

ASSUME ServerAssumption ==
    /\ Configs \subseteq Environment
    /\ Down \notin Configs
    /\ MaxTime \in Nat

VARIABLES
    config, \* the environment of the process that serves, or Down
    now

Time == 0 .. MaxTime

Up == config # Down

\* CORS_ALLOWED_ORIGINS replaces APP_URL, it does not add to it.
CorsAllowedOrigins(c) == IF c.origins = {} THEN {c.appUrl} ELSE c.origins

\* Mutant: production starts with the transport that sends nothing.
ConfigValidWithConsole(c) ==
    /\ c.database /\ c.integers
    /\ c.production => c.stripe /\ c.cookieSecure /\ ~c.devRoutes
    /\ c.provider \in {"resend", "smtp"} => c.credentials

\* `path` is an https URL that is no bare origin.
ConfigValid(c) ==
    /\ c.database /\ c.integers
    /\ c.production => c.stripe /\ c.cookieSecure /\ ~c.devRoutes
    /\ c.production => c.provider # "console" /\ c.appUrl \in {"https", "path"}
    /\ c.provider # "other"
    /\ c.provider \in {"resend", "smtp"} => c.credentials
    /\ c.appUrl \in {"https", "http", "path"}
    /\ CorsAllowedOrigins(c) \subseteq {"https", "http", "own_port"}
    /\ c.sameSite # "other"
    /\ c.sameSite = "none" => c.cookieSecure

\* A warning only, outside of production.
LedgerImmutable(c) == c.production => c.role = "app"

Boot ==
    /\ ~Up
    /\ \E c \in Configs :
        /\ ConfigValid(c)
        /\ LedgerImmutable(c)
        /\ config' = c

\* A fatal exception, a signal or the supervisor.
Exit ==
    /\ Up
    /\ config' = Down
=============================================================================
