------------------------------ MODULE MCLogin ------------------------------
EXTENDS Login, TLC

\* A production environment that is accepted, one for development, and each fault
\* of the first by itself.
Good ==
    [production |-> TRUE, database |-> TRUE, integers |-> TRUE, devRoutes |-> FALSE,
     stripe |-> TRUE, provider |-> "resend", credentials |-> TRUE, cookieSecure |-> TRUE,
     sameSite |-> "lax", appUrl |-> "https", origins |-> {}, role |-> "app"]

Development ==
    [Good EXCEPT !.production = FALSE, !.devRoutes = TRUE, !.stripe = FALSE, !.provider = "console",
                 !.credentials = FALSE, !.cookieSecure = FALSE, !.appUrl = "http", !.role = "owner"]

MCConfigs == {Good, Development,
    [Good EXCEPT !.database = FALSE], [Good EXCEPT !.integers = FALSE],
    [Good EXCEPT !.devRoutes = TRUE], [Good EXCEPT !.stripe = FALSE],
    [Good EXCEPT !.provider = "console"], [Good EXCEPT !.provider = "other"],
    [Good EXCEPT !.credentials = FALSE], [Good EXCEPT !.cookieSecure = FALSE],
    [Good EXCEPT !.sameSite = "other"], [Good EXCEPT !.appUrl = "own_port"], [Good EXCEPT !.appUrl = "path"],
    [Good EXCEPT !.origins = {"https", "*"}], [Good EXCEPT !.role = "owner"]}

Symmetry == Permutations(Requests) \union Permutations(Sessions)

MCBuckets == Ips \union Users
=============================================================================
