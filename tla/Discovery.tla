----------------------------- MODULE Discovery -----------------------------
(***************************************************************************)
(* services/contentDiscoveryService.ts behind GET /content/trending, and   *)
(* app/dashboard/discover/page.tsx, which asks for it: two external        *)
(* sources, each with sample data to fall back on, a cache per region that *)
(* any number of requests may miss at once, and a page whose answers come  *)
(* in any order.                                                           *)
(***************************************************************************)
EXTENDS Integers

CONSTANTS
    Regions,
    Home,     \* the region of an unknown code, and of a page that opens: "us"
    Requests, \* the requests that may be served at once
    TTL,      \* CACHE_TTL_MS, in hours
    None

ASSUME DiscoveryAssumption ==
    /\ Home \in Regions
    /\ TTL \in Nat \ {0}

Sources == {"apps", "netflix"}

Payload == [Sources -> {"live", "sample"}]

\* What the page may hold.
PageData == [region : Regions, source : Payload]

ASSUME NoneAssumption == None \notin PageData

VARIABLES
    cache,   \* cache[g]: where the payload of g is from, and the hours it is good for
    request, \* request[q]: the request q; heard: the page has not cancelled it
    region,  \* the region the page shows as selected
    data,    \* the payload of the page, or None
    failed,  \* the latest request of the page failed (history)
    lately   \* lately[g][s]: the hours left of TTL since a fetch of s for g failed (history)

serverVars == <<cache, lately>>
pageVars == <<region, data, failed>>
discoveryVars == <<serverVars, request, pageVars>>

RequestState == [step : {"idle", "asked", "fetching", "answered"}, region : Regions,
                 heard : BOOLEAN, source : [Sources -> {"none", "live", "sample"}]]

Unfetched == [s \in Sources |-> "none"]

Idle == [step |-> "idle", region |-> Home, heard |-> FALSE, source |-> Unfetched]

NoEntry == [left |-> 0, source |-> Unfetched]

DiscoveryTypeOK ==
    /\ cache \in [Regions -> {NoEntry} \union [left : 0 .. TTL, source : Payload]]
    /\ request \in [Requests -> RequestState]
    /\ region \in Regions
    /\ data \in PageData \union {None}
    /\ failed \in BOOLEAN
    /\ lately \in [Regions -> [Sources -> 0 .. TTL]]

Asked(g, heard) == [step |-> "asked", region |-> g, heard |-> heard, source |-> Unfetched]

\* The page opens, and its effect asks for the region it starts with.
DiscoveryInit ==
    /\ cache = [g \in Regions |-> NoEntry]
    /\ \E q \in Requests :
        request = [r \in Requests |-> IF r = q THEN Asked(Home, TRUE) ELSE Idle]
    /\ region = Home /\ data = None /\ failed = FALSE
    /\ lately = [g \in Regions |-> [s \in Sources |-> 0]]

-----------------------------------------------------------------------------
(* The server.                                                             *)

\* Another customer asks, with a region this page may not even offer.
AskElsewhere(q, g) ==
    /\ request[q] = Idle
    /\ request' = [request EXCEPT ![q] = Asked(g, FALSE)]
    /\ UNCHANGED <<serverVars, pageVars>>

\* Mutant: an entry is good for as long as the process is.
CachedForGood(g) == cache[g] # NoEntry

Cached(g) == cache[g].left > 0

Hit(q) ==
    /\ request[q].step = "asked"
    /\ Cached(request[q].region)
    /\ request' = [request EXCEPT ![q].step = "answered",
                                  ![q].source = cache[request[q].region].source]
    /\ UNCHANGED <<serverVars, pageVars>>

Miss(q) ==
    /\ request[q].step = "asked"
    /\ ~Cached(request[q].region)
    /\ request' = [request EXCEPT ![q].step = "fetching"]
    /\ UNCHANGED <<serverVars, pageVars>>

\* fetchTopApps and fetchNetflixTop10, side by side.
SourceAnswers(q, s) ==
    /\ request[q].step = "fetching" /\ request[q].source[s] = "none"
    /\ request' = [request EXCEPT ![q].source[s] = "live"]
    /\ UNCHANGED <<serverVars, pageVars>>

\* An error, a timeout, an empty answer or one in an unexpected shape.
SourceFails(q, s) ==
    /\ request[q].step = "fetching" /\ request[q].source[s] = "none"
    /\ request' = [request EXCEPT ![q].source[s] = "sample"]
    /\ lately' = [lately EXCEPT ![request[q].region][s] = TTL]
    /\ UNCHANGED <<cache, pageVars>>

\* Whatever another request has stored since this one missed.
Store(q) ==
    /\ request[q].step = "fetching"
    /\ \A s \in Sources : request[q].source[s] # "none"
    /\ cache' = [cache EXCEPT ![request[q].region] = [left |-> TTL, source |-> request[q].source]]
    /\ request' = [request EXCEPT ![q].step = "answered"]
    /\ UNCHANGED <<lately, pageVars>>

\* The process restarts, and the cache with it; requests under way fail.
Restart ==
    /\ cache' = [g \in Regions |-> NoEntry]
    /\ failed' = (failed \/ \E q \in Requests : request[q].heard)
    /\ data' = IF \E q \in Requests : request[q].heard THEN None ELSE data
    /\ request' = [q \in Requests |-> Idle]
    /\ UNCHANGED <<lately, region>>

OneLess(n) == IF n = 0 THEN 0 ELSE n - 1

\* A fetch takes seconds and a tick is an hour.
Tick ==
    /\ \A q \in Requests : request[q].step \in {"idle", "asked"}
    /\ cache' = [g \in Regions |-> [cache[g] EXCEPT !.left = OneLess(@)]]
    /\ lately' = [g \in Regions |-> [s \in Sources |-> OneLess(lately[g][s])]]
    /\ UNCHANGED <<request, pageVars>>

-----------------------------------------------------------------------------
(* The page.                                                               *)

\* Mutant: the effect has no cleanup.
SelectOnly(g, q) ==
    /\ g # region
    /\ request[q] = Idle
    /\ region' = g /\ failed' = FALSE
    /\ request' = [request EXCEPT ![q] = Asked(g, TRUE)]
    /\ UNCHANGED <<serverVars, data>>

\* The cleanup cancels the request of the region before.
Select(g, q) ==
    /\ g # region
    /\ request[q] = Idle
    /\ region' = g /\ failed' = FALSE
    /\ request' = [r \in Requests |->
           IF r = q THEN Asked(g, TRUE)
           ELSE IF request[r].heard THEN [request[r] EXCEPT !.heard = FALSE] ELSE request[r]]
    /\ UNCHANGED <<serverVars, data>>

Arrive(q) ==
    /\ request[q].step = "answered"
    /\ data' = IF request[q].heard
               THEN [region |-> request[q].region, source |-> request[q].source] ELSE data
    /\ request' = [request EXCEPT ![q] = Idle]
    /\ UNCHANGED <<serverVars, region, failed>>

\* A 401, a 503 or no answer at all; the page does not ask again.
FailRequest(q) ==
    /\ request[q].step # "idle"
    /\ data' = IF request[q].heard THEN None ELSE data
    /\ failed' = (failed \/ request[q].heard)
    /\ request' = [request EXCEPT ![q] = Idle]
    /\ UNCHANGED <<serverVars, region>>

\* "Loading..." is what the page shows for data of another region too.
Loading == data = None \/ data.region # region

DiscoveryNext ==
    \/ Tick \/ Restart
    \/ \E q \in Requests :
        \/ Hit(q) \/ Miss(q) \/ Store(q) \/ Arrive(q) \/ FailRequest(q)
        \/ \E s \in Sources : SourceAnswers(q, s) \/ SourceFails(q, s)
        \/ \E g \in Regions : Select(g, q) \/ AskElsewhere(q, g)

DiscoverySpec == DiscoveryInit /\ [][DiscoveryNext]_discoveryVars

-----------------------------------------------------------------------------
(* Properties.                                                             *)

\* Sample data is shown only if a live fetch of that source for that region failed
\* within the life of a cache entry, whichever request fetched it, stored it last or
\* found it (contentDiscoveryService.ts: "only ever shown if the live fetch fails").
SampleMeansFailed ==
    \A q \in Requests, s \in Sources :
        request[q].step = "answered" /\ request[q].source[s] = "sample"
            => lately[request[q].region][s] > 0

\* Once the page waits for nothing, it shows the region that is selected, unless the
\* request for it failed: no answer for an earlier region is left on it, whatever
\* order the answers came in (discover/page.tsx, the effect and its cleanup).
SelectedIsShown ==
    (\A q \in Requests : ~request[q].heard) /\ ~failed => ~Loading
=============================================================================
