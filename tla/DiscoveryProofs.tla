--------------------------- MODULE DiscoveryProofs ---------------------------
(***************************************************************************)
(* Proofs about Discovery, for any regions, any number of requests and any *)
(* life of a cache entry.                                                  *)
(*                                                                         *)
(* The argument for the server: an entry that holds sample data is younger *)
(* than the failed fetch that explains it, because a request that met the  *)
(* failure stores its answer within the hour.  The argument for the page:  *)
(* at most one request is heard, and it is for the region selected.        *)
(***************************************************************************)
EXTENDS Discovery, TLAPS

\* What a request holds is explained by a failure, one as old as its step allows.
RequestExplained ==
    \A q \in Requests, s \in Sources :
        /\ request[q].step \in {"idle", "asked"} => request[q].source = Unfetched
        /\ request[q].step = "fetching" /\ request[q].source[s] = "sample"
              => lately[request[q].region][s] = TTL
        /\ request[q].step = "answered" =>
              /\ request[q].source \in Payload
              /\ request[q].source[s] = "sample" => lately[request[q].region][s] > 0

\* An entry is good for no longer than the failure that explains it is remembered.
EntryExplained ==
    \A g \in Regions, s \in Sources :
        /\ cache[g].left > 0 => cache[g].source \in Payload
        /\ cache[g].source[s] = "sample" => lately[g][s] >= cache[g].left

\* The page listens to one request at most, and that one is for the region it shows.
OneHeard ==
    /\ \A q \in Requests : request[q].heard => request[q].step # "idle" /\ request[q].region = region
    /\ \A q, r \in Requests : request[q].heard /\ request[r].heard => q = r

ServerInv == DiscoveryTypeOK /\ RequestExplained /\ EntryExplained

PageInv == OneHeard /\ SelectedIsShown

-----------------------------------------------------------------------------
(* Lemmas.                                                                 *)

\* A request that is built is well formed.
LEMMA AskedType ==
    ASSUME NEW g \in Regions, NEW b \in BOOLEAN
    PROVE  Asked(g, b) \in RequestState
  <1>1. Unfetched \in [Sources -> {"none", "live", "sample"}]
    BY DEF Unfetched
  <1> QED BY <1>1 DEF Asked, RequestState

\* The request that is no request.
LEMMA IdleFacts ==
    /\ Idle \in RequestState
    /\ Idle.step = "idle" /\ Idle.heard = FALSE /\ Idle.source = Unfetched
  <1>1. Unfetched \in [Sources -> {"none", "live", "sample"}]
    BY DEF Unfetched
  <1> QED BY <1>1, DiscoveryAssumption DEF Idle, RequestState

\* A clock that runs down stays where it is once it has.
LEMMA OneLessFacts ==
    ASSUME NEW m \in 0 .. TTL, NEW n \in 0 .. TTL
    PROVE  /\ OneLess(n) \in 0 .. TTL
           /\ m <= n => OneLess(m) <= OneLess(n)
           /\ OneLess(n) > 0 => n > 0
  BY DiscoveryAssumption DEF OneLess

-----------------------------------------------------------------------------
(* The invariant of the server.                                            *)

\* Nothing is cached, and the request of the page has fetched nothing.
LEMMA ServerInit == DiscoveryInit => ServerInv
  <1> SUFFICES ASSUME DiscoveryInit
               PROVE  ServerInv
    OBVIOUS
  <1> PICK p \in Requests : request = [r \in Requests |-> IF r = p THEN Asked(Home, TRUE) ELSE Idle]
    BY DEF DiscoveryInit
  <1>1. DiscoveryTypeOK
    <2>1. cache \in [Regions -> {NoEntry} \union [left : 0 .. TTL, source : Payload]]
      BY DEF DiscoveryInit
    <2>2. request \in [Requests -> RequestState]
      BY AskedType, IdleFacts, DiscoveryAssumption
    <2>3. lately \in [Regions -> [Sources -> 0 .. TTL]]
      BY DiscoveryAssumption DEF DiscoveryInit
    <2> QED BY <2>1, <2>2, <2>3, DiscoveryAssumption DEF DiscoveryInit, DiscoveryTypeOK
  <1>2. RequestExplained
    BY IdleFacts DEF RequestExplained, Asked
  <1>3. EntryExplained
    BY DEF DiscoveryInit, EntryExplained, NoEntry, Unfetched
  <1> QED BY <1>1, <1>2, <1>3 DEF ServerInv

\* A step that leaves the server alone has only its requests to explain.
LEMMA RequestsOnly ==
    ASSUME ServerInv, UNCHANGED serverVars, DiscoveryTypeOK', RequestExplained'
    PROVE  ServerInv'
  BY DEF ServerInv, EntryExplained, serverVars

\* One request becomes another that is well formed and explained.
LEMMA RequestReplaced ==
    ASSUME ServerInv, UNCHANGED serverVars,
           NEW q \in Requests, NEW new \in RequestState,
           request' = [request EXCEPT ![q] = new],
           region' \in Regions, data' \in PageData \union {None}, failed' \in BOOLEAN,
           \A s \in Sources :
              /\ new.step \in {"idle", "asked"} => new.source = Unfetched
              /\ new.step = "fetching" /\ new.source[s] = "sample" => lately[new.region][s] = TTL
              /\ new.step = "answered" =>
                    /\ new.source \in Payload
                    /\ new.source[s] = "sample" => lately[new.region][s] > 0
    PROVE  ServerInv'
  <1>1. DiscoveryTypeOK'
    BY DEF ServerInv, DiscoveryTypeOK, serverVars
  <1>2. RequestExplained'
    BY DEF ServerInv, RequestExplained, DiscoveryTypeOK, serverVars
  <1> QED BY <1>1, <1>2, RequestsOnly

-----------------------------------------------------------------------------
(* Every step of a request, of the process and of the page keeps it.       *)

\* What every step that moves one request relies on.
LEMMA RequestTyped ==
    ASSUME ServerInv, NEW q \in Requests
    PROVE  /\ request[q] \in RequestState
           /\ request[q].step \in {"idle", "asked", "fetching", "answered"}
           /\ request[q].region \in Regions
           /\ request[q].heard \in BOOLEAN
           /\ request[q].source \in [Sources -> {"none", "live", "sample"}]
           /\ region \in Regions /\ data \in PageData \union {None} /\ failed \in BOOLEAN
  BY DEF ServerInv, DiscoveryTypeOK, RequestState

\* A fresh entry answers a request at once, and the failure that explains it is not forgotten.
LEMMA HitInv == ASSUME ServerInv, NEW q \in Requests, Hit(q) PROVE ServerInv'
  <1> DEFINE new == [request[q] EXCEPT !.step = "answered",
                                       !.source = cache[request[q].region].source]
  <1> USE RequestTyped DEF Hit
  <1>1. /\ cache[request[q].region].left > 0
        /\ cache[request[q].region].source \in Payload
        /\ cache[request[q].region].left \in Int
    BY DiscoveryAssumption DEF Cached, ServerInv, EntryExplained, DiscoveryTypeOK, NoEntry
  <1>2. request' = [request EXCEPT ![q] = new]
    BY DEF ServerInv, DiscoveryTypeOK
  <1>3. Payload \subseteq [Sources -> {"none", "live", "sample"}]
    BY DEF Payload
  <1>4. /\ new \in RequestState
        /\ new.step = "answered" /\ new.region = request[q].region
        /\ new.source = cache[request[q].region].source
    BY <1>1, <1>3 DEF RequestState
  <1>5. \A s \in Sources : new.source[s] = "sample" => lately[new.region][s] > 0
    <2> TAKE s \in Sources
    <2>1. lately[new.region][s] \in Int
      BY <1>4, DiscoveryAssumption DEF ServerInv, DiscoveryTypeOK
    <2> QED BY <2>1, <1>1, <1>4 DEF ServerInv, EntryExplained
  <1> HIDE DEF new
  <1> QED BY <1>1, <1>2, <1>4, <1>5, RequestReplaced DEF pageVars

\* A request that misses has fetched nothing yet.
LEMMA MissInv == ASSUME ServerInv, NEW q \in Requests, Miss(q) PROVE ServerInv'
  <1> DEFINE new == [request[q] EXCEPT !.step = "fetching"]
  <1> USE RequestTyped DEF Miss
  <1>1. request' = [request EXCEPT ![q] = new]
    BY DEF ServerInv, DiscoveryTypeOK
  <1>2. /\ new \in RequestState /\ new.step = "fetching"
        /\ \A s \in Sources : new.source[s] = "none"
    BY DEF RequestState, ServerInv, RequestExplained, Unfetched
  <1> HIDE DEF new
  <1> QED BY <1>1, <1>2, RequestReplaced DEF pageVars

\* A live answer needs no explanation.
LEMMA SourceAnswersInv ==
    ASSUME ServerInv, NEW q \in Requests, NEW s \in Sources, SourceAnswers(q, s)
    PROVE  ServerInv'
  <1> DEFINE new == [request[q] EXCEPT !.source = [@ EXCEPT ![s] = "live"]]
  <1> USE RequestTyped DEF SourceAnswers
  <1>1. request' = [request EXCEPT ![q] = new]
    BY DEF ServerInv, DiscoveryTypeOK
  <1>2. /\ new \in RequestState /\ new.step = "fetching" /\ new.region = request[q].region
        /\ new.source = [request[q].source EXCEPT ![s] = "live"]
    BY DEF RequestState
  <1>3. \A t \in Sources : new.source[t] = "sample" => request[q].source[t] = "sample"
    BY <1>2
  <1>4. \A t \in Sources : new.source[t] = "sample" => lately[new.region][t] = TTL
    BY <1>2, <1>3 DEF ServerInv, RequestExplained
  <1> HIDE DEF new
  <1> QED BY <1>1, <1>2, <1>4, RequestReplaced DEF pageVars

\* A failure is remembered for the longest time there is, which explains every sample
\* that it did before.
LEMMA SourceFailsInv ==
    ASSUME ServerInv, NEW q \in Requests, NEW s \in Sources, SourceFails(q, s)
    PROVE  ServerInv'
  <1> DEFINE new == [request[q] EXCEPT !.source = [@ EXCEPT ![s] = "sample"]]
  <1> USE RequestTyped, DiscoveryAssumption DEF SourceFails
  <1>1. request' = [request EXCEPT ![q] = new]
    BY DEF ServerInv, DiscoveryTypeOK
  <1>2. /\ new \in RequestState /\ new.step = "fetching" /\ new.region = request[q].region
        /\ new.source = [request[q].source EXCEPT ![s] = "sample"]
    BY DEF RequestState
  <1> HIDE DEF new
  <1>3. /\ lately' \in [Regions -> [Sources -> 0 .. TTL]]
        /\ lately'[request[q].region][s] = TTL
        /\ \A g \in Regions, t \in Sources :
              /\ lately[g][t] \in 0 .. TTL
              /\ lately'[g][t] = lately[g][t] \/ lately'[g][t] = TTL
    BY DEF ServerInv, DiscoveryTypeOK
  <1>4. DiscoveryTypeOK'
    <2>1. request' \in [Requests -> RequestState]
      BY <1>1, <1>2 DEF ServerInv, DiscoveryTypeOK
    <2> QED BY <2>1, <1>3 DEF ServerInv, DiscoveryTypeOK, pageVars
  <1>5. RequestExplained'
    <2> SUFFICES ASSUME NEW r \in Requests, NEW t \in Sources
                 PROVE  /\ request'[r].step \in {"idle", "asked"} => request'[r].source = Unfetched
                        /\ request'[r].step = "fetching" /\ request'[r].source[t] = "sample"
                              => lately'[request'[r].region][t] = TTL
                        /\ request'[r].step = "answered" =>
                              /\ request'[r].source \in Payload
                              /\ request'[r].source[t] = "sample" => lately'[request'[r].region][t] > 0
      BY DEF RequestExplained
    <2>1. CASE r = q
      <3>1. request'[r] = new
        BY <2>1, <1>1 DEF ServerInv, DiscoveryTypeOK
      <3>2. t # s /\ request'[r].source[t] = "sample" => request[q].source[t] = "sample"
        BY <3>1, <1>2
      <3> QED BY <3>1, <3>2, <1>2, <1>3 DEF ServerInv, RequestExplained
    <2>2. CASE r # q
      <3>1. request'[r] = request[r]
        BY <2>2, <1>1 DEF ServerInv, DiscoveryTypeOK
      <3>2. request[r].region \in Regions
        BY RequestTyped
      <3> QED BY <3>1, <3>2, <1>3 DEF ServerInv, RequestExplained
    <2> QED BY <2>1, <2>2
  <1>6. EntryExplained'
    <2>1. \A g \in Regions : cache[g].left \in 0 .. TTL
      BY DEF ServerInv, DiscoveryTypeOK, NoEntry
    <2> QED BY <2>1, <1>3 DEF ServerInv, EntryExplained
  <1> QED BY <1>4, <1>5, <1>6 DEF ServerInv

\* Whatever is stored is explained by the failures that its own request met.
LEMMA StoreInv == ASSUME ServerInv, NEW q \in Requests, Store(q) PROVE ServerInv'
  <1> DEFINE new == [request[q] EXCEPT !.step = "answered"]
             entry == [left |-> TTL, source |-> request[q].source]
  <1> USE RequestTyped, DiscoveryAssumption DEF Store
  <1>1. request' = [request EXCEPT ![q] = new] /\ cache' = [cache EXCEPT ![request[q].region] = entry]
    BY DEF ServerInv, DiscoveryTypeOK
  <1>2. request[q].source \in Payload
    BY DEF Payload
  <1>3. /\ new \in RequestState /\ new.step = "answered" /\ new.region = request[q].region
        /\ new.source = request[q].source
        /\ entry \in [left : 0 .. TTL, source : Payload]
        /\ entry.left = TTL /\ entry.source = request[q].source
    BY <1>2 DEF RequestState
  <1> HIDE DEF new, entry
  <1>4. \A s \in Sources : request[q].source[s] = "sample" => lately[request[q].region][s] = TTL
    BY DEF ServerInv, RequestExplained
  <1>5. DiscoveryTypeOK'
    <2>1. request' \in [Requests -> RequestState]
      <3>1. request \in [Requests -> RequestState]
        BY DEF ServerInv, DiscoveryTypeOK
      <3> HIDE DEF Store
      <3> QED BY <1>1, <1>3, <3>1
    <2>2. cache' \in [Regions -> {NoEntry} \union [left : 0 .. TTL, source : Payload]]
      BY <1>1, <1>3 DEF ServerInv, DiscoveryTypeOK
    <2> QED BY <2>1, <2>2 DEF ServerInv, DiscoveryTypeOK, pageVars
  <1>6. RequestExplained'
    BY <1>1, <1>2, <1>3, <1>4 DEF ServerInv, RequestExplained, DiscoveryTypeOK
  <1>7. EntryExplained'
    BY <1>1, <1>2, <1>3, <1>4 DEF ServerInv, EntryExplained, DiscoveryTypeOK
  <1> QED BY <1>5, <1>6, <1>7 DEF ServerInv

\* A process that starts holds nothing that needs an explanation.
LEMMA RestartInv == ASSUME ServerInv, Restart PROVE ServerInv'
  <1> USE IdleFacts DEF Restart
  <1>1. DiscoveryTypeOK'
    BY DEF ServerInv, DiscoveryTypeOK
  <1>2. RequestExplained'
    BY DEF RequestExplained
  <1>3. EntryExplained'
    BY DEF EntryExplained, NoEntry, Unfetched
  <1> QED BY <1>1, <1>2, <1>3 DEF ServerInv

\* An hour takes as much from the entry as from the failure that explains it.
LEMMA TickInv == ASSUME ServerInv, Tick PROVE ServerInv'
  <1> USE DiscoveryAssumption DEF Tick
  <1>1. \A g \in Regions :
          /\ cache'[g] = [cache[g] EXCEPT !.left = OneLess(cache[g].left)]
          /\ cache[g].left \in 0 .. TTL
          /\ cache'[g].left = OneLess(cache[g].left)
          /\ cache'[g].source = cache[g].source
    BY DEF ServerInv, DiscoveryTypeOK, NoEntry
  <1>2. \A g \in Regions : cache'[g] \in {NoEntry} \union [left : 0 .. TTL, source : Payload]
    <2> SUFFICES ASSUME NEW g \in Regions
                 PROVE  cache'[g] \in {NoEntry} \union [left : 0 .. TTL, source : Payload]
      OBVIOUS
    <2>1. CASE cache[g] = NoEntry
      BY <1>1, <2>1 DEF NoEntry, OneLess
    <2>2. CASE cache[g] \in [left : 0 .. TTL, source : Payload]
      BY <1>1, <2>2, OneLessFacts
    <2> QED BY <2>1, <2>2 DEF ServerInv, DiscoveryTypeOK
  <1>3. /\ lately' \in [Regions -> [Sources -> 0 .. TTL]]
        /\ \A g \in Regions, s \in Sources :
              lately[g][s] \in 0 .. TTL /\ lately'[g][s] = OneLess(lately[g][s])
    BY OneLessFacts DEF ServerInv, DiscoveryTypeOK
  <1>4. DiscoveryTypeOK'
    BY <1>2, <1>3 DEF ServerInv, DiscoveryTypeOK, pageVars
  <1>5. RequestExplained'
    BY DEF ServerInv, RequestExplained
  <1>6. EntryExplained'
    BY <1>1, <1>3, OneLessFacts DEF ServerInv, EntryExplained
  <1> QED BY <1>4, <1>5, <1>6 DEF ServerInv

\* Another customer's request starts with nothing to explain.
LEMMA AskElsewhereInv ==
    ASSUME ServerInv, NEW q \in Requests, NEW g \in Regions, AskElsewhere(q, g)
    PROVE  ServerInv'
  <1>1. Asked(g, FALSE) \in RequestState
    BY AskedType
  <1> QED BY <1>1, RequestTyped, RequestReplaced DEF AskElsewhere, Asked, pageVars

\* A request that arrives at the page is done with; the page keeps what it brought.
LEMMA ArriveInv == ASSUME ServerInv, NEW q \in Requests, Arrive(q) PROVE ServerInv'
  <1>1. data' \in PageData \union {None}
    BY RequestTyped DEF Arrive, PageData, ServerInv, RequestExplained, Sources
  <1> QED BY <1>1, IdleFacts, RequestTyped, RequestReplaced DEF Arrive

\* A request that fails is done with too.
LEMMA FailRequestInv == ASSUME ServerInv, NEW q \in Requests, FailRequest(q) PROVE ServerInv'
  <1>1. data' \in PageData \union {None} /\ failed' \in BOOLEAN
    BY RequestTyped DEF FailRequest
  <1> QED BY <1>1, IdleFacts, RequestTyped, RequestReplaced DEF FailRequest

\* The page asks anew and listens to nothing else; what is under way goes on unheard.
LEMMA SelectInv ==
    ASSUME ServerInv, NEW q \in Requests, NEW g \in Regions, Select(g, q)
    PROVE  ServerInv'
  <1> USE DEF Select
  <1>1. Asked(g, TRUE) \in RequestState
    BY AskedType
  <1>2. \A r \in Requests :
          \/ request'[r] = Asked(g, TRUE)
          \/ request'[r] = request[r]
          \/ request'[r] = [request[r] EXCEPT !.heard = FALSE]
    OBVIOUS
  <1>3. \A r \in Requests :
          /\ [request[r] EXCEPT !.heard = FALSE] \in RequestState
          /\ [request[r] EXCEPT !.heard = FALSE].step = request[r].step
          /\ [request[r] EXCEPT !.heard = FALSE].region = request[r].region
          /\ [request[r] EXCEPT !.heard = FALSE].source = request[r].source
    BY RequestTyped DEF RequestState
  <1>4. DiscoveryTypeOK'
    <2>1. request' \in [Requests -> RequestState]
      BY <1>1, <1>3, RequestTyped
    <2> QED BY <2>1 DEF ServerInv, DiscoveryTypeOK, serverVars
  <1>5. RequestExplained'
    <2>1. \A r \in Requests :
            \/ request'[r].step = "asked" /\ request'[r].source = Unfetched
            \/ /\ request'[r].step = request[r].step
               /\ request'[r].region = request[r].region
               /\ request'[r].source = request[r].source
      BY <1>2, <1>3 DEF Asked
    <2>2. lately' = lately
      BY DEF serverVars
    <2> HIDE DEF Select
    <2> QED BY <2>1, <2>2 DEF ServerInv, RequestExplained
  <1> QED BY <1>4, <1>5, RequestsOnly

\* Every step keeps what the server owes its answers.
THEOREM ServerStepInv == ServerInv /\ [DiscoveryNext]_discoveryVars => ServerInv'
  <1> SUFFICES ASSUME ServerInv, [DiscoveryNext]_discoveryVars
               PROVE  ServerInv'
    OBVIOUS
  <1>1. CASE Tick
    BY <1>1, TickInv
  <1>2. CASE Restart
    BY <1>2, RestartInv
  <1>3. ASSUME NEW q \in Requests,
               Hit(q) \/ Miss(q) \/ Store(q) \/ Arrive(q) \/ FailRequest(q)
        PROVE  ServerInv'
    BY <1>3, HitInv, MissInv, StoreInv, ArriveInv, FailRequestInv
  <1>4. ASSUME NEW q \in Requests, NEW s \in Sources, SourceAnswers(q, s) \/ SourceFails(q, s)
        PROVE  ServerInv'
    BY <1>4, SourceAnswersInv, SourceFailsInv
  <1>5. ASSUME NEW q \in Requests, NEW g \in Regions, Select(g, q) \/ AskElsewhere(q, g)
        PROVE  ServerInv'
    BY <1>5, SelectInv, AskElsewhereInv
  <1>6. CASE UNCHANGED discoveryVars
    BY <1>6 DEF ServerInv, DiscoveryTypeOK, RequestExplained, EntryExplained,
               discoveryVars, serverVars, pageVars
  <1> QED BY <1>1, <1>2, <1>3, <1>4, <1>5, <1>6 DEF DiscoveryNext

-----------------------------------------------------------------------------
(* The invariant of the page.                                              *)

\* The request the page opens with is heard, and it is for the region shown.
LEMMA PageInit == DiscoveryInit => PageInv
  <1> SUFFICES ASSUME DiscoveryInit
               PROVE  PageInv
    OBVIOUS
  <1> PICK p \in Requests : request = [r \in Requests |-> IF r = p THEN Asked(Home, TRUE) ELSE Idle]
    BY DEF DiscoveryInit
  <1>1. region = Home /\ request[p].heard /\ \A r \in Requests : request[r].heard => r = p
    BY IdleFacts DEF Asked, DiscoveryInit
  <1>2. request[p].step # "idle" /\ request[p].region = Home
    BY DEF Asked
  <1> QED BY <1>1, <1>2 DEF PageInv, OneHeard, SelectedIsShown

\* A step that the page does not notice: who was heard before is heard after, and
\* still under way.
LEMMA Unnoticed ==
    ASSUME PageInv, UNCHANGED pageVars,
           \A r \in Requests :
              /\ request'[r].heard <=> request[r].heard
              /\ request[r].heard => request'[r].step # "idle" /\ request'[r].region = request[r].region
    PROVE  PageInv'
  BY DEF PageInv, OneHeard, SelectedIsShown, Loading, pageVars

\* The server's statements change the step and the sources of a request, no more.
LEMMA ServerUnnoticed ==
    ASSUME DiscoveryTypeOK, PageInv, NEW q \in Requests,
           \/ Hit(q) \/ Miss(q) \/ Store(q)
           \/ \E s \in Sources : SourceAnswers(q, s) \/ SourceFails(q, s)
           \/ \E g \in Regions : AskElsewhere(q, g)
    PROVE  PageInv'
  <1>1. UNCHANGED pageVars
    BY DEF Hit, Miss, Store, SourceAnswers, SourceFails, AskElsewhere
  <1>2. \A r \in Requests \ {q} : request'[r] = request[r]
    BY DEF DiscoveryTypeOK, Hit, Miss, Store, SourceAnswers, SourceFails, AskElsewhere
  <1>3. request[q] \in RequestState
    BY DEF DiscoveryTypeOK
  <1>4. /\ request'[q].heard <=> request[q].heard
        /\ request[q].heard => request'[q].step # "idle" /\ request'[q].region = request[q].region
    <2>1. CASE Hit(q)
      BY <2>1, <1>3 DEF Hit, DiscoveryTypeOK, RequestState
    <2>2. CASE Miss(q)
      BY <2>2, <1>3 DEF Miss, DiscoveryTypeOK, RequestState
    <2>3. CASE Store(q)
      BY <2>3, <1>3 DEF Store, DiscoveryTypeOK, RequestState
    <2>4. ASSUME NEW s \in Sources, SourceAnswers(q, s) \/ SourceFails(q, s)
          PROVE  /\ request'[q].heard = request[q].heard
                 /\ request'[q].step # "idle" /\ request'[q].region = request[q].region
      BY <2>4, <1>3 DEF SourceAnswers, SourceFails, DiscoveryTypeOK, RequestState
    <2>5. ASSUME NEW g \in Regions, AskElsewhere(q, g)
          PROVE  request'[q].heard = FALSE /\ request[q].heard = FALSE
      BY <2>5, IdleFacts DEF AskElsewhere, Asked, DiscoveryTypeOK
    <2> QED BY <2>1, <2>2, <2>3, <2>4, <2>5
  <1>5. \A r \in Requests :
          /\ request'[r].heard <=> request[r].heard
          /\ request[r].heard => request'[r].step # "idle" /\ request'[r].region = request[r].region
    <2> SUFFICES ASSUME NEW r \in Requests
                 PROVE  /\ request'[r].heard <=> request[r].heard
                        /\ request[r].heard =>
                              request'[r].step # "idle" /\ request'[r].region = request[r].region
      OBVIOUS
    <2>1. CASE r = q
      BY <2>1, <1>4
    <2>2. CASE r # q
      BY <2>2, <1>2 DEF PageInv, OneHeard
    <2> QED BY <2>1, <2>2
  <1> QED BY <1>1, <1>5, Unnoticed

\* A restart fails the request that was heard, and the page says so.
LEMMA RestartPage == ASSUME PageInv, Restart PROVE PageInv'
  <1> USE IdleFacts DEF Restart
  <1>1. OneHeard'
    BY DEF OneHeard
  <1>2. SelectedIsShown'
    BY DEF PageInv, SelectedIsShown, Loading
  <1> QED BY <1>1, <1>2 DEF PageInv

\* The cleanup leaves the new request the only one that is heard.
LEMMA SelectPage ==
    ASSUME DiscoveryTypeOK, PageInv, NEW q \in Requests, NEW g \in Regions, Select(g, q)
    PROVE  PageInv'
  <1>1. request'[q].heard /\ request'[q].step # "idle" /\ request'[q].region = g /\ region' = g
    BY DEF Select, Asked
  <1>2. \A r \in Requests \ {q} : ~request'[r].heard
    <2> SUFFICES ASSUME NEW r \in Requests \ {q}
                 PROVE  ~request'[r].heard
      OBVIOUS
    <2>1. request[r] \in RequestState
      BY DEF DiscoveryTypeOK
    <2>2. CASE request[r].heard
      BY <2>1, <2>2 DEF Select, RequestState
    <2>3. CASE ~request[r].heard
      BY <2>3 DEF Select
    <2> QED BY <2>2, <2>3
  <1> QED BY <1>1, <1>2 DEF PageInv, OneHeard, SelectedIsShown

\* The answer that is heard is for the region shown; the others change nothing.
LEMMA ArrivePage ==
    ASSUME DiscoveryTypeOK, RequestExplained, PageInv, NEW q \in Requests, Arrive(q)
    PROVE  PageInv'
  <1>1. request'[q] = Idle /\ \A r \in Requests \ {q} : request'[r] = request[r]
    BY DEF Arrive, DiscoveryTypeOK
  <1>2. OneHeard'
    BY <1>1, IdleFacts DEF Arrive, PageInv, OneHeard
  <1>3. SelectedIsShown'
    <2>1. CASE request[q].heard
      <3>1. data' = [region |-> request[q].region, source |-> request[q].source]
        BY <2>1 DEF Arrive
      <3>2. request[q].region \in Regions /\ request[q].source \in Payload
        BY DEF DiscoveryTypeOK, RequestState, RequestExplained, Arrive, Sources
      <3>3. data' # None
        BY <3>1, <3>2, NoneAssumption DEF PageData
      <3>4. data'.region = region'
        BY <2>1, <3>1 DEF PageInv, OneHeard, Arrive
      <3> QED BY <3>3, <3>4 DEF SelectedIsShown, Loading
    <2>2. CASE ~request[q].heard
      BY <2>2, <1>1, IdleFacts DEF Arrive, PageInv, SelectedIsShown, Loading
    <2> QED BY <2>1, <2>2
  <1> QED BY <1>2, <1>3 DEF PageInv

\* A request that is heard and fails is remembered as failed.
LEMMA FailRequestPage ==
    ASSUME DiscoveryTypeOK, PageInv, NEW q \in Requests, FailRequest(q)
    PROVE  PageInv'
  <1>1. request'[q] = Idle /\ \A r \in Requests \ {q} : request'[r] = request[r]
    BY DEF FailRequest, DiscoveryTypeOK
  <1>2. OneHeard'
    BY <1>1, IdleFacts DEF FailRequest, PageInv, OneHeard
  <1>3. SelectedIsShown'
    BY <1>1, IdleFacts DEF FailRequest, PageInv, SelectedIsShown, Loading
  <1> QED BY <1>2, <1>3 DEF PageInv

\* Every step keeps what the page shows in line with what it listens to.
THEOREM PageStepInv ==
    ServerInv /\ PageInv /\ [DiscoveryNext]_discoveryVars => PageInv'
  <1> SUFFICES ASSUME ServerInv, PageInv, [DiscoveryNext]_discoveryVars
               PROVE  PageInv'
    OBVIOUS
  <1> USE DEF ServerInv
  <1>1. CASE Tick \/ UNCHANGED discoveryVars
    <2>1. UNCHANGED <<request, pageVars>>
      BY <1>1 DEF Tick, discoveryVars
    <2> QED BY <2>1 DEF PageInv, OneHeard, SelectedIsShown, Loading, pageVars
  <1>2. CASE Restart
    BY <1>2, RestartPage
  <1>3. ASSUME NEW q \in Requests, Hit(q) \/ Miss(q) \/ Store(q)
        PROVE  PageInv'
    BY <1>3, ServerUnnoticed
  <1>4. ASSUME NEW q \in Requests, Arrive(q) \/ FailRequest(q)
        PROVE  PageInv'
    BY <1>4, ArrivePage, FailRequestPage
  <1>5. ASSUME NEW q \in Requests, NEW s \in Sources, SourceAnswers(q, s) \/ SourceFails(q, s)
        PROVE  PageInv'
    BY <1>5, ServerUnnoticed
  <1>6. ASSUME NEW q \in Requests, NEW g \in Regions, Select(g, q)
        PROVE  PageInv'
    BY <1>6, SelectPage
  <1>7. ASSUME NEW q \in Requests, NEW g \in Regions, AskElsewhere(q, g)
        PROVE  PageInv'
    BY <1>7, ServerUnnoticed
  <1> QED BY <1>1, <1>2, <1>3, <1>4, <1>5, <1>6, <1>7 DEF DiscoveryNext

-----------------------------------------------------------------------------
(* The theorems.                                                           *)

\* The inductive invariant holds in every state.
THEOREM DiscoveryInv == DiscoverySpec => [](ServerInv /\ PageInv)
  <1>1. DiscoveryInit => ServerInv /\ PageInv
    BY ServerInit, PageInit
  <1>2. ServerInv /\ PageInv /\ [DiscoveryNext]_discoveryVars => ServerInv' /\ PageInv'
    BY ServerStepInv, PageStepInv
  <1> QED BY <1>1, <1>2, PTL DEF DiscoverySpec

\* An answer holds sample data only while a failed fetch of that source for that
\* region explains it, for any regions, requests and life of an entry.
THEOREM DiscoverySample == DiscoverySpec => []SampleMeansFailed
  <1>1. ServerInv => SampleMeansFailed
    BY DEF ServerInv, RequestExplained, SampleMeansFailed
  <1> QED BY <1>1, DiscoveryInv, PTL

\* A page that waits for nothing and whose request did not fail shows the region
\* that is selected, in whatever order the answers came.
THEOREM DiscoverySelected == DiscoverySpec => []SelectedIsShown
  <1>1. PageInv => SelectedIsShown
    BY DEF PageInv
  <1> QED BY <1>1, DiscoveryInv, PTL
=============================================================================
