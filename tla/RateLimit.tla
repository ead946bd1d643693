----------------------------- MODULE RateLimit -----------------------------
(***************************************************************************)
(* services/rateLimitService.ts: at most Limit hits of a bucket in a       *)
(* window.  The window is fixed when consume is called; the advisory lock  *)
(* of the bucket is then waited for, and held from the count to the hit.   *)
(***************************************************************************)
EXTENDS Server, FiniteSets

CONSTANTS
    Callers, \* the requests that may be served at once
    Buckets,
    Limit,   \* LOGIN_RATE_LIMIT_PER_HOUR
    Window,  \* an hour
    Kept     \* how long hits are kept: six hours

ASSUME RateLimitAssumption ==
    /\ {Limit, Window, Kept} \subseteq Nat
    /\ Window <= Kept

VARIABLES
    hits,   \* the RateLimitHit rows
    consume \* consume[r]: the call of consume that request r is in

NotConsuming == [step |-> "none"]

ConsumeCall == {NotConsuming} \union
    [step : {"count", "record"}, bucket : Buckets, since : (0 - Window) .. MaxTime]

Hit == [bucket : Buckets, createdAt : Time, id : Nat]

RateLimitTypeOK ==
    /\ hits \subseteq Hit /\ IsFiniteSet(hits)
    /\ consume \in [Callers -> ConsumeCall]

RateLimitInit ==
    /\ hits = {}
    /\ consume = [r \in Callers |-> NotConsuming]

Call(b) == [step |-> "count", bucket |-> b, since |-> now - Window]

HitsIn(b, from, to) ==
    Cardinality({h \in hits : h.bucket = b /\ from <= h.createdAt /\ h.createdAt <= to})

Locked(r) == \E q \in Callers \ {r} :
    consume[q].step = "record" /\ consume[q].bucket = consume[r].bucket

Used(r) == HitsIn(consume[r].bucket, consume[r].since, MaxTime)

\* Mutant: without the advisory lock.
AllowsUnlocked(r) == consume[r].step = "count" /\ Used(r) < Limit

Allows(r) == consume[r].step = "count" /\ ~Locked(r) /\ Used(r) < Limit

Refuses(r) == consume[r].step = "count" /\ ~Locked(r) /\ Used(r) >= Limit

\* The lock is taken and the hits are counted.
CountHits(r) ==
    /\ Allows(r)
    /\ consume' = [consume EXCEPT ![r].step = "record"]
    /\ UNCHANGED hits

\* The rows of a bucket and a time are numbered as they come: they are all that a count
\* or a sweep tells apart.
NewHit(b, at) == [bucket |-> b, createdAt |-> at, id |-> HitsIn(b, at, at)]

\* The hit is inserted, the commit frees the lock, and the caller goes on to `next`.
\* createdAt is a time between the call and the insert: its default is now().
RecordHit(r, next) ==
    /\ consume[r].step = "record"
    /\ \E at \in (consume[r].since + Window) .. now :
        hits' = hits \union {NewHit(consume[r].bucket, at)}
    /\ consume' = [consume EXCEPT ![r] = next]

SweepHits ==
    /\ hits' = {h \in hits : h.createdAt >= now - Kept}
    /\ UNCHANGED consume

-----------------------------------------------------------------------------
(* Properties.                                                             *)

\* In no window of any bucket are there more hits than the limit, however the
\* requests overlap and wait for each other (rateLimitService.ts, consume).
NeverOverLimit ==
    \A b \in Buckets, t \in Time : HitsIn(b, t - Window, t) <= Limit
=============================================================================
