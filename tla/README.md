# TickVPN: a verification project

TLA+ models of the TickVPN backend, the TLC runs that check them on small
instances, and the theorems that TLAPS proves about them for every instance.
Paths below are relative to the repository.

TickVPN sells time: a customer buys minutes, connects a device to a VPN node,
and the minutes run down while the device carries traffic. The backend is a
Node/Express process over PostgreSQL (Prisma); each VPN node runs a Python agent
that reports what it sees and fetches who is allowed. What makes the program
hard is that money and time are changed by reports, webhooks, timers and
requests that overlap, with no isolation above READ COMMITTED and only a few
explicit locks.

## 1. The system

| component | state it keeps | operations | correctness |
| --- | --- | --- | --- |
| wallet (`services/walletService.ts`) | `Wallet.minuteBalance`, the rows of `WalletTransaction` | `applyWalletTransaction(WithTx)`, `getLedger` | a balance is the end of a chain of ledger rows, never negative; a key is applied at most once; what a caller was told is durable |
| metering (`services/meteringService.ts`, `routes/internal.ts`) | `TimeSession`, telemetry of `Device` | `processNodeReport`, `billUser`, `maybeCloseIdleSession`, `closeAbandonedSessions` | session and ledger agree; a minute that passed is billed once, none twice, none across a gap; one ACTIVE session per user; abandoned sessions are closed |
| telemetry and node tokens (`node-agent/agent.py`, `lib/nodeAuth.ts`, `scripts/node-token.ts`, `routes/internal.ts`) | the counters of `wg0`, telemetry of `Device`, `Node.agentTokenHash` | report, `bytesDelta`, mint a token | usage is counted once; what a lost report carried is made up for |
| scheduler (`scheduler.ts`) | timers | close abandoned sessions, sweep rate limits, sweep expired auth | what the timers sweep is nobody's any more |
| checkout and webhook (`routes/checkout.ts`) | `Purchase`, `StripeEvent`, `User.status` | `POST /checkout`, the webhook's three handlers | paid is credited once; refunded is taken back; an event that was answered has had its effect |
| provisioning (`services/provisioningService.ts`, `lib/wireguard.ts`) | `Device` rows, the advisory lock of a node | `provisionDevice`, change-region, `revokeDevice` | addresses unique per node, nodes within capacity, users within their cap, nobody's device touched by another account |
| authorization (`services/authorizationService.ts`) | none, a query | `computeAllowedPeers`, `isDeviceAuthorised` | the two queries agree |
| node agent (`node-agent/agent.py`) | the peers of `wg0` | report loop, reconcile loop, two threads | the interface converges to the allowed set |
| authentication (`lib/auth.ts`, `lib/email.ts`) | `LoginToken`, `Session`, `User.status` | login, verify, logout, `requireAuth`, sweep | a link is used when and only when it opened a session; who is signed out or suspended stays out |
| rate limiting (`services/rateLimitService.ts`) | `RateLimitHit` | `consume`, `sweep` | never more than the limit in a window |
| server and environment (`lib/env.ts`, `lib/prisma.ts`, `server.ts`) | the configuration | `assertConfigValid`, `assertLedgerImmutable`, shutdown | production is never served with a part that does nothing |
| content discovery (`services/contentDiscoveryService.ts`) | a cache per region | `getTrending` | sample data is served only while a failed fetch explains it |
| billing page (`frontend/app/dashboard/billing/page.tsx`) | banner, polling loop | buy, return from Stripe, poll | the page says what the ledger says, and never waits for ever |
| discover page (`frontend/app/dashboard/discover/page.tsx`) | region, payload | select a region | the page shows the region that is selected |
| other pages (`frontend/`) | form fields, device keys in the browser | one request per click | what the answer was is shown |

How they interact. Metering calls the wallet inside its own transaction. The webhook
calls it from outside any. Both meet on the row lock of a wallet and on the unique
index of the idempotency key. Provisioning decides which peers the authorization
query can return; the query also reads the wallet and the user's status, which
metering and the webhook change. The agent pulls the query's answer and pushes
reports into metering, with a token that an operator may replace at any moment. The
scheduler closes sessions behind metering's back. A login goes through two buckets
of the rate limit before a link is issued; a dispute that reaches the webhook
suspends the user whom `requireAuth` is letting in. The billing page polls the
purchase that the webhook completes. Stripe redelivers events, in any order, until
they are answered with 2xx.

What is hard, and listed line by line as "hazards" in `PROJECT.json`:

- overlapping reports: every statement of `billUser` sees what is committed at
  that moment, nothing locks the session row that was read first;
- updates by id of rows that were read earlier (the sweep, the idle close);
- the webhook, which is several commits with the gate row first;
- duplicates, redeliveries and reorderings by Stripe and by agents that time out;
- checks made before a lock and used after it (provisioning), and a window that
  is fixed before the wait for a lock (the rate limit);
- a session that is read, and written again when it was deleted in between;
- reports of one agent that overtake each other after a timeout, and counters
  that start again from zero;
- answers that come to a page in another order than it asked, or never;
- failures between any two statements, and Prisma's transaction timeout.

## 2. The modules

| module | models | over |
| --- | --- | --- |
| `Ledger` | what the wallet promises: atomic posts, at most one per key, never below zero | |
| `Wallet` | `applyWalletTransactionWithTx`, a statement per action | implements `Ledger` |
| `Metering` | `billUser`, idle close, the sweep of abandoned sessions | `Wallet` |
| `Telemetry` | the agent's report, its token, the counters and the `Device` row | |
| `Checkout` | `POST /checkout`, the webhook, Stripe | `Ledger` |
| `BillingPage` | the billing page and `GET /purchases/:id` | `Checkout` |
| `Devices` | the device rows: placed on a node, withdrawn, each in one step; the authorization queries | |
| `Provisioning` | `provisionDevice`, `revokeDevice`, change-region | implements `Devices` |
| `NodeAgent` | the reconcile and report threads of `agent.py`, and the interface | `Devices` |
| `Server` | the environment, the start and the exit of the process | |
| `RateLimit` | `consume` and the sweep of hits | `Server` |
| `Auth` | login tokens, sessions, `requireAuth`, the mail, suspension | `Server` |
| `Login` | the login route, the other routes of authentication, the sweeps | `Auth`, `RateLimit` |
| `Discovery` | `getTrending` and the discover page | |
| `WalletProofs`, `MeteringProofs`, `TelemetryProofs`, `CheckoutProofs`, `BillingProofs`, `ProvisioningProofs`, `LoginProofs`, `DiscoveryProofs` | theorems about the module they are named after (`BillingProofs` about `BillingPage`) | that module, `TLAPS`; `MeteringProofs` is built on `WalletProofs`, `BillingProofs` on `CheckoutProofs` |
| `MCWallet`, `MCMetering`, `MCTelemetry`, `MCCheckout`, `MCBilling`, `MCProvisioning`, `MCNodeAgent`, `MCLogin`, `MCDiscovery` | values of the constants for TLC | the module they are named after |

So there are two seams, each with an abstract specification: `Wallet` implements
`Ledger`, and `Checkout` is built on `Ledger`; `Provisioning` implements
`Devices`, and `NodeAgent` is built on `Devices`. Metering is built on the
detailed `Wallet`, because it runs the wallet's statements in its own
transaction. Two modules are compositions: `Login` of `Auth` and `RateLimit`,
over one `Server` whose exit loses the requests of both, and `BillingPage`,
which adds the customer's tab to `Checkout`.

**Ledger.** `minutes[u]` is a balance, `posted` the set of entries. `Post(r)` is
one whole call of the wallet as its callers may think of it.

**Wallet.** `balance` and `ledger` are the committed rows; `lockedBy` the row
lock of `SELECT ... FOR UPDATE`; `pc`, `req`, `row`, `fresh` the local state of
each call in progress. The actions are the statements in their order: `Begin`,
`FindExisting` or `FindNothing` (the lookup of the key), `LockWallet` or
`Refuse` (the lock, the arithmetic, `InsufficientBalanceError`), `WriteRow` or
`Conflict` (the update and the insert, or P2002), `Commit`. `Fail` rolls a call
back between any two of them. What an open transaction has written is in
`row[c]` and not visible; the insert waits for another open insert of the same
key (`KeyPending`), as a PostgreSQL unique index makes it.

**Metering.** It extends `Wallet`: the call slots of the wallet are the report
handlers. `rep[c]` is the handler's local state, among it the copies of
`lastBilledAt` and `lastSeenAt` that it read; `sess` the committed sessions; `sweep`
the rows that `closeAbandonedSessions` has read and not yet updated. A charge is the
wallet's own statements (`ChargeStatement`), and its `Commit` is in the same action
as the update of the session (`Settle`), because they are in one transaction.
`Charged` keeps the difference the code makes between `lastBilledAt`, computed from
the copy, and `minutesBilled`, an increment. Two columns of the model are history,
which no guard reads: `stale` says that a charge of the session was computed from an
older `lastBilledAt` than the row had when it was written, `late` that the session was
begun or updated by a report older than what it showed, or was charged after it was
closed. The properties use them to say exactly which sessions they are about.
Purchases, refunds and disputes reach
the wallet in one step (`ApplyCredit`), which is what `PromiseKept` allows others to
see of it. Whether a peer qualifies is a choice at every report. Time is in ticks,
`Minute` of them to the billed minute, so that remainders exist.

**Checkout.** It extends `Ledger`: a wallet call is one `Post` or nothing. Each
statement of the webhook is an action that commits by itself: `Receive` (the gate
row), the handler's steps, `Stamp`. `Throw` and `Undo` are the exception and the
catch that deletes the gate row. `Stop` leaves what is written as it is, and has three
causes: a stop of the server, a delete in the catch that fails as well and is swallowed
(`checkout.ts:127`), and an update of `processedAt` that throws (`:131`). `astray` is
history: the events with a delivery that was cut short by the first two, or that was
answered as the duplicate of one still at work. Metering shares the ledger: `Spend` takes minutes under keys of
its own, which `CallersAssumption` says. Stripe is external: `StripeEmits` makes an
event of a payment deliverable, and it stays so until it is answered.
`payment_status` is in the kind of the event: "paid" or "unpaid".

**BillingPage.** `tab` is where the customer's tab is and what the page holds:
the banner, the attempts that are left, and the poll, which is a request, an
answer under way or a wait. `ServePoll` reads the status at the server,
`PollArrives` is what the page makes of the answer, and anything may change in
between. Leaving the page stops the loop; dismissing the banner does not. The
lists of the page and the price estimate are left out.

**Telemetry.** `counter` is what `wg show` prints, `row[p]` the two fields of the
`Device` row, `report[h]` a report at the server with the counters it carries and
the row it has read. The agent waits for one report at a time (`waiting`), but
after a timeout the server goes on with the old one. `minted` and `token` are the
hash in the database and the token of the agent. `moved` and `overtaken` are
history: what a peer has moved since it was installed, and whether an older
report read a row that a newer one wrote. The two directions of a peer start and
reset together and are one counter.

**Devices.** `device` holds the committed rows, one per public key. `Place`
gives a device a node and an address that nobody else has there, while there is
room; a row keeps its user. `Withdraw` is a revocation. The host numbers 10 to
254 are `1 .. LastHost`.

**Provisioning.** It shares `device` with `Devices` and adds the requests:
`call[c].existing` is the row as it was read before the transaction, and
`call[c].node` the node chosen before it. `lock` is the advisory lock. Malformed
keys and names, and inactive regions, are refused before anything is read and
are left out; nodes that are not HEALTHY or hold a placeholder key are left out
of `Nodes`, since no code changes either while the server runs.

**NodeAgent.** `thread[n][t]` is a thread of the agent: what it fetched, and
what it has still to add and to remove since it looked at the interface.
`present` and `route` are the interface, which is external: WireGuard routes an
address to the peer it was last given to, and `route` is that table. The users
that the clauses on `User` and `Wallet` let through are one set, `entitled`,
which changes at any moment. A restart of the agent is a `Fail` of both threads;
`Reboot` empties the interface too.

**Server.** `config` is the environment of the process that serves, or `Down`;
`now` the clock. A start that is refused leaves no trace, so `Boot` is the
accepted start. `ConfigValid` is `assertConfigValid`, one conjunct per check or
group of checks; what an address or an integer looks like is abstracted to
whether the check accepts it.

**RateLimit.** `hits` is the set of `RateLimitHit` rows: a bucket, a `createdAt` and
an id that tells apart the rows of one moment. `consume[r]` is a call with the
window it fixed when it began. The advisory lock is held from `CountHits` to
`RecordHit`, and `createdAt` is some time between the call and the insert.

**Auth.** `link`, `session` and `status` are the rows, `req[r]` a request between
two statements. Every statement commits by itself, but for the two of
`verifyLoginToken` (`OpenSession`). `req[r].barred` is history: the session was
gone, or its user suspended, when the request came in. A mail is delivered, not
delivered, blocked by the allowlist or written to the console, as the environment
says. Suspension comes from the webhook's dispute handler, which `Checkout` has.

**Login.** The login route asks the rate limit for the address of the request,
then for the e-mail address (`HitIp`, `HitEmail`), or answers 429 (`TooMany`).
`Stop` ends the process, with every request of `Auth` and every call of
`RateLimit`; `Abort` is a statement that throws.

**Discovery.** `cache[g]` is what is stored for a region and the hours it is good
for; `request[q]` a request, with what its two sources answered so far. The page
has `region`, `data` and `failed`; `heard` says that it has not cancelled the
request. `lately` is history: how long a failed fetch explains sample data. A
fetch takes seconds and a tick is an hour, so the clock waits for fetches.

Definitions whose comment begins with "Mutant" are faulty variants of the
definition that follows them. No specification uses them; replacing the
definition by its variant must make the run's property fail, which shows that
the property has something to say about the code. `PROJECT.json` pairs them.

## 3. The runs

All bounds are constants of a configuration. Deadlock is checked in every run:
in each module something can always happen.

| run | states | shows |
| --- | --- | --- |
| `wallet` | 0.4 M | two concurrent calls with failures: `ChainIntact`, `KeysUnique`, `ReturnedIsDurable`, the refinement `PromiseKept`; and every call ends (`CallsEnd`) |
| `metering_overlap` | 4.3 M | two reports at once, which may wait for each other at any statement (purchase, refund, sweep, crashes): no minute leaves the wallet that the dashboard does not show (`LedgerMinutesAreShown`); session, clock and ledger agree while no charge is computed from an old copy (`MinutesBilledMatchesLedger`, `ClockMatchesLedger`, `ExactTimeHasPassed`); `OneStreamOfMinutes`; `NoChargeAcrossGap`; closed as run out only when empty (`RanOutMeansEmpty`) |
| `metering_concurrent` | 83 k | two handlers: `OneActiveSession`, `EndedStaysEnded`, and once faults end, `AbandonedIsClosed` and `ReportsEnd` |
| `telemetry` | 1.1 M | two overlapping reports, lost and late ones, a fault: `NeverOvercounted`, and in the end `CountersCatchUp` |
| `checkout_safety` | 1.4 M | two deliveries, throws and stops: what is stamped is done, what was answered is done but for `astray`, the status follows the ledger, only paid is credited (`StampedIsDone`, `AnsweredInTurn`, `StatusFollowsLedger`, `OnlyPaidIsCredited`) |
| `billing` | 64 k | the page over the webhook, two deliveries, throws and stops: what is paid is credited but for `astray` (`PaidIsCredited`), a known refund is taken back (`KnownIsTakenBack`), the page is never ahead of the ledger (`CreditedMeansPosted`) and never waits for ever (`ReturnSettles`) |
| `provisioning` | 0.8 M | nodes within capacity (`NodeWithinCapacity`), `QueriesAgree`, and the refinement `PlacementsKept`, under which addresses are unique and a row keeps its user |
| `node_agent` | 0.2 M | a device that stays disallowed is cut off for good (`DisallowedIsDropped`), one that stays allowed is connected for good (`AllowedIsConnected`) |
| `login` | 1.2 M | two requests, sweeps, a suspension, restarts, 15 environments: `NeverOverLimit`, `SignedOutStaysOut`, `BurnedForSession`, `LinkReachesUser` |
| `discovery` | 3.0 M | two requests of the page or of others, expiry, restarts: `SampleMeansFailed`, `SelectedIsShown` |

The bounds. Two calls, handlers, deliveries or requests at once are what a race
needs; a third only repeats the part of one of them, since every wait in the code is
for one row, one key or one lock. Requests of the wallet are chosen so that a clamp
bites, a debit is refused, and two requests share a key with different amounts. The
clock of `metering_overlap` runs to 4 ticks with a minute of two: enough for a
session, a gap longer than the grace period, and a second session, or for two
charges, or one and a remainder. It has one device, because a report of two is to the
session two reports of one tick, and with two handlers both orders of these are there.
`Requests` bounds the charges an instance may make, where
the code computes any amount; those listed are all that the clock allows. In
`metering_concurrent` a minute is one tick and the clock ends at 2: liveness over
two handlers is what it pays for, and the race is about one insert and one old copy.
In `provisioning` one node has fewer places than its subnet has addresses and the
other more, so that each of the two limits is reached. `node_agent` has one node,
since agents share nothing: a device that moves away is to it a device that is
withdrawn; and two devices, which is what it takes for an address to pass from one
to another. `login` has one link and two sessions, so that two tabs can verify one
link and a session can expire, be refreshed and be deleted around another; a limit
of one hit, a window of one tick and a clock to 2, so that a window slides over hits
that are older and younger than it; and for environments one good for production,
one for development, and each fault of the first by itself. `telemetry` has one peer
with two units of traffic, one with one, and a single fault: a reset, a rotation or
a move each can come between any two statements of two reports. `discovery` has two
regions and an entry that lives for one hour. `billing` polls twice: the first
attempt, another one, and none left; it has one purchase with a refund, since liveness
over two deliveries and a page is what it pays for, and leaves disputes and a second
purchase to `checkout_safety`.

The type invariants are proved where a module has theorems (`MeteringTypeOK`,
`TelemetryTypeOK` and `BillingTypeOK` are not in a run besides). `NodeAgentTypeOK`
has neither: it says what the state is.

### Where the code and its words differ

Two runs expect a violation: each checks one property that a comment of the
repository claims, and TLC's counterexample is a run of the code that breaks
it. `PROJECT.json` quotes the comment for each.

| run | what happens |
| --- | --- |
| `metering_paid_twice` | a report that finds its key applied writes an old `lastBilledAt` over a newer one; the same minute is charged again under a new key (`meteringService.ts:197`) |
| `checkout_crash` | a stop after the gate row: the redelivery is taken for a duplicate, the payment is lost (`checkout.ts:99`) |

The same models contain more behaviours of the kind:

- the second of two reports that computed one key applies nothing and still
  increments `minutesBilled` (`meteringService.ts:199`), and takes the smaller
  amount it finds for an empty wallet (`:191`): the properties except such a session
  by `stale`, and `LedgerMinutesAreShown` is what holds of it too;
- a report older than one that was served before it moves `lastSeenAt` back, or begins
  a session before the end of the last one, and the two then overlap (`:156`, `:198`):
  `OneStreamOfMinutes` excepts it by `late`;
- a duplicate is answered while the first delivery is at work and about to throw
  (`checkout.ts:103`), and a delete that fails in the catch is swallowed (`:127`): both
  lose a payment although the server stays up, and are excepted by `astray`;
- the device cap is not looked at for a key that has a row, a revoked one too
  (`provisioningService.ts:98`), and two requests in two regions hold the locks
  of two nodes and both pass it (`:96`);
- two accounts that register one new key at once both succeed, and the second
  upsert moves the device of the first (`:124`), where the comment at line 84 says
  "Never let one account touch another account's peer": the row keeps its user, which
  is all that `PlacementsKept` promises of it; a change of region provisions a
  device again that was revoked since it was looked up (`api.ts:258`), and
  `viewConfig` in the browser provisions the device it shows;
- a device that was revoked and provisioned again within a pass gets the lowest
  free address; its peer, still on the interface, keeps the old one for ever
  (`agent.py:108`), which is why `AllowedIsConnected` promises a route only while
  no device is given another address;
- the sweep reads a session as quiet, a report bills it, and the sweep closes it
  by id before the minutes it was charged (`meteringService.ts:246`);
- a refund or dispute delivered before its completed session finds no payment intent,
  is answered, and has no effect (`checkout.ts:202`): `Done` counts it as done, and
  `KnownIsTakenBack` is about those whose intent is on record;
- two tabs that read one link before either commits open two sessions
  (`auth.ts:60`), where the comment says that they cannot (`:45`): the update does
  not ask for `usedAt` to be null again;
- an older report that the server works on after a newer one takes the older
  counter for a reset and counts it in full, contrary to the first rule of
  `meteringService.ts`: `NeverOvercounted` excepts it by `overtaken`. A reset that
  is followed by more traffic than was counted before it is not noticed either,
  and what lies between is lost;
- a purchase that goes from PENDING over PAID to REFUNDED between two polls is
  shown as one whose minutes were not added, and dismissing the banner does not
  stop the poll, which shows one again (`billing/page.tsx`); the discover page
  shows "Loading..." for ever when its request failed (`discover/page.tsx`);
- `CORS_ALLOWED_ORIGINS` replaces the origin of `APP_URL`, though its comment
  speaks of adding to it (`env.ts`).

### What holds for a reason that is not obvious

`NodeWithinCapacity` holds although the recheck under the lock is skipped on the
strength of a stale read. Addresses are allocated lowest first by requests that
saw fewer ACTIVE devices than the capacity, so no address is ever above the
capacity-th, and the unique index on (node, address) then leaves no room for one
device too many. Without the index, or with an allocation above the highest
address in use, the node overfills.

`EndedStaysEnded` holds under concurrency because the update after a charge
writes the status only to end the session; `OneActiveSession` because of the
partial unique index alone.

`SignedOutStaysOut` holds although `requireAuth` updates a session it read
earlier: the update is by id and throws when the row is gone, so it never brings
one back, and a suspension is read again by the next request.

`NeverOverLimit` holds although a window may be older than the lock it waited
for: an older window only counts more.

`OnlyPaidIsCredited` and `StatusFollowsLedger` hold although each statement of
the webhook commits by itself: only the completed session could set a refunded
purchase back to paid, and a refund finds the payment only after that session has
written its last.

`DisallowedIsDropped` holds although a thread may add a peer that was cut off
after it fetched: the reconcile loop begins again for ever, so some pass fetches
after the last stale addition. It holds in the end, not within one pass.

## 4. Fairness

- `WalletFairSpec`: each pending statement is run in the
  end. Strong fairness, because PostgreSQL queues the transactions that wait for
  a row. Failures are possible for ever and never required.
- `MeteringFairSpec`: the same for the handlers and for the updates of the
  sweep; weak fairness for the timer (`setInterval`). Faults (a stop of the
  server, a timeout) end at some time: with a fault per sweep nothing could be
  promised. No agent is obliged to report.
- `TelemetrySpec`: the report thread of the agent sends again for ever (`Send`),
  each report at the server goes on (`Statement`), and an operator installs a
  token that was minted (`Reinstall`); all weak, since nothing disables them for
  ever. That traffic and faults end is a premise of `CountersCatchUp`, not an
  assumption.
- `NodeAgentFairSpec`: each thread goes on with its pass, and the reconcile loop
  begins the next one. Failures and reboots end at some time.
- `BillingSpec`: handlers go on with what they have begun; Stripe delivers what
  is unanswered again and again (strong fairness, because a delivery that throws
  disables the next for a while); exceptions and stops end at some time; a request of the
  page is answered or fails, and its timer fires. No customer is obliged to buy
  or to stay.

`CheckoutSpec`, `ProvisioningSpec`, `LoginSpec` and `DiscoverySpec` have safety
properties only, and no fairness.

## 5. The proofs

Every theorem is for any users, keys, events, nodes and regions, and every value of
the limits, and for any number of reports, deliveries and requests at once; it rests on
the assumptions of the module's constants, which are named there.

Each invariant and each action property of a passing run is stated by a theorem.

| theorem | statement |
| --- | --- |
| `WalletStepInv`, `WalletInvariant` | `WalletIInv` is inductive, and holds |
| `WalletTypeCorrect` | `WalletSpec => []WalletTypeOK`, so no balance is negative |
| `WalletChain` | `WalletSpec => []ChainIntact` |
| `WalletKeys` | `WalletSpec => []KeysUnique` |
| `WalletDurable` | `WalletSpec => []ReturnedIsDurable` |
| `WalletRefinesLedger` | `WalletSpec => PromiseKept`, the refinement of `Ledger` |
| `MeteringOneActive` | `MeteringSpec => []OneActiveSession` |
| `MeteringEnded` | `MeteringSpec => EndedStaysEnded` |
| `MeteringCharging` | `MeteringSpec => []ChargingIInv`: the invariant of the wallet, under Metering |
| `MeteringTypeCorrect`, `MeteringChain`, `MeteringKeys` | `MeteringTypeOK`, `ChainIntact` and `KeysUnique` for `MeteringSpec` |
| `MeteringRefinesLedger` | `MeteringSpec => PromiseKept`, the refinement of `Ledger` |
| `MeteringSessions` | `MeteringSpec => []SessionsIInv`: sessions, copies and ledger |
| `MeteringShown` | `MeteringSpec => []LedgerMinutesAreShown` |
| `MeteringMinutes`, `MeteringClock`, `MeteringPaidTime` | `MinutesBilledMatchesLedger`, `ClockMatchesLedger`, `ExactTimeHasPassed` |
| `MeteringOneStream`, `MeteringGap` | `OneStreamOfMinutes`, `NoChargeAcrossGap` |
| `MeteringRanOut` | the action property `RanOutMeansEmpty` |
| `TelemetryStepInv`, `TelemetryInv`, `TelemetryTypeCorrect` | `TelemetryIInv` is inductive, and holds; `TelemetryTypeOK` |
| `TelemetryNeverOvercounts` | `TelemetrySpec => []NeverOvercounted` |
| `CheckoutStamped` | `CheckoutSpec => []StampedIsDone` |
| `CheckoutStatus` | `CheckoutSpec => []StatusFollowsLedger` |
| `CheckoutCredits` | `CheckoutSpec => []OnlyPaidIsCredited` |
| `CheckoutAnswered` | `CheckoutSpec => []AnsweredInTurn` |
| `BillingStepInv`, `BillingInvariant`, `BillingTypeCorrect` | `BillingIInv` is inductive, and holds; `BillingTypeOK` |
| `BillingCredited` | `BillingSpec => []CreditedMeansPosted` |
| `ProvisioningCapacity` | `ProvisioningSpec => []NodeWithinCapacity` |
| `ProvisioningQueries` | `ProvisioningSpec => []QueriesAgree` |
| `ProvisioningImplementsDevices` | `ProvisioningSpec => PlacementsKept`, the refinement of `Devices` |
| `LoginStepInv`, `LoginInv` | `AuthIInv` is inductive, and holds |
| `LimitStepInv`, `LimitInv`, `LoginTypeCorrect` | `LimitIInv`, which adds the rate limit, is inductive, and holds; `LoginTypeOK` |
| `LoginLimit` | `LoginSpec => []NeverOverLimit` |
| `LoginSignedOut` | `LoginSpec => []SignedOutStaysOut` |
| `LoginBurned` | `LoginSpec => []BurnedForSession` |
| `LoginLinks` | `LoginSpec => []LinkReachesUser` |
| `DiscoverySample` | `DiscoverySpec => []SampleMeansFailed` |
| `DiscoverySelected` | `DiscoverySpec => []SelectedIsShown` |

Each module has an inductive invariant, a lemma per action (with a step per
conjunct that the action can disturb), and theorems that read the properties off
it.

**Wallet.** `ChainIntact` is not inductive: a call that is about to commit
could hold a row computed from an old balance. `WalletIInv` adds that a call
which has locked its wallet owns that lock and nobody else does (`LockOwner`),
that the row it holds is what its request makes of the balance as it still is
(`RowCurrent`), that an inserted key is on no committed row and on no other
inserted one (`InsertedAlone`), and that what a call found or published is
committed (`AnswerCommitted`). Only a `Commit` that publishes changes the ledger;
`CommitEffect` says how, once, and both the invariant and the refinement use it.

**Metering, any number of handlers.** Handlers and the sweep hold copies of rows that
may be old, and the invariant of the statuses says nothing about them, because it
need not: no update writes back a status or a user that was read. An update ends the
row or leaves both alone (`Updated`); only the insert makes a row ACTIVE, and the
index lets it in when no other row of the user is.

The wallet's invariant survives its new surroundings: what `Metering` does to the
wallet's variables is a statement of `Wallet`, a stutter, or a purchase in one step.
A purchase commits a row without ever having been a call in progress, so its key must
be none that a charge is inserting, which is an assumption on the constants that the
prefixes of the keys justify (`session:`, `stripe:` and `dev:` in the
code). `ChargingIInv` ties the two machines together: a handler is at its charge
when, and only when, its call of the wallet is open, and that call is a charge of the
session in hand (`HandlerOK`).

**Metering, the sums.** The properties speak of `LedgerMinutes(s)`, a sum over the
rows of a session, which the model computes with a fold. `IsSum(g, S)` says, without
recursion, that `g` sums every subset of `S` one element at a time. Such a `g` exists
for every finite set, and the fold agrees with it: a set without one would have a
subset of least cardinality without one, and there is none
(`LeastNat`, from the well-foundedness of `<`). One more row then adds its amount.

**Metering, the sessions and the ledger.** Any number of handlers may charge one
session from copies of any age, so nothing can be said of a copy by itself. But the
key of a charge has the total of the copy it was computed from (`ChargeOK`), and on an
exact session, whose charges were each written on the row they were computed from, the
clock is the start plus that total. So of all charges from one copy the first to be
inserted gets a row, and every other finds that row, or a clock that has moved on:
either way its write is one that `stale` remembers. A charge that leaves the session
exact is therefore on the row it read, its key is of a greater total than any key on the
ledger (`KeysUsed`), and what it adds to `minutesBilled` and to `lastBilledAt` is what
the ledger took (`Agrees`). The one key that is not of a smaller total is that of a
charge that found the wallet empty, and that has ended the session. Of a session that
is stale, `minutesBilled` still grows by no less than the ledger takes (`Accounted`,
from which `MeteringShown`), since a charge that finds its key applied takes nothing. For
`OneStreamOfMinutes` any two sessions of a user are in order: one is over, and paid up
to no later than the other's start (`Streams`), as long as no report was late.

**Telemetry.** What a row's counter is worth depends on when it was sampled, which no
variable says. The invariant claims that there is an account (`Counted`): for each
report the amount its peer had moved when it was sampled, for the row the amount of
the report that wrote it, such that each use the service may still count fits between
two of these amounts (`Fits`). Reports in flight are ordered by when they were sent
(`Ordered`), and a report that reads a row which a newer one wrote is what `overtaken`
remembers; until then samples and writes are in the same order.

**Checkout.** The row in `gate` lets one delivery of an event in (`HandOK`: a
delivery has its event for itself, and has done what its step comes after). What
it has done is undone by nobody: entries of the ledger stay, a suspension stays.
The status is the difficult part, because `handleCheckoutCompleted` writes PAID
and a refund writes REFUNDED: `IntentOK` says that once the payment intent is on
record the completed session has nothing left to do but its stamp, and
`ReturnsKnown` that minutes are taken back only for an intent on record. The
premise is Stripe's: a checkout session completes once (`CompletesOnce`, an
invariant of `StripeEmits`). For `AnsweredInTurn` (`AnsweredIInv`): the row of an event
that is not astray is stamped, in hand or that of an event that is done, for the only
cut that leaves one behind is at the stamp; so a duplicate that is answered is that of
an event that is done, and no step undoes what an event that is not in hand was for
(`DoneStays`).

**Billing page.** What the page has read of a purchase was so once, and a status PAID
has its entry in the ledger, where entries stay (`TabOK`, over the invariant of
`Checkout`).

**Provisioning.** Capacity is a bound on a number of rows, but the inductive
fact is about addresses: none is above the capacity of its node (`RowOK`), and no
two of a node are equal (`AddressesUnique`). `ActiveFits` counts: so many devices
with different addresses of `1 .. Capacity` are no more than the capacity.
`FreeWithin` is the reverse: fewer than the capacity leave a low address free,
and the allocation takes the lowest. `CallOK` is what a request may rely on at
each step, among it that it holds the lock of its node. The refinement maps
`Upsert` to `Place`, a revocation to `Withdraw`, and all else to a stutter.

**Login.** Rows only move forward, from unissued to stored to deleted, and a
suspension is for good (`Forward`); so what barred a request when it came in bars
it still when its session is looked up. `BurnedForSession` is inductive because
`OpenSession` is one transaction. For `LinkReachesUser`, `ServingValid`: whatever
serves was accepted by `ConfigValid`, so in production the transport is not the
console. `NeverOverLimit` is nearly inductive: who is about to insert holds the lock of
the bucket (`OneRecorder`), so what it counted is still below the limit
(`StillAllowed`), and of the windows that the new row falls into each lies within the
one that was counted, as the window was fixed before the insert. The sweep only
removes rows.

**Discovery.** Two invariants, one per side. An entry that holds sample data is
no younger than the memory of the failed fetch that explains it
(`EntryExplained`), because a request that met the failure stores within the
hour. The page hears at most one request, and it is for the region selected
(`OneHeard`).

Only model-checked is liveness, since there is no ENABLED in the prover: `CallsEnd`,
`AbandonedIsClosed`, `ReportsEnd`, `PaidIsCredited`, `KnownIsTakenBack`,
`ReturnSettles`, `CountersCatchUp`, `DisallowedIsDropped`, `AllowedIsConnected`. The
last two are all that is claimed of `NodeAgent`, which therefore has no theorem.

## 6. What is not modelled, and what is left

Not modelled:

- pricing (`services/pricingService.ts`): a power of a real number, rounded. TLA+ has no
  floating-point numbers, and a model over integers would show nothing about it.
- the routes that only list rows, and the pages that send one request per click
  and show its answer. What they send is in the modules of the routes.
- the wording of mails and errors, headers, the layout of pages, key generation.
- the retired tables of the schema, which no code writes.
- tests, continuous integration, deployment scripts and the seed: they were read
  for what they say of the behaviour, and hold none of the service's.

What could be added, in this order: a composition of `Metering` with `Telemetry`, in
which what qualifies is computed from the counters instead of chosen; `Checkout` over the detailed
`Wallet`; and safety theorems about `NodeAgent`, whose type invariant has no proof.
