------------------------------ MODULE Metering ------------------------------
(***************************************************************************)
(* services/meteringService.ts: how the reports of the node agents become  *)
(* minutes off a wallet, and the timer of scheduler.ts that closes the     *)
(* sessions nobody reports any more.  It runs over Wallet: the charge of a *)
(* tick is a call of applyWalletTransactionWithTx inside the transaction   *)
(* that also reads and updates the session.                                *)
(*                                                                         *)
(* A handler is one POST /internal/report being served.  Handlers overlap: *)
(* every node reports every 10 s, and an agent whose request timed out     *)
(* reports again while the server is still at work on the first one.  As   *)
(* in Wallet, each statement sees what is committed.  The last statement   *)
(* of a transaction is one action with its COMMIT.                         *)
(*                                                                         *)
(* Time advances in ticks, Minute of them to the billed minute.  Whether a *)
(* peer qualifies is decided by the telemetry of its device, which is not  *)
(* part of this module: a peer qualifies or not, at any report.            *)
(***************************************************************************)
EXTENDS Wallet, FiniteSetsExt

CONSTANTS
    Devices,    \* the devices a node may report as peers
    Owner,      \* Owner[d]: the user that device d belongs to
    Sessions,   \* the ids that TimeSession rows may get (a bound)
    NoSession,  \* the id of no session
    Minute,     \* ticks in a billed minute (60 s)
    IdleEnd,    \* IDLE_END_SECONDS, in ticks
    TxTimeout,  \* Prisma's limit on an interactive transaction, in ticks, rounded up
    ReportLimit,\* no report is served for longer than this, in ticks (a bound)
    MaxTime,    \* the clock stops here (a bound)
    Credits     \* the changes that checkout and the webhooks make to wallets

ASSUME MeteringAssumption ==
    /\ Owner \in [Devices -> Users]
    /\ NoSession \notin Sessions
    /\ Minute \in Nat \ {0}
    /\ IdleEnd \in Nat
    /\ TxTimeout \in Nat
    /\ ReportLimit \in Nat
    /\ MaxTime \in Nat
    /\ Credits \subseteq Requests
    /\ \A r \in Credits : r.key[1] # "session"  \* they have keys of their own

VARIABLES
    now,        \* the clock of the server
    sess,       \* sess[s]: the committed TimeSession row s
    rep,        \* rep[c]: the local state of handler c
    sweep       \* what closeAbandonedSessions has read and not yet closed

meterVars == <<now, sess, rep, sweep>>
vars == <<walletVars, meterVars>>

Time == 0 .. MaxTime

\* stale and late are history, no columns, and no guard reads them.  stale: a charge was
\* written that had been computed from an older lastBilledAt than the row's.  late: the
\* session was begun or updated by a report whose clock was behind that of one served
\* before it for the same user, or was charged after it was closed.
SessionRow == [user : Users, status : {"NONE", "ACTIVE", "ENDED"}, startsAt : Time,
               lastBilledAt : Int, lastSeenAt : Time, minutesBilled : Nat,
               endedAt : Time, reason : {"none", "idle", "abandoned", "ran_out"},
               stale : BOOLEAN, late : BOOLEAN]

\* Where handler c stands: between two peers, or before a statement of billUser
\* or of maybeCloseIdleSession.
HandlerSteps == {"off", "peers", "gap", "wallet", "create", "touch", "charge", "idle"}

Handler == [step : HandlerSteps, at : Time, todo : SUBSET Devices,
            user : Users, sid : Sessions \union {NoSession}, began : Time,
            lastBilledAt : Int, lastSeenAt : Time]

MeteringTypeOK ==
    /\ now \in Time
    /\ sess \in [Sessions -> SessionRow]
    /\ rep \in [Calls -> Handler]
    /\ sweep \subseteq [sid : Sessions, lastSeenAt : Time]

-----------------------------------------------------------------------------
(* Helpers.                                                                *)

AnyUser == CHOOSE u \in Users : TRUE

NoRow == [user |-> AnyUser, status |-> "NONE", startsAt |-> 0, lastBilledAt |-> 0,
          lastSeenAt |-> 0, minutesBilled |-> 0, endedAt |-> 0, reason |-> "none",
          stale |-> FALSE, late |-> FALSE]

Off == [step |-> "off", at |-> 0, todo |-> {}, user |-> AnyUser, sid |-> NoSession,
        began |-> 0, lastBilledAt |-> 0, lastSeenAt |-> 0]

Active(s, u) == sess[s].status = "ACTIVE" /\ sess[s].user = u

Used == {s \in Sessions : sess[s].status # "NONE"}

NoneActive(u) == \A s \in Sessions : ~Active(s, u)

\* The id of the next row: one that no row has.
FreshId == CHOOSE s \in Sessions : sess[s].status = "NONE"

\* The report's clock against a lastSeenAt: more than the grace period ago.
Quiet(at, seen) == at - seen > IdleEnd

\* Mutant: Math.ceil.
ElapsedCeil(at, billedAt) == (at - billedAt + Minute - 1) \div Minute

\* Mutant: a minute that has begun is billed at once, later ones when they are over.
ElapsedAtLeastOne(at, billedAt) ==
    IF at > billedAt /\ at - billedAt < Minute THEN 1 ELSE (at - billedAt) \div Minute

\* Whole minutes from the last billed one to the report's clock (Math.floor).
Elapsed(at, billedAt) == (at - billedAt) \div Minute

\* The call of the wallet for `minutes` of session s, whose running total is n.
Charge(u, s, n, minutes) ==
    [user |-> u, key |-> <<"session", s, n>>, amount |-> -minutes, clamp |-> TRUE]

End(r, at, why) == [r EXCEPT !.status = "ENDED", !.endedAt = at, !.reason = why]

\* No transaction other than c's has updated row s without committing yet: only
\* the close after a gap is followed by more statements.
RowFree(c, s) ==
    \A d \in Calls \ {c} : ~(rep[d].step \in {"wallet", "create"} /\ rep[d].sid = s)

InBilling(c) == rep[c].step \in {"gap", "wallet", "create", "touch", "charge"}

\* The row that c's own uncommitted close left, published by its COMMIT.
ClosedByGap(c) ==
    IF rep[c].sid = NoSession THEN sess
    ELSE [sess EXCEPT ![rep[c].sid] = End(@, rep[c].lastSeenAt, "idle")]

\* Report c is overtaken: one with a later clock has been served for row r.
Overtaken(c, r) == r.lastSeenAt > rep[c].at

\* The row that report c inserts for user u.
NewSession(c, u) ==
    [NoRow EXCEPT !.user = u, !.status = "ACTIVE", !.startsAt = rep[c].at,
                  !.lastBilledAt = rep[c].at, !.lastSeenAt = rep[c].at,
                  !.late = \E s \in Used : sess[s].user = u /\ Overtaken(c, sess[s])]

\* Handler c is done with its peer.
PeerDone(c) == rep' = [rep EXCEPT ![c] = [Off EXCEPT !.step = "peers", !.at = rep[c].at,
                                                     !.todo = rep[c].todo]]

\* Handler c is at work on device d: it has read session s and goes on at step.
PeerTaken(c, d, s, step) ==
    rep' = [rep EXCEPT ![c] =
              [step |-> step, at |-> rep[c].at, todo |-> rep[c].todo \ {d},
               user |-> Owner[d], sid |-> s, began |-> now,
               lastBilledAt |-> IF s = NoSession THEN 0 ELSE sess[s].lastBilledAt,
               lastSeenAt |-> IF s = NoSession THEN 0 ELSE sess[s].lastSeenAt]]

-----------------------------------------------------------------------------
(* POST /internal/report: one handler.                                     *)

MeteringInit ==
    /\ WalletInit
    /\ now = 0
    /\ sess = [s \in Sessions |-> NoRow]
    /\ rep = [c \in Calls |-> Off]
    /\ sweep = {}

\* A report arrives; its clock is read once, for all its peers.
StartReport(c) ==
    /\ rep[c].step = "off"
    /\ \E peers \in SUBSET Devices \ {{}} :
         rep' = [rep EXCEPT ![c] = [Off EXCEPT !.step = "peers", !.at = now, !.todo = peers]]
    /\ UNCHANGED <<walletVars, now, sess, sweep>>

EndReport(c) ==
    /\ rep[c].step = "peers"
    /\ rep[c].todo = {}
    /\ rep' = [rep EXCEPT ![c] = Off]
    /\ UNCHANGED <<walletVars, now, sess, sweep>>

\* billUser opens its transaction and looks for the user's ACTIVE session; what
\* it read decides the next statement.  Nothing locks the row it read.
BillNoSession(c, d) ==
    /\ NoneActive(Owner[d])
    /\ PeerTaken(c, d, NoSession, "wallet")
    /\ UNCHANGED walletVars

BillAfterGap(c, d) ==
    /\ \E s \in Sessions :
         /\ Active(s, Owner[d])
         /\ Quiet(rep[c].at, sess[s].lastSeenAt)
         /\ PeerTaken(c, d, s, "gap")
    /\ UNCHANGED walletVars

BillSameMinute(c, d) ==
    /\ \E s \in Sessions :
         /\ Active(s, Owner[d])
         /\ ~Quiet(rep[c].at, sess[s].lastSeenAt)
         /\ Elapsed(rep[c].at, sess[s].lastBilledAt) <= 0
         /\ PeerTaken(c, d, s, "touch")
    /\ UNCHANGED walletVars

\* Mutant: rule 3 forgotten, the gap is billed.
BillElapsedAcrossGap(c, d) ==
    \E s \in Sessions :
        LET minutes == Elapsed(rep[c].at, sess[s].lastBilledAt)
        IN  /\ Active(s, Owner[d])
            /\ minutes > 0
            /\ Charge(Owner[d], s, sess[s].minutesBilled, minutes) \in Requests
            /\ Begin(c, Charge(Owner[d], s, sess[s].minutesBilled, minutes))
            /\ PeerTaken(c, d, s, "charge")

\* Requests bounds the charges of a checked instance: the code computes any amount.
BillElapsed(c, d) ==
    \E s \in Sessions :
        LET minutes == Elapsed(rep[c].at, sess[s].lastBilledAt)
        IN  /\ Active(s, Owner[d])
            /\ ~Quiet(rep[c].at, sess[s].lastSeenAt)
            /\ minutes > 0
            /\ Charge(Owner[d], s, sess[s].minutesBilled, minutes) \in Requests
            /\ Begin(c, Charge(Owner[d], s, sess[s].minutesBilled, minutes))
            /\ PeerTaken(c, d, s, "charge")

\* maybeCloseIdleSession, outside any transaction: its two statements.
IdleFound(c, d) ==
    /\ \E s \in Sessions :
         /\ Active(s, Owner[d])
         /\ Quiet(rep[c].at, sess[s].lastSeenAt)
         /\ PeerTaken(c, d, s, "idle")
    /\ UNCHANGED walletVars

IdleNotFound(c, d) ==
    /\ \A s \in Sessions : Active(s, Owner[d]) => ~Quiet(rep[c].at, sess[s].lastSeenAt)
    /\ rep' = [rep EXCEPT ![c].todo = @ \ {d}]
    /\ UNCHANGED walletVars

TakePeer(c) ==
    /\ rep[c].step = "peers"
    /\ \E d \in rep[c].todo :
         \/ BillNoSession(c, d)
         \/ BillAfterGap(c, d)
         \/ BillSameMinute(c, d)
         \/ BillElapsed(c, d)
         \/ IdleFound(c, d)
         \/ IdleNotFound(c, d)
    /\ UNCHANGED <<now, sess, sweep>>

\* update ... where id: closes the row that was read, whatever it holds by now.
CloseIdle(c) ==
    LET s == rep[c].sid
    IN  /\ rep[c].step = "idle"
        /\ RowFree(c, s)
        /\ sess' = [sess EXCEPT ![s] = End(@, rep[c].lastSeenAt, "idle")]
        /\ PeerDone(c)
        /\ UNCHANGED <<walletVars, now, sweep>>

\* Rule 3: the session is closed where it was last seen.  The update holds the
\* row until the transaction ends and is not visible to others before.
CloseAfterGap(c) ==
    /\ rep[c].step = "gap"
    /\ RowFree(c, rep[c].sid)
    /\ rep' = [rep EXCEPT ![c].step = "wallet"]
    /\ UNCHANGED <<walletVars, now, sess, sweep>>

\* No session to continue: with an empty wallet there is no new one either.
RefuseSession(c) ==
    /\ rep[c].step = "wallet"
    /\ balance[rep[c].user] <= 0
    /\ sess' = ClosedByGap(c)
    /\ PeerDone(c)
    /\ UNCHANGED <<walletVars, now, sweep>>

AllowSession(c) ==
    /\ rep[c].step = "wallet"
    /\ balance[rep[c].user] > 0
    /\ rep' = [rep EXCEPT ![c].step = "create"]
    /\ UNCHANGED <<walletVars, now, sess, sweep>>

\* Mutant: no partial unique index.
CreateSessionNoIndex(c) ==
    /\ rep[c].step = "create"
    /\ \E s \in Sessions : sess[s].status = "NONE"
    /\ sess' = [ClosedByGap(c) EXCEPT ![FreshId] = NewSession(c, rep[c].user)]
    /\ PeerDone(c)
    /\ UNCHANGED <<walletVars, now, sweep>>

\* The partial unique index lets the insert in only if no ACTIVE row of the user
\* is left, the one that this transaction closed aside.
CreateSession(c) ==
    /\ rep[c].step = "create"
    /\ \A s \in Sessions \ {rep[c].sid} : ~Active(s, rep[c].user)
    /\ \E s \in Sessions : sess[s].status = "NONE"
    /\ sess' = [ClosedByGap(c) EXCEPT ![FreshId] = NewSession(c, rep[c].user)]
    /\ PeerDone(c)
    /\ UNCHANGED <<walletVars, now, sweep>>

Touched(c, r) == [r EXCEPT !.lastSeenAt = rep[c].at, !.late = @ \/ Overtaken(c, r)]

\* Less than a minute since the last billed one: only lastSeenAt moves.
Touch(c) ==
    /\ rep[c].step = "touch"
    /\ RowFree(c, rep[c].sid)
    /\ sess' = [sess EXCEPT ![rep[c].sid] = Touched(c, @)]
    /\ PeerDone(c)
    /\ UNCHANGED <<walletVars, now, sweep>>

\* The wallet's statements.  Charges are clamped, so none of them refuses.
ChargeStatement(c) ==
    /\ rep[c].step = "charge"
    /\ FindExisting(c) \/ FindNothing(c) \/ LockWallet(c) \/ WriteRow(c)
    /\ UNCHANGED meterVars

\* The columns that a charge moves.
Moved(c, r, billed, minutes) ==
    [r EXCEPT !.lastBilledAt = rep[c].lastBilledAt + billed * Minute,
              !.lastSeenAt = rep[c].at,
              !.minutesBilled = @ + minutes,
              !.stale = @ \/ r.lastBilledAt # rep[c].lastBilledAt,
              !.late = @ \/ r.status # "ACTIVE" \/ Overtaken(c, r)]

\* Mutants of the update after a charge: minutesBilled counts the minutes asked for; ...
ChargedRequested(c, r) == Moved(c, r, -row[c].amount, -req[c].amount)

\* ... the clock jumps to the report, so an unbilled remainder is lost; ...
ChargedToNow(c, r) ==
    [Moved(c, r, 0, -row[c].amount) EXCEPT !.lastBilledAt = rep[c].at]

\* ... `<=` for `<` in ranOut; ...
ChargedAlwaysOut(c, r) ==
    End(Moved(c, r, -row[c].amount, -row[c].amount), rep[c].at, "ran_out")

\* ... minutesBilled is computed from the row as it was read, as lastBilledAt is; ...
ChargedFromCopy(c, r) ==
    LET billed == -row[c].amount
    IN  [Moved(c, r, billed, billed) EXCEPT !.minutesBilled = req[c].key[3] + billed]

\* ... the whole row that was read is written back, its status too.
ChargedWholeRow(c, r) ==
    [Moved(c, r, -row[c].amount, -row[c].amount) EXCEPT !.status = "ACTIVE"]

\* The session after a charge of which `billed` minutes were applied: lastBilledAt
\* is computed from the row as it was read, minutesBilled is an increment.
Charged(c, r) ==
    LET billed == -row[c].amount
        ranOut == billed < -req[c].amount \/ row[c].after = 0
        moved == Moved(c, r, billed, billed)
    IN  IF ranOut THEN End(moved, rep[c].at, "ran_out") ELSE moved

\* timeSession.update and COMMIT: the debit and the session move together.
Settle(c) ==
    LET s == rep[c].sid
    IN  /\ rep[c].step = "charge"
        /\ RowFree(c, s)
        /\ Commit(c)
        /\ sess' = [sess EXCEPT ![s] = Charged(c, @)]
        /\ PeerDone(c)
        /\ UNCHANGED <<now, sweep>>

\* Mutant: the violation of the partial unique index is caught and tried again.
SessionConflictRetried(c) ==
    /\ rep[c].step = "create"
    /\ \E s \in Sessions \ {rep[c].sid} : Active(s, rep[c].user)
    /\ UNCHANGED vars

\* An exception leaves processNodeReport: the rest of the report is not served.
\* It is P2002 from one of the two unique indexes ...
SessionConflict(c) ==
    /\ rep[c].step = "create"
    /\ \E s \in Sessions \ {rep[c].sid} : Active(s, rep[c].user)
    /\ rep' = [rep EXCEPT ![c] = Off]
    /\ UNCHANGED <<walletVars, now, sess, sweep>>

ChargeConflict(c) ==
    /\ rep[c].step = "charge"
    /\ Conflict(c)
    /\ rep' = [rep EXCEPT ![c] = Off]
    /\ UNCHANGED <<now, sess, sweep>>

\* ... or the transaction timeout, a lost connection or a restart of the server.
AbortReport(c) ==
    /\ rep[c].step # "off"
    /\ IF rep[c].step = "charge" THEN Fail(c) ELSE UNCHANGED walletVars
    /\ rep' = [rep EXCEPT ![c] = Off]
    /\ UNCHANGED <<now, sess, sweep>>

HandlerStatement(c) ==
    \/ EndReport(c)
    \/ TakePeer(c)
    \/ CloseIdle(c)
    \/ CloseAfterGap(c)
    \/ RefuseSession(c)
    \/ AllowSession(c)
    \/ CreateSession(c)
    \/ Touch(c)
    \/ ChargeStatement(c)
    \/ Settle(c)
    \/ SessionConflict(c)
    \/ ChargeConflict(c)

-----------------------------------------------------------------------------
(* scheduler.ts: closeAbandonedSessions, every minute.                     *)

\* Mutant: the grace period counted twice.
SweepReadLate ==
    LET stale == {s \in Sessions : sess[s].status = "ACTIVE"
                                     /\ Quiet(now, sess[s].lastSeenAt + IdleEnd)}
    IN  /\ sweep = {}
        /\ stale # {}
        /\ sweep' = {[sid |-> s, lastSeenAt |-> sess[s].lastSeenAt] : s \in stale}
        /\ UNCHANGED <<walletVars, now, sess, rep>>

SweepRead ==
    LET stale == {s \in Sessions : sess[s].status = "ACTIVE" /\ Quiet(now, sess[s].lastSeenAt)}
    IN  /\ sweep = {}
        /\ stale # {}
        /\ sweep' = {[sid |-> s, lastSeenAt |-> sess[s].lastSeenAt] : s \in stale}
        /\ UNCHANGED <<walletVars, now, sess, rep>>

\* One update by id for each row read, with no second look at the row.
SweepClose ==
    /\ \E s \in sweep :
         /\ \A c \in Calls : RowFree(c, s.sid)
         /\ sess' = [sess EXCEPT ![s.sid] = End(@, s.lastSeenAt, "abandoned")]
         /\ sweep' = sweep \ {s}
    /\ UNCHANGED <<walletVars, now, rep>>

\* The server restarts, or an update of the loop throws: what was read is lost.
SweepAbort ==
    /\ sweep # {}
    /\ sweep' = {}
    /\ UNCHANGED <<walletVars, now, sess, rep>>

-----------------------------------------------------------------------------
(* The rest of the system.                                                 *)

\* A purchase, a refund or a dispute: a call of the wallet by the webhook, in one
\* step, which is all that Wallet's refinement of Ledger lets others see of it.
ApplyCredit(r) ==
    /\ lockedBy[r.user] = NoCall
    /\ ~KeyCommitted(r.key)
    /\ ~Refused(r, balance[r.user])
    /\ ledger' = [ledger EXCEPT ![r.user] = Append(@, NewRow(r, balance[r.user]))]
    /\ balance' = [balance EXCEPT ![r.user] = NewRow(r, @).after]
    /\ UNCHANGED <<lockedBy, pc, req, row, fresh, meterVars>>

\* No transaction outlives Prisma's timeout; nothing in the code limits a report,
\* whose peers are served one after the other.
Tick ==
    /\ now < MaxTime
    /\ \A c \in Calls : rep[c].step # "off" => now + 1 - rep[c].at <= ReportLimit
    /\ \A c \in Calls : InBilling(c) => now + 1 - rep[c].began <= TxTimeout
    /\ now' = now + 1
    /\ UNCHANGED <<walletVars, sess, rep, sweep>>

Fault == SweepAbort \/ \E c \in Calls : AbortReport(c)

FaultFreeNext ==
    \/ \E c \in Calls : StartReport(c) \/ HandlerStatement(c)
    \/ SweepRead
    \/ SweepClose
    \/ \E r \in Credits : ApplyCredit(r)
    \/ Tick

MeteringNext == FaultFreeNext \/ Fault

MeteringSpec == MeteringInit /\ [][MeteringNext]_vars

\* Reports are served, statement by statement, and the timer keeps firing
\* (setInterval).  Strong fairness where a statement may wait for a row that
\* others take in turn: Postgres queues the waiters.  Faults come to an end at
\* some time; nothing obliges an agent to report, or a customer to buy.
MeteringFairSpec ==
    /\ MeteringSpec
    /\ <>[][FaultFreeNext]_vars
    /\ \A c \in Calls : SF_vars(HandlerStatement(c))
    /\ WF_vars(SweepRead)
    /\ SF_vars(SweepClose)

-----------------------------------------------------------------------------
(* What must hold.                                                         *)

\* The minutes that a set of rows takes.
Taken(S) == MapThenSumSet(LAMBDA r : -r.amount, S)

\* The minutes the ledger shows as taken for session s.
LedgerMinutes(s) == Taken({r \in CommittedRows : r.key[1] = "session" /\ r.key[2] = s})

\* The moment up to which the ledger has charged session s.
BilledUntil(s) == sess[s].startsAt + Minute * LedgerMinutes(s)

\* The sessions whose charges were all computed from the row as it was when they were
\* written, however many reports were served at once.
Exact == {s \in Used : ~sess[s].stale}

\* Of those, the ones that were begun and charged in their turn.
InTurn == {s \in Exact : ~sess[s].late}

\* The two records of what a session cost agree: TimeSession.minutesBilled, which
\* the dashboard shows, is what the ledger took for it.
MinutesBilledMatchesLedger ==
    \A s \in Exact : sess[s].minutesBilled = LedgerMinutes(s)

\* When reports overlap the two may differ, but to one side only: no minute is taken
\* from the wallet that the dashboard does not show, since minutesBilled is an increment
\* where lastBilledAt is not.
LedgerMinutesAreShown == \A s \in Used : LedgerMinutes(s) <= sess[s].minutesBilled

\* The session's own clock agrees with the ledger too: the next charge starts at
\* the first moment that has not been paid for, and not before or after it.
ClockMatchesLedger ==
    \A s \in Exact : sess[s].lastBilledAt = BilledUntil(s)

\* "Two devices connected at once is still one clock, so it costs one stream of minutes"
\* (the header of meteringService.ts): what a session has cost is at most the time since it
\* started.
PaidTimeHasPassed == \A s \in Used : BilledUntil(s) <= now

\* That promise as the code keeps it: no charge runs ahead of the clock, unless one was
\* computed from an old copy of the session.
ExactTimeHasPassed == \A s \in Exact : BilledUntil(s) <= now

\* However many devices, nodes and sessions, a user pays for one stream of minutes:
\* no two sessions of the user charge the same moment, unless reports were out of turn.
OneStreamOfMinutes ==
    \A s, t \in InTurn :
        s # t /\ sess[s].user = sess[t].user =>
            BilledUntil(s) <= sess[t].startsAt \/ BilledUntil(t) <= sess[s].startsAt

\* Rule 3, time is never billed across a gap: a single charge never covers more
\* than the grace period and the unfinished minute before it.
NoChargeAcrossGap ==
    \A r \in CommittedRows :
        r.key[1] = "session" /\ r.key[2] \in Exact => -r.amount * Minute < IdleEnd + Minute

\* A session is closed as run out only when the wallet is empty at that moment, unless
\* the charge was computed from an old copy or came after the session was closed.
RanOutMeansEmpty ==
    [][\A s \in Sessions :
          sess[s].reason # "ran_out" /\ sess'[s].reason = "ran_out" =>
              balance'[sess[s].user] = 0 \/ sess'[s].stale \/ sess'[s].late]_vars

\* One ACTIVE session per user, whatever the handlers and the timer interleave.
OneActiveSession ==
    \A s, t \in Sessions :
        sess[s].status = "ACTIVE" /\ sess[t].status = "ACTIVE" /\ sess[s].user = sess[t].user => s = t

\* A session that has ended stays ended, and stays its user's: a handler that
\* still holds an old copy of the row cannot bring it back.
EndedStaysEnded ==
    [][\A s \in Sessions :
          sess[s].status = "ENDED" => sess'[s].status = "ENDED" /\ sess'[s].user = sess[s].user]_vars

\* A session that no report keeps alive is closed in the end, so it cannot block
\* the user's next one (scheduler.ts, closeAbandonedSessions).
Abandoned(s) == sess[s].status = "ACTIVE" /\ Quiet(now, sess[s].lastSeenAt)

AbandonedIsClosed == \A s \in Sessions : Abandoned(s) ~> ~Abandoned(s)

\* Every report is answered: the handlers, the timer and the webhooks that wait
\* for one another's rows never wait in a circle, so no timeout is needed.
ReportsEnd == \A c \in Calls : rep[c].step # "off" ~> rep[c].step = "off"
=============================================================================
