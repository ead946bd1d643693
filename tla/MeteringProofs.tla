---------------------------- MODULE MeteringProofs ----------------------------
(***************************************************************************)
(* Proofs about Metering, for any users, devices and session ids, any      *)
(* grace period and clock.                                                 *)
(*                                                                         *)
(* 1. Any number of reports at once: the statuses.  Whatever old copy of a *)
(*    row a handler or the timer holds, it never writes back a status it   *)
(*    read or a user: an update either ends the row or leaves both alone.  *)
(*    So only the insert makes a row ACTIVE, and the partial unique index  *)
(*    lets it in when no other row of the user is ACTIVE but the one that  *)
(*    the same transaction ends.                                           *)
(* 2. Any number of reports at once: the wallet.  The statements of a      *)
(*    charge are statements of Wallet, and a purchase is one post, so the  *)
(*    invariant of WalletProofs holds here and Metering implements Ledger. *)
(* 3. The sum of a finite set of ledger rows exists and is what the fold   *)
(*    computes, by the least-number principle.                             *)
(* 4. Any number of reports at once: the sessions and the ledger.  The key *)
(*    of a charge has the total of the copy it was computed from, so of    *)
(*    all charges computed from one copy only the first gets a row, and    *)
(*    whichever finds that row knows from the session's clock that its     *)
(*    copy is old.  A session with no such charge agrees with the ledger.  *)
(***************************************************************************)
EXTENDS Metering, WalletProofs, FiniteSetTheorems, WellFoundedInduction, TLAPS

\* The rows are a table, and each of them has a user and a status.
Table ==
    /\ sess = [s \in Sessions |-> sess[s]]
    /\ \A s \in Sessions : {"user", "status"} \subseteq DOMAIN sess[s]

MeteringIInv == Table /\ OneActiveSession

\* The rows after a step that only updates: each keeps its user, and keeps its status or
\* has ended.
Updated ==
    \A s \in Sessions :
        /\ {"user", "status"} \subseteq DOMAIN sess'[s]
        /\ sess'[s].user = sess[s].user
        /\ sess'[s].status = sess[s].status \/ sess'[s].status = "ENDED"

-----------------------------------------------------------------------------
(* Lemmas about the writes of a row.                                       *)

\* Ending a row changes neither its user nor its columns.
LEMMA EndFacts ==
    ASSUME NEW r, {"user", "status"} \subseteq DOMAIN r, NEW at, NEW why
    PROVE  /\ {"user", "status"} \subseteq DOMAIN End(r, at, why)
           /\ End(r, at, why).user = r.user
           /\ End(r, at, why).status = "ENDED"
  BY DEF End

\* The update after a charge ends the row or leaves its status alone, whatever was read
\* of it before.
LEMMA ChargedFacts ==
    ASSUME NEW r, {"user", "status"} \subseteq DOMAIN r, NEW c \in Calls
    PROVE  /\ {"user", "status"} \subseteq DOMAIN Charged(c, r)
           /\ Charged(c, r).user = r.user
           /\ Charged(c, r).status = r.status \/ Charged(c, r).status = "ENDED"
  <1> DEFINE billed == -row[c].amount
             moved == Moved(c, r, billed, billed)
  <1>1. {"user", "status"} \subseteq DOMAIN moved /\ moved.user = r.user /\ moved.status = r.status
    BY DEF Moved
  <1>2. Charged(c, r) = moved \/ Charged(c, r) = End(moved, rep[c].at, "ran_out")
    BY DEF Charged
  <1> HIDE DEF moved
  <1> QED BY <1>1, <1>2, EndFacts

\* A touch leaves the status and the user alone.
LEMMA TouchedFacts ==
    ASSUME NEW r, {"user", "status"} \subseteq DOMAIN r, NEW c \in Calls
    PROVE  /\ {"user", "status"} \subseteq DOMAIN Touched(c, r)
           /\ Touched(c, r).user = r.user
           /\ Touched(c, r).status = r.status
  BY DEF Touched

\* The row of a session that a report begins.
LEMMA NewSessionFacts ==
    ASSUME NEW c \in Calls, NEW u
    PROVE  LET new == NewSession(c, u) IN
           /\ {"user", "status"} \subseteq DOMAIN new
           /\ new.user = u /\ new.status = "ACTIVE" /\ new.reason = "none"
           /\ new.startsAt = rep[c].at /\ new.lastBilledAt = rep[c].at /\ new.lastSeenAt = rep[c].at
           /\ new.minutesBilled = 0 /\ new.stale = FALSE
           /\ rep[c].at \in Time /\ rep[c].at \in Int /\ u \in Users => new \in SessionRow
  <1> DEFINE l == \E s \in Used : sess[s].user = u /\ Overtaken(c, sess[s])
  <1>1. NewSession(c, u) =
          [NoRow EXCEPT !.user = u, !.status = "ACTIVE", !.startsAt = rep[c].at,
                        !.lastBilledAt = rep[c].at, !.lastSeenAt = rep[c].at, !.late = l]
    BY DEF NewSession
  <1>2. l \in BOOLEAN
    OBVIOUS
  <1> HIDE DEF l
  <1>3. PICK new : new = NewSession(c, u)
    OBVIOUS
  <1>4. /\ {"user", "status"} \subseteq DOMAIN new
        /\ new.user = u /\ new.status = "ACTIVE" /\ new.reason = "none"
        /\ new.startsAt = rep[c].at /\ new.lastBilledAt = rep[c].at /\ new.lastSeenAt = rep[c].at
        /\ new.minutesBilled = 0 /\ new.stale = FALSE
    BY <1>1, <1>3 DEF NoRow
  <1>5. rep[c].at \in Time /\ rep[c].at \in Int /\ u \in Users => new \in SessionRow
    <2>1. Users # {}
      BY RequestsAssumption
    <2>2. AnyUser \in Users /\ 0 \in Time
      BY <2>1, MeteringAssumption DEF AnyUser, Time
    <2>3. NoRow \in SessionRow
      BY <2>2 DEF NoRow, SessionRow
    <2>4. PICK b \in BOOLEAN : b = l
      BY <1>2
    <2>5. new = [NoRow EXCEPT !.user = u, !.status = "ACTIVE", !.startsAt = rep[c].at,
                              !.lastBilledAt = rep[c].at, !.lastSeenAt = rep[c].at, !.late = b]
      BY <1>1, <1>3, <2>4
    <2> QED BY <2>3, <2>5 DEF SessionRow
  <1> QED BY <1>3, <1>4, <1>5

\* It is late if the user has a session that a report with a later clock was served for.
LEMMA NewSessionLate ==
    ASSUME NEW c \in Calls, NEW u
    PROVE  NewSession(c, u).late <=> \E s \in Used : sess[s].user = u /\ Overtaken(c, sess[s])
  <1> DEFINE l == \E s \in Used : sess[s].user = u /\ Overtaken(c, sess[s])
  <1>1. NewSession(c, u) =
          [NoRow EXCEPT !.user = u, !.status = "ACTIVE", !.startsAt = rep[c].at,
                        !.lastBilledAt = rep[c].at, !.lastSeenAt = rep[c].at, !.late = l]
    BY DEF NewSession
  <1>2. l \in BOOLEAN
    OBVIOUS
  <1> HIDE DEF l
  <1>3. NewSession(c, u).late = l
    BY <1>1 DEF NoRow
  <1> QED BY <1>2, <1>3 DEF l

\* One row is replaced by an update of it.
LEMMA RowUpdated ==
    ASSUME Table, NEW s, NEW new, sess' = [sess EXCEPT ![s] = new],
           s \in Sessions => /\ {"user", "status"} \subseteq DOMAIN new
                             /\ new.user = sess[s].user
                             /\ new.status = sess[s].status \/ new.status = "ENDED"
    PROVE  Table' /\ Updated
  BY DEF Table, Updated

\* One row is ended.
LEMMA RowEnded ==
    ASSUME Table, NEW s, NEW at, NEW why, sess' = [sess EXCEPT ![s] = End(@, at, why)]
    PROVE  Table' /\ Updated
  <1> DEFINE new == End(sess[s], at, why)
  <1>1. s \in Sessions => /\ {"user", "status"} \subseteq DOMAIN new
                          /\ new.user = sess[s].user /\ new.status = "ENDED"
    BY EndFacts DEF Table
  <1>2. sess' = [sess EXCEPT ![s] = new]
    OBVIOUS
  <1> HIDE DEF new
  <1> QED BY <1>1, <1>2, RowUpdated

\* What a transaction that closed its session after a gap has for the rows.
LEMMA ClosedByGapFacts ==
    ASSUME Table, NEW c \in Calls
    PROVE  /\ ClosedByGap(c) = [s \in Sessions |-> ClosedByGap(c)[s]]
           /\ \A s \in Sessions :
                /\ {"user", "status"} \subseteq DOMAIN ClosedByGap(c)[s]
                /\ ClosedByGap(c)[s].user = sess[s].user
                /\ s = rep[c].sid => ClosedByGap(c)[s].status = "ENDED"
                /\ s # rep[c].sid => ClosedByGap(c)[s] = sess[s]
  <1>1. CASE rep[c].sid = NoSession
    BY <1>1, MeteringAssumption DEF ClosedByGap, Table
  <1>2. CASE rep[c].sid # NoSession
    <2> DEFINE s0 == rep[c].sid
    <2>1. ClosedByGap(c) = [sess EXCEPT ![s0] = End(sess[s0], rep[c].lastSeenAt, "idle")]
      BY <1>2 DEF ClosedByGap
    <2> QED BY <2>1, EndFacts DEF Table
  <1> QED BY <1>1, <1>2

\* Updates of rows keep the invariant.
LEMMA UpdatedInv ==
    ASSUME MeteringIInv, Table', Updated
    PROVE  MeteringIInv'
  BY DEF MeteringIInv, OneActiveSession, Updated

-----------------------------------------------------------------------------
(* The steps.                                                              *)

\* A statement that writes a row by its id updates it.
LEMMA UpdateStep ==
    ASSUME Table, NEW c \in Calls,
           CloseIdle(c) \/ RefuseSession(c) \/ Touch(c) \/ Settle(c)
    PROVE  Table' /\ Updated
  <1>1. CASE CloseIdle(c)
    BY <1>1, RowEnded DEF CloseIdle
  <1>2. CASE RefuseSession(c)
    BY <1>2, ClosedByGapFacts DEF RefuseSession, Table, Updated
  <1>3. CASE Touch(c)
    <2> DEFINE s == rep[c].sid
               new == Touched(c, sess[s])
    <2>1. sess' = [sess EXCEPT ![s] = new]
      BY <1>3 DEF Touch
    <2>2. s \in Sessions => /\ {"user", "status"} \subseteq DOMAIN new
                            /\ new.user = sess[s].user /\ new.status = sess[s].status
      BY TouchedFacts DEF Table
    <2> HIDE DEF s, new
    <2> QED BY <2>1, <2>2, RowUpdated
  <1>4. CASE Settle(c)
    BY <1>4, RowUpdated, ChargedFacts DEF Settle, Table
  <1> QED BY <1>1, <1>2, <1>3, <1>4

\* So does the timer.
LEMMA SweepStep ==
    ASSUME Table, SweepClose
    PROVE  Table' /\ Updated
  <1> PICK e \in sweep : sess' = [sess EXCEPT ![e.sid] = End(@, e.lastSeenAt, "abandoned")]
    BY DEF SweepClose
  <1> QED BY RowEnded

\* The insert writes one new row, of a user who has no other ACTIVE row by then but
\* the one that the transaction has ended.
LEMMA CreateStep ==
    ASSUME MeteringIInv, NEW c \in Calls, CreateSession(c)
    PROVE  /\ MeteringIInv'
           /\ \A s \in Sessions : sess[s].status = "ENDED" =>
                 sess'[s].status = "ENDED" /\ sess'[s].user = sess[s].user
  <1> DEFINE u == rep[c].user
             closed == ClosedByGap(c)
             new == NewSession(c, u)
  <1>1. FreshId \in Sessions /\ sess[FreshId].status = "NONE"
    BY DEF CreateSession, FreshId
  <1>2. {"user", "status"} \subseteq DOMAIN new /\ new.user = u /\ new.status = "ACTIVE"
    BY NewSessionFacts
  <1>3. sess' = [closed EXCEPT ![FreshId] = new]
    BY DEF CreateSession
  <1>4. /\ closed = [s \in Sessions |-> closed[s]]
        /\ \A s \in Sessions :
             /\ {"user", "status"} \subseteq DOMAIN closed[s]
             /\ closed[s].user = sess[s].user
             /\ s = rep[c].sid => closed[s].status = "ENDED"
             /\ s # rep[c].sid => closed[s] = sess[s]
    BY ClosedByGapFacts DEF MeteringIInv
  <1>5. \A s \in Sessions \ {rep[c].sid} : ~(sess[s].status = "ACTIVE" /\ sess[s].user = u)
    BY DEF CreateSession, Active
  <1> HIDE DEF closed, new, u
  <1>6. sess'[FreshId] = new /\ \A s \in Sessions \ {FreshId} : sess'[s] = closed[s]
    BY <1>1, <1>3, <1>4
  <1>7. Table'
    BY <1>1, <1>2, <1>3, <1>4, <1>6 DEF Table
  <1>8. OneActiveSession'
    BY <1>2, <1>4, <1>5, <1>6 DEF MeteringIInv, OneActiveSession
  <1>9. \A s \in Sessions : sess[s].status = "ENDED" =>
            sess'[s].status = "ENDED" /\ sess'[s].user = sess[s].user
    BY <1>1, <1>4, <1>6
  <1> QED BY <1>7, <1>8, <1>9 DEF MeteringIInv

\* Every step keeps the invariant, and ends no row's being ended.
LEMMA MeteringStepInv ==
    ASSUME MeteringIInv, [MeteringNext]_vars
    PROVE  /\ MeteringIInv'
           /\ \A s \in Sessions : sess[s].status = "ENDED" =>
                 sess'[s].status = "ENDED" /\ sess'[s].user = sess[s].user
  <1>1. CASE UNCHANGED sess
    BY <1>1 DEF MeteringIInv, Table, OneActiveSession
  <1>2. CASE Table' /\ Updated
    BY <1>2, UpdatedInv DEF Updated
  <1>3. ASSUME NEW c \in Calls, HandlerStatement(c)
        PROVE  UNCHANGED sess \/ (Table' /\ Updated) \/ CreateSession(c)
    <2>1. CASE CloseIdle(c) \/ RefuseSession(c) \/ Touch(c) \/ Settle(c)
      BY <2>1, UpdateStep DEF MeteringIInv
    <2> QED BY <1>3, <2>1 DEF HandlerStatement, EndReport, TakePeer, CloseAfterGap, AllowSession,
              ChargeStatement, SessionConflict, ChargeConflict, meterVars
  <1>4. ASSUME NEW c \in Calls, StartReport(c) \/ AbortReport(c)
        PROVE  UNCHANGED sess
    BY <1>4 DEF StartReport, AbortReport
  <1>5. ASSUME SweepRead \/ SweepAbort \/ Tick \/ \E r \in Credits : ApplyCredit(r)
        PROVE  UNCHANGED sess
    BY <1>5 DEF SweepRead, SweepAbort, Tick, ApplyCredit, meterVars
  <1>6. CASE SweepClose
    BY <1>6, <1>2, SweepStep DEF MeteringIInv
  <1>7. CASE UNCHANGED vars
    BY <1>7, <1>1 DEF vars, meterVars
  <1> QED BY <1>1, <1>2, <1>3, <1>4, <1>5, <1>6, <1>7, CreateStep DEF MeteringNext, FaultFreeNext, Fault

\* The invariant holds throughout.
THEOREM MeteringInvariant == MeteringSpec => []MeteringIInv
  <1>1. MeteringInit => MeteringIInv
    BY DEF MeteringInit, NoRow, MeteringIInv, Table, OneActiveSession
  <1>2. MeteringIInv /\ [MeteringNext]_vars => MeteringIInv'
    BY MeteringStepInv
  <1> QED BY <1>1, <1>2, PTL DEF MeteringSpec

\* A user never has two ACTIVE sessions, however many nodes report the user's devices
\* and whatever the timer closes meanwhile.
THEOREM MeteringOneActive == MeteringSpec => []OneActiveSession
  <1>1. MeteringIInv => OneActiveSession
    BY DEF MeteringIInv
  <1> QED BY <1>1, MeteringInvariant, PTL

\* A session that has ended is never brought back, and stays its user's.
THEOREM MeteringEnded == MeteringSpec => EndedStaysEnded
  <1>1. MeteringIInv /\ [MeteringNext]_vars =>
          [\A s \in Sessions : sess[s].status = "ENDED" =>
              sess'[s].status = "ENDED" /\ sess'[s].user = sess[s].user]_vars
    BY MeteringStepInv
  <1> QED BY <1>1, MeteringInvariant, PTL DEF MeteringSpec, EndedStaysEnded

-----------------------------------------------------------------------------
(* The wallet under Metering, with any number of handlers.                 *)

\* What a handler holds at its step: a session it has read, and a transaction of the
\* wallet if and only if it is charging that session.
HandlerOK(c) ==
    /\ rep[c].step \in {"gap", "idle", "touch", "charge"} => rep[c].sid \in Sessions
    /\ InTransaction(c) <=> rep[c].step = "charge"
    /\ rep[c].step = "charge" =>
          \E n \in Nat, m \in Nat : req[c] = Charge(rep[c].user, rep[c].sid, n, m)

\* A charge never adds minutes.
DebitsOnly == \A r \in CommittedRows : r.key[1] = "session" => r.amount <= 0

ChargingIInv ==
    /\ MeteringIInv
    /\ WalletIInv
    /\ MeteringTypeOK
    /\ \A c \in Calls : HandlerOK(c)
    /\ DebitsOnly
    /\ IsFiniteSet(CommittedRows)

\* A key of a charge is no key of a purchase, and says whose charge it is.
LEMMA ChargeFacts ==
    ASSUME NEW u, NEW s, NEW n, NEW m
    PROVE  LET r == Charge(u, s, n, m) IN
           /\ r.key[1] = "session" /\ r.key[2] = s /\ r.key = <<"session", s, n>>
           /\ r.user = u /\ r.amount = -m /\ r.clamp = TRUE
  BY DEF Charge

\* Every step is a step of the wallet, leaves the wallet alone, or is a purchase.
LEMMA WalletStep ==
    ASSUME [MeteringNext]_vars
    PROVE  [WalletNext]_walletVars \/ \E r \in Credits : ApplyCredit(r)
  <1>1. ASSUME NEW c \in Calls, HandlerStatement(c)
        PROVE  [WalletNext]_walletVars
    <2>1. CASE TakePeer(c)
      <3>1. PICK d \in rep[c].todo : \/ UNCHANGED walletVars
                                     \/ BillElapsed(c, d)
        BY <2>1 DEF TakePeer, BillNoSession, BillAfterGap, BillSameMinute, IdleFound, IdleNotFound
      <3>2. CASE BillElapsed(c, d)
        <4>1. PICK r \in Requests : Begin(c, r)
          BY <3>2 DEF BillElapsed
        <4> QED BY <4>1 DEF WalletNext
      <3> QED BY <3>1, <3>2
    <2>2. CASE ChargeStatement(c) \/ Settle(c) \/ ChargeConflict(c)
      BY <2>2 DEF ChargeStatement, Settle, ChargeConflict, WalletNext, Statement
    <2> QED BY <1>1, <2>1, <2>2 DEF HandlerStatement, EndReport, CloseIdle, CloseAfterGap, RefuseSession,
              AllowSession, CreateSession, Touch, SessionConflict
  <1>2. ASSUME NEW c \in Calls, StartReport(c) \/ AbortReport(c)
        PROVE  [WalletNext]_walletVars
    BY <1>2 DEF StartReport, AbortReport, WalletNext
  <1>3. ASSUME SweepRead \/ SweepClose \/ SweepAbort \/ Tick \/ UNCHANGED vars
        PROVE  UNCHANGED walletVars
    BY <1>3 DEF SweepRead, SweepClose, SweepAbort, Tick, vars
  <1> QED BY <1>1, <1>2, <1>3 DEF MeteringNext, FaultFreeNext, Fault

\* What a purchase does to the wallet, in the terms the proofs use.
LEMMA CreditEffect ==
    ASSUME WalletIInv, NEW r \in Credits, ApplyCredit(r)
    PROVE  /\ r \in Requests /\ r.key[1] # "session" /\ r.user \in Users
           /\ ledger' \in [Users -> Seq(Row)] /\ balance' \in [Users -> Nat]
           /\ ChainIntact' /\ KeysUnique'
           /\ \A k : KeyCommitted(k)' <=> KeyCommitted(k) \/ k = r.key
           /\ \A v \in Users : \A i \in DOMAIN ledger[v] :
                 i \in DOMAIN ledger'[v] /\ ledger'[v][i] = ledger[v][i]
           /\ \A v \in Users \ {r.user} : balance'[v] = balance[v]
           /\ \E x \in Row : x.key = r.key /\ CommittedRows' = CommittedRows \union {x}
  <1>1. r \in Requests /\ r.key[1] # "session" /\ r.user \in Users
    BY MeteringAssumption, RequestsAssumption
  <1>2. balance[r.user] \in Int /\ balance[r.user] >= 0
    BY <1>1, BalanceNat DEF WalletIInv
  <1>3. PICK u \in Users, x \in Row : u = r.user /\ x = NewRow(r, balance[u])
    BY <1>1, <1>2, NewRowType
  <1>4. /\ x.key = r.key /\ x.before = balance[u]
        /\ x.after = balance[u] + x.amount /\ x.after >= 0
        /\ ~KeyCommitted(x.key)
    BY <1>1, <1>2, <1>3, NewRowType DEF ApplyCredit
  <1>5. /\ ledger' = [ledger EXCEPT ![u] = Append(ledger[u], x)]
        /\ balance' = [balance EXCEPT ![u] = x.after]
    BY <1>3 DEF ApplyCredit, WalletIInv, WalletTypeOK
  <1>6. WalletTypeOK /\ ChainIntact /\ KeysUnique
    BY DEF WalletIInv
  <1>7. /\ ledger' \in [Users -> Seq(Row)] /\ balance' \in [Users -> Nat]
        /\ ChainIntact' /\ KeysUnique'
        /\ \A k : KeyCommitted(k)' <=> KeyCommitted(k) \/ k = x.key
        /\ \A v \in Users : \A i \in DOMAIN ledger[v] :
              i \in DOMAIN ledger'[v] /\ ledger'[v][i] = ledger[v][i]
        /\ CommittedRows' = CommittedRows \union {x}
        /\ \A v \in Users \ {u} : balance'[v] = balance[v]
    BY ONLY <1>4, <1>5, <1>6, u \in Users, x \in Row, Appended
  <1> QED BY <1>1, <1>3, <1>4, <1>7

\* A purchase, in one step, keeps the invariant of the wallet: it waits for the row, and
\* its key is none that a handler has inserted.
LEMMA CreditInv ==
    ASSUME WalletIInv, \A c \in Calls : HandlerOK(c), NEW r \in Credits, ApplyCredit(r)
    PROVE  WalletIInv'
  <1>1. UNCHANGED <<lockedBy, pc, req, row, fresh>> /\ lockedBy[r.user] = NoCall
    BY DEF ApplyCredit
  <1>2. /\ r.key[1] # "session" /\ r.user \in Users
        /\ ledger' \in [Users -> Seq(Row)] /\ balance' \in [Users -> Nat]
        /\ ChainIntact' /\ KeysUnique'
        /\ \A k : KeyCommitted(k)' <=> KeyCommitted(k) \/ k = r.key
        /\ \A v \in Users : \A i \in DOMAIN ledger[v] :
              i \in DOMAIN ledger'[v] /\ ledger'[v][i] = ledger[v][i]
        /\ \A v \in Users \ {r.user} : balance'[v] = balance[v]
    BY CreditEffect
  <1>3. WalletTypeOK'
    BY <1>1, <1>2 DEF WalletIInv, WalletTypeOK
  <1>4. LockOwner'
    BY <1>1 DEF WalletIInv, LockOwner, Holding
  <1>5. \A d \in Calls : Holding(d) => req[d].user \in Users \ {r.user}
    <2> SUFFICES ASSUME NEW d \in Calls, Holding(d)
                 PROVE  req[d].user \in Users \ {r.user}
      OBVIOUS
    <2>1. req[d].user \in Users
      BY RequestsAssumption DEF WalletIInv, WalletTypeOK
    <2>2. lockedBy[req[d].user] = d
      BY <2>1 DEF WalletIInv, LockOwner
    <2> QED BY <1>1, <2>1, <2>2, NoCallAssumption
  <1>6. RowCurrent'
    BY <1>1, <1>2, <1>5 DEF WalletIInv, RowCurrent, Holding, Refused, NewRow
  <1>7. \A d \in Calls : Inserted(d) => req[d].key # r.key
    <2> SUFFICES ASSUME NEW d \in Calls, Inserted(d)
                 PROVE  req[d].key # r.key
      OBVIOUS
    <2>1. PICK n \in Nat, m \in Nat : req[d] = Charge(rep[d].user, rep[d].sid, n, m)
      BY DEF HandlerOK, InTransaction, Inserted
    <2>2. req[d].key[1] = "session"
      BY <2>1 DEF Charge
    <2> QED BY <1>2, <2>2
  <1>8. InsertedAlone'
    BY <1>1, <1>2, <1>7 DEF WalletIInv, InsertedAlone, Inserted
  <1>9. AnswerCommitted'
    <2> SUFFICES ASSUME NEW d \in Calls,
                        ((pc[d] = "commit" /\ ~fresh[d]) \/ pc[d] = "returned")'
                 PROVE  \E v \in Users : \E i \in DOMAIN ledger'[v] :
                           row'[d] = ledger'[v][i] /\ ledger'[v][i].key = req'[d].key
      BY DEF AnswerCommitted
    <2>1. PICK v \in Users : \E i \in DOMAIN ledger[v] :
             row[d] = ledger[v][i] /\ ledger[v][i].key = req[d].key
      BY <1>1 DEF WalletIInv, AnswerCommitted
    <2> QED BY <1>1, <1>2, <2>1
  <1> QED BY <1>2, <1>3, <1>4, <1>6, <1>8, <1>9 DEF WalletIInv

-----------------------------------------------------------------------------
(* The types of the sessions and the handlers, with any number of handlers. *)

\* The clock and the first user are of their types.
LEMMA MeteringConstants == AnyUser \in Users /\ 0 \in Time /\ MaxTime \in Nat
  <1>1. Users # {}
    BY RequestsAssumption
  <1> QED BY <1>1, MeteringAssumption DEF AnyUser, Time

\* The local state of a handler that serves nothing, and the row of no session.
LEMMA EmptyFacts ==
    /\ Off \in Handler /\ Off.step = "off" /\ Off.sid = NoSession /\ Off.at = 0
    /\ NoRow \in SessionRow /\ NoRow.status = "NONE" /\ NoRow.minutesBilled = 0
    /\ NoRow.stale = FALSE /\ NoRow.late = FALSE
    /\ NoRow.startsAt = 0 /\ NoRow.lastBilledAt = 0 /\ NoRow.lastSeenAt = 0
  BY MeteringConstants DEF Off, Handler, HandlerSteps, NoRow, SessionRow

\* A handler between two peers.
Between(c) == [Off EXCEPT !.step = "peers", !.at = rep[c].at, !.todo = rep[c].todo]

\* It keeps its clock and the peers to come, and holds no session.
LEMMA BetweenFacts ==
    ASSUME NEW c \in Calls, rep[c] \in Handler
    PROVE  /\ Between(c) \in Handler /\ Between(c).step = "peers" /\ Between(c).sid = NoSession
           /\ Between(c).at = rep[c].at
           /\ PeerDone(c) <=> rep' = [rep EXCEPT ![c] = Between(c)]
  BY EmptyFacts DEF Between, PeerDone, Handler, HandlerSteps, Off

\* A handler at work on a device: what it copied of the session it read.
LEMMA PeerTakenFacts ==
    ASSUME MeteringTypeOK, NEW c \in Calls, NEW d \in Devices,
           NEW s \in Sessions \union {NoSession}, NEW step \in HandlerSteps, PeerTaken(c, d, s, step)
    PROVE  \E new \in Handler :
             /\ rep' = [rep EXCEPT ![c] = new]
             /\ new.step = step /\ new.at = rep[c].at /\ new.user = Owner[d] /\ new.sid = s
             /\ s # NoSession => new.lastBilledAt = sess[s].lastBilledAt
  <1> DEFINE billed == IF s = NoSession THEN 0 ELSE sess[s].lastBilledAt
             seen == IF s = NoSession THEN 0 ELSE sess[s].lastSeenAt
  <1>1. billed \in Int /\ seen \in Time
    BY MeteringConstants DEF MeteringTypeOK, SessionRow
  <1>2. rep[c] \in Handler /\ now \in Time /\ Owner[d] \in Users
    BY MeteringAssumption DEF MeteringTypeOK
  <1>3. PICK b, l : b = billed /\ l = seen
    OBVIOUS
  <1> DEFINE new == [step |-> step, at |-> rep[c].at, todo |-> rep[c].todo \ {d}, user |-> Owner[d],
                     sid |-> s, began |-> now, lastBilledAt |-> b, lastSeenAt |-> l]
  <1>4. rep' = [rep EXCEPT ![c] = new]
    BY <1>3 DEF PeerTaken
  <1>5. new \in Handler
    BY <1>1, <1>2, <1>3 DEF Handler
  <1> QED BY <1>3, <1>4, <1>5

\* Ending a row keeps all that a charge is computed from.
LEMMA EndKeeps ==
    ASSUME NEW r \in SessionRow, NEW at \in Time, NEW why \in {"idle", "abandoned", "ran_out"}
    PROVE  /\ End(r, at, why) \in SessionRow
           /\ End(r, at, why).status = "ENDED" /\ End(r, at, why).user = r.user
           /\ End(r, at, why).startsAt = r.startsAt
           /\ End(r, at, why).lastBilledAt = r.lastBilledAt
           /\ End(r, at, why).lastSeenAt = r.lastSeenAt
           /\ End(r, at, why).minutesBilled = r.minutesBilled
           /\ End(r, at, why).reason = why
           /\ End(r, at, why).stale = r.stale /\ End(r, at, why).late = r.late
  BY DEF End, SessionRow

\* A touch changes lastSeenAt, and whether the session was updated out of turn.
LEMMA TouchedKeeps ==
    ASSUME NEW r \in SessionRow, NEW c \in Calls, rep[c].at \in Time
    PROVE  /\ Touched(c, r) \in SessionRow
           /\ Touched(c, r).status = r.status /\ Touched(c, r).user = r.user
           /\ Touched(c, r).startsAt = r.startsAt
           /\ Touched(c, r).lastBilledAt = r.lastBilledAt
           /\ Touched(c, r).lastSeenAt = rep[c].at
           /\ Touched(c, r).minutesBilled = r.minutesBilled
           /\ Touched(c, r).reason = r.reason
           /\ Touched(c, r).stale = r.stale
           /\ Touched(c, r).late = (r.late \/ Overtaken(c, r))
  <1>1. PICK l \in BOOLEAN : l = (r.late \/ Overtaken(c, r))
    OBVIOUS
  <1>2. Touched(c, r) = [r EXCEPT !.lastSeenAt = rep[c].at, !.late = l]
    BY <1>1 DEF Touched
  <1> QED BY <1>1, <1>2 DEF SessionRow

\* What a charge of `billed` minutes makes of the row.
LEMMA ChargedKeeps ==
    ASSUME NEW r \in SessionRow, NEW c \in Calls, rep[c] \in Handler, NEW billed \in Nat,
           billed = -row[c].amount
    PROVE  /\ Charged(c, r) \in SessionRow
           /\ Charged(c, r).user = r.user
           /\ Charged(c, r).startsAt = r.startsAt
           /\ Charged(c, r).lastBilledAt = rep[c].lastBilledAt + billed * Minute
           /\ Charged(c, r).lastSeenAt = rep[c].at
           /\ Charged(c, r).minutesBilled = r.minutesBilled + billed
           /\ IF billed < -req[c].amount \/ row[c].after = 0
              THEN Charged(c, r).status = "ENDED"
              ELSE Charged(c, r).status = r.status /\ Charged(c, r).reason = r.reason
           /\ Charged(c, r).stale = (r.stale \/ r.lastBilledAt # rep[c].lastBilledAt)
           /\ Charged(c, r).late = (r.late \/ r.status # "ACTIVE" \/ Overtaken(c, r))
  <1> DEFINE moved == Moved(c, r, billed, billed)
  <1>1. /\ rep[c].lastBilledAt + billed * Minute \in Int /\ r.minutesBilled + billed \in Nat
        /\ rep[c].at \in Time
    BY MeteringAssumption DEF Handler, SessionRow
  <1>2. /\ moved \in SessionRow /\ moved.user = r.user /\ moved.startsAt = r.startsAt
        /\ moved.status = r.status /\ moved.reason = r.reason
        /\ moved.lastBilledAt = rep[c].lastBilledAt + billed * Minute
        /\ moved.lastSeenAt = rep[c].at
        /\ moved.minutesBilled = r.minutesBilled + billed
        /\ moved.stale = (r.stale \/ r.lastBilledAt # rep[c].lastBilledAt)
        /\ moved.late = (r.late \/ r.status # "ACTIVE" \/ Overtaken(c, r))
    <2>1. PICK st \in BOOLEAN, lt \in BOOLEAN :
             /\ st = (r.stale \/ r.lastBilledAt # rep[c].lastBilledAt)
             /\ lt = (r.late \/ r.status # "ACTIVE" \/ Overtaken(c, r))
      OBVIOUS
    <2>2. moved = [r EXCEPT !.lastBilledAt = rep[c].lastBilledAt + billed * Minute,
                            !.lastSeenAt = rep[c].at, !.minutesBilled = @ + billed,
                            !.stale = st, !.late = lt]
      BY <2>1 DEF Moved
    <2> HIDE DEF moved
    <2> QED BY <1>1, <2>1, <2>2 DEF SessionRow
  <1>3. Charged(c, r) = IF billed < -req[c].amount \/ row[c].after = 0
                        THEN End(moved, rep[c].at, "ran_out") ELSE moved
    BY DEF Charged
  <1> HIDE DEF moved
  <1> QED BY <1>1, <1>2, <1>3, EndKeeps

\* One handler takes a step; the others are as they were.
LEMMA HandlerOne ==
    ASSUME ChargingIInv, NEW c \in Calls, NEW new \in Handler, rep' = [rep EXCEPT ![c] = new],
           \A d \in Calls \ {c} : pc'[d] = pc[d] /\ req'[d] = req[d],
           new.step \in {"gap", "idle", "touch", "charge"} => new.sid \in Sessions,
           pc'[c] \in {"find", "lock", "write", "commit"} <=> new.step = "charge",
           new.step = "charge" =>
              \E n \in Nat, m \in Nat : req'[c] = Charge(new.user, new.sid, n, m)
    PROVE  rep' \in [Calls -> Handler] /\ \A d \in Calls : HandlerOK(d)'
  <1>1. rep \in [Calls -> Handler]
    BY DEF ChargingIInv, MeteringTypeOK
  <1>2. rep' \in [Calls -> Handler] /\ rep'[c] = new /\ \A d \in Calls \ {c} : rep'[d] = rep[d]
    BY <1>1
  <1>3. HandlerOK(c)'
    BY <1>2 DEF HandlerOK, InTransaction
  <1>4. ASSUME NEW d \in Calls \ {c} PROVE HandlerOK(d)'
    BY <1>2 DEF ChargingIInv, HandlerOK, InTransaction
  <1> QED BY <1>2, <1>3, <1>4

\* A step that leaves the handler without a transaction.
LEMMA HandlerDone ==
    ASSUME ChargingIInv, NEW c \in Calls, NEW new \in Handler, rep' = [rep EXCEPT ![c] = new],
           new.step \in {"off", "peers"},
           \/ rep[c].step # "charge" /\ UNCHANGED <<pc, req>>
           \/ UNCHANGED req /\ \E p \in {"threw", "returned"} : pc' = [pc EXCEPT ![c] = p]
    PROVE  rep' \in [Calls -> Handler] /\ \A d \in Calls : HandlerOK(d)'
  <1>1. /\ \A d \in Calls \ {c} : pc'[d] = pc[d] /\ req'[d] = req[d]
        /\ pc'[c] \notin {"find", "lock", "write", "commit"}
    BY DEF ChargingIInv, HandlerOK, InTransaction, WalletIInv, WalletTypeOK
  <1> QED BY <1>1, HandlerOne

\* Every statement of a handler keeps what handlers hold.
LEMMA HandlerKept ==
    ASSUME ChargingIInv, NEW c \in Calls, HandlerStatement(c) \/ StartReport(c) \/ AbortReport(c)
    PROVE  rep' \in [Calls -> Handler] /\ \A d \in Calls : HandlerOK(d)'
  <1>1. rep \in [Calls -> Handler] /\ rep[c] \in Handler /\ now \in Time
    BY DEF ChargingIInv, MeteringTypeOK
  <1>2. CASE CloseIdle(c) \/ RefuseSession(c) \/ CreateSession(c) \/ Touch(c)
    <2>1. rep' = [rep EXCEPT ![c] = Between(c)] /\ rep[c].step # "charge" /\ UNCHANGED <<pc, req>>
      BY <1>1, <1>2, BetweenFacts DEF CloseIdle, RefuseSession, CreateSession, Touch, walletVars
    <2> QED BY <1>1, <2>1, BetweenFacts, HandlerDone
  <1>3. CASE Settle(c)
    <2>1. rep' = [rep EXCEPT ![c] = Between(c)] /\ UNCHANGED req /\ pc' = [pc EXCEPT ![c] = "returned"]
      BY <1>1, <1>3, BetweenFacts DEF Settle, Commit
    <2> QED BY <1>1, <2>1, BetweenFacts, HandlerDone
  <1>4. CASE EndReport(c) \/ SessionConflict(c)
    <2>1. rep' = [rep EXCEPT ![c] = Off] /\ rep[c].step # "charge" /\ UNCHANGED <<pc, req>>
      BY <1>4 DEF EndReport, SessionConflict, walletVars
    <2> QED BY <2>1, EmptyFacts, HandlerDone
  <1>5. CASE ChargeConflict(c) \/ (AbortReport(c) /\ rep[c].step = "charge")
    <2>1. rep' = [rep EXCEPT ![c] = Off] /\ UNCHANGED req /\ pc' = [pc EXCEPT ![c] = "threw"]
      BY <1>5 DEF ChargeConflict, AbortReport, Conflict, Fail, RollBack
    <2> QED BY <2>1, EmptyFacts, HandlerDone
  <1>6. CASE AbortReport(c) /\ rep[c].step # "charge"
    <2>1. rep' = [rep EXCEPT ![c] = Off] /\ UNCHANGED <<pc, req>>
      BY <1>6 DEF AbortReport, walletVars
    <2> QED BY <1>6, <2>1, EmptyFacts, HandlerDone
  <1>7. CASE StartReport(c)
    <2>1. PICK peers \in SUBSET Devices :
             rep' = [rep EXCEPT ![c] = [Off EXCEPT !.step = "peers", !.at = now, !.todo = peers]]
      BY <1>7 DEF StartReport
    <2> DEFINE new == [Off EXCEPT !.step = "peers", !.at = now, !.todo = peers]
    <2>2. new \in Handler /\ new.step = "peers"
      BY <1>1, EmptyFacts DEF Handler, HandlerSteps
    <2>3. rep[c].step # "charge" /\ UNCHANGED <<pc, req>>
      BY <1>7 DEF StartReport, walletVars
    <2> HIDE DEF new
    <2> QED BY <2>1, <2>2, <2>3, HandlerDone DEF new
  <1>8. CASE CloseAfterGap(c) \/ AllowSession(c)
    <2>1. PICK step \in {"wallet", "create"} : rep' = [rep EXCEPT ![c].step = step]
      BY <1>8 DEF CloseAfterGap, AllowSession
    <2> DEFINE new == [rep[c] EXCEPT !.step = step]
    <2>2. new \in Handler /\ new.step = step /\ rep' = [rep EXCEPT ![c] = new]
      BY <1>1, <2>1 DEF Handler, HandlerSteps
    <2>3. UNCHANGED <<pc, req>> /\ pc[c] \notin {"find", "lock", "write", "commit"}
      BY <1>8 DEF CloseAfterGap, AllowSession, walletVars, ChargingIInv, HandlerOK, InTransaction
    <2> HIDE DEF new
    <2> QED BY <2>2, <2>3, HandlerOne
  <1>9. CASE ChargeStatement(c)
    <2>1. /\ UNCHANGED <<rep, req>> /\ rep[c].step = "charge"
          /\ \E p \in {"lock", "write", "commit"} : pc' = [pc EXCEPT ![c] = p]
      BY <1>9 DEF ChargeStatement, FindExisting, FindNothing, LockWallet, WriteRow, meterVars
    <2>2. /\ \A d \in Calls \ {c} : pc'[d] = pc[d] /\ req'[d] = req[d]
          /\ pc'[c] \in {"find", "lock", "write", "commit"}
      BY <2>1 DEF ChargingIInv, WalletIInv, WalletTypeOK
    <2>3. HandlerOK(c)
      BY DEF ChargingIInv
    <2>4. rep' = [rep EXCEPT ![c] = rep[c]]
      BY <1>1, <2>1
    <2>5. /\ rep[c].sid \in Sessions
          /\ \E n \in Nat, m \in Nat : req'[c] = Charge(rep[c].user, rep[c].sid, n, m)
      BY <2>1, <2>3 DEF HandlerOK
    <2> QED BY <1>1, <2>1, <2>2, <2>4, <2>5, HandlerOne
  <1>10. CASE TakePeer(c)
    <2>1. /\ \A d \in Calls \ {c} : pc'[d] = pc[d] /\ req'[d] = req[d]
          /\ pc[c] \notin {"find", "lock", "write", "commit"}
      BY <1>10 DEF TakePeer, BillNoSession, BillAfterGap, BillSameMinute, BillElapsed, IdleFound,
                   IdleNotFound, walletVars, Begin, ChargingIInv, HandlerOK, InTransaction,
                   WalletIInv, WalletTypeOK
    <2>2. PICK d \in rep[c].todo : \/ BillNoSession(c, d) \/ BillAfterGap(c, d) \/ BillSameMinute(c, d)
                                   \/ BillElapsed(c, d) \/ IdleFound(c, d) \/ IdleNotFound(c, d)
      BY <1>10 DEF TakePeer
    <2>3. d \in Devices /\ MeteringTypeOK
      BY <1>1 DEF Handler, ChargingIInv
    <2>4. CASE IdleNotFound(c, d)
      <3> DEFINE new == [rep[c] EXCEPT !.todo = @ \ {d}]
      <3>1. new \in Handler /\ new.step = "peers" /\ rep' = [rep EXCEPT ![c] = new]
        BY <1>1, <1>10, <2>4 DEF Handler, IdleNotFound, TakePeer
      <3>2. UNCHANGED <<pc, req>>
        BY <2>4 DEF IdleNotFound, walletVars
      <3> HIDE DEF new
      <3> QED BY <2>1, <3>1, <3>2, HandlerOne
    <2>5. CASE BillNoSession(c, d) \/ BillAfterGap(c, d) \/ BillSameMinute(c, d) \/ IdleFound(c, d)
      <3>1. PICK s \in Sessions \union {NoSession}, step \in {"wallet", "gap", "touch", "idle"} :
               PeerTaken(c, d, s, step) /\ (step # "wallet" => s \in Sessions)
        BY <2>5 DEF BillNoSession, BillAfterGap, BillSameMinute, IdleFound
      <3>2. PICK new \in Handler :
               rep' = [rep EXCEPT ![c] = new] /\ new.step = step /\ new.sid = s
        BY <2>3, <3>1, PeerTakenFacts DEF HandlerSteps
      <3>3. UNCHANGED <<pc, req>>
        BY <2>5 DEF BillNoSession, BillAfterGap, BillSameMinute, IdleFound, walletVars
      <3> QED BY <2>1, <3>1, <3>2, <3>3, HandlerOne
    <2>6. CASE BillElapsed(c, d)
      <3>1. PICK s \in Sessions :
               /\ Elapsed(rep[c].at, sess[s].lastBilledAt) > 0
               /\ Begin(c, Charge(Owner[d], s, sess[s].minutesBilled,
                                  Elapsed(rep[c].at, sess[s].lastBilledAt)))
               /\ PeerTaken(c, d, s, "charge")
        BY <2>6 DEF BillElapsed
      <3>2. PICK new \in Handler :
               rep' = [rep EXCEPT ![c] = new] /\ new.step = "charge" /\ new.sid = s /\ new.user = Owner[d]
        BY <2>3, <3>1, PeerTakenFacts DEF HandlerSteps
      <3>3. rep[c].at - sess[s].lastBilledAt \in Int /\ sess[s].minutesBilled \in Nat
        BY <1>1, <2>3 DEF MeteringTypeOK, SessionRow, Handler, Time
      <3>4. Elapsed(rep[c].at, sess[s].lastBilledAt) \in Nat
        BY <3>1, <3>3, MeteringAssumption DEF Elapsed
      <3>5. /\ pc'[c] = "find"
            /\ req'[c] = Charge(new.user, new.sid, sess[s].minutesBilled,
                                Elapsed(rep[c].at, sess[s].lastBilledAt))
        BY <3>1, <3>2 DEF Begin, ChargingIInv, WalletIInv, WalletTypeOK
      <3> QED BY <2>1, <3>2, <3>3, <3>4, <3>5, HandlerOne
    <2> QED BY <2>2, <2>4, <2>5, <2>6
  <1> QED BY <1>2, <1>3, <1>4, <1>5, <1>6, <1>7, <1>8, <1>9, <1>10 DEF HandlerStatement

\* The COMMIT of a charge: it publishes a debit under the key of the charge, or found one.
LEMMA SettleEffect ==
    ASSUME ChargingIInv, NEW c \in Calls, Settle(c)
    PROVE  /\ row[c] \in Row /\ row[c].key = req[c].key /\ row[c].key[1] = "session"
           /\ row[c].amount \in Int /\ -row[c].amount \in Nat /\ row[c].amount <= 0
           /\ fresh[c] =>
                /\ row[c] = NewRow(req[c], balance[req[c].user])
                /\ balance' = [balance EXCEPT ![req[c].user] = row[c].after]
                /\ CommittedRows' = CommittedRows \union {row[c]} /\ row[c] \notin CommittedRows
                /\ \A k : KeyCommitted(k)' <=> KeyCommitted(k) \/ k = row[c].key
           /\ ~fresh[c] =>
                /\ row[c] \in CommittedRows
                /\ UNCHANGED <<balance, ledger>>
                /\ \A k : KeyCommitted(k)' <=> KeyCommitted(k)
  <1>1. /\ WalletIInv /\ WalletTypeOK /\ ChainIntact /\ KeysUnique /\ HandlerOK(c)
        /\ rep[c].step = "charge" /\ pc[c] = "commit" /\ Commit(c)
    BY DEF ChargingIInv, WalletIInv, Settle, Commit
  <1>2. PICK n \in Nat, m \in Nat : req[c] = Charge(rep[c].user, rep[c].sid, n, m)
    BY <1>1 DEF HandlerOK
  <1>3. req[c].key[1] = "session" /\ req[c].amount = -m
    BY <1>2 DEF Charge
  <1>4. CASE fresh[c]
    <2>1. PICK u \in Users, x \in Row : u = req[c].user /\ x = row[c]
      BY <1>1, RequestsAssumption DEF WalletTypeOK
    <2>2. /\ x = NewRow(req[c], balance[u]) /\ x.key = req[c].key
          /\ x.before = balance[u] /\ x.after = balance[u] + x.amount /\ x.after >= 0
          /\ balance' = [balance EXCEPT ![u] = x.after]
          /\ ledger' = [ledger EXCEPT ![u] = Append(ledger[u], x)]
      BY <1>1, <1>4, <2>1, CommitEffect
    <2>3. ~KeyCommitted(x.key)
      BY <1>1, <1>4, <2>2 DEF WalletIInv, InsertedAlone, Inserted
    <2>4. /\ \A k : KeyCommitted(k)' <=> KeyCommitted(k) \/ k = x.key
          /\ CommittedRows' = CommittedRows \union {x} /\ x \notin CommittedRows
      <3>1. x.before = balance[u] /\ x.after = balance[u] + x.amount /\ x.after >= 0
        BY <2>2
      <3>2. /\ balance' = [balance EXCEPT ![u] = x.after]
            /\ ledger' = [ledger EXCEPT ![u] = Append(ledger[u], x)]
        BY <2>2
      <3>3. WalletTypeOK /\ ChainIntact /\ KeysUnique
        BY <1>1
      <3> QED BY ONLY u \in Users, x \in Row, <2>3, <3>1, <3>2, <3>3, Appended
    <2>5. x.amount \in Int /\ x.amount <= 0
      <3>1. balance[u] \in Int /\ balance[u] >= 0
        BY <1>1, BalanceNat
      <3>2. m \in Nat /\ x.amount = IF balance[u] - m < 0 THEN -balance[u] ELSE -m
        BY <1>3, <2>2 DEF NewRow
      <3> QED BY <3>1, <3>2
    <2> QED BY <1>3, <1>4, <2>1, <2>2, <2>4, <2>5
  <1>5. CASE ~fresh[c]
    <2>1. PICK u \in Users : \E i \in DOMAIN ledger[u] :
             row[c] = ledger[u][i] /\ ledger[u][i].key = req[c].key
      BY <1>1, <1>5 DEF WalletIInv, AnswerCommitted
    <2>2. row[c] \in CommittedRows /\ row[c].key = req[c].key
      BY <2>1 DEF CommittedRows
    <2>3. row[c] \in Row /\ row[c].amount \in Int
      BY <1>1 DEF WalletTypeOK, Row
    <2>4. row[c].amount <= 0
      BY <1>3, <2>2 DEF ChargingIInv, DebitsOnly
    <2>5. UNCHANGED <<balance, ledger>>
      BY <1>1, <1>5 DEF Commit
    <2>6. -row[c].amount \in Nat
      BY <2>3, <2>4
    <2> QED BY <1>1, <1>3, <1>5, <2>2, <2>3, <2>4, <2>5, <2>6, LedgerSame
  <1> QED BY <1>4, <1>5

\* Every write of the sessions writes well-formed rows.
LEMMA SessionsTyped ==
    ASSUME ChargingIInv, [MeteringNext]_vars
    PROVE  sess' \in [Sessions -> SessionRow]
  <1>1. sess \in [Sessions -> SessionRow] /\ rep \in [Calls -> Handler]
    BY DEF ChargingIInv, MeteringTypeOK
  <1>2. ASSUME NEW c \in Calls
        PROVE  /\ rep[c] \in Handler /\ rep[c].at \in Time /\ rep[c].lastSeenAt \in Time
               /\ rep[c].user \in Users /\ ClosedByGap(c) \in [Sessions -> SessionRow]
    <2>1. rep[c] \in Handler /\ rep[c].at \in Time /\ rep[c].lastSeenAt \in Time
          /\ rep[c].user \in Users /\ rep[c].sid \in Sessions \union {NoSession}
      BY <1>1 DEF Handler
    <2>2. CASE rep[c].sid = NoSession
      BY <1>1, <2>1, <2>2 DEF ClosedByGap
    <2>3. CASE rep[c].sid # NoSession
      <3>1. rep[c].sid \in Sessions /\ sess[rep[c].sid] \in SessionRow
        BY <1>1, <2>1, <2>3
      <3>2. End(sess[rep[c].sid], rep[c].lastSeenAt, "idle") \in SessionRow
        BY <2>1, <3>1, EndKeeps
      <3>3. ClosedByGap(c)
            = [sess EXCEPT ![rep[c].sid] = End(sess[rep[c].sid], rep[c].lastSeenAt, "idle")]
        BY <1>1, <2>3, <3>1 DEF ClosedByGap
      <3> QED BY <1>1, <2>1, <3>2, <3>3
    <2> QED BY <2>1, <2>2, <2>3
  <1>3. ASSUME NEW c \in Calls, CloseIdle(c)
        PROVE  sess' \in [Sessions -> SessionRow]
    <2>1. PICK s \in Sessions : s = rep[c].sid /\ sess' = [sess EXCEPT ![s] = End(@, rep[c].lastSeenAt, "idle")]
      BY <1>3 DEF CloseIdle, ChargingIInv, HandlerOK
    <2>2. End(sess[s], rep[c].lastSeenAt, "idle") \in SessionRow
      BY <1>1, <1>2, EndKeeps
    <2> QED BY <1>1, <2>1, <2>2
  <1>4. ASSUME NEW c \in Calls, CreateSession(c)
        PROVE  sess' \in [Sessions -> SessionRow]
    <2> DEFINE new == NewSession(c, rep[c].user)
    <2>1. rep[c].at \in Int
      BY <1>2, MeteringConstants DEF Time
    <2>2. new \in SessionRow
      BY <1>2, <2>1, NewSessionFacts
    <2>3. sess' = [ClosedByGap(c) EXCEPT ![FreshId] = new]
      BY <1>4 DEF CreateSession
    <2> HIDE DEF new
    <2> QED BY <1>2, <2>2, <2>3
  <1>5. ASSUME NEW c \in Calls, Touch(c)
        PROVE  sess' \in [Sessions -> SessionRow]
    <2>1. PICK s \in Sessions : s = rep[c].sid
      BY <1>5 DEF Touch, ChargingIInv, HandlerOK
    <2>2. sess[s] \in SessionRow /\ rep[c].at \in Time
      BY <1>1, <1>2
    <2>3. Touched(c, sess[s]) \in SessionRow
      BY <2>2, TouchedKeeps
    <2>4. sess' = [sess EXCEPT ![s] = Touched(c, sess[s])]
      BY <1>1, <1>5, <2>1 DEF Touch
    <2> QED BY <1>1, <2>3, <2>4
  <1>6. ASSUME NEW c \in Calls, Settle(c)
        PROVE  sess' \in [Sessions -> SessionRow]
    <2>1. PICK s \in Sessions : s = rep[c].sid /\ sess' = [sess EXCEPT ![s] = Charged(c, @)]
      BY <1>6 DEF Settle, ChargingIInv, HandlerOK
    <2>2. Charged(c, sess[s]) \in SessionRow
      BY <1>1, <1>2, <1>6, SettleEffect, ChargedKeeps
    <2> QED BY <1>1, <2>1, <2>2
  <1>7. CASE SweepClose
    <2>1. PICK e \in sweep : sess' = [sess EXCEPT ![e.sid] = End(@, e.lastSeenAt, "abandoned")]
      BY <1>7 DEF SweepClose
    <2>2. e.sid \in Sessions /\ e.lastSeenAt \in Time
      BY DEF ChargingIInv, MeteringTypeOK
    <2>3. End(sess[e.sid], e.lastSeenAt, "abandoned") \in SessionRow
      BY <1>1, <2>2, EndKeeps
    <2> QED BY <1>1, <2>1, <2>3
  <1>8. ASSUME NEW c \in Calls, RefuseSession(c)
        PROVE  sess' \in [Sessions -> SessionRow]
    BY <1>2, <1>8 DEF RefuseSession
  <1>9. CASE UNCHANGED sess
    BY <1>1, <1>9
  <1>10. \/ UNCHANGED sess \/ SweepClose
         \/ \E c \in Calls : \/ CloseIdle(c) \/ RefuseSession(c) \/ CreateSession(c) \/ Touch(c)
                             \/ Settle(c)
    BY DEF MeteringNext, FaultFreeNext, Fault, HandlerStatement, StartReport, AbortReport, SweepRead,
           SweepAbort, Tick, ApplyCredit, EndReport, TakePeer, CloseAfterGap, AllowSession,
           ChargeStatement, SessionConflict, ChargeConflict, meterVars, vars
  <1> QED BY <1>3, <1>4, <1>5, <1>6, <1>7, <1>8, <1>9, <1>10

\* The committed rows change by a charge and by a purchase only.
LEMMA RowsSame ==
    ASSUME [MeteringNext]_vars, \A c \in Calls : ~Settle(c), \A r \in Credits : ~ApplyCredit(r)
    PROVE  UNCHANGED <<balance, ledger, CommittedRows>> /\ \A k : KeyCommitted(k)' <=> KeyCommitted(k)
  <1>1. UNCHANGED <<balance, ledger>>
    <2>1. ASSUME NEW c \in Calls, HandlerStatement(c)
          PROVE  UNCHANGED <<balance, ledger>>
      BY <2>1 DEF HandlerStatement, EndReport, TakePeer, BillNoSession, BillAfterGap, BillSameMinute,
                  BillElapsed, IdleFound, IdleNotFound, Begin, CloseIdle, CloseAfterGap,
                  RefuseSession, AllowSession, CreateSession, Touch, ChargeStatement, FindExisting,
                  FindNothing, LockWallet, WriteRow, SessionConflict, ChargeConflict, Conflict,
                  RollBack, walletVars
    <2>2. ASSUME NEW c \in Calls, StartReport(c) \/ AbortReport(c)
          PROVE  UNCHANGED <<balance, ledger>>
      BY <2>2 DEF StartReport, AbortReport, Fail, RollBack, walletVars
    <2> QED BY <2>1, <2>2 DEF MeteringNext, FaultFreeNext, Fault, SweepRead, SweepClose, SweepAbort,
              Tick, walletVars, vars
  <1> QED BY <1>1 DEF CommittedRows, KeyCommitted

\* Every step keeps the invariant of the charges.
LEMMA ChargingStep ==
    ASSUME ChargingIInv, [MeteringNext]_vars
    PROVE  ChargingIInv'
  <1>1. MeteringIInv'
    BY MeteringStepInv DEF ChargingIInv
  <1>2. WalletIInv'
    BY WalletStep, WalletStepInv, CreditInv DEF ChargingIInv
  <1>3. rep' \in [Calls -> Handler] /\ \A c \in Calls : HandlerOK(c)'
    <2>1. ASSUME UNCHANGED <<rep, pc, req>>
          PROVE  rep' \in [Calls -> Handler] /\ \A c \in Calls : HandlerOK(c)'
      BY <2>1 DEF ChargingIInv, MeteringTypeOK, HandlerOK, InTransaction
    <2>2. \/ UNCHANGED <<rep, pc, req>>
          \/ \E c \in Calls : HandlerStatement(c) \/ StartReport(c) \/ AbortReport(c)
      BY DEF MeteringNext, FaultFreeNext, Fault, SweepRead, SweepClose, SweepAbort, Tick,
             ApplyCredit, meterVars, walletVars, vars
    <2> QED BY <2>1, <2>2, HandlerKept
  <1>4. now' \in Time
    <2>1. now \in Time
      BY DEF ChargingIInv, MeteringTypeOK
    <2>2. CASE Tick
      BY <2>1, <2>2, MeteringAssumption DEF Tick, Time
    <2>3. CASE ~Tick
      <3>1. now' = now
        BY <2>3 DEF MeteringNext, FaultFreeNext, Fault, HandlerStatement, StartReport, AbortReport,
               SweepRead, SweepClose, SweepAbort, ApplyCredit, EndReport, TakePeer, CloseIdle,
               CloseAfterGap, RefuseSession, AllowSession, CreateSession, Touch, Settle,
               ChargeStatement, SessionConflict, ChargeConflict, meterVars, vars
      <3> QED BY <2>1, <3>1
    <2> QED BY <2>2, <2>3
  <1>5. sweep' \subseteq [sid : Sessions, lastSeenAt : Time]
    <2>1. sweep \subseteq [sid : Sessions, lastSeenAt : Time] /\ sess \in [Sessions -> SessionRow]
      BY DEF ChargingIInv, MeteringTypeOK
    <2>2. CASE SweepRead
      <3>1. PICK stale \in SUBSET Sessions :
               sweep' = {[sid |-> s, lastSeenAt |-> sess[s].lastSeenAt] : s \in stale}
        BY <2>2 DEF SweepRead
      <3> QED BY <2>1, <3>1 DEF SessionRow
    <2>3. CASE ~SweepRead
      <3>1. sweep' \subseteq sweep
        BY <2>3 DEF MeteringNext, FaultFreeNext, Fault, HandlerStatement, StartReport, AbortReport,
               SweepClose, SweepAbort, Tick, ApplyCredit, EndReport, TakePeer, CloseIdle,
               CloseAfterGap, RefuseSession, AllowSession, CreateSession, Touch, Settle,
               ChargeStatement, SessionConflict, ChargeConflict, meterVars, vars
      <3> QED BY <2>1, <3>1
    <2> QED BY <2>2, <2>3
  <1>6. MeteringTypeOK'
    BY <1>3, <1>4, <1>5, SessionsTyped DEF MeteringTypeOK
  <1>7. DebitsOnly' /\ IsFiniteSet(CommittedRows)'
    <2>1. DebitsOnly /\ IsFiniteSet(CommittedRows) /\ WalletIInv
      BY DEF ChargingIInv
    <2>2. ASSUME NEW x, CommittedRows' = CommittedRows \union {x}, x.key[1] = "session" => x.amount <= 0
          PROVE  DebitsOnly' /\ IsFiniteSet(CommittedRows)'
      BY <2>1, <2>2, FS_AddElement DEF DebitsOnly
    <2>3. ASSUME NEW r \in Credits, ApplyCredit(r)
          PROVE  DebitsOnly' /\ IsFiniteSet(CommittedRows)'
      <3>1. PICK x \in Row : x.key = r.key /\ CommittedRows' = CommittedRows \union {x}
        BY <2>1, <2>3, CreditEffect
      <3> QED BY <2>1, <2>2, <2>3, <3>1, CreditEffect
    <2>4. ASSUME NEW c \in Calls, Settle(c)
          PROVE  DebitsOnly' /\ IsFiniteSet(CommittedRows)'
      <3>1. CASE fresh[c]
        <4>1. PICK x \in Row : x = row[c]
          BY <2>4, SettleEffect
        <4>2. CommittedRows' = CommittedRows \union {x} /\ x.amount <= 0
          BY <2>4, <3>1, <4>1, SettleEffect
        <4> QED BY <2>2, <4>2
      <3>2. CASE ~fresh[c]
        <4>1. UNCHANGED ledger
          BY <2>4, <3>2, SettleEffect
        <4>2. CommittedRows' = CommittedRows
          BY <4>1 DEF CommittedRows
        <4> QED BY <2>1, <4>2 DEF DebitsOnly
      <3> QED BY <3>1, <3>2
    <2> QED BY <2>1, <2>3, <2>4, RowsSame DEF DebitsOnly
  <1> QED BY <1>1, <1>2, <1>3, <1>6, <1>7 DEF ChargingIInv

\* Nothing is committed and nobody is served at the start.
LEMMA ChargingInit == MeteringInit => ChargingIInv
  <1> SUFFICES ASSUME MeteringInit PROVE ChargingIInv
    OBVIOUS
  <1>1. MeteringIInv
    BY DEF MeteringInit, NoRow, MeteringIInv, Table, OneActiveSession
  <1>2. WalletIInv
    BY WalletInitInv DEF MeteringInit
  <1>3. MeteringTypeOK
    BY EmptyFacts, MeteringConstants DEF MeteringInit, MeteringTypeOK
  <1>4. \A c \in Calls : HandlerOK(c)
    BY EmptyFacts DEF MeteringInit, WalletInit, HandlerOK, InTransaction
  <1>5. CommittedRows = {}
    BY DEF MeteringInit, WalletInit, CommittedRows
  <1> QED BY <1>1, <1>2, <1>3, <1>4, <1>5, FS_EmptySet DEF ChargingIInv, DebitsOnly

\* The invariant of the charges holds throughout, for any number of handlers.
THEOREM MeteringCharging == MeteringSpec => []ChargingIInv
  <1>1. ChargingIInv /\ [MeteringNext]_vars => ChargingIInv'
    BY ChargingStep
  <1> QED BY <1>1, ChargingInit, PTL DEF MeteringSpec

\* The sessions, the handlers and what the timer has read are well formed; in particular
\* no session ever shows fewer than no minutes.
THEOREM MeteringTypeCorrect == MeteringSpec => []MeteringTypeOK
  <1>1. ChargingIInv => MeteringTypeOK
    BY DEF ChargingIInv
  <1> QED BY <1>1, MeteringCharging, PTL

\* The chain of a wallet's rows stays intact when charges run inside the transactions of
\* billUser and purchases and refunds come in between.
THEOREM MeteringChain == MeteringSpec => []ChainIntact
  <1>1. ChargingIInv => ChainIntact
    BY DEF ChargingIInv, WalletIInv
  <1> QED BY <1>1, MeteringCharging, PTL

\* No charge, purchase or refund is applied twice, whatever reports compute its key again.
THEOREM MeteringKeys == MeteringSpec => []KeysUnique
  <1>1. ChargingIInv => KeysUnique
    BY DEF ChargingIInv, WalletIInv
  <1> QED BY <1>1, MeteringCharging, PTL

\* Metering and the webhooks together implement Ledger: seen from outside, each charge and
\* each credit is one post under its key, in one step that never overdraws.
THEOREM MeteringRefinesLedger == MeteringSpec => PromiseKept
  <1>1. MeteringInit => Promise!Init
    BY DEF MeteringInit, WalletInit, Promise!Init
  <1>2. ChargingIInv /\ [MeteringNext]_vars => [Promise!Next]_<<balance, Posted>>
    <2> SUFFICES ASSUME ChargingIInv, [MeteringNext]_vars
                 PROVE  Promise!Next \/ UNCHANGED <<balance, Posted>>
      OBVIOUS
    <2>1. CASE UNCHANGED <<balance, ledger>>
      BY <2>1, OtherStepsStutter
    <2>2. ASSUME NEW c \in Calls, Settle(c)
          PROVE  Promise!Next \/ UNCHANGED <<balance, Posted>>
      <3>1. Commit(c) /\ WalletIInv
        BY <2>2 DEF Settle, ChargingIInv
      <3>2. CASE fresh[c]
        BY <3>1, <3>2, CommitPosts
      <3>3. CASE ~fresh[c]
        BY <2>1, <3>1, <3>3 DEF Commit
      <3> QED BY <3>2, <3>3
    <2>3. ASSUME NEW r \in Credits, ApplyCredit(r)
          PROVE  Promise!Next
      <3>1. r \in Requests /\ WalletTypeOK /\ ChainIntact /\ KeysUnique
        BY MeteringAssumption DEF ChargingIInv, WalletIInv
      <3>2. /\ ~KeyCommitted(r.key) /\ ~Refused(r, balance[r.user])
            /\ ledger' = [ledger EXCEPT ![r.user] = Append(@, NewRow(r, balance[r.user]))]
            /\ balance' = [balance EXCEPT ![r.user] = NewRow(r, @).after]
        BY <2>3 DEF ApplyCredit
      <3>3. Promise!Post(r)
        BY <3>1, <3>2, AppendedPosts
      <3> QED BY <3>1, <3>3 DEF Promise!Next
    <2> QED BY <2>1, <2>2, <2>3, RowsSame
  <1> QED BY <1>1, <1>2, MeteringCharging, PTL
          DEF MeteringSpec, PromiseKept, Promise!Spec, Posted

-----------------------------------------------------------------------------
(* Sums of minutes.                                                        *)

\* g is the sum over the subsets of S, whatever order the rows are added in.
IsSum(g, S) ==
    /\ g \in [SUBSET S -> Int]
    /\ g[{}] = 0
    /\ \A T \in SUBSET S : \A x \in T : g[T] = g[T \ {x}] - x.amount

\* A set of naturals that is not empty has a least one: induction, without an operator
\* for what is proved.
LEMMA LeastNat ==
    ASSUME NEW N \in SUBSET Nat, N # {}
    PROVE  \E n \in N : \A m \in N : n <= m
  <1>1. PICK n \in N : \A m \in N : ~(<<m, n>> \in OpToRel(<, Nat))
    BY NatLessThanWellFounded, WFMin
  <1>2. ASSUME NEW m \in N PROVE n <= m
    <2>1. ~(m < n)
      BY <1>1 DEF OpToRel
    <2> QED BY <2>1
  <1> QED BY <1>2

\* The sum over one row more.
LEMMA SumOfOneMore ==
    ASSUME NEW S, \A r \in S : r.amount \in Int, NEW x \in S, NEW g, IsSum(g, S \ {x})
    PROVE  \E h : IsSum(h, S)
  <1> DEFINE h == [T \in SUBSET S |-> IF x \in T THEN g[T \ {x}] - x.amount ELSE g[T]]
  <1>1. \A T \in SUBSET S : T \ {x} \in SUBSET (S \ {x}) /\ (x \notin T => T \in SUBSET (S \ {x}))
    OBVIOUS
  <1>2. h \in [SUBSET S -> Int]
    BY <1>1 DEF IsSum
  <1>3. h[{}] = 0
    BY DEF IsSum
  <1>4. ASSUME NEW T \in SUBSET S, NEW y \in T
        PROVE  h[T] = h[T \ {y}] - y.amount
    <2>1. CASE y = x
      BY <2>1, <1>1
    <2>2. CASE y # x /\ x \notin T
      BY <2>2, <1>1 DEF IsSum
    <2>3. CASE y # x /\ x \in T
      <3>1. y \in T \ {x} /\ T \ {x} \in SUBSET (S \ {x}) /\ (T \ {x}) \ {y} = (T \ {y}) \ {x}
        BY <2>3
      <3>2. g[T \ {x}] = g[(T \ {y}) \ {x}] - y.amount
        BY <3>1 DEF IsSum
      <3>3. h[T] = g[T \ {x}] - x.amount /\ h[T \ {y}] = g[(T \ {y}) \ {x}] - x.amount
        BY <2>3
      <3>4. g[T \ {x}] \in Int /\ g[(T \ {y}) \ {x}] \in Int
        BY <3>1 DEF IsSum
      <3> HIDE DEF h
      <3> QED BY <3>2, <3>3, <3>4
    <2> QED BY <2>1, <2>2, <2>3
  <1> QED BY <1>2, <1>3, <1>4 DEF IsSum

\* Every finite set has a sum.
LEMMA SumExists ==
    ASSUME NEW S, IsFiniteSet(S), \A r \in S : r.amount \in Int
    PROVE  \E g : IsSum(g, S)
  <1> DEFINE Bad == {n \in Nat : \E T \in SUBSET S :
                        IsFiniteSet(T) /\ Cardinality(T) = n /\ ~\E g : IsSum(g, T)}
  <1>1. Bad = {}
    <2> SUFFICES ASSUME Bad # {} PROVE FALSE
      OBVIOUS
    <2>1. PICK n \in Bad : \A m \in Bad : n <= m
      <3> HIDE DEF Bad
      <3>1. Bad \in SUBSET Nat
        BY DEF Bad
      <3> QED BY <3>1, LeastNat
    <2>2. PICK T \in SUBSET S : IsFiniteSet(T) /\ Cardinality(T) = n /\ ~\E g : IsSum(g, T)
      OBVIOUS
    <2>3. CASE T = {}
      <3>1. IsSum([U \in SUBSET T |-> 0], T)
        BY <2>3 DEF IsSum
      <3> QED BY <3>1, <2>2
    <2>4. CASE T # {}
      <3>1. PICK x \in T : TRUE
        BY <2>4
      <3>2. IsFiniteSet(T \ {x}) /\ Cardinality(T \ {x}) = n - 1
        BY <2>2, FS_RemoveElement
      <3>6. n \in Nat /\ n - 1 \in Nat
        BY <3>2, FS_CardinalityType
      <3>3. n - 1 \notin Bad
        BY <2>1, <3>6
      <3>4. \E g : IsSum(g, T \ {x})
        BY <3>2, <3>3, <3>6
      <3>5. \E g : IsSum(g, T)
        BY <3>4, SumOfOneMore
      <3> QED BY <3>5, <2>2
    <2> QED BY <2>3, <2>4
  <1>2. Cardinality(S) \in Nat
    BY FS_CardinalityType
  <1> QED BY <1>1, <1>2

\* The fold is the sum.
LEMMA TakenIsSum ==
    ASSUME NEW S, IsFiniteSet(S), \A r \in S : r.amount \in Int, NEW g, IsSum(g, S)
    PROVE  Taken(S) = g[S]
  <1> DEFINE Pick(T) == CHOOSE x \in T : TRUE
             Next(h) == [T \in SUBSET S |-> IF T = {} THEN 0 ELSE -Pick(T).amount + h[T \ {Pick(T)}]]
             iter == CHOOSE h : h = Next(h)
  <1>1. Taken(S) = iter[S]
    BY DEF Taken, MapThenSumSet, MapThenFoldSet
  <1>2. \A T \in SUBSET S : T # {} => Pick(T) \in T
    OBVIOUS
  <1>3. g = Next(g)
    <2>1. \A T \in SUBSET S : T # {} =>
             g[T] = -Pick(T).amount + g[T \ {Pick(T)}]
      <3> SUFFICES ASSUME NEW T \in SUBSET S, T # {}
                   PROVE  g[T] = -Pick(T).amount + g[T \ {Pick(T)}]
        OBVIOUS
      <3>1. Pick(T) \in T
        BY <1>2
      <3> DEFINE p == Pick(T)
      <3> HIDE DEF p
      <3>2. p \in T
        BY <3>1 DEF p
      <3>3. g[T] = g[T \ {p}] - p.amount /\ g[T \ {p}] \in Int /\ p.amount \in Int
        BY <3>2 DEF IsSum
      <3>4. g[T] = -p.amount + g[T \ {p}]
        BY <3>3
      <3> QED BY <3>4 DEF p
    <2>2. g = [T \in SUBSET S |-> g[T]] /\ g[{}] = 0
      BY DEF IsSum
    <2> HIDE DEF Pick
    <2> QED BY <2>1, <2>2
  <1>4. iter = Next(iter)
    BY <1>3
  <1> DEFINE Bad == {n \in Nat : \E T \in SUBSET S : Cardinality(T) = n /\ iter[T] # g[T]}
  <1>5. Bad = {}
    <2> SUFFICES ASSUME Bad # {} PROVE FALSE
      OBVIOUS
    <2>1. PICK n \in Bad : \A m \in Bad : n <= m
      <3> HIDE DEF Bad
      <3>1. Bad \in SUBSET Nat
        BY DEF Bad
      <3> QED BY <3>1, LeastNat
    <2>2. PICK T \in SUBSET S : Cardinality(T) = n /\ iter[T] # g[T]
      OBVIOUS
    <2> HIDE DEF iter
    <2>3. iter[{}] = 0 /\ g[{}] = 0
      BY <1>4 DEF IsSum
    <2>4. T # {}
      BY <2>2, <2>3
    <2> DEFINE p == Pick(T)
    <2>5. p \in T
      BY <2>4, <1>2
    <2>6. iter[T] = -p.amount + iter[T \ {p}]
      BY <1>4, <2>4
    <2> HIDE DEF p, Pick
    <2>7. g[T] = g[T \ {p}] - p.amount /\ g[T \ {p}] \in Int /\ p.amount \in Int
      BY <2>5 DEF IsSum
    <2>8. iter[T \ {p}] # g[T \ {p}]
      BY <2>2, <2>6, <2>7
    <2>9. Cardinality(T \ {p}) = n - 1 /\ Cardinality(T \ {p}) \in Nat
      BY <2>2, <2>5, FS_RemoveElement, FS_Subset, FS_CardinalityType
    <2>10. n - 1 \in Bad
      BY <2>8, <2>9
    <2> QED BY <2>1, <2>10, <2>9
  <1>6. Cardinality(S) \in Nat
    BY FS_CardinalityType
  <1> HIDE DEF iter
  <1>7. iter[S] = g[S]
    BY <1>5, <1>6
  <1> QED BY <1>1, <1>7

\* The sum of one element more.
LEMMA TakenAdd ==
    ASSUME NEW S, IsFiniteSet(S), \A r \in S : r.amount \in Int
    PROVE  /\ Taken(S) \in Int
           /\ \A x : x \notin S /\ x.amount \in Int => Taken(S \union {x}) = Taken(S) - x.amount
  <1>1. PICK g : IsSum(g, S)
    BY SumExists
  <1>2. Taken(S) = g[S] /\ g[S] \in Int
    BY <1>1, TakenIsSum DEF IsSum
  <1>3. ASSUME NEW x, x \notin S, x.amount \in Int
        PROVE  Taken(S \union {x}) = Taken(S) - x.amount
    <2> DEFINE U == S \union {x}
    <2>1. IsFiniteSet(U) /\ \A r \in U : r.amount \in Int
      BY <1>3, FS_AddElement
    <2>2. U \ {x} = S /\ x \in U /\ S \subseteq U
      BY <1>3
    <2> HIDE DEF U
    <2>3. PICK h : IsSum(h, U)
      BY <2>1, SumExists
    <2>4. Taken(U) = h[U] /\ h[U] = h[S] - x.amount
      BY <2>1, <2>2, <2>3, TakenIsSum DEF IsSum
    <2> DEFINE k == [T \in SUBSET S |-> h[T]]
    <2>5. IsSum(k, S)
      BY <2>2, <2>3 DEF IsSum
    <2>6. k[S] = h[S]
      OBVIOUS
    <2> HIDE DEF k
    <2>7. Taken(S) = h[S]
      BY <2>5, <2>6, TakenIsSum
    <2> QED BY <2>4, <2>7 DEF U
  <1> QED BY <1>2, <1>3

\* And of none.
LEMMA TakenNone == Taken({}) = 0
  <1>1. PICK g : IsSum(g, {})
    BY SumExists, FS_EmptySet
  <1> QED BY <1>1, FS_EmptySet, TakenIsSum DEF IsSum

\* The charges of session s on the ledger.
ChargesOf(s) == {r \in CommittedRows : r.key[1] = "session" /\ r.key[2] = s}

\* Amounts on the ledger are integers.
LEMMA RowsTyped ==
    ASSUME WalletTypeOK
    PROVE  \A r \in CommittedRows : r \in Row /\ r.amount \in Int
  <1> SUFFICES ASSUME NEW u \in Users, NEW i \in DOMAIN ledger[u]
               PROVE  ledger[u][i] \in Row /\ ledger[u][i].amount \in Int
    BY DEF CommittedRows
  <1>1. ledger[u] \in Seq(Row)
    BY DEF WalletTypeOK
  <1>2. ledger[u][i] \in Row
    BY <1>1, ElementOfSeq, LenProperties
  <1> QED BY <1>2 DEF Row

\* What a session has cost is a number, and it grows by a charge of that session only.
LEMMA MinutesAdded ==
    ASSUME ChargingIInv, NEW s
    PROVE  /\ LedgerMinutes(s) \in Int
           /\ \A x \in Row : x \notin CommittedRows /\ CommittedRows' = CommittedRows \union {x} =>
                LedgerMinutes(s)' = IF x.key[1] = "session" /\ x.key[2] = s
                                    THEN LedgerMinutes(s) - x.amount ELSE LedgerMinutes(s)
           /\ CommittedRows' = CommittedRows => LedgerMinutes(s)' = LedgerMinutes(s)
  <1>1. LedgerMinutes(s) = Taken(ChargesOf(s)) /\ LedgerMinutes(s)' = Taken(ChargesOf(s)')
    BY DEF LedgerMinutes, ChargesOf
  <1>2. IsFiniteSet(ChargesOf(s)) /\ \A r \in ChargesOf(s) : r.amount \in Int
    <2>1. ChargesOf(s) \subseteq CommittedRows
      BY DEF ChargesOf
    <2> QED BY <2>1, RowsTyped, FS_Subset DEF ChargingIInv, WalletIInv
  <1>3. Taken(ChargesOf(s)) \in Int
    BY <1>2, TakenAdd
  <1>4. ASSUME NEW x \in Row, x \notin CommittedRows, CommittedRows' = CommittedRows \union {x}
        PROVE  LedgerMinutes(s)' = IF x.key[1] = "session" /\ x.key[2] = s
                                   THEN LedgerMinutes(s) - x.amount ELSE LedgerMinutes(s)
    <2>1. CASE x.key[1] = "session" /\ x.key[2] = s
      <3>1. ChargesOf(s)' = ChargesOf(s) \union {x} /\ x \notin ChargesOf(s) /\ x.amount \in Int
        BY <1>4, <2>1 DEF ChargesOf, Row
      <3>2. Taken(ChargesOf(s) \union {x}) = Taken(ChargesOf(s)) - x.amount
        BY <1>2, <3>1, TakenAdd
      <3> QED BY <1>1, <2>1, <3>1, <3>2
    <2>2. CASE ~(x.key[1] = "session" /\ x.key[2] = s)
      <3>1. ChargesOf(s)' = ChargesOf(s)
        BY <1>4, <2>2 DEF ChargesOf
      <3> QED BY <1>1, <2>2, <3>1
    <2> QED BY <2>1, <2>2
  <1>5. CommittedRows' = CommittedRows => ChargesOf(s)' = ChargesOf(s)
    BY DEF ChargesOf
  <1> QED BY <1>1, <1>3, <1>4, <1>5

-----------------------------------------------------------------------------
(* Any number of reports at once: the sessions and the ledger.             *)
(*                                                                         *)
(* A handler may compute its charge from an old copy of the session, and   *)
(* then the two do not agree any more (metering_paid_twice).  What is      *)
(* proved is that this is the only way: a session none of whose charges    *)
(* was computed from an old copy agrees with the ledger, however its       *)
(* charges overlapped, and of any other the ledger took at most what the   *)
(* dashboard shows.                                                        *)

\* Session s agrees with the ledger; while it is open, it was paid up to less than a
\* minute before it was last seen.
Agrees(s) ==
    /\ sess[s].minutesBilled = LedgerMinutes(s)
    /\ sess[s].lastBilledAt = BilledUntil(s)
    /\ sess[s].lastBilledAt <= now
    /\ sess[s].status = "ACTIVE" => sess[s].lastSeenAt - sess[s].lastBilledAt < Minute

Accounted(s) ==
    /\ LedgerMinutes(s) <= sess[s].minutesBilled
    /\ sess[s].startsAt <= now
    /\ sess[s].status = "NONE" => sess[s].minutesBilled = 0 /\ ~sess[s].stale
    /\ ~sess[s].stale => Agrees(s)
    /\ ~sess[s].stale /\ ~sess[s].late => sess[s].lastBilledAt <= sess[s].lastSeenAt

\* The charge of handler c covers the whole minutes from its copy to its clock.  Its key
\* has the total that the session had at that copy, if no charge has gone astray.
ChargeOK(c) ==
    /\ sess[rep[c].sid].user = rep[c].user
    /\ \E n \in Nat, m \in Nat \ {0} :
         /\ req[c] = Charge(rep[c].user, rep[c].sid, n, m)
         /\ m * Minute <= rep[c].at - rep[c].lastBilledAt
         /\ rep[c].at - rep[c].lastBilledAt < m * Minute + Minute
         /\ ~sess[rep[c].sid].stale =>
              /\ rep[c].lastBilledAt = sess[rep[c].sid].startsAt + Minute * n
              /\ m * Minute < IdleEnd + Minute

\* What handler c holds, old as it may be.
CopyOK(c) ==
    /\ rep[c].step # "off" => rep[c].at <= now
    /\ rep[c].sid # NoSession => rep[c].sid \in Used
    /\ rep[c].step = "touch" =>
         /\ rep[c].at - rep[c].lastBilledAt < Minute
         /\ ~sess[rep[c].sid].stale => rep[c].lastBilledAt <= sess[rep[c].sid].lastBilledAt
    /\ rep[c].step = "charge" => ChargeOK(c)

\* The keys on the ledger are of sessions that exist, and of earlier totals than the one
\* that the next charge will have in its key: but for the charge of an empty wallet, which
\* took nothing and ended the session.
KeysUsed ==
    \A x \in CommittedRows : x.key[1] = "session" =>
        /\ x.key[2] \in Used
        /\ x.key[3] \in Nat
        /\ ~sess[x.key[2]].stale =>
             \/ x.key[3] < sess[x.key[2]].minutesBilled
             \/ /\ x.amount = 0
                /\ x.key[3] = sess[x.key[2]].minutesBilled
                /\ sess[x.key[2]].status = "ENDED"

\* Session s is over, and was paid up to a moment before t started.
Before(s, t) == sess[s].status = "ENDED" /\ sess[s].lastBilledAt <= sess[t].startsAt

Streams ==
    \A s, t \in InTurn : s # t /\ sess[s].user = sess[t].user => Before(s, t) \/ Before(t, s)

SessionsIInv ==
    /\ ChargingIInv
    /\ \A s \in Sessions : Accounted(s)
    /\ \A c \in Calls : CopyOK(c)
    /\ KeysUsed
    /\ Streams
    /\ NoChargeAcrossGap
    /\ \A e \in sweep : e.sid \in Used

\* What every step does to the sessions that exist.
Grows ==
    \A s \in Used :
        /\ s \in Used'
        /\ sess'[s].user = sess[s].user
        /\ sess'[s].startsAt = sess[s].startsAt
        /\ sess[s].stale => sess'[s].stale
        /\ ~sess'[s].stale => sess[s].lastBilledAt <= sess'[s].lastBilledAt

\* A step that bills no session.
BillsNone ==
    \A s \in Used :
        /\ s \in Used'
        /\ sess'[s].user = sess[s].user
        /\ sess'[s].startsAt = sess[s].startsAt
        /\ sess'[s].lastBilledAt = sess[s].lastBilledAt
        /\ sess'[s].minutesBilled = sess[s].minutesBilled
        /\ sess'[s].stale = sess[s].stale
        /\ sess[s].status = "ENDED" => sess'[s].status = "ENDED"

\* A step that writes no column of a session but its status, and that only to end it.
OnlyEnds ==
    \A s \in Sessions :
        /\ sess'[s].user = sess[s].user
        /\ sess'[s].startsAt = sess[s].startsAt
        /\ sess'[s].lastBilledAt = sess[s].lastBilledAt
        /\ sess'[s].lastSeenAt = sess[s].lastSeenAt
        /\ sess'[s].minutesBilled = sess[s].minutesBilled
        /\ sess'[s].stale = sess[s].stale
        /\ sess'[s].late = sess[s].late
        /\ \/ sess'[s].status = sess[s].status
           \/ sess[s].status # "NONE" /\ sess'[s].status = "ENDED"

\* A step that puts no charge on the ledger.
NoNewCharge ==
    /\ \A s \in Sessions : LedgerMinutes(s)' = LedgerMinutes(s)
    /\ \A x \in CommittedRows' : x \in CommittedRows \/ x.key[1] # "session"

\* The columns and the clocks are numbers.
LEMMA Numbers ==
    ASSUME ChargingIInv
    PROVE  /\ now \in Int /\ Minute \in Nat \ {0} /\ IdleEnd \in Nat
           /\ \A c \in Calls : rep[c] \in Handler /\ rep[c].at \in Int /\ rep[c].lastBilledAt \in Int
           /\ \A s \in Sessions :
                /\ sess[s] \in SessionRow
                /\ sess[s].startsAt \in Int /\ sess[s].lastBilledAt \in Int
                /\ sess[s].lastSeenAt \in Int /\ sess[s].minutesBilled \in Nat
                /\ sess[s].status \in {"NONE", "ACTIVE", "ENDED"}
                /\ LedgerMinutes(s) \in Int
  <1>1. Time \subseteq Int
    BY MeteringConstants DEF Time
  <1> QED BY <1>1, MinutesAdded, MeteringAssumption
          DEF ChargingIInv, MeteringTypeOK, SessionRow, Handler

\* Only the COMMIT of a charge charges a session.
LEMMA NoCharge ==
    ASSUME ChargingIInv, [MeteringNext]_vars, \A c \in Calls : ~Settle(c)
    PROVE  NoNewCharge
  <1>1. CASE \A r \in Credits : ~ApplyCredit(r)
    <2>1. CommittedRows' = CommittedRows
      BY <1>1, RowsSame
    <2> QED BY <2>1, MinutesAdded DEF NoNewCharge
  <1>2. ASSUME NEW r \in Credits, ApplyCredit(r)
        PROVE  NoNewCharge
    <2>1. WalletIInv
      BY DEF ChargingIInv
    <2>2. PICK x \in Row : x.key = r.key /\ CommittedRows' = CommittedRows \union {x}
      BY <1>2, <2>1, CreditEffect
    <2>3. r.key[1] # "session"
      BY <1>2, <2>1, CreditEffect
    <2>4. \A s : LedgerMinutes(s)' = LedgerMinutes(s)
      <3>1. CASE x \in CommittedRows
        BY <2>2, <3>1, MinutesAdded
      <3>2. CASE x \notin CommittedRows
        BY <2>2, <2>3, <3>2, MinutesAdded
      <3> QED BY <3>1, <3>2
    <2> QED BY <2>2, <2>3, <2>4 DEF NoNewCharge
  <1> QED BY <1>1, <1>2

\* A step that bills no session keeps what is known of the ledger.
LEMMA LedgerKept ==
    ASSUME SessionsIInv, NoNewCharge, BillsNone
    PROVE  Grows /\ KeysUsed' /\ NoChargeAcrossGap'
  <1>1. Used \subseteq Sessions /\ \A s \in Used : sess[s].lastBilledAt \in Int
    BY Numbers DEF SessionsIInv, Used
  <1>2. Grows
    BY <1>1 DEF Grows, BillsNone
  <1>3. KeysUsed'
    BY DEF KeysUsed, SessionsIInv, NoNewCharge, BillsNone
  <1>4. ASSUME NEW x \in CommittedRows', x.key[1] = "session", x.key[2] \in Exact'
        PROVE  -x.amount * Minute < IdleEnd + Minute
    <2>1. x \in CommittedRows /\ x.key[2] \in Used
      BY <1>4 DEF NoNewCharge, SessionsIInv, KeysUsed
    <2>2. x.key[2] \in Exact
      BY <1>4, <2>1 DEF Exact, BillsNone
    <2> QED BY <1>4, <2>1, <2>2 DEF SessionsIInv, NoChargeAcrossGap
  <1> QED BY <1>2, <1>3, <1>4 DEF NoChargeAcrossGap

\* A step that only ends sessions, and charges none: the accounts still agree.
LEMMA EndKeepsAccounts ==
    ASSUME SessionsIInv, OnlyEnds, NoNewCharge, now' \in Int, now' >= now
    PROVE  (\A s \in Sessions : Accounted(s)') /\ BillsNone /\ Streams'
  <1>1. ASSUME NEW s \in Sessions
        PROVE  Accounted(s)'
    <2>1. Accounted(s)
      BY DEF SessionsIInv
    <2>2. /\ now \in Int /\ sess[s].startsAt \in Int /\ sess[s].lastBilledAt \in Int
      BY Numbers DEF SessionsIInv
    <2>3. BilledUntil(s)' = BilledUntil(s)
      BY DEF BilledUntil, NoNewCharge, OnlyEnds
    <2>4. sess'[s].startsAt <= now'
      BY <2>1, <2>2 DEF OnlyEnds, Accounted
    <2>5. ~sess'[s].stale => Agrees(s)'
      <3>1. ~sess[s].stale /\ sess[s].lastBilledAt <= now => sess'[s].lastBilledAt <= now'
        BY <2>2 DEF OnlyEnds
      <3> QED BY <2>1, <2>3, <3>1 DEF OnlyEnds, NoNewCharge, Accounted, Agrees
    <2> QED BY <2>1, <2>4, <2>5 DEF OnlyEnds, NoNewCharge, Accounted
  <1>2. BillsNone
    BY DEF OnlyEnds, BillsNone, Used
  <1>3. Streams'
    <2>1. \A s \in Sessions : s \in InTurn' <=> s \in InTurn
      BY DEF OnlyEnds, InTurn, Exact, Used
    <2>2. \A s, t \in Sessions : Before(s, t) => Before(s, t)'
      BY DEF Before, OnlyEnds
    <2>3. \A s \in Sessions : sess'[s].user = sess[s].user
      BY DEF OnlyEnds
    <2>4. InTurn' \subseteq Sessions
      BY DEF InTurn, Exact, Used
    <2> QED BY <2>1, <2>2, <2>3, <2>4 DEF Streams, SessionsIInv
  <1> QED BY <1>1, <1>2, <1>3

\* But for the insert, the touch and the charge, a step at most ends sessions.
LEMMA EndsOnly ==
    ASSUME SessionsIInv, [MeteringNext]_vars,
           \A c \in Calls : ~CreateSession(c) /\ ~Touch(c) /\ ~Settle(c)
    PROVE  OnlyEnds
  <1>1. sess \in [Sessions -> SessionRow] /\ rep \in [Calls -> Handler] /\ ChargingIInv
        /\ sweep \subseteq [sid : Sessions, lastSeenAt : Time]
    BY DEF SessionsIInv, ChargingIInv, MeteringTypeOK
  <1>2. ASSUME NEW s \in Used, NEW at \in Time, NEW why \in {"idle", "abandoned"},
               sess' = [sess EXCEPT ![s] = End(@, at, why)]
        PROVE  OnlyEnds
    <2>1. s \in Sessions /\ sess[s] \in SessionRow /\ sess[s].status # "NONE"
      BY <1>1 DEF Used
    <2> DEFINE new == End(sess[s], at, why)
    <2>2. /\ new.status = "ENDED" /\ new.user = sess[s].user /\ new.startsAt = sess[s].startsAt
          /\ new.lastBilledAt = sess[s].lastBilledAt /\ new.lastSeenAt = sess[s].lastSeenAt
          /\ new.minutesBilled = sess[s].minutesBilled
          /\ new.stale = sess[s].stale /\ new.late = sess[s].late
      BY <2>1, EndKeeps
    <2>3. sess' = [sess EXCEPT ![s] = new]
      BY <1>2
    <2> HIDE DEF new
    <2>4. sess'[s] = new /\ \A t \in Sessions \ {s} : sess'[t] = sess[t]
      BY <1>1, <2>1, <2>3
    <2> QED BY <2>1, <2>2, <2>4 DEF OnlyEnds
  <1>3. CASE UNCHANGED sess
    BY <1>3 DEF OnlyEnds
  <1>4. ASSUME NEW c \in Calls, CloseIdle(c) \/ RefuseSession(c)
        PROVE  OnlyEnds
    <2>1. /\ rep[c].lastSeenAt \in Time /\ (rep[c].sid # NoSession => rep[c].sid \in Used)
          /\ (CloseIdle(c) => rep[c].sid \in Sessions)
      BY <1>1 DEF Handler, SessionsIInv, CopyOK, ChargingIInv, HandlerOK, CloseIdle
    <2>2. CASE CloseIdle(c)
      <3>1. rep[c].sid \in Used
        BY <2>1, <2>2, MeteringAssumption
      <3> QED BY <1>2, <2>1, <2>2, <3>1 DEF CloseIdle
    <2>3. CASE RefuseSession(c) /\ rep[c].sid = NoSession
      BY <1>3, <2>3 DEF RefuseSession, ClosedByGap
    <2>4. CASE RefuseSession(c) /\ rep[c].sid # NoSession
      BY <1>2, <2>1, <2>4 DEF RefuseSession, ClosedByGap
    <2> QED BY <1>4, <2>2, <2>3, <2>4
  <1>5. CASE SweepClose
    <2>1. PICK e \in sweep : sess' = [sess EXCEPT ![e.sid] = End(@, e.lastSeenAt, "abandoned")]
      BY <1>5 DEF SweepClose
    <2>2. e.sid \in Used /\ e.lastSeenAt \in Time
      BY <1>1 DEF SessionsIInv
    <2> QED BY <1>2, <2>1, <2>2
  <1>6. \/ UNCHANGED sess \/ SweepClose
        \/ \E c \in Calls : CloseIdle(c) \/ RefuseSession(c)
    BY DEF MeteringNext, FaultFreeNext, Fault, HandlerStatement, StartReport, AbortReport, SweepRead,
           SweepAbort, Tick, ApplyCredit, EndReport, TakePeer, CloseAfterGap, AllowSession,
           ChargeStatement, SessionConflict, ChargeConflict, meterVars, vars
  <1> QED BY <1>3, <1>4, <1>5, <1>6

\* Handler h is done, or starts: it holds no session.
Released(h) ==
    /\ rep'[h].step \in {"off", "peers"}
    /\ rep'[h].sid = NoSession
    /\ rep'[h].step # "off" => rep'[h].at = now \/ (rep[h].step # "off" /\ rep'[h].at = rep[h].at)

\* Handler h goes on with what it holds.
GoesOn(h) ==
    /\ rep[h].step # "off"
    /\ rep'[h].step \in {"peers", "wallet", "create"}
    /\ rep'[h].sid = rep[h].sid
    /\ rep'[h].at = rep[h].at

\* Handler h is not concerned.
Waits(h) == rep'[h] = rep[h] /\ req'[h] = req[h]

\* Handler h has read a session, if any, and will not charge it.
Reads(h) ==
    /\ UNCHANGED sess
    /\ rep[h].step = "peers"
    /\ rep'[h].step \in {"wallet", "gap", "touch", "idle"}
    /\ rep'[h].at = rep[h].at
    /\ rep'[h].sid # NoSession => rep'[h].sid \in Used
    /\ rep'[h].step = "touch" =>
         /\ rep'[h].lastBilledAt = sess[rep'[h].sid].lastBilledAt
         /\ rep[h].at - sess[rep'[h].sid].lastBilledAt < Minute

\* Handler h has read a session and will charge it.
WillCharge(h) ==
    /\ UNCHANGED sess
    /\ rep[h].step = "peers"
    /\ rep'[h].step = "charge"
    /\ rep'[h].at = rep[h].at
    /\ rep'[h].sid \in Sessions
    /\ sess[rep'[h].sid].status = "ACTIVE"
    /\ sess[rep'[h].sid].user = rep'[h].user
    /\ sess[rep'[h].sid].lastBilledAt = rep'[h].lastBilledAt
    /\ \E m \in Nat \ {0} :
         /\ req'[h] = Charge(rep'[h].user, rep'[h].sid, sess[rep'[h].sid].minutesBilled, m)
         /\ m * Minute <= rep'[h].at - rep'[h].lastBilledAt
         /\ rep'[h].at - rep'[h].lastBilledAt < m * Minute + Minute
         /\ ~sess[rep'[h].sid].stale => m * Minute < IdleEnd + Minute

\* Whole minutes: what the division leaves is less than one.
LEMMA WholeMinutes ==
    ASSUME NEW a \in Int, NEW m \in Nat \ {0}
    PROVE  /\ a \div m \in Int
           /\ m * (a \div m) <= a /\ a < m * (a \div m) + m
           /\ (a \div m) * m = m * (a \div m)
  OBVIOUS

\* billUser reads what a charge needs.
LEMMA ReadToCharge ==
    ASSUME NEW h \in Calls, SessionsIInv, NEW d \in Devices, rep[h].step = "peers", BillElapsed(h, d),
           UNCHANGED sess
    PROVE  WillCharge(h)
  <1>1. ChargingIInv /\ MeteringTypeOK /\ WalletTypeOK
    BY DEF SessionsIInv, ChargingIInv, WalletIInv
  <1>s. PICK s \in Sessions : \E minutes :
             /\ minutes = Elapsed(rep[h].at, sess[s].lastBilledAt)
             /\ Active(s, Owner[d])
             /\ ~Quiet(rep[h].at, sess[s].lastSeenAt)
             /\ minutes > 0
             /\ Begin(h, Charge(Owner[d], s, sess[s].minutesBilled, minutes))
             /\ PeerTaken(h, d, s, "charge")
    BY DEF BillElapsed
  <1>2. PICK minutes :
           /\ minutes = Elapsed(rep[h].at, sess[s].lastBilledAt)
           /\ Active(s, Owner[d])
           /\ ~Quiet(rep[h].at, sess[s].lastSeenAt)
           /\ minutes > 0
           /\ Begin(h, Charge(Owner[d], s, sess[s].minutesBilled, minutes))
           /\ PeerTaken(h, d, s, "charge")
    BY <1>s
  <1>3. PICK new \in Handler :
           /\ rep' = [rep EXCEPT ![h] = new]
           /\ new.step = "charge" /\ new.at = rep[h].at /\ new.user = Owner[d] /\ new.sid = s
           /\ s # NoSession => new.lastBilledAt = sess[s].lastBilledAt
    BY <1>1, <1>2, PeerTakenFacts DEF HandlerSteps
  <1>4. rep'[h] = new /\ s # NoSession
    BY <1>1, <1>3, MeteringAssumption DEF MeteringTypeOK
  <1>5. req'[h] = Charge(Owner[d], s, sess[s].minutesBilled, minutes)
    BY <1>1, <1>2 DEF Begin, WalletTypeOK
  <1>6. /\ rep[h].at \in Int /\ sess[s].lastBilledAt \in Int /\ sess[s].lastSeenAt \in Int
        /\ Minute \in Nat \ {0} /\ IdleEnd \in Nat
    BY <1>1, Numbers
  <1>7. /\ sess[s].status = "ACTIVE"
        /\ ~sess[s].stale => sess[s].lastSeenAt - sess[s].lastBilledAt < Minute
    BY <1>2 DEF Active, SessionsIInv, Accounted, Agrees
  <1>8. /\ minutes \in Nat \ {0}
        /\ minutes * Minute <= rep[h].at - sess[s].lastBilledAt
        /\ rep[h].at - sess[s].lastBilledAt < minutes * Minute + Minute
    <2> DEFINE a == rep[h].at - sess[s].lastBilledAt
    <2>1. a \in Int /\ minutes = a \div Minute
      BY <1>2, <1>6 DEF Elapsed
    <2> HIDE DEF a
    <2>2. /\ minutes \in Int /\ Minute * minutes <= a /\ a < Minute * minutes + Minute
          /\ minutes * Minute = Minute * minutes
      BY <1>6, <2>1, WholeMinutes
    <2> QED BY <1>2, <2>2 DEF a
  <1>9. ~sess[s].stale => minutes * Minute < IdleEnd + Minute
    <2>1. rep[h].at - sess[s].lastSeenAt <= IdleEnd
      BY <1>2, <1>6 DEF Quiet
    <2>2. PICK p \in Int : p = minutes * Minute
      BY <1>6, <1>8
    <2> QED BY <1>6, <1>7, <1>8, <2>1, <2>2
  <1>10. sess[s].user = Owner[d]
    BY <1>2 DEF Active
  <1> QED BY <1>3, <1>4, <1>5, <1>7, <1>8, <1>9, <1>10 DEF WillCharge

\* The other ends of taking a peer.
LEMMA ReadOnly ==
    ASSUME NEW h \in Calls, SessionsIInv, NEW d \in Devices, rep[h].step = "peers",
           BillNoSession(h, d) \/ BillAfterGap(h, d) \/ BillSameMinute(h, d) \/ IdleFound(h, d),
           UNCHANGED sess
    PROVE  Reads(h)
  <1>1. ChargingIInv /\ MeteringTypeOK
    BY DEF SessionsIInv, ChargingIInv
  <1>2. PICK s \in Sessions \union {NoSession}, step \in {"wallet", "gap", "touch", "idle"} :
           /\ PeerTaken(h, d, s, step)
           /\ s # NoSession => s \in Used
           /\ step = "touch" => s \in Sessions /\ Elapsed(rep[h].at, sess[s].lastBilledAt) <= 0
    BY DEF BillNoSession, BillAfterGap, BillSameMinute, IdleFound, Active, Used
  <1>3. PICK new \in Handler :
           /\ rep' = [rep EXCEPT ![h] = new]
           /\ new.step = step /\ new.at = rep[h].at /\ new.sid = s
           /\ s # NoSession => new.lastBilledAt = sess[s].lastBilledAt
    BY <1>1, <1>2, PeerTakenFacts DEF HandlerSteps
  <1>4. rep'[h] = new
    BY <1>1, <1>3 DEF MeteringTypeOK
  <1>5. step = "touch" => rep[h].at - sess[s].lastBilledAt < Minute
    <2> SUFFICES ASSUME step = "touch" PROVE rep[h].at - sess[s].lastBilledAt < Minute
      OBVIOUS
    <2> DEFINE a == rep[h].at - sess[s].lastBilledAt
    <2>1. a \in Int /\ Minute \in Nat \ {0} /\ a \div Minute <= 0
      BY <1>1, <1>2, Numbers DEF Elapsed
    <2> HIDE DEF a
    <2>2. a < Minute
      <3>1. a \div Minute \in Int /\ a < Minute * (a \div Minute) + Minute
        BY <2>1, WholeMinutes
      <3>2. PICK q \in Int : q = a \div Minute
        BY <3>1
      <3>3. q <= 0 /\ a < Minute * q + Minute
        BY <2>1, <3>1, <3>2
      <3>4. Minute * q <= 0
        BY <2>1, <3>3
      <3> QED BY <2>1, <3>3, <3>4
    <2> QED BY <2>2 DEF a
  <1> QED BY <1>2, <1>3, <1>4, <1>5, MeteringAssumption DEF Reads

\* How the handler that takes a step moves.
LEMMA HandlerMoves ==
    ASSUME SessionsIInv, NEW h \in Calls, HandlerStatement(h) \/ StartReport(h) \/ AbortReport(h)
    PROVE  Waits(h) \/ Released(h) \/ GoesOn(h) \/ Reads(h) \/ WillCharge(h)
  <1>1. rep \in [Calls -> Handler] /\ rep[h] \in Handler
    BY DEF SessionsIInv, ChargingIInv, MeteringTypeOK
  <1>2. CASE CloseIdle(h) \/ RefuseSession(h) \/ CreateSession(h) \/ Touch(h) \/ Settle(h)
    <2>1. rep' = [rep EXCEPT ![h] = Between(h)] /\ rep[h].step # "off"
      BY <1>1, <1>2, BetweenFacts DEF CloseIdle, RefuseSession, CreateSession, Touch, Settle
    <2>2. rep'[h] = Between(h)
      BY <1>1, <2>1
    <2>3. Between(h).step = "peers" /\ Between(h).sid = NoSession /\ Between(h).at = rep[h].at
      BY <1>1, BetweenFacts
    <2>4. Released(h)
      BY <2>1, <2>2, <2>3 DEF Released
    <2> QED BY <2>4
  <1>3. CASE EndReport(h) \/ SessionConflict(h) \/ ChargeConflict(h) \/ AbortReport(h)
    <2>1. rep' = [rep EXCEPT ![h] = Off]
      BY <1>3 DEF EndReport, SessionConflict, ChargeConflict, AbortReport
    <2>2. rep'[h] = Off
      BY <1>1, <2>1
    <2> QED BY <2>2, EmptyFacts DEF Released
  <1>4. CASE StartReport(h)
    <2>1. PICK peers : rep' = [rep EXCEPT ![h] = [Off EXCEPT !.step = "peers", !.at = now, !.todo = peers]]
      BY <1>4 DEF StartReport
    <2>2. rep'[h] = [Off EXCEPT !.step = "peers", !.at = now, !.todo = peers]
      BY <1>1, <2>1
    <2>3. rep'[h].step = "peers" /\ rep'[h].sid = NoSession /\ rep'[h].at = now
      BY <2>2 DEF Off
    <2> QED BY <2>3 DEF Released
  <1>5. CASE CloseAfterGap(h) \/ AllowSession(h)
    <2>1. PICK step \in {"wallet", "create"} : rep' = [rep EXCEPT ![h].step = step]
      BY <1>5 DEF CloseAfterGap, AllowSession
    <2>2. rep'[h] = [rep[h] EXCEPT !.step = step] /\ rep[h].step # "off"
      BY <1>1, <1>5, <2>1 DEF CloseAfterGap, AllowSession
    <2>3. rep'[h].step = step /\ rep'[h].sid = rep[h].sid /\ rep'[h].at = rep[h].at
      BY <1>1, <2>2 DEF Handler
    <2>4. GoesOn(h)
      BY <2>2, <2>3 DEF GoesOn
    <2> QED BY <2>4
  <1>6. CASE TakePeer(h)
    <2>1. PICK d \in rep[h].todo : \/ BillNoSession(h, d) \/ BillAfterGap(h, d) \/ BillSameMinute(h, d)
                                   \/ BillElapsed(h, d) \/ IdleFound(h, d) \/ IdleNotFound(h, d)
      BY <1>6 DEF TakePeer
    <2>2. d \in Devices /\ rep[h].step = "peers"
      BY <1>1, <1>6 DEF Handler, TakePeer
    <2>3. CASE IdleNotFound(h, d)
      <3>1. rep'[h] = [rep[h] EXCEPT !.todo = @ \ {d}]
        BY <1>1, <2>3 DEF IdleNotFound
      <3>2. rep'[h].step = "peers" /\ rep'[h].sid = rep[h].sid /\ rep'[h].at = rep[h].at
        BY <1>1, <2>2, <3>1 DEF Handler
      <3>3. GoesOn(h)
        BY <2>2, <3>2 DEF GoesOn
      <3> QED BY <3>3
    <2>4. UNCHANGED sess
      BY <1>6 DEF TakePeer
    <2> QED BY <2>1, <2>2, <2>3, <2>4, ReadToCharge, ReadOnly
  <1>7. CASE ChargeStatement(h)
    BY <1>7 DEF ChargeStatement, FindExisting, FindNothing, LockWallet, WriteRow, meterVars, Waits
  <1> QED BY <1>2, <1>3, <1>4, <1>5, <1>6, <1>7 DEF HandlerStatement

\* A step is one handler's, or the handlers have no part in it; the others wait.
LEMMA HandlersMove ==
    ASSUME SessionsIInv, [MeteringNext]_vars, NEW h \in Calls
    PROVE  Waits(h) \/ Released(h) \/ GoesOn(h) \/ Reads(h) \/ WillCharge(h)
  <1>1. ASSUME NEW c \in Calls \ {h}, HandlerStatement(c) \/ StartReport(c) \/ AbortReport(c)
        PROVE  Waits(h)
    <2>1. rep'[h] = rep[h]
      BY <1>1 DEF HandlerStatement, StartReport, AbortReport, EndReport, TakePeer, BillNoSession,
             BillAfterGap, BillSameMinute, BillElapsed, IdleFound, IdleNotFound, CloseIdle, CloseAfterGap,
             RefuseSession, AllowSession, CreateSession, Touch, ChargeStatement, Settle, SessionConflict,
             ChargeConflict, PeerTaken, PeerDone, meterVars, SessionsIInv, ChargingIInv, MeteringTypeOK
    <2>2. req'[h] = req[h]
      BY <1>1 DEF HandlerStatement, StartReport, AbortReport, EndReport, TakePeer, BillNoSession,
             BillAfterGap, BillSameMinute, BillElapsed, IdleFound, IdleNotFound, CloseIdle, CloseAfterGap,
             RefuseSession, AllowSession, CreateSession, Touch, ChargeStatement, Settle, SessionConflict,
             ChargeConflict, Begin, FindExisting, FindNothing, LockWallet, WriteRow, Commit, Conflict,
             Fail, RollBack, walletVars, SessionsIInv, ChargingIInv, WalletIInv, WalletTypeOK
    <2> QED BY <2>1, <2>2 DEF Waits
  <1>2. ASSUME SweepRead \/ SweepClose \/ SweepAbort \/ Tick \/ UNCHANGED vars
                 \/ \E r \in Credits : ApplyCredit(r)
        PROVE  Waits(h)
    BY <1>2 DEF SweepRead, SweepClose, SweepAbort, Tick, ApplyCredit, vars, walletVars, meterVars, Waits
  <1> QED BY <1>1, <1>2, HandlerMoves DEF MeteringNext, FaultFreeNext, Fault

\* The clock never goes back.
LEMMA ClockStep ==
    ASSUME ChargingIInv, [MeteringNext]_vars
    PROVE  now' \in Int /\ now' >= now
  <1>1. now \in Int
    BY Numbers
  <1>2. CASE Tick
    BY <1>1, <1>2 DEF Tick
  <1>3. CASE ~Tick
    <2>1. now' = now
      BY <1>3 DEF MeteringNext, FaultFreeNext, Fault, HandlerStatement, StartReport, AbortReport,
             SweepRead, SweepClose, SweepAbort, ApplyCredit, EndReport, TakePeer, CloseIdle,
             CloseAfterGap, RefuseSession, AllowSession, CreateSession, Touch, Settle,
             ChargeStatement, SessionConflict, ChargeConflict, meterVars, vars
    <2> QED BY <1>1, <2>1
  <1> QED BY <1>2, <1>3

\* Whatever a step does to the sessions, what handler h holds stays in order.
LEMMA CopyKept ==
    ASSUME SessionsIInv, [MeteringNext]_vars, Grows, NEW h \in Calls
    PROVE  CopyOK(h)'
  <1>1. ChargingIInv /\ CopyOK(h) /\ HandlerOK(h) /\ HandlerOK(h)'
    BY ChargingStep DEF SessionsIInv, ChargingIInv
  <1>2. now' >= now /\ now' \in Int /\ now \in Int /\ rep[h].at \in Int /\ rep[h].lastBilledAt \in Int
    BY <1>1, ClockStep, Numbers
  <1>3. \A s \in Used : s \in Sessions /\ s # NoSession /\ sess[s].lastBilledAt \in Int
    BY <1>1, Numbers, MeteringAssumption DEF Used
  <1>4. Used \subseteq Used'
    BY DEF Grows
  <1>5. CASE Waits(h)
    <2>1. rep'[h].step # "off" => rep'[h].at <= now'
      BY <1>1, <1>2, <1>5 DEF CopyOK, Waits
    <2>2. rep'[h].sid # NoSession => rep'[h].sid \in Used'
      BY <1>1, <1>4, <1>5 DEF CopyOK, Waits
    <2>3. CASE rep[h].step \in {"touch", "charge"}
      <3>1. PICK s \in Used : s = rep[h].sid
        BY <1>1, <2>3, MeteringAssumption DEF HandlerOK, CopyOK
      <3>2. /\ sess'[s].user = sess[s].user /\ sess'[s].startsAt = sess[s].startsAt
            /\ sess[s].stale => sess'[s].stale
            /\ ~sess'[s].stale => sess[s].lastBilledAt <= sess'[s].lastBilledAt
        BY DEF Grows
      <3>3. rep[h].step = "charge" => ChargeOK(h)'
        <4> SUFFICES ASSUME ChargeOK(h) PROVE ChargeOK(h)'
          BY <1>1 DEF CopyOK
        <4> QED BY <1>5, <3>1, <3>2 DEF ChargeOK, Waits
      <3>4. rep[h].step = "touch" =>
              /\ rep'[h].at - rep'[h].lastBilledAt < Minute
              /\ ~sess'[s].stale => rep'[h].lastBilledAt <= sess'[s].lastBilledAt
        <4>1. sess[s].lastBilledAt \in Int /\ sess'[s].lastBilledAt \in Int
          BY <1>1, <1>3, ChargingStep, SessionsTyped DEF SessionRow
        <4> QED BY <1>1, <1>2, <1>5, <3>1, <3>2, <4>1 DEF CopyOK, Waits
      <3> QED BY <1>5, <2>1, <2>2, <3>1, <3>3, <3>4 DEF CopyOK, Waits
    <2> QED BY <1>5, <2>1, <2>2, <2>3 DEF CopyOK, Waits
  <1>6. CASE Released(h)
    BY <1>1, <1>2, <1>6 DEF Released, CopyOK
  <1>7. CASE GoesOn(h)
    BY <1>1, <1>2, <1>4, <1>7 DEF GoesOn, CopyOK
  <1>8. CASE Reads(h)
    <2>1. rep'[h].at <= now'
      BY <1>1, <1>2, <1>8 DEF Reads, CopyOK
    <2>2. rep'[h].step = "touch" => rep'[h].sid \in Sessions
      BY <1>1 DEF HandlerOK
    <2>3. rep'[h].step = "touch" => sess[rep'[h].sid].lastBilledAt \in Int
      BY <1>1, <2>2, Numbers
    <2>4. rep'[h].step = "touch" =>
             /\ rep'[h].at - rep'[h].lastBilledAt < Minute
             /\ rep'[h].lastBilledAt <= sess'[rep'[h].sid].lastBilledAt
      BY <1>8, <2>3 DEF Reads
    <2> QED BY <1>4, <1>8, <2>1, <2>4 DEF Reads, CopyOK
  <1>9. CASE WillCharge(h)
    <2>1. PICK s \in Sessions : s = rep'[h].sid /\ s \in Used
      BY <1>9 DEF WillCharge, Used
    <2>2. rep'[h].at <= now' /\ s \in Used'
      BY <1>1, <1>2, <1>4, <1>9, <2>1 DEF WillCharge, CopyOK
    <2>3. ~sess[s].stale => sess[s].lastBilledAt = sess[s].startsAt + Minute * sess[s].minutesBilled
      BY <2>1 DEF SessionsIInv, Accounted, Agrees, BilledUntil
    <2>4. sess[s].minutesBilled \in Nat
      BY <1>1, Numbers
    <2>5. ChargeOK(h)'
      BY <1>9, <2>1, <2>3, <2>4 DEF WillCharge, ChargeOK
    <2> QED BY <1>9, <2>1, <2>2, <2>5 DEF WillCharge, CopyOK
  <1> QED BY <1>5, <1>6, <1>7, <1>8, <1>9, HandlersMove

\* A report within the minute: the session was seen, and stays paid up to the same moment.
LEMMA TouchKeeps ==
    ASSUME SessionsIInv, NEW h \in Calls, Touch(h), NoNewCharge
    PROVE  (\A s \in Sessions : Accounted(s)') /\ BillsNone /\ Streams'
  <1>1. /\ ChargingIInv /\ CopyOK(h) /\ now' = now
        /\ rep[h].step = "touch" /\ sess \in [Sessions -> SessionRow]
        /\ rep[h] \in Handler /\ rep[h].at \in Time
    BY DEF SessionsIInv, ChargingIInv, MeteringTypeOK, Touch, Handler
  <1>2. PICK s \in Sessions : s = rep[h].sid
    BY <1>1 DEF ChargingIInv, HandlerOK
  <1>3. sess' = [sess EXCEPT ![s] = Touched(h, sess[s])]
    BY <1>1, <1>2 DEF Touch
  <1>4. sess'[s] = Touched(h, sess[s]) /\ \A t \in Sessions \ {s} : sess'[t] = sess[t]
    BY <1>1, <1>3
  <1>5. /\ sess'[s].user = sess[s].user /\ sess'[s].status = sess[s].status
        /\ sess'[s].startsAt = sess[s].startsAt /\ sess'[s].lastBilledAt = sess[s].lastBilledAt
        /\ sess'[s].minutesBilled = sess[s].minutesBilled /\ sess'[s].lastSeenAt = rep[h].at
        /\ sess'[s].stale = sess[s].stale
        /\ sess'[s].late = (sess[s].late \/ Overtaken(h, sess[s]))
    BY <1>1, <1>4, TouchedKeeps
  <1>6. \A t \in Sessions : LedgerMinutes(t)' = LedgerMinutes(t)
    BY DEF NoNewCharge
  <1>7. BillsNone
    BY <1>4, <1>5 DEF BillsNone, Used
  <1>8. ASSUME NEW t \in Sessions PROVE Accounted(t)'
    <2>1. Accounted(t) /\ BilledUntil(t)' = BilledUntil(t)
      BY <1>4, <1>5, <1>6 DEF SessionsIInv, BilledUntil
    <2>2. CASE t # s
      BY <1>1, <1>4, <1>6, <2>1, <2>2 DEF Accounted, Agrees
    <2>3. CASE t = s
      <3>1. /\ sess[s].lastSeenAt \in Int /\ sess[s].lastBilledAt \in Int /\ rep[h].at \in Int
            /\ rep[h].lastBilledAt \in Int /\ Minute \in Nat
        BY <1>1, Numbers
      <3>2. ~sess[s].stale => rep[h].at - sess[s].lastBilledAt < Minute
        BY <1>1, <1>2, <3>1 DEF CopyOK
      <3>3. ~sess'[s].stale => Agrees(s)'
        BY <1>1, <1>5, <1>6, <2>1, <2>3, <3>2 DEF Accounted, Agrees
      <3>4. ~sess'[s].stale /\ ~sess'[s].late => sess'[s].lastBilledAt <= sess'[s].lastSeenAt
        <4>1. ~sess'[s].stale /\ ~sess'[s].late =>
                 ~sess[s].stale /\ ~sess[s].late /\ ~Overtaken(h, sess[s])
          BY <1>5
        <4>2. ~Overtaken(h, sess[s]) => sess[s].lastSeenAt <= rep[h].at
          BY <3>1 DEF Overtaken
        <4> QED BY <1>5, <2>1, <2>3, <3>1, <4>1, <4>2 DEF Accounted
      <3> QED BY <1>1, <1>5, <1>6, <2>1, <2>3, <3>3, <3>4 DEF Accounted
    <2> QED BY <2>2, <2>3
  <1>9. Streams'
    <2>1. \A t \in Sessions : t \in InTurn' => t \in InTurn
      BY <1>4, <1>5 DEF InTurn, Exact, Used
    <2>2. \A t, v \in Sessions : Before(t, v) => Before(t, v)'
      BY <1>4, <1>5 DEF Before
    <2>3. InTurn' \subseteq Sessions /\ \A t \in Sessions : sess'[t].user = sess[t].user
      BY <1>4, <1>5 DEF InTurn, Exact, Used
    <2> QED BY <2>1, <2>2, <2>3 DEF Streams, SessionsIInv
  <1> QED BY <1>7, <1>8, <1>9

\* A new session starts with nothing on the ledger, and after all of its user's are over.
LEMMA CreateKeeps ==
    ASSUME SessionsIInv, NEW h \in Calls, CreateSession(h), NoNewCharge
    PROVE  (\A s \in Sessions : Accounted(s)') /\ BillsNone /\ Streams'
  <1>1. /\ ChargingIInv /\ CopyOK(h) /\ now' = now
        /\ rep[h].step = "create" /\ sess \in [Sessions -> SessionRow] /\ rep[h] \in Handler
    BY DEF SessionsIInv, ChargingIInv, MeteringTypeOK, CreateSession
  <1>2. PICK u : u = rep[h].user
    OBVIOUS
  <1>3. PICK new : new = NewSession(h, u)
    OBVIOUS
  <1>4. /\ new.user = u /\ new.status = "ACTIVE" /\ new.startsAt = rep[h].at
        /\ new.lastBilledAt = rep[h].at /\ new.lastSeenAt = rep[h].at /\ new.minutesBilled = 0
        /\ new.stale = FALSE
        /\ new.late <=> \E s \in Used : sess[s].user = u /\ Overtaken(h, sess[s])
    <2>1. new.late <=> \E s \in Used : sess[s].user = u /\ Overtaken(h, sess[s])
      BY <1>3, NewSessionLate
    <2> QED BY <1>3, <2>1, NewSessionFacts
  <1>5. PICK f \in Sessions : f = FreshId /\ sess[f].status = "NONE"
    BY DEF CreateSession, FreshId
  <1>6. sess' = [ClosedByGap(h) EXCEPT ![f] = new]
    BY <1>2, <1>3, <1>5 DEF CreateSession
  <1>7. /\ ClosedByGap(h) = [s \in Sessions |-> ClosedByGap(h)[s]]
        /\ \A s \in Sessions :
             /\ s = rep[h].sid => ClosedByGap(h)[s].status = "ENDED"
             /\ s # rep[h].sid => ClosedByGap(h)[s] = sess[s]
    BY <1>1, ClosedByGapFacts DEF ChargingIInv, MeteringIInv
  <1>8. ASSUME NEW s \in Sessions, s = rep[h].sid
        PROVE  /\ ClosedByGap(h)[s].user = sess[s].user
               /\ ClosedByGap(h)[s].startsAt = sess[s].startsAt
               /\ ClosedByGap(h)[s].lastBilledAt = sess[s].lastBilledAt
               /\ ClosedByGap(h)[s].lastSeenAt = sess[s].lastSeenAt
               /\ ClosedByGap(h)[s].minutesBilled = sess[s].minutesBilled
               /\ ClosedByGap(h)[s].stale = sess[s].stale
               /\ ClosedByGap(h)[s].late = sess[s].late
    <2>1. s # NoSession /\ sess[s] \in SessionRow /\ rep[h].lastSeenAt \in Time
      BY <1>1, <1>8, MeteringAssumption DEF Handler
    <2>2. ClosedByGap(h)[s] = End(sess[s], rep[h].lastSeenAt, "idle")
      BY <1>1, <1>8, <2>1 DEF ClosedByGap
    <2> QED BY <2>1, <2>2, EndKeeps
  <1>9. sess'[f] = new /\ \A s \in Sessions \ {f} : sess'[s] = ClosedByGap(h)[s]
    BY <1>6, <1>7
  <1>10. ASSUME NEW s \in Sessions \ {f}
         PROVE  /\ sess'[s].user = sess[s].user /\ sess'[s].startsAt = sess[s].startsAt
                /\ sess'[s].lastBilledAt = sess[s].lastBilledAt
                /\ sess'[s].lastSeenAt = sess[s].lastSeenAt
                /\ sess'[s].minutesBilled = sess[s].minutesBilled
                /\ sess'[s].stale = sess[s].stale /\ sess'[s].late = sess[s].late
                /\ IF s = rep[h].sid THEN sess'[s].status = "ENDED"
                                     ELSE sess'[s].status = sess[s].status
                /\ s \in Used' <=> s \in Used
    <2>1. s = rep[h].sid => s \in Used
      BY <1>1, MeteringAssumption DEF CopyOK
    <2> QED BY <1>7, <1>8, <1>9, <2>1 DEF Used
  <1>11. \A s \in Sessions \ {f} : sess'[s].user = rep[h].user /\ s \in Used => sess'[s].status = "ENDED"
    <2>1. \A s \in Sessions \ {rep[h].sid} : ~(sess[s].status = "ACTIVE" /\ sess[s].user = rep[h].user)
      BY DEF CreateSession, Active
    <2>2. \A s \in Sessions : sess[s].status \in {"NONE", "ACTIVE", "ENDED"}
      BY <1>1, Numbers
    <2> QED BY <1>10, <2>1, <2>2 DEF Used
  <1>12. ASSUME NEW s \in Sessions PROVE Accounted(s)'
    <2>1. Accounted(s) /\ LedgerMinutes(s)' = LedgerMinutes(s)
      BY DEF SessionsIInv, NoNewCharge
    <2>2. rep[h].at \in Int /\ Minute \in Nat \ {0} /\ rep[h].at <= now
      BY <1>1, Numbers DEF CopyOK
    <2>3. CASE s = f
      <3>1. LedgerMinutes(s)' = 0
        BY <1>5, <2>1, <2>3 DEF Accounted, Agrees
      <3>2. BilledUntil(s)' = rep[h].at
        BY <1>2, <1>4, <1>9, <2>2, <2>3, <3>1 DEF BilledUntil
      <3> QED BY <1>1, <1>2, <1>4, <1>9, <2>2, <2>3, <3>1, <3>2 DEF Accounted, Agrees
    <2>4. CASE s # f
      <3>1. BilledUntil(s)' = BilledUntil(s)
        BY <1>10, <2>1, <2>4 DEF BilledUntil
      <3>2. sess'[s].status # "ENDED" => sess'[s].status = sess[s].status
        BY <1>10, <2>4
      <3> QED BY <1>1, <1>10, <2>1, <2>4, <3>1, <3>2 DEF Accounted, Agrees
    <2> QED BY <2>3, <2>4
  <1>13. BillsNone
    <2>1. \A s \in Used : s \in Sessions \ {f}
      BY <1>5 DEF Used
    <2> QED BY <1>10, <2>1 DEF BillsNone
  <1>14. Streams'
    <2> SUFFICES ASSUME NEW s \in InTurn', NEW t \in InTurn', s # t, sess'[s].user = sess'[t].user
                 PROVE  Before(s, t)' \/ Before(t, s)'
      BY DEF Streams
    <2>1. s \in Sessions /\ t \in Sessions
      BY DEF InTurn, Exact, Used
    <2>2. ASSUME NEW v \in Sessions \ {f}, v \in InTurn', f \in InTurn', sess'[v].user = sess'[f].user
          PROVE  Before(v, f)'
      <3>1. v \in Used' /\ v \in Used /\ ~sess[v].stale /\ ~sess[v].late
        BY <1>10, <2>2 DEF InTurn, Exact
      <3>2. sess'[v].status = "ENDED" /\ sess[v].user = rep[h].user
        BY <1>2, <1>4, <1>9, <1>10, <1>11, <2>2, <3>1
      <3>3. ~Overtaken(h, sess[v])
        BY <1>2, <1>4, <1>9, <2>2, <3>1, <3>2 DEF InTurn
      <3>4. Accounted(v) /\ rep[h].at \in Int /\ sess[v].lastBilledAt \in Int /\ sess[v].lastSeenAt \in Int
        BY <1>1, Numbers DEF SessionsIInv
      <3>5. sess[v].lastBilledAt <= rep[h].at
        BY <3>1, <3>3, <3>4 DEF Accounted, Overtaken
      <3> QED BY <1>2, <1>4, <1>9, <1>10, <3>2, <3>5 DEF Before
    <2>3. CASE s # f /\ t # f
      <3>1. s \in InTurn /\ t \in InTurn /\ sess[s].user = sess[t].user
        BY <1>10, <2>1, <2>3 DEF InTurn, Exact
      <3>2. Before(s, t) \/ Before(t, s)
        BY <2>3, <3>1 DEF SessionsIInv, Streams
      <3> QED BY <1>10, <2>1, <2>3, <3>2 DEF Before
    <2> QED BY <2>1, <2>2, <2>3
  <1> QED BY <1>12, <1>13, <1>14

\* The COMMIT of a charge, in numbers.  Of m whole minutes since the copy it takes
\* `billed`: all of them, or what the wallet had, or what the row under its key took.
Charges(h, s, n, billed, m) ==
    /\ s = rep[h].sid
    /\ s \in Used
    /\ m * Minute <= rep[h].at - rep[h].lastBilledAt
    /\ rep[h].at - rep[h].lastBilledAt < m * Minute + Minute
    /\ ~sess[s].stale =>
         rep[h].lastBilledAt = sess[s].startsAt + Minute * n /\ m * Minute < IdleEnd + Minute
    /\ \A t \in Sessions \ {s} : sess'[t] = sess[t]
    /\ sess'[s].user = sess[s].user
    /\ sess'[s].startsAt = sess[s].startsAt
    /\ sess'[s].lastBilledAt = rep[h].lastBilledAt + billed * Minute
    /\ sess'[s].lastSeenAt = rep[h].at
    /\ sess'[s].minutesBilled = sess[s].minutesBilled + billed
    /\ sess'[s].stale = (sess[s].stale \/ sess[s].lastBilledAt # rep[h].lastBilledAt)
    /\ sess'[s].late = (sess[s].late \/ sess[s].status # "ACTIVE" \/ Overtaken(h, sess[s]))
    /\ \/ sess'[s].status = "ENDED"
       \/ /\ billed >= m
          /\ sess'[s].status = sess[s].status
          /\ sess'[s].reason = sess[s].reason

\* It wrote row x ...
Wrote(h, s, n, billed, m, x) ==
    /\ x.key = <<"session", s, n>>
    /\ x.amount = -billed
    /\ billed <= m
    /\ x \notin CommittedRows
    /\ CommittedRows' = CommittedRows \union {x}
    /\ balance'[sess[s].user] = 0 \/ (sess'[s].status = sess[s].status /\ sess'[s].reason = sess[s].reason)

\* ... or found it, under the key that an earlier charge had used.
Found(s, n, billed, x) ==
    /\ x.key = <<"session", s, n>>
    /\ x.amount = -billed
    /\ x \in CommittedRows
    /\ CommittedRows' = CommittedRows

\* Every COMMIT of a handler is such a charge.
LEMMA SettleCharges ==
    ASSUME SessionsIInv, NEW h \in Calls, Settle(h)
    PROVE  \E s \in Sessions, n \in Nat, billed \in Nat, m \in Nat \ {0}, x \in Row :
             /\ Charges(h, s, n, billed, m)
             /\ Wrote(h, s, n, billed, m, x) \/ Found(s, n, billed, x)
  <1>1. /\ ChargingIInv /\ CopyOK(h) /\ ChargeOK(h) /\ HandlerOK(h) /\ rep[h].step = "charge"
        /\ sess \in [Sessions -> SessionRow] /\ rep[h] \in Handler
    BY DEF SessionsIInv, ChargingIInv, MeteringTypeOK, CopyOK, Settle
  <1>2. PICK s \in Sessions : s = rep[h].sid
    BY <1>1 DEF HandlerOK
  <1>3. PICK n \in Nat, m \in Nat \ {0} :
           /\ req[h] = Charge(rep[h].user, s, n, m)
           /\ m * Minute <= rep[h].at - rep[h].lastBilledAt
           /\ rep[h].at - rep[h].lastBilledAt < m * Minute + Minute
           /\ ~sess[s].stale =>
                rep[h].lastBilledAt = sess[s].startsAt + Minute * n /\ m * Minute < IdleEnd + Minute
    BY <1>1, <1>2 DEF ChargeOK
  <1>4. s \in Used /\ sess[s].user = rep[h].user
    BY <1>1, <1>2, MeteringAssumption DEF CopyOK, ChargeOK
  <1>5. PICK u \in Users : u = rep[h].user
    BY <1>1 DEF Handler
  <1>6. req[h].user = u /\ req[h].amount = -m /\ req[h].key = <<"session", s, n>>
    BY <1>3, <1>5 DEF Charge
  <1>7. PICK x \in Row : x = row[h] /\ x.amount \in Int /\ -x.amount \in Nat /\ x.key = <<"session", s, n>>
    BY <1>1, <1>6, SettleEffect
  <1>8. PICK billed \in Nat : billed = -x.amount
    BY <1>7
  <1>9. x.amount = -billed
    BY <1>7, <1>8
  <1>10. sess' = [sess EXCEPT ![s] = Charged(h, sess[s])]
    BY <1>1, <1>2 DEF Settle
  <1>11. sess'[s] = Charged(h, sess[s]) /\ \A t \in Sessions \ {s} : sess'[t] = sess[t]
    BY <1>1, <1>10
  <1>12. /\ sess'[s].user = sess[s].user
         /\ sess'[s].startsAt = sess[s].startsAt
         /\ sess'[s].lastBilledAt = rep[h].lastBilledAt + billed * Minute
         /\ sess'[s].lastSeenAt = rep[h].at
         /\ sess'[s].minutesBilled = sess[s].minutesBilled + billed
         /\ IF billed < m \/ x.after = 0
            THEN sess'[s].status = "ENDED"
            ELSE sess'[s].status = sess[s].status /\ sess'[s].reason = sess[s].reason
         /\ sess'[s].stale = (sess[s].stale \/ sess[s].lastBilledAt # rep[h].lastBilledAt)
         /\ sess'[s].late = (sess[s].late \/ sess[s].status # "ACTIVE" \/ Overtaken(h, sess[s]))
    <2>1. -req[h].amount = m
      BY <1>6
    <2> QED BY <1>1, <1>7, <1>8, <1>11, <2>1, ChargedKeeps
  <1>13. Charges(h, s, n, billed, m)
    BY <1>2, <1>3, <1>4, <1>11, <1>12 DEF Charges
  <1>14. CASE fresh[h]
    <2>1. /\ x = NewRow(req[h], balance[u]) /\ balance' = [balance EXCEPT ![u] = x.after]
          /\ CommittedRows' = CommittedRows \union {x} /\ x \notin CommittedRows
      BY <1>1, <1>6, <1>7, <1>14, SettleEffect
    <2>2. PICK b \in Nat : b = balance[u]
      BY <1>1 DEF ChargingIInv, WalletIInv, WalletTypeOK
    <2>3. balance'[u] = x.after
      BY <1>1, <2>1 DEF ChargingIInv, WalletIInv, WalletTypeOK
    <2>4. x.amount = (IF b - m < 0 THEN -b ELSE -m) /\ x.after = b + x.amount
      BY <1>6, <2>1, <2>2 DEF NewRow
    <2>5. billed <= m /\ (billed < m => x.after = 0)
      BY <1>8, <2>4
    <2>6. Wrote(h, s, n, billed, m, x)
      BY <1>4, <1>5, <1>7, <1>9, <1>12, <2>1, <2>3, <2>5 DEF Wrote
    <2> QED BY <1>13, <2>6
  <1>15. CASE ~fresh[h]
    <2>1. x \in CommittedRows /\ UNCHANGED ledger
      BY <1>1, <1>7, <1>15, SettleEffect
    <2>2. Found(s, n, billed, x)
      BY <1>7, <1>9, <2>1 DEF Found, CommittedRows
    <2> QED BY <1>13, <2>2
  <1> QED BY <1>14, <1>15

\* The rows of a charge that was written add up to what it took; one that was found adds
\* nothing.
LEMMA ChargesMinutes ==
    ASSUME ChargingIInv, NEW h, NEW s \in Sessions, NEW n, NEW billed \in Nat, NEW m, NEW x \in Row
    PROVE  /\ Wrote(h, s, n, billed, m, x) =>
                /\ LedgerMinutes(s)' = LedgerMinutes(s) + billed
                /\ \A t \in Sessions \ {s} : LedgerMinutes(t)' = LedgerMinutes(t)
           /\ Found(s, n, billed, x) => \A t \in Sessions : LedgerMinutes(t)' = LedgerMinutes(t)
  <1>1. ASSUME Wrote(h, s, n, billed, m, x)
        PROVE  /\ LedgerMinutes(s)' = LedgerMinutes(s) + billed
               /\ \A t \in Sessions \ {s} : LedgerMinutes(t)' = LedgerMinutes(t)
    <2>1. /\ x \notin CommittedRows /\ CommittedRows' = CommittedRows \union {x}
          /\ x.key[1] = "session" /\ x.key[2] = s /\ x.amount = -billed
      BY <1>1 DEF Wrote
    <2>2. LedgerMinutes(s) \in Int /\ LedgerMinutes(s)' = LedgerMinutes(s) - x.amount
      BY <2>1, MinutesAdded
    <2>3. \A t \in Sessions \ {s} : LedgerMinutes(t)' = LedgerMinutes(t)
      BY <2>1, MinutesAdded
    <2> QED BY <2>1, <2>2, <2>3
  <1>2. Found(s, n, billed, x) => \A t \in Sessions : LedgerMinutes(t)' = LedgerMinutes(t)
    BY MinutesAdded DEF Found
  <1> QED BY <1>1, <1>2

\* A multiple of a minute has one factor.
LEMMA Cancel ==
    ASSUME NEW c \in Nat \ {0}, NEW a \in Int, NEW b \in Int, c * a = c * b
    PROVE  a = b
  <1>1. c * (a - b) = 0
    OBVIOUS
  <1>2. a - b > 0 => c * (a - b) > 0
    OBVIOUS
  <1>3. a - b < 0 => c * (a - b) < 0
    OBVIOUS
  <1> QED BY <1>1, <1>2, <1>3

\* The charge of a copy that was current: its key has the total that the ledger shows.
LEMMA ChargesCurrent ==
    ASSUME SessionsIInv, NEW h \in Calls, NEW s \in Sessions, NEW n \in Nat, NEW billed \in Nat,
           NEW m \in Nat \ {0}, Charges(h, s, n, billed, m), ~sess'[s].stale
    PROVE  /\ ~sess[s].stale
           /\ sess[s].lastBilledAt = rep[h].lastBilledAt
           /\ Agrees(s)
           /\ n = LedgerMinutes(s)
           /\ n = sess[s].minutesBilled
  <1>1. ~sess[s].stale /\ sess[s].lastBilledAt = rep[h].lastBilledAt
    BY DEF Charges
  <1>2. Agrees(s)
    BY <1>1 DEF SessionsIInv, Accounted
  <1>3. sess[s].startsAt \in Int /\ LedgerMinutes(s) \in Int /\ Minute \in Nat \ {0}
    BY Numbers DEF SessionsIInv
  <1>4. sess[s].startsAt + Minute * n = sess[s].startsAt + Minute * LedgerMinutes(s)
    BY <1>1, <1>2 DEF Charges, Agrees, BilledUntil
  <1>5. PICK p \in Int, q \in Int : p = Minute * n /\ q = Minute * LedgerMinutes(s)
    BY <1>3
  <1>6. p = q
    BY <1>3, <1>4, <1>5
  <1>7. n = LedgerMinutes(s)
    BY <1>3, <1>5, <1>6, Cancel
  <1> QED BY <1>1, <1>2, <1>7 DEF Agrees

\* A row that was found under the key of a current copy took nothing, and ended the session.
LEMMA FoundTookNothing ==
    ASSUME SessionsIInv, NEW h \in Calls, NEW s \in Sessions, NEW n \in Nat, NEW billed \in Nat,
           NEW m \in Nat \ {0}, NEW x \in Row, Charges(h, s, n, billed, m), ~sess'[s].stale,
           Found(s, n, billed, x)
    PROVE  billed = 0 /\ sess[s].status = "ENDED" /\ sess'[s].late
  <1>1. ~sess[s].stale /\ n = sess[s].minutesBilled
    BY ChargesCurrent
  <1>2. x \in CommittedRows /\ x.key[1] = "session" /\ x.key[2] = s /\ x.key[3] = n /\ x.amount = -billed
    BY DEF Found
  <1>3. ~(x.key[3] < sess[s].minutesBilled)
    BY <1>1, <1>2
  <1>4. x.amount = 0 /\ sess[s].status = "ENDED"
    BY <1>1, <1>2, <1>3 DEF SessionsIInv, KeysUsed
  <1>5. billed = 0
    BY <1>2, <1>4
  <1> QED BY <1>4, <1>5 DEF Charges

\* The charge in minutes and in ticks.
LEMMA ChargesTime ==
    ASSUME SessionsIInv, NEW h \in Calls, CopyOK(h), rep[h].step = "charge", NEW s \in Sessions,
           NEW n \in Nat, NEW billed \in Nat, NEW m \in Nat \ {0}, Charges(h, s, n, billed, m)
    PROVE  /\ sess'[s].lastBilledAt \in Int
           /\ sess'[s].lastBilledAt >= rep[h].lastBilledAt
           /\ billed <= m => sess'[s].lastBilledAt <= rep[h].at
           /\ billed = m => rep[h].at - sess'[s].lastBilledAt < Minute
           /\ rep[h].at \in Int /\ rep[h].at <= now
           /\ billed <= m /\ ~sess[s].stale => billed * Minute < IdleEnd + Minute
  <1>1. /\ rep[h].at \in Int /\ rep[h].lastBilledAt \in Int /\ rep[h].at <= now
        /\ Minute \in Nat \ {0} /\ IdleEnd \in Nat
    BY Numbers DEF SessionsIInv, CopyOK
  <1>2. PICK p \in Nat, q \in Nat : p = billed * Minute /\ q = m * Minute
    BY <1>1
  <1>3. (billed <= m => p <= q) /\ (billed = m => p = q)
    <2>1. \A a, b, c \in Nat : a <= b => a * c <= b * c
      OBVIOUS
    <2> QED BY <1>1, <1>2, <2>1
  <1>4. /\ sess'[s].lastBilledAt = rep[h].lastBilledAt + p
        /\ q <= rep[h].at - rep[h].lastBilledAt /\ rep[h].at - rep[h].lastBilledAt < q + Minute
        /\ ~sess[s].stale => q < IdleEnd + Minute
    BY <1>2 DEF Charges
  <1>5. billed <= m /\ ~sess[s].stale => p < IdleEnd + Minute
    BY <1>1, <1>3, <1>4
  <1>6. billed <= m /\ ~sess[s].stale => billed * Minute < IdleEnd + Minute
    BY <1>2, <1>5
  <1> QED BY <1>1, <1>3, <1>4, <1>6

\* The charge keeps the accounts.
LEMMA SettleKeeps ==
    ASSUME SessionsIInv, NEW h \in Calls, Settle(h)
    PROVE  /\ \A s \in Sessions : Accounted(s)'
           /\ Grows /\ KeysUsed' /\ Streams' /\ NoChargeAcrossGap'
  <1>1. /\ ChargingIInv /\ CopyOK(h) /\ now' = now /\ rep[h].step = "charge"
        /\ now \in Int /\ Minute \in Nat \ {0}
    BY Numbers DEF SessionsIInv, Settle
  <1>2. PICK s \in Sessions, n \in Nat, billed \in Nat, m \in Nat \ {0}, x \in Row :
           /\ Charges(h, s, n, billed, m)
           /\ Wrote(h, s, n, billed, m, x) \/ Found(s, n, billed, x)
    BY SettleCharges
  <1>3. /\ sess'[s].lastBilledAt \in Int /\ sess'[s].lastBilledAt >= rep[h].lastBilledAt
        /\ billed <= m => sess'[s].lastBilledAt <= rep[h].at
        /\ billed = m => rep[h].at - sess'[s].lastBilledAt < Minute
        /\ rep[h].at \in Int /\ rep[h].at <= now
        /\ billed <= m /\ ~sess[s].stale => billed * Minute < IdleEnd + Minute
    BY <1>1, <1>2, ChargesTime
  <1>4. /\ s \in Used
        /\ \A t \in Sessions \ {s} : sess'[t] = sess[t]
        /\ sess'[s].user = sess[s].user /\ sess'[s].startsAt = sess[s].startsAt
        /\ sess'[s].lastSeenAt = rep[h].at
        /\ sess'[s].minutesBilled = sess[s].minutesBilled + billed
        /\ sess[s].stale => sess'[s].stale
        /\ sess'[s].status = "ENDED" \/ (billed >= m /\ sess'[s].status = sess[s].status)
        /\ sess[s].late \/ sess[s].status # "ACTIVE" => sess'[s].late
    BY <1>2 DEF Charges
  <1>5. /\ Wrote(h, s, n, billed, m, x) => LedgerMinutes(s)' = LedgerMinutes(s) + billed
        /\ Found(s, n, billed, x) => LedgerMinutes(s)' = LedgerMinutes(s)
        /\ \A t \in Sessions \ {s} : LedgerMinutes(t)' = LedgerMinutes(t)
    BY <1>1, <1>2, ChargesMinutes
  <1>6. ~sess'[s].stale =>
           /\ ~sess[s].stale /\ sess[s].lastBilledAt = rep[h].lastBilledAt /\ Agrees(s)
           /\ n = LedgerMinutes(s) /\ n = sess[s].minutesBilled
    BY <1>2, ChargesCurrent
  <1>7. ~sess'[s].stale /\ Found(s, n, billed, x) =>
           billed = 0 /\ sess[s].status = "ENDED" /\ sess'[s].late
    BY <1>2, FoundTookNothing
  <1>8. /\ LedgerMinutes(s) \in Int /\ sess[s].minutesBilled \in Nat /\ sess[s].startsAt \in Int
        /\ sess[s].lastBilledAt \in Int /\ sess[s].status \in {"NONE", "ACTIVE", "ENDED"}
    BY <1>1, Numbers
  <1>9. sess'[s].status # "NONE" /\ Used \subseteq Used'
    BY <1>4 DEF Used
  <1>10. Grows
    <2>1. ~sess'[s].stale => sess[s].lastBilledAt <= sess'[s].lastBilledAt
      BY <1>3, <1>6
    <2>2. \A t \in Used : t \in Sessions /\ sess[t].lastBilledAt \in Int
      BY <1>1, Numbers DEF Used
    <2> QED BY <1>4, <1>9, <2>1, <2>2 DEF Grows
  <1>11. Accounted(s)'
    <2>1. Accounted(s)
      BY DEF SessionsIInv
    <2>2. LedgerMinutes(s)' <= sess'[s].minutesBilled
      BY <1>2, <1>4, <1>5, <1>8, <2>1 DEF Accounted
    <2>3. sess'[s].startsAt <= now'
      BY <1>1, <1>4, <2>1 DEF Accounted
    <2>4. ASSUME ~sess'[s].stale
          PROVE  Agrees(s)' /\ (~sess'[s].late => sess'[s].lastBilledAt <= sess'[s].lastSeenAt)
      <3>1. CASE Wrote(h, s, n, billed, m, x)
        <4>1. billed <= m
          BY <3>1 DEF Wrote
        <4>2. sess'[s].minutesBilled = LedgerMinutes(s)'
          BY <1>4, <1>5, <1>6, <2>4, <3>1
        <4>3. sess'[s].lastBilledAt = BilledUntil(s)'
          <5>1. PICK l \in Int, p \in Int : l = LedgerMinutes(s) /\ p = billed * Minute
            BY <1>1, <1>8
          <5>2. Minute * (l + billed) = Minute * l + p
            BY <1>1, <5>1
          <5>3. sess'[s].lastBilledAt = sess[s].startsAt + Minute * l + p
            BY <1>2, <1>6, <2>4, <5>1 DEF Charges
          <5>4. BilledUntil(s)' = sess[s].startsAt + Minute * (l + billed)
            BY <1>4, <1>5, <3>1, <5>1 DEF BilledUntil
          <5>5. PICK k \in Int : k = Minute * l
            BY <1>1
          <5> QED BY <1>8, <5>2, <5>3, <5>4, <5>5
        <4>4. sess'[s].lastBilledAt <= rep[h].at
          BY <1>3, <4>1
        <4>5. sess'[s].status = "ACTIVE" => rep[h].at - sess'[s].lastBilledAt < Minute
          BY <1>3, <1>4, <4>1
        <4> QED BY <1>1, <1>3, <1>4, <4>2, <4>3, <4>4, <4>5 DEF Agrees
      <3>2. CASE Found(s, n, billed, x)
        <4>1. billed = 0 /\ sess[s].status = "ENDED" /\ sess'[s].late
          BY <1>7, <2>4, <3>2
        <4>2. billed * Minute = 0
          BY <1>1, <4>1
        <4>3. sess'[s].lastBilledAt = sess[s].lastBilledAt
          <5>1. sess'[s].lastBilledAt = sess[s].lastBilledAt + billed * Minute
            BY <1>2, <1>6, <2>4 DEF Charges
          <5> QED BY <1>8, <4>2, <5>1
        <4>4. sess'[s].status = "ENDED"
          BY <1>4, <4>1
        <4>5. sess'[s].minutesBilled = sess[s].minutesBilled /\ LedgerMinutes(s)' = LedgerMinutes(s)
          BY <1>4, <1>5, <1>8, <3>2, <4>1
        <4>6. BilledUntil(s)' = BilledUntil(s)
          BY <1>4, <4>5 DEF BilledUntil
        <4> QED BY <1>1, <1>6, <2>4, <4>1, <4>3, <4>4, <4>5, <4>6 DEF Agrees
      <3> QED BY <1>2, <3>1, <3>2
    <2> QED BY <1>9, <2>2, <2>3, <2>4 DEF Accounted
  <1>12. ASSUME NEW t \in Sessions \ {s} PROVE Accounted(t)'
    <2>1. Accounted(t) /\ sess'[t] = sess[t] /\ LedgerMinutes(t)' = LedgerMinutes(t)
      BY <1>4, <1>5 DEF SessionsIInv
    <2>2. BilledUntil(t)' = BilledUntil(t)
      BY <2>1 DEF BilledUntil
    <2> QED BY <1>1, <2>1, <2>2 DEF Accounted, Agrees
  <1>13. /\ CommittedRows' \subseteq CommittedRows \union {x}
         /\ x.key = <<"session", s, n>> /\ x.amount = -billed
         /\ x \in CommittedRows \/ billed <= m
    BY <1>2 DEF Wrote, Found
  <1>14. KeysUsed'
    <2> SUFFICES ASSUME NEW y \in CommittedRows', y.key[1] = "session"
                 PROVE  /\ y.key[2] \in Used' /\ y.key[3] \in Nat
                        /\ ~sess'[y.key[2]].stale =>
                             \/ y.key[3] < sess'[y.key[2]].minutesBilled
                             \/ /\ y.amount = 0
                                /\ y.key[3] = sess'[y.key[2]].minutesBilled
                                /\ sess'[y.key[2]].status = "ENDED"
      BY DEF KeysUsed
    <2>1. CASE y \in CommittedRows
      <3>1. /\ y.key[2] \in Used /\ y.key[3] \in Nat
            /\ ~sess[y.key[2]].stale =>
                 \/ y.key[3] < sess[y.key[2]].minutesBilled
                 \/ /\ y.amount = 0
                    /\ y.key[3] = sess[y.key[2]].minutesBilled
                    /\ sess[y.key[2]].status = "ENDED"
        BY <2>1 DEF SessionsIInv, KeysUsed
      <3>2. CASE y.key[2] # s
        BY <1>4, <1>9, <3>1, <3>2 DEF Used
      <3>3. CASE y.key[2] = s
        <4>1. sess[s].status = "ENDED" => sess'[s].status = "ENDED"
          BY <1>4
        <4> QED BY <1>4, <1>6, <1>8, <1>9, <3>1, <3>3, <4>1
      <3> QED BY <3>2, <3>3
    <2>2. CASE y = x /\ y \notin CommittedRows
      <3>1. y.key[2] = s /\ y.key[3] = n /\ y.amount = -billed
        BY <1>13, <2>2
      <3>2. billed = 0 => sess'[s].status = "ENDED"
        BY <1>4
      <3> QED BY <1>4, <1>6, <1>8, <1>9, <3>1, <3>2
    <2> QED BY <1>13, <2>1, <2>2
  <1>15. Streams'
    <2> SUFFICES ASSUME NEW t \in InTurn', NEW v \in InTurn', t # v, sess'[t].user = sess'[v].user
                 PROVE  Before(t, v)' \/ Before(v, t)'
      BY DEF Streams
    <2>1. \A a \in InTurn' : a \in Sessions /\ a \in InTurn /\ (a = s => sess[s].status = "ACTIVE")
      BY <1>4, <1>6 DEF InTurn, Exact, Used
    <2>2. Before(t, v) \/ Before(v, t)
      BY <1>4, <2>1 DEF SessionsIInv, Streams
    <2>3. \A a \in Sessions : sess'[a].startsAt = sess[a].startsAt
      BY <1>4
    <2>4. \A a, b \in Sessions : Before(a, b) /\ (a = s => sess[s].status = "ACTIVE") => Before(a, b)'
      BY <1>4, <2>3 DEF Before
    <2> QED BY <2>1, <2>2, <2>4
  <1>16. NoChargeAcrossGap'
    <2> SUFFICES ASSUME NEW y \in CommittedRows', y.key[1] = "session", y.key[2] \in Exact'
                 PROVE  -y.amount * Minute < IdleEnd + Minute
      BY DEF NoChargeAcrossGap
    <2>1. CASE y \in CommittedRows
      <3>1. y.key[2] \in Used /\ y.key[2] \in Sessions
        BY <2>1 DEF SessionsIInv, KeysUsed, Used
      <3>2. y.key[2] \in Exact
        BY <1>4, <3>1 DEF Exact
      <3> QED BY <2>1, <3>2 DEF SessionsIInv, NoChargeAcrossGap
    <2>2. CASE y = x /\ y \notin CommittedRows
      <3>1. y.key[2] = s /\ y.amount = -billed /\ billed <= m
        BY <1>13, <2>2
      <3>2. ~sess[s].stale
        BY <1>4, <3>1 DEF Exact
      <3>3. -y.amount * Minute = billed * Minute
        <4>1. \A a, b \in Nat : -((-a) * b) = a * b
          OBVIOUS
        <4> QED BY <1>1, <3>1, <4>1
      <3> QED BY <1>3, <3>1, <3>2, <3>3
    <2> QED BY <1>13, <2>1, <2>2
  <1> QED BY <1>10, <1>11, <1>12, <1>14, <1>15, <1>16

\* Every step keeps the invariant of the sessions.
LEMMA SessionsStep ==
    ASSUME SessionsIInv, [MeteringNext]_vars
    PROVE  SessionsIInv'
  <1>1. ChargingIInv /\ ChargingIInv'
    BY ChargingStep DEF SessionsIInv
  <1>2. /\ \A s \in Sessions : Accounted(s)'
        /\ Grows /\ KeysUsed' /\ Streams' /\ NoChargeAcrossGap'
    <2>1. CASE \E h \in Calls : Settle(h)
      BY <2>1, SettleKeeps
    <2>2. ASSUME NEW h \in Calls, Touch(h) \/ CreateSession(h)
          PROVE  NoNewCharge
      <3>1. \A c \in Calls : ~Settle(c)
        <4> SUFFICES ASSUME NEW c \in Calls, Settle(c) PROVE FALSE
          OBVIOUS
        <4>1. pc'[c] = "returned" /\ pc[c] = "commit"
          BY <1>1 DEF Settle, Commit, ChargingIInv, WalletIInv, WalletTypeOK
        <4>2. pc' = pc
          BY <2>2 DEF Touch, CreateSession, walletVars
        <4> QED BY <4>1, <4>2
      <3> QED BY <1>1, <3>1, NoCharge
    <2>3. CASE \E h \in Calls : Touch(h) \/ CreateSession(h)
      BY <2>2, <2>3, TouchKeeps, CreateKeeps, LedgerKept
    <2>4. CASE \A h \in Calls : ~Settle(h) /\ ~Touch(h) /\ ~CreateSession(h)
      <3>1. NoNewCharge /\ OnlyEnds
        BY <1>1, <2>4, NoCharge, EndsOnly
      <3>2. now' \in Int /\ now' >= now
        BY <1>1, ClockStep
      <3> QED BY <3>1, <3>2, EndKeepsAccounts, LedgerKept
    <2> QED BY <2>1, <2>3, <2>4
  <1>3. \A c \in Calls : CopyOK(c)'
    BY <1>2, CopyKept
  <1>4. \A e \in sweep' : e.sid \in Used'
    <2>1. CASE SweepRead
      BY <2>1 DEF SweepRead, Used
    <2>2. CASE ~SweepRead
      <3>1. sweep' \subseteq sweep
        BY <2>2 DEF MeteringNext, FaultFreeNext, Fault, HandlerStatement, StartReport, AbortReport,
               SweepClose, SweepAbort, Tick, ApplyCredit, EndReport, TakePeer, CloseIdle,
               CloseAfterGap, RefuseSession, AllowSession, CreateSession, Touch, Settle,
               ChargeStatement, SessionConflict, ChargeConflict, meterVars, vars
      <3> QED BY <1>2, <3>1 DEF SessionsIInv, Grows
    <2> QED BY <2>1, <2>2
  <1> QED BY <1>1, <1>2, <1>3, <1>4 DEF SessionsIInv

\* At the start no session exists and nothing is on the ledger.
LEMMA SessionsInit == MeteringInit => SessionsIInv
  <1> SUFFICES ASSUME MeteringInit PROVE SessionsIInv
    OBVIOUS
  <1>1. ChargingIInv
    BY ChargingInit
  <1>2. \A s \in Sessions : sess[s] = NoRow
    BY DEF MeteringInit
  <1>3. \A c \in Calls : rep[c] = Off
    BY DEF MeteringInit
  <1>4. CommittedRows = {} /\ now = 0 /\ sweep = {} /\ Used = {}
    BY <1>2, EmptyFacts DEF MeteringInit, WalletInit, CommittedRows, Used
  <1>5. ASSUME NEW s \in Sessions PROVE Accounted(s)
    <2>1. LedgerMinutes(s) = 0
      <3>1. {r \in CommittedRows : r.key[1] = "session" /\ r.key[2] = s} = {}
        BY <1>4
      <3> QED BY <3>1, TakenNone DEF LedgerMinutes
    <2>2. Minute \in Nat \ {0}
      BY MeteringAssumption
    <2>3. BilledUntil(s) = 0
      BY <1>2, <2>1, <2>2, EmptyFacts DEF BilledUntil
    <2> QED BY <1>2, <1>4, <2>1, <2>3, EmptyFacts DEF Accounted, Agrees
  <1>6. \A c \in Calls : CopyOK(c)
    BY <1>3, EmptyFacts DEF CopyOK
  <1> QED BY <1>1, <1>4, <1>5, <1>6
          DEF SessionsIInv, KeysUsed, Streams, InTurn, Exact, NoChargeAcrossGap

\* However many reports are served at once, the sessions and the ledger are as
\* SessionsIInv says.
THEOREM MeteringSessions == MeteringSpec => []SessionsIInv
  <1>1. SessionsIInv /\ [MeteringNext]_vars => SessionsIInv'
    BY SessionsStep
  <1> QED BY <1>1, SessionsInit, PTL DEF MeteringSpec

\* What the dashboard shows a session to have cost is what the ledger took for it, unless
\* a charge was computed from an old copy of the session.
THEOREM MeteringMinutes == MeteringSpec => []MinutesBilledMatchesLedger
  <1>1. SessionsIInv => MinutesBilledMatchesLedger
    BY DEF SessionsIInv, Accounted, Agrees, MinutesBilledMatchesLedger, Exact, Used
  <1> QED BY <1>1, MeteringSessions, PTL

\* Whatever copies the charges were computed from, the ledger takes no minute that the
\* dashboard does not show.
THEOREM MeteringShown == MeteringSpec => []LedgerMinutesAreShown
  <1>1. SessionsIInv => LedgerMinutesAreShown
    BY DEF SessionsIInv, Accounted, LedgerMinutesAreShown, Used
  <1> QED BY <1>1, MeteringSessions, PTL

\* The next charge of a session starts where the ledger's last one ended, whatever
\* remainder of a minute a report left, unless a charge was computed from an old copy.
THEOREM MeteringClock == MeteringSpec => []ClockMatchesLedger
  <1>1. SessionsIInv => ClockMatchesLedger
    BY DEF SessionsIInv, Accounted, Agrees, ClockMatchesLedger, Exact, Used
  <1> QED BY <1>1, MeteringSessions, PTL

\* No minute is charged before it has passed, unless a charge was computed from an old copy
\* of the session: the case in which a minute is paid twice (metering_paid_twice).
THEOREM MeteringPaidTime == MeteringSpec => []ExactTimeHasPassed
  <1>1. SessionsIInv => ExactTimeHasPassed
    <2> SUFFICES ASSUME SessionsIInv, NEW s \in Exact
                 PROVE  BilledUntil(s) <= now
      BY DEF ExactTimeHasPassed
    <2>1. Accounted(s) /\ ~sess[s].stale
      BY DEF SessionsIInv, Exact, Used
    <2> QED BY <2>1 DEF Accounted, Agrees
  <1> QED BY <1>1, MeteringSessions, PTL

\* A user with any number of devices, on any number of nodes that report at once, pays for
\* one stream of minutes: no two sessions charge the same moment, but for those that a
\* report begins or charges out of turn.
THEOREM MeteringOneStream == MeteringSpec => []OneStreamOfMinutes
  <1>1. SessionsIInv => OneStreamOfMinutes
    <2> SUFFICES ASSUME SessionsIInv, NEW s \in InTurn, NEW t \in InTurn, s # t,
                        sess[s].user = sess[t].user
                 PROVE  BilledUntil(s) <= sess[t].startsAt \/ BilledUntil(t) <= sess[s].startsAt
      BY DEF OneStreamOfMinutes
    <2>1. \A v \in {s, t} : sess[v].lastBilledAt = BilledUntil(v)
      BY DEF SessionsIInv, Accounted, Agrees, InTurn, Exact, Used
    <2> QED BY <2>1 DEF SessionsIInv, Streams, Before
  <1> QED BY <1>1, MeteringSessions, PTL

\* Rule 3: no charge covers more than the grace period and the unfinished minute before
\* it, unless one was computed from an old copy.
THEOREM MeteringGap == MeteringSpec => []NoChargeAcrossGap
  <1>1. SessionsIInv => NoChargeAcrossGap
    BY DEF SessionsIInv
  <1> QED BY <1>1, MeteringSessions, PTL

\* Only a charge closes a session as run out.
LEMMA ReasonKept ==
    ASSUME ChargingIInv, [MeteringNext]_vars, \A c \in Calls : ~Settle(c), NEW s \in Sessions,
           sess'[s].reason = "ran_out"
    PROVE  sess[s].reason = "ran_out"
  <1>1. sess \in [Sessions -> SessionRow] /\ rep \in [Calls -> Handler]
        /\ sweep \subseteq [sid : Sessions, lastSeenAt : Time]
    BY DEF ChargingIInv, MeteringTypeOK
  <1>2. ASSUME NEW id, NEW at, NEW why \in {"idle", "abandoned"},
               sess' = [sess EXCEPT ![id] = End(@, at, why)]
        PROVE  sess[s].reason = "ran_out"
    <2>1. End(sess[s], at, why).reason = why
      <3>1. sess[s] \in SessionRow
        BY <1>1
      <3> QED BY <3>1 DEF End, SessionRow
    <2>2. id = s => sess'[s] = End(sess[s], at, why)
      BY <1>1, <1>2
    <2>3. id # s => sess'[s] = sess[s]
      BY <1>1, <1>2
    <2> QED BY <2>1, <2>2, <2>3
  <1>3. CASE UNCHANGED sess
    BY <1>3
  <1>4. ASSUME NEW c \in Calls, CloseIdle(c) \/ RefuseSession(c)
        PROVE  sess[s].reason = "ran_out"
    BY <1>2, <1>3, <1>4 DEF CloseIdle, RefuseSession, ClosedByGap
  <1>5. ASSUME NEW c \in Calls, Touch(c)
        PROVE  sess[s].reason = "ran_out"
    <2>1. rep[c].at \in Time /\ sess[s] \in SessionRow
      BY <1>1 DEF Handler
    <2>2. sess'[s] = sess[s] \/ sess'[s] = Touched(c, sess[s])
      BY <1>1, <1>5 DEF Touch
    <2>3. Touched(c, sess[s]).reason = sess[s].reason
      BY <2>1, TouchedKeeps
    <2> QED BY <2>2, <2>3
  <1>6. ASSUME NEW c \in Calls, CreateSession(c)
        PROVE  sess[s].reason = "ran_out"
    <2> DEFINE new == NewSession(c, rep[c].user)
    <2>1. sess' = [ClosedByGap(c) EXCEPT ![FreshId] = new]
      BY <1>6 DEF CreateSession
    <2>2. new.reason = "none"
      BY NewSessionFacts
    <2> HIDE DEF new
    <2>3. ClosedByGap(c) \in [Sessions -> SessionRow] \/ ClosedByGap(c) = [x \in Sessions |-> ClosedByGap(c)[x]]
      BY <1>1, ClosedByGapFacts DEF ChargingIInv, MeteringIInv
    <2>4. sess'[s] = new \/ sess'[s] = ClosedByGap(c)[s]
      BY <2>1, <2>3
    <2>5. ClosedByGap(c)[s] = sess[s] \/ ClosedByGap(c)[s] = End(sess[s], rep[c].lastSeenAt, "idle")
      BY <1>1 DEF ClosedByGap
    <2>6. End(sess[s], rep[c].lastSeenAt, "idle").reason = "idle"
      <3>1. sess[s] \in SessionRow
        BY <1>1
      <3> QED BY <3>1 DEF End, SessionRow
    <2> QED BY <2>2, <2>4, <2>5, <2>6
  <1>7. CASE SweepClose
    BY <1>2, <1>7 DEF SweepClose
  <1>8. \/ UNCHANGED sess \/ SweepClose
        \/ \E c \in Calls : CloseIdle(c) \/ RefuseSession(c) \/ Touch(c) \/ CreateSession(c)
    BY DEF MeteringNext, FaultFreeNext, Fault, HandlerStatement, StartReport, AbortReport, SweepRead,
           SweepAbort, Tick, ApplyCredit, EndReport, TakePeer, CloseAfterGap, AllowSession,
           ChargeStatement, SessionConflict, ChargeConflict, meterVars, vars
  <1> QED BY <1>3, <1>4, <1>5, <1>6, <1>7, <1>8

\* A session is closed as run out in a step that leaves the wallet empty, unless the charge
\* was computed from an old copy, or came after the session was closed.
THEOREM MeteringRanOut == MeteringSpec => RanOutMeansEmpty
  <1>1. ASSUME SessionsIInv, [MeteringNext]_vars
        PROVE  \A s \in Sessions : sess[s].reason # "ran_out" /\ sess'[s].reason = "ran_out" =>
                  balance'[sess[s].user] = 0 \/ sess'[s].stale \/ sess'[s].late
    <2> SUFFICES ASSUME NEW t \in Sessions, sess[t].reason # "ran_out", sess'[t].reason = "ran_out",
                        ~sess'[t].stale, ~sess'[t].late
                 PROVE  balance'[sess[t].user] = 0
      OBVIOUS
    <2>1. PICK h \in Calls : Settle(h)
      BY <1>1, ReasonKept DEF SessionsIInv
    <2>2. PICK s \in Sessions, n \in Nat, billed \in Nat, m \in Nat \ {0}, x \in Row :
             /\ Charges(h, s, n, billed, m)
             /\ Wrote(h, s, n, billed, m, x) \/ Found(s, n, billed, x)
      BY <1>1, <2>1, SettleCharges
    <2>3. s = t
      BY <2>2 DEF Charges
    <2>4. ~Found(s, n, billed, x)
      BY <1>1, <2>2, <2>3, FoundTookNothing
    <2> QED BY <2>2, <2>3, <2>4 DEF Wrote
  <1>2. SessionsIInv /\ [MeteringNext]_vars =>
          [\A s \in Sessions : sess[s].reason # "ran_out" /\ sess'[s].reason = "ran_out" =>
              balance'[sess[s].user] = 0 \/ sess'[s].stale \/ sess'[s].late]_vars
    BY <1>1
  <1> QED BY <1>2, MeteringSessions, PTL DEF MeteringSpec, RanOutMeansEmpty

=============================================================================
