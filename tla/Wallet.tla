------------------------------- MODULE Wallet -------------------------------
(***************************************************************************)
(* services/walletService.ts: applyWalletTransactionWithTx, one statement  *)
(* of SQL per action, run by several callers at once.  Every call runs in  *)
(* a Postgres transaction at READ COMMITTED, the default: no caller sets   *)
(* an isolation level.  A statement therefore sees what other transactions *)
(* have committed and nothing else of theirs, and nothing stops a row read *)
(* by one statement from changing before the next.  What serialises two    *)
(* calls is the row lock of SELECT ... FOR UPDATE and the unique index on  *)
(* WalletTransaction.idempotencyKey.                                       *)
(*                                                                         *)
(* balance and ledger are what is committed.  What an open transaction has *)
(* written stays in row[c] until Commit publishes it.  A wallet is created *)
(* with its user (lib/auth.ts), empty.                                     *)
(***************************************************************************)
EXTENDS Integers, Sequences, FiniteSets

CONSTANTS
    Users,      \* the customers, one wallet each
    Keys,       \* idempotency keys
    Requests,   \* the parameters the callers pass
    Calls,      \* the calls that may be in progress at once
    NoCall      \* the owner of a wallet row nobody has locked

ASSUME RequestsAssumption ==
    /\ Requests \subseteq [user : Users, key : Keys, amount : Int, clamp : BOOLEAN]
    /\ Requests # {}

ASSUME NoCallAssumption == NoCall \notin Calls

VARIABLES
    balance,    \* balance[u]: Wallet.minuteBalance
    ledger,     \* ledger[u]: the WalletTransaction rows of u, oldest first
    lockedBy,   \* lockedBy[u]: the call that holds the row lock of u's wallet
    pc,         \* pc[c]: the statement call c is about to run
    req,        \* req[c]: the parameters of call c
    row,        \* row[c]: the ledger row c found or is writing
    fresh       \* fresh[c]: row[c] is new (the result's alreadyApplied, negated)

walletVars == <<balance, ledger, lockedBy, pc, req, row, fresh>>

Row == [key : Keys, amount : Int, before : Int, after : Int]

Steps == {"idle", "find", "lock", "write", "commit", "returned", "threw"}

\* Before its first call a slot holds these; nothing reads them.
AnyRequest == CHOOSE r \in Requests : TRUE
AnyRow == [key |-> AnyRequest.key, amount |-> 0, before |-> 0, after |-> 0]

WalletTypeOK ==
    /\ balance \in [Users -> Nat]
    /\ ledger \in [Users -> Seq(Row)]
    /\ lockedBy \in [Users -> Calls \union {NoCall}]
    /\ pc \in [Calls -> Steps]
    /\ req \in [Calls -> Requests]
    /\ row \in [Calls -> Row]
    /\ fresh \in [Calls -> BOOLEAN]

-----------------------------------------------------------------------------
(* Helpers.                                                                *)

\* The committed rows of every wallet.
CommittedRows == UNION {{ledger[u][i] : i \in DOMAIN ledger[u]} : u \in Users}

KeyCommitted(k) == \E u \in Users : \E i \in DOMAIN ledger[u] : ledger[u][i].key = k

\* Mutant: the debit is not clamped.
NewRowUnclamped(r, current) ==
    [key |-> r.key, amount |-> r.amount, before |-> current, after |-> current + r.amount]

\* The row that request r makes of a wallet that holds `current` minutes.
NewRow(r, current) ==
    LET amount == IF current + r.amount < 0 THEN -current ELSE r.amount
    IN  [key |-> r.key, amount |-> amount, before |-> current, after |-> current + amount]

\* Mutant: every debit is clamped, asked or not.
NeverRefused(r, current) == FALSE

Refused(r, current) == current + r.amount < 0 /\ ~r.clamp

InTransaction(c) == pc[c] \in {"find", "lock", "write", "commit"}

Unlocked(c) == [u \in Users |-> IF lockedBy[u] = c THEN NoCall ELSE lockedBy[u]]

-----------------------------------------------------------------------------
(* The statements of one call.                                             *)

WalletInit ==
    /\ balance = [u \in Users |-> 0]
    /\ ledger = [u \in Users |-> <<>>]
    /\ lockedBy = [u \in Users |-> NoCall]
    /\ pc = [c \in Calls |-> "idle"]
    /\ req = [c \in Calls |-> AnyRequest]
    /\ row = [c \in Calls |-> AnyRow]
    /\ fresh = [c \in Calls |-> FALSE]

\* A caller opens the transaction.  A caller whose earlier call is over, one
\* way or the other, may try again with the same parameters or with others.
Begin(c, r) ==
    /\ ~InTransaction(c)
    /\ pc' = [pc EXCEPT ![c] = "find"]
    /\ req' = [req EXCEPT ![c] = r]
    /\ UNCHANGED <<balance, ledger, lockedBy, row, fresh>>

\* findUnique on the key.  A committed row with it is the answer as it stands.
FindExisting(c) ==
    /\ pc[c] = "find"
    /\ \E u \in Users : \E i \in DOMAIN ledger[u] :
         /\ ledger[u][i].key = req[c].key
         /\ row' = [row EXCEPT ![c] = ledger[u][i]]
    /\ fresh' = [fresh EXCEPT ![c] = FALSE]
    /\ pc' = [pc EXCEPT ![c] = "commit"]
    /\ UNCHANGED <<balance, ledger, lockedBy, req>>

FindNothing(c) ==
    /\ pc[c] = "find"
    /\ ~KeyCommitted(req[c].key)
    /\ pc' = [pc EXCEPT ![c] = "lock"]
    /\ UNCHANGED <<balance, ledger, lockedBy, req, row, fresh>>

\* Mutant: a plain SELECT, which does not wait for the row lock.
ReadWallet(c) ==
    LET u == req[c].user
    IN  /\ pc[c] = "lock"
        /\ ~Refused(req[c], balance[u])
        /\ lockedBy' = [lockedBy EXCEPT ![u] = c]
        /\ row' = [row EXCEPT ![c] = NewRow(req[c], balance[u])]
        /\ fresh' = [fresh EXCEPT ![c] = TRUE]
        /\ pc' = [pc EXCEPT ![c] = "write"]
        /\ UNCHANGED <<balance, ledger, req>>

\* SELECT ... FOR UPDATE, which waits for the holder and then reads what the
\* holder committed; then the arithmetic on what it read.
LockWallet(c) ==
    LET u == req[c].user
    IN  /\ pc[c] = "lock"
        /\ lockedBy[u] = NoCall
        /\ ~Refused(req[c], balance[u])
        /\ lockedBy' = [lockedBy EXCEPT ![u] = c]
        /\ row' = [row EXCEPT ![c] = NewRow(req[c], balance[u])]
        /\ fresh' = [fresh EXCEPT ![c] = TRUE]
        /\ pc' = [pc EXCEPT ![c] = "write"]
        /\ UNCHANGED <<balance, ledger, req>>

\* InsufficientBalanceError: the transaction rolls back and the lock goes.
Refuse(c) ==
    LET u == req[c].user
    IN  /\ pc[c] = "lock"
        /\ lockedBy[u] = NoCall
        /\ Refused(req[c], balance[u])
        /\ pc' = [pc EXCEPT ![c] = "threw"]
        /\ UNCHANGED <<balance, ledger, lockedBy, req, row, fresh>>

\* The insert meets the unique index: it waits while another open transaction
\* has inserted the same key, and fails if a committed row has it.
KeyPending(c) ==
    \E d \in Calls \ {c} : pc[d] = "commit" /\ fresh[d] /\ row[d].key = req[c].key

\* Mutant: no unique index on the key.
WriteRowNoIndex(c) ==
    /\ pc[c] = "write"
    /\ pc' = [pc EXCEPT ![c] = "commit"]
    /\ UNCHANGED <<balance, ledger, lockedBy, req, row, fresh>>

\* wallet.update and walletTransaction.create, both still uncommitted.
WriteRow(c) ==
    /\ pc[c] = "write"
    /\ ~KeyPending(c)
    /\ ~KeyCommitted(req[c].key)
    /\ pc' = [pc EXCEPT ![c] = "commit"]
    /\ UNCHANGED <<balance, ledger, lockedBy, req, row, fresh>>

\* The transaction ends without effect.
RollBack(c) ==
    /\ pc' = [pc EXCEPT ![c] = "threw"]
    /\ lockedBy' = Unlocked(c)
    /\ UNCHANGED <<balance, ledger, req, row, fresh>>

\* Mutant: the unique violation is caught and the insert tried again.
ConflictRetried(c) ==
    /\ pc[c] = "write"
    /\ KeyCommitted(req[c].key)
    /\ UNCHANGED walletVars

\* P2002 from the unique index.
Conflict(c) ==
    /\ pc[c] = "write"
    /\ KeyCommitted(req[c].key)
    /\ RollBack(c)

\* The server stops, the connection drops or Prisma's transaction timeout runs
\* out between any two statements.
Fail(c) == InTransaction(c) /\ RollBack(c)

\* Mutant: the row is only created when the balance moves.
CommitNonZero(c) ==
    LET u == req[c].user
    IN  /\ pc[c] = "commit"
        /\ IF fresh[c] /\ row[c].amount # 0
           THEN /\ ledger' = [ledger EXCEPT ![u] = Append(@, row[c])]
                /\ balance' = [balance EXCEPT ![u] = row[c].after]
           ELSE UNCHANGED <<ledger, balance>>
        /\ lockedBy' = Unlocked(c)
        /\ pc' = [pc EXCEPT ![c] = "returned"]
        /\ UNCHANGED <<req, row, fresh>>

\* COMMIT publishes the row and the balance together and frees the lock.
Commit(c) ==
    LET u == req[c].user
    IN  /\ pc[c] = "commit"
        /\ IF fresh[c]
           THEN /\ ledger' = [ledger EXCEPT ![u] = Append(@, row[c])]
                /\ balance' = [balance EXCEPT ![u] = row[c].after]
           ELSE UNCHANGED <<ledger, balance>>
        /\ lockedBy' = Unlocked(c)
        /\ pc' = [pc EXCEPT ![c] = "returned"]
        /\ UNCHANGED <<req, row, fresh>>

Statement(c) ==
    \/ FindExisting(c)
    \/ FindNothing(c)
    \/ LockWallet(c)
    \/ Refuse(c)
    \/ WriteRow(c)
    \/ Conflict(c)
    \/ Commit(c)

WalletNext ==
    \E c \in Calls :
        \/ \E r \in Requests : Begin(c, r)
        \/ Statement(c)
        \/ Fail(c)

WalletSpec == WalletInit /\ [][WalletNext]_walletVars

\* A call runs to its end: Node schedules every pending statement.  Strong
\* fairness, because Postgres queues the transactions that wait for a row: one
\* that keeps coming back cannot keep another out.  Failures are never required.
WalletFairSpec == WalletSpec /\ \A c \in Calls : SF_walletVars(Statement(c))

-----------------------------------------------------------------------------
(* What must hold.                                                         *)

\* The rows of a wallet form a chain from zero to the balance: every row starts
\* from the minutes the row before it left, and the last one left what
\* Wallet.minuteBalance shows (balanceBefore and balanceAfter of the ledger).
ChainIntact ==
    \A u \in Users :
        /\ \A i \in DOMAIN ledger[u] :
             /\ ledger[u][i].before = (IF i = 1 THEN 0 ELSE ledger[u][i - 1].after)
             /\ ledger[u][i].after = ledger[u][i].before + ledger[u][i].amount
             /\ ledger[u][i].after >= 0
        /\ balance[u] = (IF ledger[u] = <<>> THEN 0 ELSE ledger[u][Len(ledger[u])].after)

\* No idempotency key is ever on two ledger rows, of one wallet or of two.
KeysUnique ==
    \A u, v \in Users : \A i \in DOMAIN ledger[u], j \in DOMAIN ledger[v] :
        ledger[u][i].key = ledger[v][j].key => u = v /\ i = j

\* What applyWalletTransaction told its caller is on the ledger: a call that
\* returned, as new or as already applied, names a committed row with its key.
ReturnedIsDurable ==
    \A c \in Calls : pc[c] = "returned" => row[c] \in CommittedRows /\ row[c].key = req[c].key

\* Every call comes to an end: no set of calls waits for one another forever.
CallsEnd == \A c \in Calls : InTransaction(c) ~> ~InTransaction(c)

\* The wallet keeps the promise of Ledger: seen from outside, each call posts
\* its key once, in one step, or does nothing.
Promise == INSTANCE Ledger WITH
    minutes <- balance,
    posted <- UNION {{[user |-> u, key |-> ledger[u][i].key, amount |-> ledger[u][i].amount] :
                        i \in DOMAIN ledger[u]} : u \in Users}

PromiseKept == Promise!Spec
=============================================================================
