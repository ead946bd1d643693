---------------------------- MODULE WalletProofs ----------------------------
(***************************************************************************)
(* Proofs about Wallet, for any number of users, keys, requests and calls. *)
(*                                                                         *)
(* The argument: a call that is about to insert its row, or has inserted   *)
(* it, owns the lock of its wallet, so the balance it read is still the    *)
(* balance it will replace; and a call that has inserted its row is the    *)
(* only one with that key, committed or not, so the key it publishes is    *)
(* new.                                                                    *)
(***************************************************************************)
EXTENDS Wallet, TLAPS, SequenceTheorems

\* Call c has locked its wallet and will publish row[c].
Holding(c) == pc[c] = "write" \/ (pc[c] = "commit" /\ fresh[c])

Inserted(c) == pc[c] = "commit" /\ fresh[c]

\* The lock of a wallet belongs to the call that holds it, and to no other.
LockOwner ==
    \A c \in Calls, u \in Users : lockedBy[u] = c <=> Holding(c) /\ req[c].user = u

\* The row a holder will publish was computed from the balance as it still is.
RowCurrent ==
    \A c \in Calls : Holding(c) =>
        /\ fresh[c]
        /\ ~Refused(req[c], balance[req[c].user])
        /\ row[c] = NewRow(req[c], balance[req[c].user])

\* An inserted key is on no committed row and on no other inserted one.
InsertedAlone ==
    \A c \in Calls : Inserted(c) =>
        /\ ~KeyCommitted(req[c].key)
        /\ \A d \in Calls \ {c} : Inserted(d) => req[d].key # req[c].key

\* A row that was found, or published, is a committed row with the call's key.
AnswerCommitted ==
    \A c \in Calls : (pc[c] = "commit" /\ ~fresh[c]) \/ pc[c] = "returned" =>
        \E u \in Users : \E i \in DOMAIN ledger[u] :
            row[c] = ledger[u][i] /\ ledger[u][i].key = req[c].key

WalletIInv ==
    /\ WalletTypeOK
    /\ LockOwner
    /\ RowCurrent
    /\ InsertedAlone
    /\ AnswerCommitted
    /\ ChainIntact
    /\ KeysUnique

-----------------------------------------------------------------------------
(* Lemmas on the operators.                                                *)

\* What Append does, in the form the steps below use.
LEMMA AppendFacts ==
    ASSUME NEW S, NEW s \in Seq(S), NEW e \in S
    PROVE  /\ Append(s, e) \in Seq(S)
           /\ Append(s, e) # <<>>
           /\ Len(s) \in Nat
           /\ DOMAIN s = 1 .. Len(s)
           /\ Len(Append(s, e)) = Len(s) + 1
           /\ DOMAIN Append(s, e) = 1 .. (Len(s) + 1)
           /\ \A i \in 1 .. Len(s) : Append(s, e)[i] = s[i]
           /\ Append(s, e)[Len(s) + 1] = e
  BY AppendProperties, LenProperties

\* A row made of a request is a row, and it starts from the balance it was made of.
LEMMA NewRowType ==
    ASSUME NEW r \in Requests, NEW m \in Int
    PROVE  /\ NewRow(r, m) \in Row
           /\ NewRow(r, m).key = r.key
           /\ NewRow(r, m).before = m
           /\ NewRow(r, m).after = m + NewRow(r, m).amount
           /\ (m >= 0 /\ ~Refused(r, m) => NewRow(r, m).after >= 0)
  <1>1. r \in [user : Users, key : Keys, amount : Int, clamp : BOOLEAN]
    BY RequestsAssumption
  <1>2. CASE m + r.amount < 0
    BY <1>1, <1>2 DEF NewRow, Row, Refused
  <1>3. CASE ~(m + r.amount < 0)
    BY <1>1, <1>3 DEF NewRow, Row, Refused
  <1> QED BY <1>2, <1>3

\* The placeholders a call slot starts with have the right type.
LEMMA AnyType == AnyRequest \in Requests /\ AnyRow \in Row
  <1>1. AnyRequest \in Requests
    BY RequestsAssumption DEF AnyRequest
  <1> QED BY <1>1, RequestsAssumption DEF AnyRow, Row

\* A ledger that holds its chain leaves no balance below zero.
LEMMA BalanceNat ==
    ASSUME WalletTypeOK, ChainIntact, NEW u \in Users
    PROVE  balance[u] \in Int /\ balance[u] >= 0
  <1>1. CASE ledger[u] = <<>>
    BY <1>1 DEF WalletTypeOK, ChainIntact
  <1>2. CASE ledger[u] # <<>>
    <2>1. ledger[u] \in Seq(Row)
      BY DEF WalletTypeOK
    <2>2. Len(ledger[u]) \in DOMAIN ledger[u]
      BY <1>2, <2>1, EmptySeq, LenProperties
    <2>3. ledger[u][Len(ledger[u])].after >= 0 /\ balance[u] = ledger[u][Len(ledger[u])].after
      BY <1>2, <2>2 DEF ChainIntact
    <2> QED BY <2>3 DEF WalletTypeOK
  <1> QED BY <1>1, <1>2

\* A step that publishes nothing keeps the facts that are about the ledger alone.
LEMMA LedgerSame ==
    ASSUME UNCHANGED <<balance, ledger>>, ChainIntact, KeysUnique
    PROVE  /\ ChainIntact'
           /\ KeysUnique'
           /\ \A k : KeyCommitted(k)' <=> KeyCommitted(k)
  BY DEF ChainIntact, KeysUnique, KeyCommitted

\* A row appended to a wallet under a new key, from the balance as it is: the chain and
\* the keys stay as they should be, and nothing else changes.
LEMMA Appended ==
    ASSUME WalletTypeOK, ChainIntact, KeysUnique,
           NEW u \in Users, NEW x \in Row, ~KeyCommitted(x.key),
           x.before = balance[u], x.after = balance[u] + x.amount, x.after >= 0,
           ledger' = [ledger EXCEPT ![u] = Append(ledger[u], x)],
           balance' = [balance EXCEPT ![u] = x.after]
    PROVE  /\ ledger' \in [Users -> Seq(Row)] /\ balance' \in [Users -> Nat]
           /\ ChainIntact' /\ KeysUnique'
           /\ \A k : KeyCommitted(k)' <=> KeyCommitted(k) \/ k = x.key
           /\ \A v \in Users : \A i \in DOMAIN ledger[v] :
                 i \in DOMAIN ledger'[v] /\ ledger'[v][i] = ledger[v][i]
           /\ \E i \in DOMAIN ledger'[u] : ledger'[u][i] = x
           /\ CommittedRows' = CommittedRows \union {x} /\ x \notin CommittedRows
           /\ \A v \in Users \ {u} : balance'[v] = balance[v]
  <1> DEFINE n == Len(ledger[u])
  <1>1. /\ ledger'[u] = Append(ledger[u], x) /\ ledger[u] \in Seq(Row)
        /\ \A v \in Users \ {u} : ledger'[v] = ledger[v] /\ balance'[v] = balance[v]
        /\ balance'[u] = x.after
    BY DEF WalletTypeOK
  <1>2. /\ ledger'[u] \in Seq(Row)
        /\ ledger'[u] # <<>>
        /\ n \in Nat
        /\ DOMAIN ledger[u] = 1 .. n
        /\ Len(ledger'[u]) = n + 1
        /\ DOMAIN ledger'[u] = 1 .. (n + 1)
        /\ \A i \in 1 .. n : ledger'[u][i] = ledger[u][i]
        /\ ledger'[u][n + 1] = x
    BY <1>1, AppendFacts
  <1>3. /\ ledger' \in [Users -> Seq(Row)] /\ balance' \in [Users -> Nat]
    <2>1. x.after \in Nat
      BY DEF Row
    <2> QED BY <1>2, <2>1 DEF WalletTypeOK
  <1>4. \A v \in Users : \A i \in DOMAIN ledger[v] :
            i \in DOMAIN ledger'[v] /\ ledger'[v][i] = ledger[v][i]
    BY <1>1, <1>2
  <1>5. \A v \in Users : \A i \in DOMAIN ledger'[v] :
            ledger'[v][i] = x \/ (i \in DOMAIN ledger[v] /\ ledger'[v][i] = ledger[v][i])
    BY <1>1, <1>2
  <1>6. n + 1 \in DOMAIN ledger'[u]
    BY <1>2
  <1>7. \A k : KeyCommitted(k)' <=> KeyCommitted(k) \/ k = x.key
    <2>1. ASSUME NEW k, KeyCommitted(k) \/ k = x.key
          PROVE  KeyCommitted(k)'
      <3>1. CASE KeyCommitted(k)
        BY <1>4, <3>1 DEF KeyCommitted
      <3>2. CASE k = x.key
        BY <1>2, <1>6, <3>2 DEF KeyCommitted
      <3> QED BY <2>1, <3>1, <3>2
    <2>2. ASSUME NEW k, KeyCommitted(k)'
          PROVE  KeyCommitted(k) \/ k = x.key
      <3>1. PICK v \in Users : \E i \in DOMAIN ledger'[v] : ledger'[v][i].key = k
        BY <2>2 DEF KeyCommitted
      <3>2. PICK i \in DOMAIN ledger'[v] : ledger'[v][i].key = k
        BY <3>1
      <3> QED BY <1>5, <3>2 DEF KeyCommitted
    <2> QED BY <2>1, <2>2
  <1>8. CommittedRows' = CommittedRows \union {x} /\ x \notin CommittedRows
    <2>1. \A r : r \in CommittedRows <=> \E v \in Users : \E i \in DOMAIN ledger[v] : r = ledger[v][i]
      BY DEF CommittedRows
    <2>2. \A r : r \in CommittedRows' <=>
                 \E v \in Users : \E i \in DOMAIN ledger'[v] : r = ledger'[v][i]
      BY DEF CommittedRows
    <2>3. x \notin CommittedRows
      BY <2>1 DEF KeyCommitted
    <2>4. \A r : r \in CommittedRows \union {x} => r \in CommittedRows'
      BY <1>2, <1>4, <1>6, <2>1, <2>2
    <2>5. \A r : r \in CommittedRows' => r \in CommittedRows \union {x}
      BY <1>5, <2>1, <2>2
    <2> QED BY <2>3, <2>4, <2>5
  <1>9. ChainIntact'
    <2> SUFFICES ASSUME NEW v \in Users
                 PROVE  (/\ \A i \in DOMAIN ledger[v] :
                              /\ ledger[v][i].before = (IF i = 1 THEN 0 ELSE ledger[v][i - 1].after)
                              /\ ledger[v][i].after = ledger[v][i].before + ledger[v][i].amount
                              /\ ledger[v][i].after >= 0
                         /\ balance[v] = (IF ledger[v] = <<>> THEN 0
                                          ELSE ledger[v][Len(ledger[v])].after))'
      BY DEF ChainIntact
    <2>1. CASE v # u
      BY <1>1, <2>1 DEF ChainIntact
    <2>2. CASE v = u
      <3>1. balance[u] = (IF n = 0 THEN 0 ELSE ledger[u][n].after)
        <4>1. ledger[u] = <<>> <=> n = 0
          BY EmptySeq DEF WalletTypeOK
        <4> QED BY <4>1 DEF ChainIntact
      <3>2. balance'[v] = ledger'[v][Len(ledger'[v])].after /\ ledger'[v] # <<>>
        BY <1>1, <1>2, <2>2
      <3>3. ASSUME NEW i \in DOMAIN ledger'[v]
            PROVE  /\ ledger'[v][i].before = (IF i = 1 THEN 0 ELSE ledger'[v][i - 1].after)
                   /\ ledger'[v][i].after = ledger'[v][i].before + ledger'[v][i].amount
                   /\ ledger'[v][i].after >= 0
        <4>1. CASE i = n + 1
          BY <1>2, <2>2, <3>1, <4>1
        <4>2. CASE i # n + 1
          <5>1. i \in 1 .. n /\ (i # 1 => i - 1 \in 1 .. n)
            BY <1>2, <2>2, <4>2
          <5> QED BY <1>2, <2>2, <5>1 DEF ChainIntact
        <4> QED BY <4>1, <4>2
      <3> QED BY <3>2, <3>3
    <2> QED BY <2>1, <2>2
  <1>10. KeysUnique'
    <2> SUFFICES ASSUME NEW v \in Users, NEW w \in Users,
                        NEW i \in DOMAIN ledger'[v], NEW j \in DOMAIN ledger'[w],
                        ledger'[v][i].key = ledger'[w][j].key
                 PROVE  v = w /\ i = j
      BY DEF KeysUnique
    <2> DEFINE New(y, k) == y = u /\ k = n + 1
    <2>1. \A y \in Users : \A k \in DOMAIN ledger'[y] :
             ~New(y, k) => k \in DOMAIN ledger[y] /\ ledger'[y][k] = ledger[y][k]
      BY <1>1, <1>2
    <2>2. \A y \in Users : \A k \in DOMAIN ledger[y] : ledger[y][k].key # x.key
      BY DEF KeyCommitted
    <2>3. CASE ~New(v, i) /\ ~New(w, j)
      BY <2>1, <2>3 DEF KeysUnique
    <2>4. CASE New(v, i) /\ ~New(w, j)
      BY <1>2, <2>1, <2>2, <2>4
    <2>5. CASE ~New(v, i) /\ New(w, j)
      BY <1>2, <2>1, <2>2, <2>5
    <2>6. CASE New(v, i) /\ New(w, j)
      BY <2>6
    <2> QED BY <2>3, <2>4, <2>5, <2>6
  <1>11. \E i \in DOMAIN ledger'[u] : ledger'[u][i] = x
    BY <1>2, <1>6
  <1> QED BY <1>1, <1>3, <1>4, <1>7, <1>8, <1>9, <1>10, <1>11

-----------------------------------------------------------------------------
(* The invariant holds initially.                                          *)

\* No call in progress and nothing on the ledger: the invariant holds at the start.
THEOREM WalletInitInv == WalletInit => WalletIInv
  <1> SUFFICES ASSUME WalletInit
               PROVE  WalletIInv
    OBVIOUS
  <1> USE DEF WalletInit
  <1>1. WalletTypeOK
    BY AnyType DEF WalletTypeOK, Steps
  <1>2. LockOwner
    BY NoCallAssumption DEF LockOwner, Holding
  <1>3. RowCurrent /\ InsertedAlone /\ AnswerCommitted
    BY DEF RowCurrent, InsertedAlone, AnswerCommitted, Holding, Inserted
  <1>4. ChainIntact /\ KeysUnique
    BY DEF ChainIntact, KeysUnique
  <1> QED BY <1>1, <1>2, <1>3, <1>4 DEF WalletIInv

-----------------------------------------------------------------------------
(* Every step keeps the invariant: one lemma per action.                   *)

\* Opening a transaction.
LEMMA BeginInv ==
    ASSUME WalletIInv, NEW c \in Calls, NEW r \in Requests, Begin(c, r)
    PROVE  WalletIInv'
  <1> USE DEF WalletIInv, Begin, InTransaction
  <1>1. WalletTypeOK'
    BY DEF WalletTypeOK, Steps
  <1>2. LockOwner'
    BY DEF WalletTypeOK, LockOwner, Holding
  <1>3. ChainIntact' /\ KeysUnique' /\ \A k : KeyCommitted(k)' <=> KeyCommitted(k)
    BY LedgerSame
  <1>4. RowCurrent'
    BY DEF WalletTypeOK, RowCurrent, Holding
  <1>5. InsertedAlone'
    BY <1>3 DEF WalletTypeOK, InsertedAlone, Inserted
  <1>6. AnswerCommitted'
    BY DEF WalletTypeOK, AnswerCommitted
  <1> QED BY <1>1, <1>2, <1>3, <1>4, <1>5, <1>6

\* Looking the key up, with and without success.
LEMMA FindExistingInv ==
    ASSUME WalletIInv, NEW c \in Calls, FindExisting(c)
    PROVE  WalletIInv'
  <1> USE DEF WalletIInv, FindExisting
  <1>1. WalletTypeOK'
    <2>1. PICK u \in Users : \E i \in DOMAIN ledger[u] : row' = [row EXCEPT ![c] = ledger[u][i]]
      OBVIOUS
    <2>2. PICK i \in DOMAIN ledger[u] : row' = [row EXCEPT ![c] = ledger[u][i]]
      BY <2>1
    <2>3. ledger[u] \in Seq(Row)
      BY DEF WalletTypeOK
    <2>4. ledger[u][i] \in Row
      BY <2>3, ElementOfSeq, LenProperties
    <2> QED BY <2>2, <2>4 DEF WalletTypeOK, Steps
  <1>2. LockOwner'
    BY DEF WalletTypeOK, LockOwner, Holding
  <1>3. ChainIntact' /\ KeysUnique' /\ \A k : KeyCommitted(k)' <=> KeyCommitted(k)
    BY LedgerSame
  <1>4. RowCurrent'
    BY DEF WalletTypeOK, RowCurrent, Holding
  <1>5. InsertedAlone'
    BY <1>3 DEF WalletTypeOK, InsertedAlone, Inserted
  <1>6. AnswerCommitted'
    BY DEF WalletTypeOK, AnswerCommitted
  <1> QED BY <1>1, <1>2, <1>3, <1>4, <1>5, <1>6

\* Without success: the call goes on to the wallet with nothing found.
LEMMA FindNothingInv ==
    ASSUME WalletIInv, NEW c \in Calls, FindNothing(c)
    PROVE  WalletIInv'
  <1> USE DEF WalletIInv, FindNothing
  <1>1. WalletTypeOK'
    BY DEF WalletTypeOK, Steps
  <1>2. LockOwner'
    BY DEF WalletTypeOK, LockOwner, Holding
  <1>3. ChainIntact' /\ KeysUnique' /\ \A k : KeyCommitted(k)' <=> KeyCommitted(k)
    BY LedgerSame
  <1>4. RowCurrent'
    BY DEF WalletTypeOK, RowCurrent, Holding
  <1>5. InsertedAlone'
    BY <1>3 DEF WalletTypeOK, InsertedAlone, Inserted
  <1>6. AnswerCommitted'
    BY DEF WalletTypeOK, AnswerCommitted
  <1> QED BY <1>1, <1>2, <1>3, <1>4, <1>5, <1>6

\* Taking the lock: from here on the balance cannot change under the call.
LEMMA LockWalletInv ==
    ASSUME WalletIInv, NEW c \in Calls, LockWallet(c)
    PROVE  WalletIInv'
  <1> DEFINE u == req[c].user
  <1> USE DEF WalletIInv, LockWallet
  <1>1. u \in Users /\ req[c] \in Requests /\ balance[u] \in Int
    BY RequestsAssumption DEF WalletTypeOK
  <1>2. NewRow(req[c], balance[u]) \in Row
    BY <1>1, NewRowType
  <1>3. WalletTypeOK'
    BY <1>1, <1>2 DEF WalletTypeOK, Steps
  <1>4. LockOwner'
    BY <1>1, NoCallAssumption DEF WalletTypeOK, LockOwner, Holding
  <1>5. ChainIntact' /\ KeysUnique' /\ \A k : KeyCommitted(k)' <=> KeyCommitted(k)
    BY LedgerSame
  <1>6. RowCurrent'
    <2> SUFFICES ASSUME NEW d \in Calls, Holding(d)'
                 PROVE  (/\ fresh[d]
                         /\ ~Refused(req[d], balance[req[d].user])
                         /\ row[d] = NewRow(req[d], balance[req[d].user]))'
      BY DEF RowCurrent
    <2>1. CASE d = c
      BY <2>1 DEF WalletTypeOK, Refused, NewRow
    <2>2. CASE d # c
      BY <2>2 DEF WalletTypeOK, RowCurrent, Holding, Refused, NewRow
    <2> QED BY <2>1, <2>2
  <1>7. InsertedAlone'
    BY <1>5 DEF WalletTypeOK, InsertedAlone, Inserted
  <1>8. AnswerCommitted'
    BY DEF WalletTypeOK, AnswerCommitted
  <1> QED BY <1>3, <1>4, <1>5, <1>6, <1>7, <1>8

\* Writing the row: its key is on nothing committed and on nothing inserted.
LEMMA WriteRowInv ==
    ASSUME WalletIInv, NEW c \in Calls, WriteRow(c)
    PROVE  WalletIInv'
  <1> USE DEF WalletIInv, WriteRow
  <1>1. WalletTypeOK'
    BY DEF WalletTypeOK, Steps
  <1>2. fresh[c]
    BY DEF RowCurrent, Holding
  <1>3. LockOwner'
    BY <1>2 DEF WalletTypeOK, LockOwner, Holding
  <1>4. ChainIntact' /\ KeysUnique' /\ \A k : KeyCommitted(k)' <=> KeyCommitted(k)
    BY LedgerSame
  <1>5. RowCurrent'
    BY DEF WalletTypeOK, RowCurrent, Holding
  <1>6. \A d \in Calls \ {c} : Inserted(d) => req[d].key # req[c].key
    <2> SUFFICES ASSUME NEW d \in Calls \ {c}, Inserted(d), req[d].key = req[c].key
                 PROVE  FALSE
      OBVIOUS
    <2>1. row[d] = NewRow(req[d], balance[req[d].user])
      BY DEF RowCurrent, Holding, Inserted
    <2>2. row[d].key = req[d].key
      BY <2>1 DEF NewRow
    <2> QED BY <2>2 DEF KeyPending, Inserted
  <1>7. InsertedAlone'
    BY <1>4, <1>6 DEF WalletTypeOK, InsertedAlone, Inserted
  <1>8. AnswerCommitted'
    BY <1>2 DEF WalletTypeOK, AnswerCommitted
  <1> QED BY <1>1, <1>3, <1>4, <1>5, <1>7, <1>8

\* Rolling back, for whatever reason, gives up the lock and nothing else.
LEMMA RollBackInv ==
    ASSUME WalletIInv, NEW c \in Calls, RollBack(c)
    PROVE  WalletIInv'
  <1> USE DEF WalletIInv, RollBack
  <1>1. WalletTypeOK'
    BY DEF WalletTypeOK, Steps, Unlocked
  <1>2. LockOwner'
    BY NoCallAssumption DEF WalletTypeOK, LockOwner, Holding, Unlocked
  <1>3. ChainIntact' /\ KeysUnique' /\ \A k : KeyCommitted(k)' <=> KeyCommitted(k)
    BY LedgerSame
  <1>4. RowCurrent'
    BY DEF WalletTypeOK, RowCurrent, Holding
  <1>5. InsertedAlone'
    BY <1>3 DEF WalletTypeOK, InsertedAlone, Inserted
  <1>6. AnswerCommitted'
    BY DEF WalletTypeOK, AnswerCommitted
  <1> QED BY <1>1, <1>2, <1>3, <1>4, <1>5, <1>6

\* A refused debit throws before it holds anything.
LEMMA RefuseInv ==
    ASSUME WalletIInv, NEW c \in Calls, Refuse(c)
    PROVE  WalletIInv'
  <1> USE DEF WalletIInv, Refuse
  <1>1. WalletTypeOK'
    BY DEF WalletTypeOK, Steps
  <1>2. LockOwner'
    BY DEF WalletTypeOK, LockOwner, Holding
  <1>3. ChainIntact' /\ KeysUnique' /\ \A k : KeyCommitted(k)' <=> KeyCommitted(k)
    BY LedgerSame
  <1>4. RowCurrent'
    BY DEF WalletTypeOK, RowCurrent, Holding
  <1>5. InsertedAlone'
    BY <1>3 DEF WalletTypeOK, InsertedAlone, Inserted
  <1>6. AnswerCommitted'
    BY DEF WalletTypeOK, AnswerCommitted
  <1> QED BY <1>1, <1>2, <1>3, <1>4, <1>5, <1>6

\* COMMIT of a call that found its key: it publishes nothing.
LEMMA CommitFoundInv ==
    ASSUME WalletIInv, NEW c \in Calls, Commit(c), ~fresh[c]
    PROVE  WalletIInv'
  <1> USE DEF WalletIInv, Commit
  <1>1. WalletTypeOK'
    BY DEF WalletTypeOK, Steps, Unlocked
  <1>2. LockOwner'
    BY NoCallAssumption DEF WalletTypeOK, LockOwner, Holding, Unlocked
  <1>3. ChainIntact' /\ KeysUnique' /\ \A k : KeyCommitted(k)' <=> KeyCommitted(k)
    BY LedgerSame
  <1>4. RowCurrent'
    BY DEF WalletTypeOK, RowCurrent, Holding
  <1>5. InsertedAlone'
    BY <1>3 DEF WalletTypeOK, InsertedAlone, Inserted
  <1>6. AnswerCommitted'
    BY DEF WalletTypeOK, AnswerCommitted
  <1> QED BY <1>1, <1>2, <1>3, <1>4, <1>5, <1>6

\* What a COMMIT that publishes does to the ledger, in the terms the proofs use.
LEMMA CommitEffect ==
    ASSUME WalletIInv, NEW c \in Calls, Commit(c), fresh[c]
    PROVE  LET u == req[c].user
               n == Len(ledger[u])
           IN  /\ u \in Users
               /\ n \in Nat
               /\ row[c] = NewRow(req[c], balance[u])
               /\ row[c] \in Row
               /\ row[c].key = req[c].key
               /\ row[c].before = balance[u]
               /\ row[c].after = balance[u] + row[c].amount
               /\ row[c].after >= 0
               /\ balance' = [balance EXCEPT ![u] = row[c].after]
               /\ DOMAIN ledger[u] = 1 .. n
               /\ ledger' = [ledger EXCEPT ![u] = Append(ledger[u], row[c])]
               /\ ledger'[u] # <<>>
               /\ DOMAIN ledger'[u] = 1 .. (n + 1)
               /\ Len(ledger'[u]) = n + 1
               /\ \A i \in 1 .. n : ledger'[u][i] = ledger[u][i]
               /\ ledger'[u][n + 1] = row[c]
               /\ \A v \in Users \ {u} : ledger'[v] = ledger[v] /\ balance'[v] = balance[v]
               /\ ledger'[u] \in Seq(Row)
  <1> DEFINE u == req[c].user
             n == Len(ledger[u])
  <1> USE DEF WalletIInv
  <1>1. u \in Users /\ req[c] \in Requests /\ ledger[u] \in Seq(Row) /\ row[c] \in Row
    BY RequestsAssumption DEF WalletTypeOK
  <1>2. row[c] = NewRow(req[c], balance[u]) /\ ~Refused(req[c], balance[u])
    BY DEF Commit, RowCurrent, Holding
  <1>3. balance[u] \in Int /\ balance[u] >= 0
    BY <1>1, BalanceNat
  <1>4. /\ row[c].key = req[c].key
        /\ row[c].before = balance[u]
        /\ row[c].after = balance[u] + row[c].amount
        /\ row[c].after >= 0
    BY <1>1, <1>2, <1>3, NewRowType
  <1>5. /\ ledger' = [ledger EXCEPT ![u] = Append(ledger[u], row[c])]
        /\ balance' = [balance EXCEPT ![u] = row[c].after]
    BY DEF Commit
  <1>6. /\ ledger'[u] = Append(ledger[u], row[c])
        /\ \A v \in Users \ {u} : ledger'[v] = ledger[v] /\ balance'[v] = balance[v]
    BY <1>1, <1>5 DEF WalletTypeOK
  <1>7. /\ ledger'[u] \in Seq(Row)
        /\ ledger'[u] # <<>>
        /\ n \in Nat
        /\ DOMAIN ledger[u] = 1 .. n
        /\ Len(ledger'[u]) = n + 1
        /\ DOMAIN ledger'[u] = 1 .. (n + 1)
        /\ \A i \in 1 .. n : ledger'[u][i] = ledger[u][i]
        /\ ledger'[u][n + 1] = row[c]
    BY <1>1, <1>6, AppendFacts
  <1> QED BY <1>1, <1>2, <1>4, <1>5, <1>6, <1>7

\* COMMIT of a call that inserted its row.
LEMMA CommitNewInv ==
    ASSUME WalletIInv, NEW c \in Calls, Commit(c), fresh[c]
    PROVE  WalletIInv'
  <1> DEFINE u == req[c].user
  <1> USE DEF WalletIInv
  <1>1. /\ u \in Users
        /\ row[c] \in Row
        /\ row[c].key = req[c].key
        /\ row[c].before = balance[u]
        /\ row[c].after = balance[u] + row[c].amount
        /\ row[c].after >= 0
        /\ balance' = [balance EXCEPT ![u] = row[c].after]
        /\ ledger' = [ledger EXCEPT ![u] = Append(ledger[u], row[c])]
    BY CommitEffect
  <1>2. /\ pc[c] = "commit"
        /\ pc' = [pc EXCEPT ![c] = "returned"]
        /\ lockedBy' = Unlocked(c)
        /\ UNCHANGED <<req, row, fresh>>
    BY DEF Commit
  <1>3. ~KeyCommitted(row[c].key)
    BY <1>1, <1>2 DEF InsertedAlone, Inserted
  <1>4. /\ ledger' \in [Users -> Seq(Row)] /\ balance' \in [Users -> Nat]
        /\ ChainIntact' /\ KeysUnique'
        /\ \A k : KeyCommitted(k)' <=> KeyCommitted(k) \/ k = req[c].key
        /\ \A v \in Users : \A i \in DOMAIN ledger[v] :
              i \in DOMAIN ledger'[v] /\ ledger'[v][i] = ledger[v][i]
        /\ \E i \in DOMAIN ledger'[u] : ledger'[u][i] = row[c]
        /\ \A v \in Users \ {u} : balance'[v] = balance[v]
    BY <1>1, <1>3, Appended
  <1>5. WalletTypeOK'
    BY <1>2, <1>4 DEF WalletTypeOK, Steps, Unlocked
  <1>6. LockOwner'
    BY <1>2, NoCallAssumption DEF WalletTypeOK, LockOwner, Holding, Unlocked
  <1>7. \A d \in Calls : Holding(d)' => d # c /\ Holding(d) /\ req[d].user \in Users \ {u}
    <2> SUFFICES ASSUME NEW d \in Calls, Holding(d)'
                 PROVE  d # c /\ Holding(d) /\ req[d].user \in Users \ {u}
      OBVIOUS
    <2>1. d # c /\ Holding(d)
      BY <1>2 DEF WalletTypeOK, Holding
    <2>2. req[d].user \in Users
      BY RequestsAssumption DEF WalletTypeOK
    <2>3. lockedBy[u] = c
      BY <1>1, <1>2 DEF LockOwner, Holding
    <2>4. lockedBy[req[d].user] = d
      BY <2>1, <2>2 DEF LockOwner
    <2> QED BY <2>1, <2>2, <2>3, <2>4
  <1>8. RowCurrent'
    BY <1>2, <1>4, <1>7 DEF RowCurrent, Refused, NewRow
  <1>9. InsertedAlone'
    BY <1>2, <1>4 DEF WalletTypeOK, InsertedAlone, Inserted
  <1>10. AnswerCommitted'
    <2> SUFFICES ASSUME NEW d \in Calls,
                        ((pc[d] = "commit" /\ ~fresh[d]) \/ pc[d] = "returned")'
                 PROVE  \E v \in Users : \E i \in DOMAIN ledger'[v] :
                           row'[d] = ledger'[v][i] /\ ledger'[v][i].key = req'[d].key
      BY DEF AnswerCommitted
    <2>1. CASE d = c
      <3>1. PICK i \in DOMAIN ledger'[u] : ledger'[u][i] = row[c]
        BY <1>4
      <3> QED BY <1>1, <1>2, <2>1, <3>1
    <2>2. CASE d # c
      <3>1. PICK v \in Users : \E i \in DOMAIN ledger[v] :
               row[d] = ledger[v][i] /\ ledger[v][i].key = req[d].key
        BY <1>2, <2>2 DEF WalletTypeOK, AnswerCommitted
      <3> QED BY <1>2, <1>4, <3>1
    <2> QED BY <2>1, <2>2
  <1> QED BY <1>4, <1>5, <1>6, <1>8, <1>9, <1>10

-----------------------------------------------------------------------------
(* The invariant holds always.                                             *)

\* Any statement of any call, a failure of one, or no step, keeps the invariant.
THEOREM WalletStepInv == WalletIInv /\ [WalletNext]_walletVars => WalletIInv'
  <1> SUFFICES ASSUME WalletIInv, [WalletNext]_walletVars
               PROVE  WalletIInv'
    OBVIOUS
  <1>1. ASSUME NEW c \in Calls, NEW r \in Requests, Begin(c, r)
        PROVE  WalletIInv'
    BY <1>1, BeginInv
  <1>2. ASSUME NEW c \in Calls, Statement(c)
        PROVE  WalletIInv'
    <2>1. CASE FindExisting(c)
      BY <2>1, FindExistingInv
    <2>2. CASE FindNothing(c)
      BY <2>2, FindNothingInv
    <2>3. CASE LockWallet(c)
      BY <2>3, LockWalletInv
    <2>4. CASE Refuse(c)
      BY <2>4, RefuseInv
    <2>5. CASE WriteRow(c)
      BY <2>5, WriteRowInv
    <2>6. CASE Conflict(c)
      BY <2>6, RollBackInv DEF Conflict
    <2>7. CASE Commit(c)
      BY <2>7, CommitFoundInv, CommitNewInv
    <2> QED BY <1>2, <2>1, <2>2, <2>3, <2>4, <2>5, <2>6, <2>7 DEF Statement
  <1>3. ASSUME NEW c \in Calls, Fail(c)
        PROVE  WalletIInv'
    BY <1>3, RollBackInv DEF Fail
  <1>4. CASE UNCHANGED walletVars
    BY <1>4 DEF walletVars, WalletIInv, WalletTypeOK, LockOwner, RowCurrent, InsertedAlone,
                AnswerCommitted, ChainIntact, KeysUnique, Holding, Inserted, KeyCommitted
  <1> QED BY <1>1, <1>2, <1>3, <1>4 DEF WalletNext

\* The inductive invariant of applyWalletTransaction holds in every reachable state,
\* whatever the calls interleave and wherever they fail.
THEOREM WalletInvariant == WalletSpec => []WalletIInv
  BY WalletInitInv, WalletStepInv, PTL DEF WalletSpec

\* Type correctness of the wallet.
THEOREM WalletTypeCorrect == WalletSpec => []WalletTypeOK
  <1>1. WalletIInv => WalletTypeOK
    BY DEF WalletIInv
  <1> QED BY <1>1, WalletInvariant, PTL

\* The rows of every wallet form an unbroken chain from zero to its balance, and
\* no balance on the way is negative.
THEOREM WalletChain == WalletSpec => []ChainIntact
  <1>1. WalletIInv => ChainIntact
    BY DEF WalletIInv
  <1> QED BY <1>1, WalletInvariant, PTL

\* No idempotency key is applied twice.
THEOREM WalletKeys == WalletSpec => []KeysUnique
  <1>1. WalletIInv => KeysUnique
    BY DEF WalletIInv
  <1> QED BY <1>1, WalletInvariant, PTL

\* What a caller was told is on the ledger.
THEOREM WalletDurable == WalletSpec => []ReturnedIsDurable
  <1>1. WalletIInv => ReturnedIsDurable
    BY DEF WalletIInv, AnswerCommitted, ReturnedIsDurable, CommittedRows
  <1> QED BY <1>1, WalletInvariant, PTL

-----------------------------------------------------------------------------
(* The wallet keeps the promise of Ledger.                                 *)

Posted == UNION {{[user |-> u, key |-> ledger[u][i].key, amount |-> ledger[u][i].amount] :
                    i \in DOMAIN ledger[u]} : u \in Users}

\* Membership in the mapped set of entries.
LEMMA PostedEntry ==
    \A e : e \in Posted <=>
        \E u \in Users : \E i \in DOMAIN ledger[u] :
            e = [user |-> u, key |-> ledger[u][i].key, amount |-> ledger[u][i].amount]
  BY DEF Posted

\* A row made of a request, appended under a new key, is one Post of that request.
LEMMA AppendedPosts ==
    ASSUME WalletTypeOK, ChainIntact, KeysUnique,
           NEW r \in Requests, ~KeyCommitted(r.key), ~Refused(r, balance[r.user]),
           ledger' = [ledger EXCEPT ![r.user] = Append(@, NewRow(r, balance[r.user]))],
           balance' = [balance EXCEPT ![r.user] = NewRow(r, @).after]
    PROVE  Promise!Post(r)
  <1>1. r.user \in Users /\ r.amount \in Int /\ r.clamp \in BOOLEAN
    BY RequestsAssumption
  <1>2. balance[r.user] \in Int /\ balance[r.user] >= 0
    BY <1>1, BalanceNat
  <1>3. PICK u \in Users, x \in Row : u = r.user /\ x = NewRow(r, balance[u])
    BY <1>1, <1>2, NewRowType
  <1> DEFINE amount == Promise!Applied(r, balance[u])
             entry == [user |-> u, key |-> r.key, amount |-> amount]
  <1>4. /\ x.key = r.key /\ x.before = balance[u]
        /\ x.after = balance[u] + x.amount /\ x.after >= 0
        /\ ~KeyCommitted(x.key)
    BY <1>2, <1>3, NewRowType
  <1>5. /\ ledger' = [ledger EXCEPT ![u] = Append(ledger[u], x)]
        /\ balance' = [balance EXCEPT ![u] = x.after]
        /\ x.amount = amount
    <2>1. CASE balance[u] + r.amount < 0
      BY <1>1, <1>2, <1>3, <2>1 DEF NewRow, Refused, Promise!Applied
    <2>2. CASE ~(balance[u] + r.amount < 0)
      BY <1>1, <1>2, <1>3, <2>2 DEF NewRow, Promise!Applied
    <2>3. /\ ledger' = [ledger EXCEPT ![u] = Append(ledger[u], x)]
          /\ balance' = [balance EXCEPT ![u] = x.after]
      BY <1>3 DEF WalletTypeOK
    <2> QED BY <2>1, <2>2, <2>3
  <1> HIDE DEF amount
  <1>6. /\ \A v \in Users : \A i \in DOMAIN ledger[v] :
              i \in DOMAIN ledger'[v] /\ ledger'[v][i] = ledger[v][i]
        /\ \E i \in DOMAIN ledger'[u] : ledger'[u][i] = x
    <2>1. /\ x.before = balance[u] /\ x.after = balance[u] + x.amount /\ x.after >= 0
          /\ ledger' = [ledger EXCEPT ![u] = Append(ledger[u], x)]
          /\ balance' = [balance EXCEPT ![u] = x.after]
      BY <1>4, <1>5
    <2>2. ~KeyCommitted(x.key)
      BY <1>4
    <2> QED BY ONLY WalletTypeOK, ChainIntact, KeysUnique, u \in Users, x \in Row, <2>1, <2>2, Appended
  <1>7. \A v \in Users : \A i \in DOMAIN ledger'[v] :
            \/ v = u /\ ledger'[v][i] = x
            \/ i \in DOMAIN ledger[v] /\ ledger'[v][i] = ledger[v][i]
    <2>1. ledger[u] \in Seq(Row) /\ ledger'[u] = Append(ledger[u], x)
          /\ \A v \in Users \ {u} : ledger'[v] = ledger[v]
      BY <1>5 DEF WalletTypeOK
    <2> QED BY <2>1, AppendFacts
  <1>8. \A e \in Posted : e.key # r.key
    BY PostedEntry DEF KeyCommitted
  <1>9. balance[u] + amount >= 0 /\ balance' = [balance EXCEPT ![u] = @ + amount]
    BY <1>4, <1>5
  <1>10. Posted' = Posted \union {entry}
    <2>1. ASSUME NEW e \in Posted'
          PROVE  e \in Posted \union {entry}
      <3>1. PICK v \in Users : \E i \in DOMAIN ledger'[v] :
               e = [user |-> v, key |-> ledger'[v][i].key, amount |-> ledger'[v][i].amount]
        BY <2>1 DEF Posted
      <3>2. PICK i \in DOMAIN ledger'[v] :
               e = [user |-> v, key |-> ledger'[v][i].key, amount |-> ledger'[v][i].amount]
        BY <3>1
      <3>3. CASE v = u /\ ledger'[v][i] = x
        BY <1>4, <1>5, <3>2, <3>3
      <3>4. CASE i \in DOMAIN ledger[v] /\ ledger'[v][i] = ledger[v][i]
        BY <3>2, <3>4, PostedEntry
      <3> QED BY <1>7, <3>3, <3>4
    <2>2. ASSUME NEW e \in Posted
          PROVE  e \in Posted'
      <3>1. PICK v \in Users : \E i \in DOMAIN ledger[v] :
               e = [user |-> v, key |-> ledger[v][i].key, amount |-> ledger[v][i].amount]
        BY <2>2, PostedEntry
      <3>2. PICK i \in DOMAIN ledger[v] :
               e = [user |-> v, key |-> ledger[v][i].key, amount |-> ledger[v][i].amount]
        BY <3>1
      <3>3. i \in DOMAIN ledger'[v] /\ ledger'[v][i] = ledger[v][i]
        BY <1>6, <3>2
      <3> QED BY <3>2, <3>3 DEF Posted
    <2>3. entry \in Posted'
      <3>1. PICK i \in DOMAIN ledger'[u] : ledger'[u][i] = x
        BY <1>6
      <3>2. ledger'[u][i].key = r.key /\ ledger'[u][i].amount = amount
        BY <1>4, <1>5, <3>1
      <3> QED BY <3>2 DEF Posted
    <2> QED BY <2>1, <2>2, <2>3
  <1> QED BY <1>3, <1>8, <1>9, <1>10 DEF Promise!Post, Posted, amount

\* A COMMIT that publishes is one Post of the call's request.
LEMMA CommitPosts ==
    ASSUME WalletIInv, NEW c \in Calls, Commit(c), fresh[c]
    PROVE  Promise!Next
  <1>1. PICK r \in Requests : r = req[c]
    BY DEF WalletIInv, WalletTypeOK
  <1>2. ~Refused(r, balance[r.user]) /\ row[c] = NewRow(r, balance[r.user])
    BY <1>1 DEF WalletIInv, RowCurrent, Holding, Commit
  <1>3. ~KeyCommitted(r.key)
    BY <1>1 DEF WalletIInv, InsertedAlone, Inserted, Commit
  <1>4. /\ ledger' = [ledger EXCEPT ![r.user] = Append(@, NewRow(r, balance[r.user]))]
        /\ balance' = [balance EXCEPT ![r.user] = NewRow(r, @).after]
    BY <1>1, <1>2, RequestsAssumption DEF WalletIInv, WalletTypeOK, Commit
  <1>5. Promise!Post(r)
    BY <1>2, <1>3, <1>4, AppendedPosts DEF WalletIInv
  <1> QED BY <1>5 DEF Promise!Next

\* Every other step leaves the accounts as they are.
LEMMA OtherStepsStutter ==
    ASSUME UNCHANGED <<balance, ledger>>
    PROVE  UNCHANGED <<balance, Posted>>
  BY DEF Posted

\* The wallet implements Ledger: seen from outside, a call posts its key once, in
\* one step that never overdraws, or does nothing, however the statements of the
\* calls interleave and wherever they fail.
THEOREM WalletRefinesLedger == WalletSpec => PromiseKept
  <1>1. WalletInit => Promise!Init
    BY DEF WalletInit, Promise!Init
  <1>2. WalletIInv /\ [WalletNext]_walletVars => [Promise!Next]_<<balance, Posted>>
    <2> SUFFICES ASSUME WalletIInv, [WalletNext]_walletVars
                 PROVE  Promise!Next \/ UNCHANGED <<balance, Posted>>
      OBVIOUS
    <2>1. CASE UNCHANGED <<balance, ledger>>
      BY <2>1, OtherStepsStutter
    <2>2. ASSUME NEW c \in Calls, Commit(c), fresh[c]
          PROVE  Promise!Next
      BY <2>2, CommitPosts
    <2>3. ASSUME NEW c \in Calls, Statement(c), ~(Commit(c) /\ fresh[c])
          PROVE  UNCHANGED <<balance, ledger>>
      BY <2>3 DEF Statement, FindExisting, FindNothing, LockWallet, Refuse, WriteRow,
                  Conflict, RollBack, Commit
    <2> QED BY <2>1, <2>2, <2>3 DEF WalletNext, Begin, Fail, RollBack, walletVars
  <1> QED BY <1>1, <1>2, WalletInvariant, PTL
          DEF WalletSpec, PromiseKept, Promise!Spec, Posted
=============================================================================
