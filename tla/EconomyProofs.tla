--------------------------- MODULE EconomyProofs ---------------------------
(* Economy's audit trail and its refinement of the ledger, for any number  *)
(* of requests, characters and items and any amounts.                      *)
EXTENDS Economy, FiniteSetTheorems, SequenceTheorems, TLAPS

-----------------------------------------------------------------------------
\* Trails: what one more entry does to them.

LEMMA TrailAppend ==
  ASSUME NEW s \in Seq(Entries), NEW b \in Seq(Entries), NEW e \in Entries
  PROVE  s \o Append(b, e) = Append(s \o b, e)
  OBVIOUS

LEMMA TrailConcat ==
  ASSUME NEW s \in Seq(Entries), NEW b \in Seq(Entries)
  PROVE  s \o b \in Seq(Entries)
  OBVIOUS

LEMMA TrailEmpty ==
  ASSUME NEW s \in Seq(Entries)
  PROVE  s \o << >> = s /\ << >> \o s = s
  OBVIOUS

LEMMA ContinuousAppend ==
  ASSUME NEW s \in Seq(Entries), NEW e \in Entries, Continuous(s),
         e.before = IF s = << >> THEN 0 ELSE s[Len(s)].after
  PROVE  Continuous(Append(s, e))
  BY DEF Continuous

LEMMA SeedFirstAppend ==
  ASSUME NEW s \in Seq(Entries), NEW e \in Entries, SeedFirst(s),
         e.kind = "ADMIN_ADJUSTMENT" <=> s = << >>
  PROVE  SeedFirst(Append(s, e))
  BY DEF SeedFirst

LEMMA LastAppend ==
  ASSUME NEW s \in Seq(Entries), NEW e \in Entries
  PROVE  /\ Append(s, e) # << >>
         /\ Append(s, e)[Len(Append(s, e))] = e
  OBVIOUS

-----------------------------------------------------------------------------
\* The initial state, and what every step leaves alone.

USE EconomyAssumption

LEMMA InitInv == Init => IInv
<1> SUFFICES ASSUME Init PROVE IInv
  OBVIOUS
<1> USE DEF Init, RcInit
<1>1. TypeOK
  BY DEF TypeOK, Requests, NoRequest, Answers
<1>2. PendingIsOwned /\ StockKind
  BY DEF PendingIsOwned, StockKind
<1>3. AuditTrail /\ SeededOnce
  BY DEF AuditTrail, SeededOnce, Continuous, SeedFirst
<1>4. \A p \in Proc : RequestInv(p)
  BY DEF RequestInv, LocksNamed, AnswerMatches, NoRequest
<1> QED
  BY <1>1, <1>2, <1>3, <1>4 DEF IInv

\* A request that has begun asks for something.
LEMMA Asking ==
  ASSUME TypeOK, NEW p \in Proc, AnswerMatches(p), pc[p] # "idle"
  PROVE  /\ req[p] \in Requests
         /\ req[p].char \in Char
         /\ req[p].op \in {"transfer", "buy", "getWallet"}
         /\ req[p].op = "buy" => req[p].item \in Item /\ req[p].units \in Quantity
         /\ req[p].op = "transfer" => req[p].amount \in Amounts
  BY DEF TypeOK, AnswerMatches, Requests, NoRequest

\* The fields of q that only q's own steps change.
Unmoved(q) ==
  /\ pc'[q] = pc[q] /\ req'[q] = req[q] /\ snap'[q] = snap[q]
  /\ stk'[q] = stk[q] /\ buf'[q] = buf[q] /\ answer'[q] = answer[q]

\* A step of another request leaves the rows q holds alone, and where it
\* publishes a wallet, publishes a later version.
RowsOf(q) ==
  /\ \A r \in Char \cup Item :
       /\ owner'[r] = q <=> owner[r] = q
       /\ owner[r] = q => db'[r] = db[r] /\ pend'[r] = pend[r]
  /\ \A c \in Char :
       /\ owner[c] = q => log'[c] = log[c]
       /\ owner[c] # q => \/ db'[c] = db[c]
                         \/ /\ db'[c] # NoRow
                            /\ db[c] # NoRow => db'[c].version > db[c].version

LEMMA OthersKeep ==
  ASSUME TypeOK, TypeOK', NEW q \in Proc, RequestInv(q), Unmoved(q), RowsOf(q)
  PROVE  RequestInv(q)'
<1>1. (LocksNamed(q) /\ AnswerMatches(q))'
  BY DEF RequestInv, LocksNamed, AnswerMatches, Unmoved, RowsOf
<1> SUFFICES ASSUME pc[q] # "idle"
             PROVE  (TrailExtends(q) /\ SnapFaithful(q) /\ WalletMoved(q) /\ StockMoved(q))'
  BY <1>1 DEF RequestInv, Unmoved
<1>2. /\ req[q] \in Requests /\ req[q].char \in Char
      /\ req[q].op = "buy" => req[q].item \in Item
  BY Asking DEF RequestInv
<1>3. TrailExtends(q)'
  BY <1>2 DEF RequestInv, TrailExtends, Unmoved, RowsOf
<1>4. SnapFaithful(q)'
  <2>1. CASE owner[req[q].char] = q
    BY <1>2, <2>1 DEF RequestInv, SnapFaithful, Unmoved, RowsOf
  <2>2. CASE owner[req[q].char] # q
    <3> SUFFICES ASSUME pc[q] = "update"
                 PROVE  SnapFaithful(q)'
      BY DEF SnapFaithful, Unmoved
    <3> DEFINE c == req[q].char
    <3>1. /\ snap[q] \in Wallets /\ db[c] \in Wallets /\ db'[c] # NoRow
          /\ db'[c] \in Wallets
      BY <1>2, <2>2 DEF RequestInv, SnapFaithful, TypeOK, RowsOf
    <3>2. /\ snap[q].version <= db[c].version
          /\ snap[q].version = db[c].version => snap[q] = db[c]
      BY <1>2, <2>2 DEF RequestInv, SnapFaithful
    <3>3. db'[c] = db[c] \/ db'[c].version > db[c].version
      BY <1>2, <2>2, <3>1 DEF RowsOf
    <3>4. /\ snap[q].version <= db'[c].version
          /\ snap[q].version = db'[c].version => snap[q] = db'[c]
      BY <3>1, <3>2, <3>3 DEF Wallets
    <3> QED
      BY <1>2, <2>2, <3>1, <3>4 DEF RequestInv, SnapFaithful, Unmoved, RowsOf
  <2> QED
    BY <2>1, <2>2
<1>5. WalletMoved(q)'
  BY <1>2 DEF RequestInv, WalletMoved, Unmoved, RowsOf, HeldNow, AmountOf
<1>6. StockMoved(q)'
  BY <1>2 DEF RequestInv, StockMoved, Unmoved, RowsOf
<1> QED
  BY <1>3, <1>4, <1>5, <1>6

\* The five things to show of a step of p.
LEMMA StepKeeps ==
  ASSUME IInv, NEW p \in Proc, TypeOK', (PendingIsOwned /\ StockKind)',
         (AuditTrail /\ SeededOnce)', RequestInv(p)',
         \A q \in Proc \ {p} : Unmoved(q) /\ RowsOf(q)
  PROVE  IInv'
<1>1. \A q \in Proc : RequestInv(q)'
  BY OthersKeep DEF IInv
<1> QED
  BY <1>1 DEF IInv

-----------------------------------------------------------------------------
\* Rolling back.

LEMMA RejectInv ==
  ASSUME IInv, NEW p \in Proc, pc[p] \notin {"idle", "done"},
         NEW why \in Answers \ {"none"}, Reject(p, why)
  PROVE  IInv'
<1> USE DEF Reject, Rollback, Released, Goto
<1>1. TypeOK'
  BY DEF IInv, TypeOK
<1>2. (PendingIsOwned /\ StockKind)'
  BY DEF IInv, PendingIsOwned, StockKind, TypeOK
<1>3. (AuditTrail /\ SeededOnce)'
  BY DEF IInv, AuditTrail, SeededOnce
<1>4. \A q \in Proc \ {p} : Unmoved(q) /\ RowsOf(q)
  BY DEF IInv, TypeOK, Unmoved, RowsOf
<1>5. RequestInv(p)'
  <2>1. req[p] # NoRequest /\ req[p].char \in Char
    BY Asking DEF IInv, RequestInv, AnswerMatches
  <2>2. \A r \in Char \cup Item : owner'[r] # p
    BY DEF IInv, TypeOK
  <2> QED
    BY <2>1, <2>2 DEF IInv, TypeOK, RequestInv, LocksNamed, AnswerMatches, TrailExtends,
       SnapFaithful, WalletMoved, StockMoved
<1> QED
  BY <1>1, <1>2, <1>3, <1>4, <1>5, StepKeeps

LEMMA ConflictInv ==
  ASSUME IInv, NEW p \in Proc, pc[p] = "update", Conflict(p)
  PROVE  IInv'
<1>1. CASE Reject(p, "CONCURRENCY_CONFLICT")
  BY <1>1, RejectInv DEF Answers
<1>2. CASE ~Reject(p, "CONCURRENCY_CONFLICT")
  <2>a. /\ Rollback(p) /\ req[p].op = "transfer" /\ tries[p] < MaxRetries - 1
        /\ buf' = [buf EXCEPT ![p] = << >>]
        /\ tries' = [tries EXCEPT ![p] = @ + 1]
        /\ pc' = [pc EXCEPT ![p] = "getById"]
        /\ UNCHANGED <<log, owned, req, snap, stk, answer>>
    BY <1>2 DEF Conflict, Goto
  <2>b. tries[p] + 1 \in 0 .. MaxRetries - 1
    BY <2>a DEF IInv, TypeOK
  <2> USE <2>a, <2>b DEF Rollback, Released
  <2>1. TypeOK'
    BY DEF IInv, TypeOK
  <2>2. (PendingIsOwned /\ StockKind)'
    BY DEF IInv, PendingIsOwned, StockKind, TypeOK
  <2>3. (AuditTrail /\ SeededOnce)'
    BY DEF IInv, AuditTrail, SeededOnce
  <2>4. \A q \in Proc \ {p} : Unmoved(q) /\ RowsOf(q)
    BY DEF IInv, TypeOK, Unmoved, RowsOf
  <2>5. RequestInv(p)'
    <3>1. req[p] # NoRequest /\ req[p].char \in Char
      BY Asking DEF IInv, RequestInv, AnswerMatches
    <3>2. \A r \in Char \cup Item : owner'[r] # p
      BY DEF IInv, TypeOK
    <3> QED
      BY <3>1, <3>2 DEF IInv, TypeOK, RequestInv, LocksNamed, AnswerMatches,
         TrailExtends, SnapFaithful, WalletMoved, StockMoved
  <2> QED
    BY <2>1, <2>2, <2>3, <2>4, <2>5, StepKeeps
<1> QED
  BY <1>1, <1>2

-----------------------------------------------------------------------------
\* Steps that only read.

\* Nothing shared changes, and p's own fields stay well typed.
LEMMA LocalStep ==
  ASSUME IInv, NEW p \in Proc, UNCHANGED <<rcVars, log, owned>>, TypeOK', RequestInv(p)',
         \A q \in Proc \ {p} : Unmoved(q)
  PROVE  IInv'
<1>1. \A q \in Proc \ {p} : RowsOf(q)
  BY DEF RowsOf, rcVars
<1>2. (PendingIsOwned /\ StockKind /\ AuditTrail /\ SeededOnce)'
  BY DEF IInv, rcVars, PendingIsOwned, StockKind, AuditTrail, SeededOnce
<1> QED
  BY <1>1, <1>2, StepKeeps

LEMMA StartInv ==
  ASSUME IInv, NEW p \in Proc, Start(p)
  PROVE  IInv'
<1>a. PICK r \in Requests :
        /\ req' = [req EXCEPT ![p] = r]
        /\ IF r.op = "buy" /\ r.char \in Apagado
           THEN Goto(p, "done") /\ answer' = [answer EXCEPT ![p] = "FLATLINED"]
           ELSE Goto(p, IF r.op = "buy" THEN "item" ELSE "getById") /\ UNCHANGED answer
  BY DEF Start
<1>b. pc[p] = "idle" /\ UNCHANGED <<rcVars, log, owned, snap, stk, buf, tries>>
  BY DEF Start
<1> USE <1>a, <1>b DEF Goto, rcVars
<1>1. TypeOK'
  BY DEF IInv, TypeOK, Answers
<1>2. \A q \in Proc \ {p} : Unmoved(q)
  BY DEF IInv, TypeOK, Unmoved
<1>3. RequestInv(p)'
  <2>1. /\ req'[p] \in Requests /\ req'[p].char \in Char
        /\ req'[p].op = "buy" => req'[p].item \in Item
    BY DEF IInv, TypeOK, Requests
  <2>2. /\ pc[p] = "idle" /\ answer[p] = "none"
        /\ \/ pc'[p] = "done" /\ answer'[p] = "FLATLINED"
           \/ pc'[p] = "item" /\ answer'[p] = "none" /\ req'[p].op = "buy"
           \/ pc'[p] = "getById" /\ answer'[p] = "none" /\ req'[p].op # "buy"
    BY DEF IInv, TypeOK, RequestInv, AnswerMatches
  <2>3. \A row \in Char \cup Item : owner'[row] # p
    BY <2>2 DEF IInv, RequestInv, LocksNamed
  <2>4. req'[p] # NoRequest
    BY <2>1 DEF Requests, NoRequest
  <2>5. buf'[p] = << >>
    BY <2>2 DEF IInv, RequestInv, AnswerMatches
  <2> QED
    BY <2>1, <2>2, <2>3, <2>4, <2>5 DEF RequestInv, LocksNamed, AnswerMatches, TrailExtends,
       SnapFaithful, WalletMoved, StockMoved
<1> QED
  BY <1>1, <1>2, <1>3, LocalStep

LEMMA FindStockItemInv ==
  ASSUME IInv, NEW p \in Proc, FindStockItem(p)
  PROVE  IInv'
<1>0. pc[p] = "item"
  BY DEF FindStockItem
<1>1. CASE Reject(p, "OUT_OF_STOCK")
  BY <1>0, <1>1, RejectInv DEF Answers
<1>2. CASE /\ stk' = [stk EXCEPT ![p] = Sees(p, req[p].item)]
           /\ pc' = [pc EXCEPT ![p] = "ensure"]
           /\ UNCHANGED <<rcVars, log, owned, req, snap, buf, tries, answer>>
  <2> USE <1>0, <1>2 DEF rcVars
  <2>1. /\ req[p] \in Requests /\ req[p].char \in Char /\ req[p].op = "buy"
        /\ req[p].item \in Item
    BY Asking DEF IInv, RequestInv, StockMoved
  <2>2. stk'[p] \in Nat \cup {-1} /\ (stk'[p] >= 0 <=> InitStock[req[p].item] >= 0)
    BY <2>1 DEF IInv, TypeOK, Sees, StockKind
  <2>3. TypeOK'
    BY <2>2 DEF IInv, TypeOK
  <2>4. \A q \in Proc \ {p} : Unmoved(q)
    BY DEF IInv, TypeOK, Unmoved
  <2>5. RequestInv(p)'
    <3>1. pc'[p] = "ensure"
      BY DEF IInv, TypeOK
    <3>2. \A r \in Char \cup Item : owner'[r] # p
      BY DEF IInv, RequestInv, LocksNamed
    <3> QED
      BY <2>1, <2>2, <3>1, <3>2 DEF IInv, RequestInv, LocksNamed, AnswerMatches, TrailExtends,
         SnapFaithful, WalletMoved, StockMoved
  <2> QED
    BY <2>3, <2>4, <2>5, LocalStep
<1> QED
  BY <1>1, <1>2 DEF FindStockItem, Goto

\* The request learns its wallet from a SELECT.
LEMMA HoldWalletInv ==
  ASSUME IInv, NEW p \in Proc, pc[p] \in {"getById", "ensure", "reread"},
         Sees(p, req[p].char) # NoRow, HoldWallet(p, Sees(p, req[p].char)),
         UNCHANGED <<rcVars, buf>>
  PROVE  IInv'
<1> USE DEF HoldWallet, Goto, rcVars
<1> DEFINE c == req[p].char
<1>1. req[p] \in Requests /\ c \in Char
  BY Asking DEF IInv, RequestInv
<1>2. \A r \in Char \cup Item : owner[r] # p
  BY DEF IInv, RequestInv, LocksNamed
<1>3. db[c] # NoRow /\ db[c] \in Wallets /\ snap'[p] = db[c]
  BY <1>1, <1>2 DEF IInv, TypeOK, Sees
<1>4. db[c].balance = db[c].earned - db[c].spent
  BY <1>1, <1>3 DEF IInv, AuditTrail, Accounts
<1>5. TypeOK'
  BY <1>3 DEF IInv, TypeOK
<1>6. \A q \in Proc \ {p} : Unmoved(q)
  BY DEF IInv, TypeOK, Unmoved
<1>7. RequestInv(p)'
  <2>1. \/ pc'[p] = "commit" /\ req[p].op = "getWallet"
        \/ pc'[p] = "update" /\ req[p].op # "getWallet"
    BY DEF IInv, TypeOK
  <2>2. SnapFaithful(p)'
    BY <1>1, <1>2, <1>3, <1>4, <2>1 DEF SnapFaithful, Wallets
  <2> QED
    BY <1>1, <1>2, <1>3, <2>1, <2>2 DEF IInv, RequestInv, LocksNamed, AnswerMatches,
       TrailExtends, WalletMoved, StockMoved
<1> QED
  BY <1>5, <1>6, <1>7, LocalStep

\* The request only moves on to look elsewhere.
LEMMA LookFurther ==
  ASSUME IInv, NEW p \in Proc, pc[p] \in {"getById", "ensure", "insert"},
         NEW l \in {"ensure", "insert", "reread"}, Goto(p, l),
         UNCHANGED <<rcVars, log, owned, req, snap, stk, buf, tries, answer>>
  PROVE  IInv'
<1> USE DEF Goto, rcVars
<1>1. TypeOK'
  BY DEF IInv, TypeOK
<1>2. \A q \in Proc \ {p} : Unmoved(q)
  BY DEF IInv, TypeOK, Unmoved
<1>3. pc'[p] = l
  BY DEF IInv, TypeOK
<1>4. RequestInv(p)'
  BY <1>3 DEF IInv, RequestInv, LocksNamed, AnswerMatches, TrailExtends,
     SnapFaithful, WalletMoved, StockMoved
<1> QED
  BY <1>1, <1>2, <1>4, LocalStep

LEMMA ReadsInv ==
  ASSUME IInv, NEW p \in Proc, GetById(p) \/ EnsureSelect(p) \/ EnsureReread(p)
  PROVE  IInv'
<1>1. CASE GetById(p)
  BY <1>1, HoldWalletInv, LookFurther DEF GetById
<1>2. CASE EnsureSelect(p)
  BY <1>2, HoldWalletInv, LookFurther DEF EnsureSelect
<1>3. CASE EnsureReread(p)
  BY <1>3, HoldWalletInv, RejectInv DEF EnsureReread, Answers
<1> QED
  BY <1>1, <1>2, <1>3

-----------------------------------------------------------------------------
\* Steps that write: the row is p's afterwards, every other row as before.

LEMMA PutRows ==
  ASSUME IInv, NEW p \in Proc, NEW r \in Char \cup Item, NEW v, Put(p, r, v),
         log' = log
  PROVE  /\ \A q \in Proc \ {p} : RowsOf(q)
         /\ owner'[r] = p /\ pend'[r] = v
         /\ \A x \in Char \cup Item : x # r => owner'[x] = owner[x] /\ pend'[x] = pend[x]
         /\ DOMAIN pend' = Char \cup Item
         /\ owner' \in [Char \cup Item -> Proc \cup {NoProc}]
         /\ PendingIsOwned'
         /\ (AuditTrail /\ SeededOnce)'
<1> USE DEF Put, CanLock
<1>1. \A q \in Proc \ {p} : RowsOf(q)
  BY DEF IInv, TypeOK, RowsOf
<1>2. /\ owner'[r] = p /\ pend'[r] = v
      /\ \A x \in Char \cup Item : x # r => owner'[x] = owner[x] /\ pend'[x] = pend[x]
      /\ DOMAIN pend' = Char \cup Item
      /\ owner' \in [Char \cup Item -> Proc \cup {NoProc}]
  BY DEF IInv, TypeOK
<1>3. PendingIsOwned'
  BY <1>2 DEF IInv, TypeOK, PendingIsOwned
<1>4. (AuditTrail /\ SeededOnce)'
  BY DEF IInv, AuditTrail, SeededOnce
<1> QED
  BY <1>1, <1>2, <1>3, <1>4

LEMMA EnsureInsertInv ==
  ASSUME IInv, NEW p \in Proc, EnsureInsert(p)
  PROVE  IInv'
<1> DEFINE c == req[p].char
           e == Entry("ADMIN_ADJUSTMENT", 0, Seed, p)
<1>0. pc[p] = "insert"
  BY DEF EnsureInsert
<1>1. CASE /\ Goto(p, "reread")
           /\ UNCHANGED <<rcVars, log, owned, req, snap, stk, buf, tries, answer>>
  BY <1>0, <1>1, LookFurther
<1>2. CASE /\ InsertWins(p, c)
           /\ Put(p, c, SeedWallet)
           /\ buf' = [buf EXCEPT ![p] = Append(@, e)]
           /\ HoldWallet(p, SeedWallet)
  <2> USE <1>0, <1>2 DEF HoldWallet, Goto
  <2>1. req[p] \in Requests /\ c \in Char
    BY Asking DEF IInv, RequestInv
  <2>2. SeedWallet \in Wallets /\ e \in Entries /\ SeedWallet # NoRow
    BY DEF SeedWallet, Wallets, Entry, Entries
  <2>3. \A r \in Char \cup Item : owner[r] # p
    BY DEF IInv, RequestInv, LocksNamed
  <2>4. db[c] = NoRow /\ log[c] = << >> /\ buf[p] = << >> /\ db' = db
    BY <2>1, <2>3 DEF InsertWins, Sees, IInv, AuditTrail, RequestInv, TrailExtends, Put
  <2>5. /\ owner'[c] = p /\ pend'[c] = SeedWallet
        /\ \A x \in Char \cup Item : x # c => owner'[x] = owner[x] /\ pend'[x] = pend[x]
        /\ DOMAIN pend' = Char \cup Item
        /\ owner' \in [Char \cup Item -> Proc \cup {NoProc}]
    BY <2>1 DEF Put, IInv, TypeOK
  <2>6. buf'[p] = << e >> /\ snap'[p] = SeedWallet
    BY <2>4 DEF IInv, TypeOK
  <2>7. TypeOK'
    <3>1. /\ \A x \in Char : db'[x] \in Wallets \cup {NoRow} /\ pend'[x] \in Wallets \cup {NoRow}
          /\ \A x \in Item : db'[x] \in Nat \cup {-1} /\ pend'[x] \in Nat \cup {-1}
          /\ DOMAIN db' = Char \cup Item
      BY <2>1, <2>2, <2>4, <2>5 DEF IInv, TypeOK
    <3>2. buf' \in [Proc -> Seq(Entries)]
      BY <2>2 DEF IInv, TypeOK
    <3>3. snap' \in [Proc -> Wallets \cup {NoRow}]
      BY <2>2 DEF IInv, TypeOK
    <3> QED
      BY <2>5, <3>1, <3>2, <3>3 DEF IInv, TypeOK
  <2>8. (PendingIsOwned /\ StockKind)'
    BY <2>1, <2>4, <2>5, PutRows DEF IInv, StockKind
  <2>9. \A q \in Proc \ {p} : Unmoved(q)
    BY DEF IInv, TypeOK, Unmoved
  <2>10. RequestInv(p)'
    <3>1. \/ pc'[p] = "commit" /\ req[p].op = "getWallet"
          \/ pc'[p] = "update" /\ req[p].op # "getWallet"
      BY DEF IInv, TypeOK
    <3>2. TrailExtends(p)'
      <4>1. log[c] \o buf'[p] = << e >>
        BY <2>2, <2>4, <2>6
      <4>2. /\ Continuous(<< e >>) /\ SeedFirst(<< e >>) /\ Accounts(<< e >>, SeedWallet)
        BY DEF Continuous, SeedFirst, Accounts, Entry, SeedWallet
      <4>3. req' = req /\ log' = log
        OBVIOUS
      <4> QED
        BY <2>2, <2>4, <2>5, <4>1, <4>2, <4>3 DEF TrailExtends
    <3>3. SnapFaithful(p)'
      BY <2>2, <2>4, <2>5, <2>6, <3>1 DEF SnapFaithful, SeedWallet
    <3>4. LocksNamed(p)' /\ AnswerMatches(p)'
      BY <2>3, <2>5, <3>1 DEF IInv, RequestInv, LocksNamed, AnswerMatches
    <3>5. WalletMoved(p)' /\ StockMoved(p)'
      BY <2>2, <2>4, <2>5, <3>1 DEF IInv, RequestInv, WalletMoved, StockMoved, HeldNow, SeedWallet
    <3> QED
      BY <3>1, <3>2, <3>3, <3>4, <3>5 DEF RequestInv
  <2> QED
    BY <2>1, <2>7, <2>8, <2>9, <2>10, PutRows, StepKeeps
<1> QED
  BY <1>1, <1>2 DEF EnsureInsert

\* The wallet an optimistic write leaves behind.
LEMMA TransferFacts ==
  ASSUME NEW w \in Wallets, NEW a \in Int, w.balance = w.earned - w.spent
  PROVE  LET new == transferEddies(w, a) IN
         /\ new \in Wallets
         /\ new.balance = w.balance + a
         /\ new.balance = new.earned - new.spent
  BY DEF transferEddies, Wallets

LEMMA BumpedFacts ==
  ASSUME NEW w \in Wallets, NEW new \in Wallets
  PROVE  LET v == Bumped(w, new) IN
         /\ v \in Wallets
         /\ v.balance = new.balance /\ v.earned = new.earned /\ v.spent = new.spent
         /\ v.version = w.version + 1
<1> DEFINE v == [balance |-> new.balance, earned |-> new.earned, spent |-> new.spent,
                 version |-> w.version + 1]
<1>1. Bumped(w, new) = v
  BY DEF Bumped, Wallets
<1> QED
  BY <1>1 DEF Wallets

LEMMA UpdateOptimisticInv ==
  ASSUME IInv, NEW p \in Proc, UpdateOptimistic(p)
  PROVE  IInv'
<1> DEFINE c == req[p].char
           w == snap[p]
           amount == AmountOf(req[p])
           new == transferEddies(w, amount)
           v == Bumped(w, new)
           e == Entry(req[p].op, w.balance, new.balance, p)
           s == log[c] \o buf[p]
<1>0. pc[p] = "update"
  BY DEF UpdateOptimistic
<1>1. CASE \E why \in {"INSUFFICIENT_FUNDS", "ZERO_AMOUNT"} : Reject(p, why)
  BY <1>0, <1>1, RejectInv DEF Answers
<1>2. CASE Conflict(p)
  BY <1>0, <1>2, ConflictInv
<1>3. CASE /\ w.balance + amount >= 0 /\ amount # 0
           /\ VersionMatches(p)
           /\ Put(p, c, v)
           /\ buf' = [buf EXCEPT ![p] = Append(@, e)]
           /\ pc' = [pc EXCEPT ![p] = IF req[p].op = "buy" THEN "stock" ELSE "commit"]
           /\ UNCHANGED <<log, owned, req, snap, stk, tries, answer>>
  <2> USE <1>0, <1>3
  <2>1. /\ req[p] \in Requests /\ c \in Char
        /\ req[p].op \in {"transfer", "buy"}
        /\ req[p].op = "buy" => req[p].item \in Item /\ req[p].units \in Nat
        /\ req[p].op = "transfer" => req[p].amount \in Int
    BY Asking DEF IInv, RequestInv, SnapFaithful
  <2>2. amount \in Int
    BY <2>1 DEF AmountOf
  <2>3. /\ w \in Wallets
        /\ w.balance = w.earned - w.spent
        /\ owner[c] = p => w = pend[c] /\ db[c] = NoRow
        /\ owner[c] # p => db[c] = w
    <3>1. /\ w # NoRow /\ w.balance = w.earned - w.spent
          /\ owner[c] = p => w = pend[c] /\ db[c] = NoRow
          /\ owner[c] # p => (w.version = db[c].version => w = db[c])
      BY DEF IInv, RequestInv, SnapFaithful
    <3>2. w \in Wallets
      BY <3>1 DEF IInv, TypeOK
    <3> QED
      BY <3>1, <3>2 DEF VersionMatches, Sees
  <2>4. /\ new \in Wallets /\ v \in Wallets /\ v # NoRow
        /\ v.balance = w.balance + amount
        /\ v.balance = new.balance
        /\ v.version = w.version + 1
        /\ v.balance = v.earned - v.spent
    <3>1. /\ new \in Wallets
          /\ new.balance = w.balance + amount
          /\ new.balance = new.earned - new.spent
      BY <2>2, <2>3, TransferFacts
    <3>2. /\ v \in Wallets
          /\ v.balance = new.balance /\ v.earned = new.earned /\ v.spent = new.spent
          /\ v.version = w.version + 1
      BY <2>3, <3>1, BumpedFacts
    <3> QED
      BY <3>1, <3>2
  <2>5. e \in Entries /\ e.before = w.balance /\ e.after = v.balance /\ e.kind # "ADMIN_ADJUSTMENT"
    BY <2>1, <2>3, <2>4 DEF Entry, Entries, Wallets
  <2>6. s \in Seq(Entries) /\ Continuous(s) /\ SeedFirst(s) /\ Accounts(s, w)
    <3>1. log[c] \in Seq(Entries) /\ buf[p] \in Seq(Entries)
      BY <2>1 DEF IInv, TypeOK
    <3>2. CASE owner[c] = p
      BY <2>3, <3>1, <3>2, TrailConcat DEF IInv, RequestInv, TrailExtends
    <3>3. CASE owner[c] # p
      <4>1. buf[p] = << >> /\ w = db[c]
        BY <2>3, <3>3 DEF IInv, RequestInv, TrailExtends
      <4>2. s = log[c]
        BY <3>1, <4>1, TrailEmpty
      <4>3. db[c] # NoRow
        BY <2>3, <3>3 DEF IInv, RequestInv, SnapFaithful
      <4> QED
        BY <2>1, <3>1, <4>1, <4>2, <4>3 DEF IInv, AuditTrail, SeededOnce
    <3> QED
      BY <3>2, <3>3
  <2>7. /\ Append(s, e) \in Seq(Entries)
        /\ Continuous(Append(s, e)) /\ SeedFirst(Append(s, e)) /\ Accounts(Append(s, e), v)
    <3>1. s # << >> /\ e.before = s[Len(s)].after
      BY <2>5, <2>6 DEF Accounts
    <3>2. Continuous(Append(s, e)) /\ SeedFirst(Append(s, e))
      BY <2>5, <2>6, <3>1, ContinuousAppend, SeedFirstAppend
    <3>3. Accounts(Append(s, e), v)
      BY <2>4, <2>5, <2>6, LastAppend DEF Accounts
    <3> QED
      BY <2>5, <2>6, <3>2, <3>3
  <2>8. /\ owner'[c] = p /\ pend'[c] = v /\ db' = db
        /\ \A x \in Char \cup Item : x # c => owner'[x] = owner[x] /\ pend'[x] = pend[x]
        /\ DOMAIN pend' = Char \cup Item
        /\ owner' \in [Char \cup Item -> Proc \cup {NoProc}]
    BY <2>1 DEF Put, IInv, TypeOK
  <2>9. TypeOK'
    <3>1. /\ \A x \in Char : db'[x] \in Wallets \cup {NoRow} /\ pend'[x] \in Wallets \cup {NoRow}
          /\ \A x \in Item : db'[x] \in Nat \cup {-1} /\ pend'[x] \in Nat \cup {-1}
          /\ DOMAIN db' = Char \cup Item
      BY <2>1, <2>4, <2>8 DEF IInv, TypeOK
    <3>2. buf' \in [Proc -> Seq(Entries)]
      BY <2>5 DEF IInv, TypeOK
    <3> QED
      BY <2>8, <3>1, <3>2 DEF IInv, TypeOK
  <2>10. (PendingIsOwned /\ StockKind)'
    BY <2>1, <2>8, PutRows DEF IInv, StockKind
  <2>11. \A q \in Proc \ {p} : Unmoved(q)
    BY DEF IInv, TypeOK, Unmoved
  <2>12. RequestInv(p)'
    <3>1. pc'[p] = (IF req[p].op = "buy" THEN "stock" ELSE "commit") /\ req' = req
      BY DEF IInv, TypeOK
    <3>2. TrailExtends(p)'
      <4>1. log'[c] \o buf'[p] = Append(s, e)
        <5>1. buf'[p] = Append(buf[p], e) /\ log[c] \in Seq(Entries) /\ buf[p] \in Seq(Entries)
          BY <2>1 DEF IInv, TypeOK
        <5>2. log' = log
          OBVIOUS
        <5>3. log[c] \o Append(buf[p], e) = Append(log[c] \o buf[p], e)
          <6>1. e \in Entries
            BY <2>5
          <6>2. \A x, y \in Seq(Entries), z \in Entries : x \o Append(y, z) = Append(x \o y, z)
            BY TrailAppend
          <6> HIDE DEF e, c
          <6> QED
            BY ONLY <5>1, <6>1, <6>2
        <5> QED
          BY <5>1, <5>2, <5>3
      <4>2. db[c] # NoRow => v.version > db[c].version
        <5>1. SUFFICES ASSUME db[c] # NoRow PROVE v.version > db[c].version
          OBVIOUS
        <5>2. db[c] = w /\ w.version \in Nat
          BY <2>3, <5>1 DEF Wallets
        <5> QED
          BY <2>4, <5>2
      <4> QED
        BY <2>4, <2>7, <2>8, <3>1, <4>1, <4>2 DEF TrailExtends
    <3>3. SnapFaithful(p)'
      BY <3>1 DEF SnapFaithful
    <3>4. LocksNamed(p)' /\ AnswerMatches(p)'
      BY <2>1, <2>8, <3>1 DEF IInv, RequestInv, LocksNamed, AnswerMatches
    <3>5. WalletMoved(p)'
      <4>1. HeldNow(c) = w.balance
        BY <2>3, <2>4 DEF HeldNow, IInv, RequestInv, SnapFaithful, SeedWallet
      <4> QED
        BY <2>1, <2>4, <2>8, <3>1, <4>1 DEF WalletMoved, HeldNow, AmountOf
    <3>6. StockMoved(p)'
      BY <2>1, <2>8, <3>1 DEF IInv, RequestInv, StockMoved
    <3> QED
      BY <3>1, <3>2, <3>3, <3>4, <3>5, <3>6 DEF RequestInv
  <2> QED
    BY <2>1, <2>9, <2>10, <2>11, <2>12, PutRows, StepKeeps
<1> QED
  BY <1>1, <1>2, <1>3 DEF UpdateOptimistic, Goto

LEMMA DecrementStockInv ==
  ASSUME IInv, NEW p \in Proc, DecrementStock(p)
  PROVE  IInv'
<1> DEFINE i == req[p].item
           left == Sees(p, i)
           v == StockAfter(p, left, req[p].units)
<1>0. pc[p] = "stock"
  BY DEF DecrementStock
<1>a. /\ req[p] \in Requests /\ req[p].char \in Char /\ req[p].op = "buy"
      /\ i \in Item /\ req[p].units \in Nat /\ i # req[p].char
  BY <1>0, Asking DEF IInv, RequestInv, StockMoved
<1>b. owner[i] # p
  BY <1>0, <1>a DEF IInv, RequestInv, LocksNamed
<1>1. CASE Reject(p, "OUT_OF_STOCK")
  BY <1>0, <1>1, RejectInv DEF Answers
<1>2. CASE /\ stk[p] < 0
           /\ pc' = [pc EXCEPT ![p] = "commit"]
           /\ UNCHANGED <<rcVars, log, owned, req, snap, stk, buf, tries, answer>>
  <2> USE <1>0, <1>a, <1>b, <1>2 DEF rcVars
  <2>1. TypeOK'
    BY DEF IInv, TypeOK
  <2>2. \A q \in Proc \ {p} : Unmoved(q)
    BY DEF IInv, TypeOK, Unmoved
  <2>3. RequestInv(p)'
    <3>1. pc'[p] = "commit"
      BY DEF IInv, TypeOK
    <3>2. LocksNamed(p)' /\ AnswerMatches(p)' /\ SnapFaithful(p)'
      BY <3>1 DEF IInv, RequestInv, LocksNamed, AnswerMatches, SnapFaithful
    <3>3. TrailExtends(p)' /\ WalletMoved(p)'
      BY <3>1 DEF IInv, RequestInv, TrailExtends, WalletMoved, HeldNow, AmountOf
    <3>4. stk[p] \in Int
      BY DEF IInv, TypeOK
    <3>5. StockMoved(p)'
      BY <3>1, <3>4 DEF IInv, RequestInv, StockMoved
    <3> QED
      BY <3>1, <3>2, <3>3, <3>5 DEF RequestInv
  <2> QED
    BY <2>1, <2>2, <2>3, LocalStep
<1>3. CASE /\ stk[p] >= 0
           /\ CanLock(p, i)
           /\ StockCovers(left, req[p].units)
           /\ Put(p, i, v)
           /\ pc' = [pc EXCEPT ![p] = "commit"]
           /\ UNCHANGED <<log, owned, req, snap, stk, buf, tries, answer>>
  <2> USE <1>0, <1>a, <1>b, <1>3
  <2>1. /\ owner'[i] = p /\ pend'[i] = v /\ db' = db
        /\ \A x \in Char \cup Item : x # i => owner'[x] = owner[x] /\ pend'[x] = pend[x]
        /\ DOMAIN pend' = Char \cup Item
        /\ owner' \in [Char \cup Item -> Proc \cup {NoProc}]
    BY DEF Put, IInv, TypeOK
  <2>2. v = db[i] - req[p].units /\ v \in Nat
    <3>1. left = db[i] /\ db[i] \in Int
      BY DEF Sees, IInv, TypeOK
    <3> QED
      BY <3>1 DEF StockAfter, StockCovers
  <2>3. TypeOK'
    <3>1. /\ \A x \in Char : db'[x] \in Wallets \cup {NoRow} /\ pend'[x] \in Wallets \cup {NoRow}
          /\ \A x \in Item : db'[x] \in Nat \cup {-1} /\ pend'[x] \in Nat \cup {-1}
          /\ DOMAIN db' = Char \cup Item
      BY <2>1, <2>2 DEF IInv, TypeOK
    <3> QED
      BY <2>1, <3>1 DEF IInv, TypeOK
  <2>4. (PendingIsOwned /\ StockKind)'
    <3>1. InitStock[i] >= 0
      BY DEF IInv, RequestInv, StockMoved
    <3> QED
      BY <2>1, <2>2, <3>1, PutRows DEF IInv, StockKind
  <2>5. \A q \in Proc \ {p} : Unmoved(q)
    BY DEF IInv, TypeOK, Unmoved
  <2>6. RequestInv(p)'
    <3>1. pc'[p] = "commit" /\ req' = req
      BY DEF IInv, TypeOK
    <3>2. LocksNamed(p)' /\ AnswerMatches(p)' /\ SnapFaithful(p)'
      BY <2>1, <3>1 DEF IInv, RequestInv, LocksNamed, AnswerMatches, SnapFaithful
    <3>3. TrailExtends(p)' /\ WalletMoved(p)'
      BY <2>1, <3>1 DEF IInv, RequestInv, TrailExtends, WalletMoved, HeldNow, AmountOf
    <3>4. StockMoved(p)'
      BY <2>1, <2>2, <3>1 DEF IInv, RequestInv, StockMoved
    <3> QED
      BY <3>1, <3>2, <3>3, <3>4 DEF RequestInv
  <2> QED
    BY <2>3, <2>4, <2>5, <2>6, PutRows, StepKeeps
<1> QED
  BY <1>1, <1>2, <1>3 DEF DecrementStock, Goto

-----------------------------------------------------------------------------
\* Committing.

LEMMA CommitInv ==
  ASSUME IInv, NEW p \in Proc, CommitRequest(p)
  PROVE  IInv'
<1> DEFINE c == req[p].char
           units == IF req[p].op = "buy" /\ req[p].item \in Catalog THEN req[p].units ELSE 0
<1>0. pc[p] = "commit" /\ Finish(p, units)
  BY DEF CommitRequest
<1> USE <1>0 DEF Finish, Commit, Released, Goto
<1>a. /\ req[p] \in Requests /\ c \in Char
      /\ req[p].op = "buy" => req[p].item \in Item /\ req[p].units \in Nat
  BY Asking DEF IInv, RequestInv
<1>b. \A x \in Char : x # c => owner[x] # p
  BY <1>a DEF IInv, RequestInv, LocksNamed
<1>1. TypeOK'
  <2>1. /\ \A x \in Char : db'[x] \in Wallets \cup {NoRow} /\ pend'[x] \in Wallets \cup {NoRow}
        /\ \A x \in Item : db'[x] \in Nat \cup {-1} /\ pend'[x] \in Nat \cup {-1}
        /\ DOMAIN db' = Char \cup Item /\ DOMAIN pend' = Char \cup Item
        /\ owner' \in [Char \cup Item -> Proc \cup {NoProc}]
    BY DEF IInv, TypeOK, Sees
  <2>2. log' \in [Char -> Seq(Entries)] /\ buf' \in [Proc -> Seq(Entries)]
    BY <1>a DEF IInv, TypeOK
  <2>3. owned' \in [Char -> [Item -> Nat]]
    BY <1>a DEF IInv, TypeOK
  <2> QED
    BY <2>1, <2>2, <2>3 DEF IInv, TypeOK, Answers
<1>2. (PendingIsOwned /\ StockKind)'
  BY DEF IInv, PendingIsOwned, StockKind, TypeOK, Sees
<1>3. (AuditTrail /\ SeededOnce)'
  <2> SUFFICES ASSUME NEW x \in Char
               PROVE  /\ Continuous(log'[x]) /\ SeedFirst(log'[x])
                      /\ db'[x] = NoRow => log'[x] = << >>
                      /\ db'[x] # NoRow => Accounts(log'[x], db'[x])
    BY DEF AuditTrail, SeededOnce
  <2>1. CASE owner[x] = p
    <3>1. x = c /\ db'[x] = pend[x] /\ log'[x] = log[x] \o buf[p]
      BY <1>a, <1>b, <2>1 DEF IInv, TypeOK, Sees
    <3> QED
      BY <2>1, <3>1 DEF IInv, RequestInv, TrailExtends
  <2>2. CASE owner[x] # p
    <3>1. db'[x] = db[x] /\ log[x] \in Seq(Entries)
      BY <2>2 DEF IInv, TypeOK, Sees
    <3>2. x = c => buf[p] = << >>
      BY <2>2 DEF IInv, RequestInv, TrailExtends
    <3>3. log'[x] = log[x]
      BY <1>a, <3>1, <3>2, TrailEmpty DEF IInv, TypeOK
    <3> QED
      BY <3>1, <3>3 DEF IInv, AuditTrail, SeededOnce
  <2> QED
    BY <2>1, <2>2
<1>4. \A q \in Proc \ {p} : Unmoved(q) /\ RowsOf(q)
  <2> TAKE q \in Proc \ {p}
  <2>1. Unmoved(q)
    BY DEF IInv, TypeOK, Unmoved
  <2>2. \A r \in Char \cup Item :
          /\ owner'[r] = q <=> owner[r] = q
          /\ owner[r] = q => db'[r] = db[r] /\ pend'[r] = pend[r]
    BY DEF IInv, TypeOK, Sees
  <2>3. \A x \in Char : owner[x] = q => log'[x] = log[x]
    <3> SUFFICES ASSUME NEW x \in Char, owner[x] = q PROVE log'[x] = log[x]
      OBVIOUS
    <3>1. x = c => buf[p] = << >>
      BY DEF IInv, RequestInv, TrailExtends
    <3>2. log[x] \in Seq(Entries)
      BY DEF IInv, TypeOK
    <3> QED
      BY <1>a, <3>1, <3>2, TrailEmpty DEF IInv, TypeOK
  <2>4. \A x \in Char : \/ db'[x] = db[x]
                       \/ /\ db'[x] # NoRow
                          /\ db[x] # NoRow => db'[x].version > db[x].version
    <3> SUFFICES ASSUME NEW x \in Char
                 PROVE  \/ db'[x] = db[x]
                        \/ /\ db'[x] # NoRow
                           /\ db[x] # NoRow => db'[x].version > db[x].version
      OBVIOUS
    <3>1. CASE owner[x] = p
      <4>1. x = c /\ db'[x] = pend[x]
        BY <1>a, <1>b, <3>1 DEF IInv, TypeOK, Sees
      <4> QED
        BY <3>1, <4>1 DEF IInv, RequestInv, TrailExtends
    <3>2. CASE owner[x] # p
      BY <3>2 DEF IInv, TypeOK, Sees
    <3> QED
      BY <3>1, <3>2
  <2> QED
    BY <2>1, <2>2, <2>3, <2>4 DEF RowsOf
<1>5. RequestInv(p)'
  <2>1. /\ pc'[p] = "done" /\ answer'[p] = "ok" /\ buf'[p] = << >> /\ req' = req
        /\ req[p] # NoRequest
    BY DEF IInv, TypeOK, RequestInv, AnswerMatches
  <2>2. \A r \in Char \cup Item : owner'[r] # p
    BY DEF IInv, TypeOK
  <2> QED
    BY <1>a, <2>1, <2>2 DEF RequestInv, LocksNamed, AnswerMatches, TrailExtends,
       SnapFaithful, WalletMoved, StockMoved
<1> QED
  BY <1>1, <1>2, <1>3, <1>4, <1>5, StepKeeps

-----------------------------------------------------------------------------
(***************************************************************************)
(* The theorems.                                                           *)
(***************************************************************************)

LEMMA NextInv == IInv /\ [Next]_vars => IInv'
<1> SUFFICES ASSUME IInv, [Next]_vars PROVE IInv'
  OBVIOUS
<1>1. ASSUME NEW p \in Proc, Start(p) PROVE IInv'
  BY <1>1, StartInv
<1>2. ASSUME NEW p \in Proc, Step(p) PROVE IInv'
  BY <1>2, FindStockItemInv, ReadsInv, EnsureInsertInv, UpdateOptimisticInv,
     DecrementStockInv, CommitInv DEF Step
<1>3. ASSUME NEW p \in Proc, Lost(p) PROVE IInv'
  BY <1>3, RejectInv DEF Lost, Answers
<1>4. CASE UNCHANGED vars
  <2> USE <1>4 DEF vars, local, rcVars
  <2>1. TypeOK'
    BY DEF IInv, TypeOK
  <2>2. (PendingIsOwned /\ StockKind /\ AuditTrail /\ SeededOnce)'
    BY DEF IInv, PendingIsOwned, StockKind, AuditTrail, SeededOnce
  <2>3. \A q \in Proc : Unmoved(q) /\ RowsOf(q)
    BY DEF Unmoved, RowsOf
  <2>4. \A q \in Proc : RequestInv(q)'
    BY <2>1, <2>3, OthersKeep DEF IInv
  <2> QED
    BY <2>1, <2>2, <2>4 DEF IInv
<1> QED
  BY <1>1, <1>2, <1>3, <1>4 DEF Next, AllAnswered

\* The inductive invariant holds in every reachable state.
THEOREM Inductive == Spec => []IInv
<1> QED
  BY InitInv, NextInv, PTL DEF Spec

\* Every value keeps its type, for any number of concurrent requests.
THEOREM TypeCorrect == Spec => []TypeOK
<1>1. IInv => TypeOK
  BY DEF IInv
<1> QED
  BY <1>1, Inductive, PTL

\* Wallets never lose an update and never drift from transaction_log: for any
\* number of concurrent first reads, transfers and purchases, retried and cut
\* off anywhere, the entries of a character chain from zero to its balance.
THEOREM AuditTrailHolds == Spec => []AuditTrail
<1>1. IInv => AuditTrail
  BY DEF IInv
<1> QED
  BY <1>1, Inductive, PTL

\* However many requests find no wallet, the seed capital is logged once.
THEOREM SeededOnceHolds == Spec => []SeededOnce
<1>1. IInv => SeededOnce
  BY DEF IInv
<1> QED
  BY <1>1, Inductive, PTL

-----------------------------------------------------------------------------
(***************************************************************************)
(* The refinement: a committing request settles in the ledger, every other *)
(* step is invisible there.                                                *)
(***************************************************************************)

\* What the ledger sees is untouched.
Invisible ==
  /\ UNCHANGED <<db, owned>>
  /\ \A q \in Proc : /\ answer'[q] = "ok" <=> answer[q] = "ok"
                     /\ answer[q] = "ok" => req'[q] = req[q]

LEMMA InvisibleStutters ==
  ASSUME Invisible
  PROVE  UNCHANGED Abstract!ledgerVars
  BY DEF Invisible, Abstract!ledgerVars

LEMMA RejectInvisible ==
  ASSUME IInv, NEW p \in Proc, pc[p] # "done", NEW why \in Answers \ {"ok"}, Reject(p, why)
  PROVE  Invisible
  BY DEF IInv, TypeOK, RequestInv, AnswerMatches, Reject, Rollback, Invisible

LEMMA OtherStepsInvisible ==
  ASSUME IInv, NEW p \in Proc, Start(p) \/ Step(p) \/ Lost(p), ~CommitRequest(p)
  PROVE  Invisible
<1> USE DEF Answers
<1>1. CASE Start(p)
  <2>1. pc[p] = "idle" /\ answer[p] = "none"
    BY <1>1 DEF Start, IInv, RequestInv, AnswerMatches
  <2> QED
    BY <1>1, <2>1 DEF Start, Invisible, rcVars, IInv, TypeOK
<1>2. CASE FindStockItem(p)
  BY <1>2, RejectInvisible DEF FindStockItem, Invisible, rcVars
<1>3. CASE GetById(p) \/ EnsureSelect(p) \/ EnsureReread(p)
  BY <1>3, RejectInvisible DEF GetById, EnsureSelect, EnsureReread, HoldWallet, Invisible, rcVars
<1>4. CASE EnsureInsert(p)
  BY <1>4 DEF EnsureInsert, HoldWallet, Put, Invisible, rcVars
<1>5. CASE UpdateOptimistic(p)
  <2>1. CASE Conflict(p)
    <3>1. CASE Reject(p, "CONCURRENCY_CONFLICT")
      BY <1>5, <3>1, RejectInvisible DEF UpdateOptimistic
    <3>2. CASE ~Reject(p, "CONCURRENCY_CONFLICT")
      BY <2>1, <3>2 DEF Conflict, Rollback, Invisible
    <3> QED
      BY <3>1, <3>2
  <2>2. CASE ~Conflict(p)
    BY <1>5, <2>2, RejectInvisible DEF UpdateOptimistic, Put, Invisible
  <2> QED
    BY <2>1, <2>2
<1>6. CASE DecrementStock(p)
  BY <1>6, RejectInvisible DEF DecrementStock, Put, Invisible, rcVars
<1>7. CASE Lost(p)
  BY <1>7, RejectInvisible DEF Lost
<1> QED
  BY <1>1, <1>2, <1>3, <1>4, <1>5, <1>6, <1>7 DEF Step

LEMMA CommitSettles ==
  ASSUME IInv, NEW p \in Proc, CommitRequest(p)
  PROVE  Abstract!LedgerNext
<1>p. PICK ask \in Requests : ask = req[p]
  BY DEF CommitRequest, IInv, TypeOK, RequestInv, AnswerMatches
<1> USE <1>p
<1> DEFINE c == ask.char
           units == IF ask.op = "buy" /\ ask.item \in Catalog THEN ask.units ELSE 0
           account == [x \in Char |-> IF db[x] = NoRow THEN NoRow ELSE db[x].balance]
           accountNext == [x \in Char |-> IF db'[x] = NoRow THEN NoRow ELSE db'[x].balance]
           shelf == [i \in Item |-> db[i]]
           shelfNext == [i \in Item |-> db'[i]]
           receipt == [q \in Proc |-> IF answer[q] = "ok" THEN req[q] ELSE NoRequest]
           receiptNext == [q \in Proc |-> IF answer'[q] = "ok" THEN req'[q] ELSE NoRequest]
           held == IF account[c] = NoRow THEN Seed ELSE account[c]
<1>0. pc[p] = "commit" /\ Finish(p, units)
  BY DEF CommitRequest
<1>1. /\ ask \in Requests /\ c \in Char /\ ask.op \in {"transfer", "buy", "getWallet"}
      /\ ask.op = "buy" => ask.item \in Item /\ ask.units \in Quantity /\ ask.units \in Nat
      /\ ask.op = "transfer" => ask.amount \in Amounts /\ ask.amount \in Int
  BY <1>0, Asking DEF IInv, RequestInv
<1>2. answer[p] = "none" /\ \A q \in Proc : q # p => answer'[q] = answer[q]
  BY <1>0 DEF IInv, TypeOK, RequestInv, AnswerMatches, Finish
<1>3. receiptNext = [receipt EXCEPT ![p] = ask] /\ receipt[p] = NoRequest
  BY <1>0, <1>2 DEF Finish, IInv, TypeOK
<1>4. \A x \in Char \cup Item : db'[x] = IF owner[x] = p THEN pend[x] ELSE db[x]
  BY <1>0 DEF Finish, Commit, Sees, IInv, TypeOK
<1>5. \A x \in Char : x # c => owner[x] # p
  BY <1>0, <1>1 DEF IInv, RequestInv, LocksNamed
<1>6. held = HeldNow(c)
  <2>1. db[c] # NoRow => db[c].balance \in Int /\ db[c].balance # NoRow
    BY <1>1 DEF IInv, TypeOK, Wallets
  <2> QED
    BY <1>1, <2>1 DEF HeldNow
<1>a. ASSUME \/ ask.op = "getWallet" /\ Abstract!Open(c)
             \/ ask.op = "transfer" /\ Abstract!Move(c, ask.amount)
             \/ ask.op = "buy" /\ Abstract!Sell(c, ask.item, ask.units)
      PROVE  Abstract!LedgerNext
  <2>1. Abstract!Settle(p, ask)
    BY <1>a, <1>3 DEF Abstract!Settle
  <2> QED
    BY <2>1 DEF Abstract!LedgerNext
<1>b. ask.op # "buy" => \A x \in Item : db'[x] = db[x]
  BY <1>0, <1>1, <1>4, EconomyAssumption DEF IInv, RequestInv, LocksNamed
<1>7. CASE ask.op # "getWallet"
  <2>1. /\ owner[c] = p /\ pend[c] # NoRow
        /\ pend[c].balance = held + AmountOf(ask) /\ pend[c].balance >= 0
        /\ AmountOf(ask) # 0
    <3>1. RequestInv(p)
      BY DEF IInv
    <3>2. /\ owner[c] = p /\ pend[c].balance = HeldNow(c) + AmountOf(ask)
          /\ AmountOf(ask) # 0
      BY <1>0, <1>7, <3>1 DEF RequestInv, WalletMoved
    <3>3. pend[c] # NoRow /\ pend[c].balance >= 0
      BY <1>0, <3>1, <3>2 DEF RequestInv, TrailExtends, Accounts
    <3> QED
      BY <1>6, <3>2, <3>3
  <2>2. accountNext = [account EXCEPT ![c] = held + AmountOf(ask)]
    BY <1>1, <1>4, <1>5, <2>1
  <2>3. held \in Int
    BY <1>1, <1>6 DEF HeldNow, IInv, TypeOK, Wallets
  <2>4. CASE ask.op = "transfer"
    <3>1. AmountOf(ask) = ask.amount
      BY <2>4 DEF AmountOf
    <3>2. shelfNext = shelf
      BY <1>b, <2>4
    <3>3. owned' = owned
      BY <1>0, <2>4 DEF Finish
    <3>4. Abstract!Move(c, ask.amount)
      BY <2>1, <2>2, <3>1, <3>2, <3>3 DEF Abstract!Move, Abstract!Held
    <3> QED
      BY <1>a, <2>4, <3>4
  <2>5. CASE ask.op = "buy"
    <3> DEFINE cost == Price[ask.item] * ask.units
    <3>1. AmountOf(ask) = -cost /\ cost \in Int
      BY <1>1, <2>5 DEF AmountOf
    <3>2. held + AmountOf(ask) = held - cost /\ held >= cost
      BY <2>1, <2>3, <3>1
    <3>3. /\ shelf[ask.item] >= 0 => shelf[ask.item] >= ask.units
          /\ shelfNext = [shelf EXCEPT ![ask.item] = IF @ >= 0 THEN @ - ask.units ELSE @]
      <4> DEFINE i == ask.item
      <4>1. i \in Item /\ i # c /\ ask.units \in Nat
        BY <1>1, <2>5
      <4>2. \A x \in Item : x # i => owner[x] # p
        BY <1>0, <1>1 DEF IInv, RequestInv, LocksNamed
      <4>3. db[i] >= 0 <=> stk[p] >= 0
        BY <1>0, <2>5, <4>1 DEF IInv, RequestInv, StockMoved, StockKind
      <4>4. CASE stk[p] >= 0
        <5>1. owner[i] = p /\ pend[i] = db[i] - ask.units
          BY <1>0, <2>5, <4>4 DEF IInv, RequestInv, StockMoved
        <5>2. pend[i] >= 0 /\ db[i] \in Int
          BY <4>1, <4>3, <4>4 DEF IInv, TypeOK, StockKind
        <5> QED
          BY <1>4, <4>1, <4>2, <4>3, <4>4, <5>1, <5>2
      <4>5. CASE ~(stk[p] >= 0)
        <5>1. owner[i] # p
          BY <1>0, <2>5, <4>5 DEF IInv, RequestInv, StockMoved
        <5> QED
          BY <1>4, <4>1, <4>2, <4>3, <4>5, <5>1
      <4> QED
        BY <4>4, <4>5
    <3>4. owned' = IF ask.item \in Catalog
                   THEN [owned EXCEPT ![c][ask.item] = @ + ask.units] ELSE owned
      BY <1>0, <1>1, <2>5 DEF Finish
    <3>5. /\ held >= Price[ask.item] * ask.units
          /\ accountNext = [account EXCEPT ![c] = held - Price[ask.item] * ask.units]
      <4> HIDE DEF account, accountNext, held
      <4> QED
        BY <2>2, <3>2
    <3>6. Abstract!Sell(c, ask.item, ask.units)
      BY <3>3, <3>4, <3>5 DEF Abstract!Sell, Abstract!Held
    <3> QED
      BY <1>a, <2>5, <3>6
  <2> QED
    BY <1>1, <1>7, <2>4, <2>5
<1>8. CASE ask.op = "getWallet"
  <2>1. accountNext = [account EXCEPT ![c] = held]
    <3>1. CASE owner[c] = p
      <4>1. pend[c] # NoRow /\ pend[c].balance = held
        BY <1>0, <1>6, <1>8, <3>1 DEF IInv, RequestInv, WalletMoved, TrailExtends
      <4> QED
        BY <1>1, <1>4, <1>5, <3>1, <4>1
    <3>2. CASE owner[c] # p
      <4>1. db[c] # NoRow
        BY <1>0, <1>8, <3>2 DEF IInv, RequestInv, WalletMoved
      <4>2. held = account[c]
        BY <1>1, <1>6, <4>1 DEF HeldNow
      <4>3. \A x \in Char : db'[x] = db[x]
        BY <1>4, <1>5, <3>2
      <4> QED
        BY <1>1, <4>2, <4>3
    <3> QED
      BY <3>1, <3>2
  <2>2. shelfNext = shelf
    BY <1>b, <1>8
  <2>3. owned' = owned
    BY <1>0, <1>8 DEF Finish
  <2>4. Abstract!Open(c)
    BY <2>1, <2>2, <2>3 DEF Abstract!Open, Abstract!Held
  <2> QED
    BY <1>a, <1>8, <2>4
<1> QED
  BY <1>7, <1>8

\* The statement-by-statement economy implements the ledger: every request
\* takes effect at most once, atomically, on the state it really met.
THEOREM Refinement == Spec => ImplementsLedger
<1>1. Init => Abstract!LedgerInit
  BY DEF Init, RcInit, Abstract!LedgerInit
<1>2. IInv /\ [Next]_vars => [Abstract!LedgerNext]_(Abstract!ledgerVars)
  <2> SUFFICES ASSUME IInv, [Next]_vars
               PROVE  Abstract!LedgerNext \/ UNCHANGED Abstract!ledgerVars
    OBVIOUS
  <2>1. CASE UNCHANGED vars
    BY <2>1 DEF vars, local, rcVars, Abstract!ledgerVars
  <2>2. ASSUME NEW p \in Proc, Start(p) \/ Step(p) \/ Lost(p)
        PROVE  Abstract!LedgerNext \/ UNCHANGED Abstract!ledgerVars
    BY <2>2, CommitSettles, OtherStepsInvisible, InvisibleStutters
  <2> QED
    BY <2>1, <2>2 DEF Next, AllAnswered
<1> QED
  BY <1>1, <1>2, Inductive, PTL DEF Spec, ImplementsLedger, Abstract!LedgerSpec
-----------------------------------------------------------------------------
(***************************************************************************)
(* What was asked is what moved: every entry in the audit trail was        *)
(* inserted by the request it names, which inserts one of them, and the    *)
(* units of an item that were sold are those of the answered purchases.    *)
(***************************************************************************)

IsMove(e) == e.kind # "ADMIN_ADJUSTMENT"
HasMoved(p) == pc[p] \in {"stock", "commit"} /\ req[p].op # "getWallet"

\* The entries p has inserted are its own, and the last of them is the
\* movement it was asked for, once it has made it.
Inserted(p) ==
  /\ \A k \in 1 .. Len(buf[p]) : buf[p][k].by = p
  /\ HasMoved(p) => buf[p] # << >>
  /\ \A k \in 1 .. Len(buf[p]) : IsMove(buf[p][k]) <=> HasMoved(p) /\ k = Len(buf[p])

\* What the trail of c says of request p.
Settled(p, c) == answer[p] = "ok" /\ req[p].op # "getWallet" /\ req[p].char = c
Logged(p, c) == IF Settled(p, c) THEN \E k \in 1 .. Len(log[c]) : Moves(p, c) = {k} ELSE Moves(p, c) = {}

Shelved(i) ==
  /\ IsFiniteSet(UnitsSold(i)) /\ IsFiniteSet(UnitsOwned(i))
  /\ InitStock[i] >= 0 => InitStock[i] - db[i] = Cardinality(UnitsSold(i))
  /\ i \in Catalog => Cardinality(UnitsSold(i)) = Cardinality(UnitsOwned(i))

EffectsInv ==
  /\ \A p \in Proc : Inserted(p) /\ \A c \in Char : Logged(p, c)
  /\ \A i \in Item : Shelved(i)

LEMMA InsertedStays ==
  ASSUME NEW q \in Proc, Inserted(q), Unmoved(q)
  PROVE  Inserted(q)'
BY DEF Inserted, HasMoved, Unmoved

\* Nothing is inserted and nothing has moved.
LEMMA InsertedNothing ==
  ASSUME NEW p \in Proc, buf'[p] = << >>, ~HasMoved(p)'
  PROVE  Inserted(p)'
BY DEF Inserted

LEMMA RejectInserted ==
  ASSUME IInv, NEW p \in Proc, NEW why, Reject(p, why)
  PROVE  Inserted(p)'
<1>1. buf'[p] = << >> /\ pc'[p] = "done"
  BY DEF Reject, Goto, IInv, TypeOK
<1> QED
  BY <1>1, InsertedNothing DEF HasMoved

\* Statements that insert nothing, before the movement or after it.
LEMMA InsertedKeeps ==
  ASSUME NEW p \in Proc, Inserted(p), buf'[p] = buf[p], HasMoved(p)' <=> HasMoved(p)
  PROVE  Inserted(p)'
BY DEF Inserted

LEMMA InsertedAppends ==
  ASSUME IInv, NEW p \in Proc, Inserted(p), ~HasMoved(p), NEW e \in Entries, e.by = p,
         buf' = [buf EXCEPT ![p] = Append(@, e)], IsMove(e) <=> HasMoved(p)'
  PROVE  Inserted(p)'
<1>1. buf[p] \in Seq(Entries) /\ buf'[p] = Append(buf[p], e)
  BY DEF IInv, TypeOK
<1> DEFINE s == buf[p]
<1>2. /\ Len(Append(s, e)) = Len(s) + 1 /\ Append(s, e)[Len(s) + 1] = e /\ Len(s) \in Nat
      /\ \A k \in 1 .. Len(s) : Append(s, e)[k] = s[k] /\ s[k].by = p /\ ~IsMove(s[k])
  BY <1>1 DEF Inserted
<1>3. \A k \in 1 .. Len(Append(s, e)) :
        /\ Append(s, e)[k].by = p
        /\ IsMove(Append(s, e)[k]) <=> HasMoved(p)' /\ k = Len(Append(s, e))
  <2> TAKE k \in 1 .. Len(Append(s, e))
  <2>1. CASE k = Len(s) + 1
    BY <1>2, <2>1
  <2>2. CASE k # Len(s) + 1
    <3>1. k \in 1 .. Len(s)
      BY <1>2, <2>2
    <3> QED
      BY <1>2, <2>2, <3>1
  <2> QED
    BY <2>1, <2>2
<1>4. Append(s, e) # << >>
  BY <1>1
<1> HIDE DEF s
<1>5. buf'[p] = Append(s, e)
  BY <1>1 DEF s
<1> QED
  BY <1>3, <1>4, <1>5 DEF Inserted, IsMove

LEMMA HoldWalletInserted ==
  ASSUME IInv, NEW p \in Proc, NEW w, HoldWallet(p, w)
  PROVE  ~HasMoved(p)'
<1>1. req' = req /\ pc'[p] = (IF req[p].op = "getWallet" THEN "commit" ELSE "update")
  BY DEF HoldWallet, Goto, IInv, TypeOK
<1> QED
  BY <1>1 DEF HasMoved

LEMMA InsertedInv ==
  ASSUME IInv, NEW p \in Proc, Inserted(p), Start(p) \/ Step(p) \/ Lost(p)
  PROVE  Inserted(p)'
<1>t. /\ TypeOK /\ RequestInv(p) /\ pc \in [Proc -> {"idle", "item", "getById", "ensure", "insert", "reread",
                                                     "update", "stock", "commit", "done"}]
      /\ buf[p] \in Seq(Entries)
  BY DEF IInv, TypeOK
<1>1. ASSUME Start(p) PROVE Inserted(p)'
  <2>1. buf[p] = << >> /\ buf' = buf /\ pc'[p] \in {"done", "item", "getById"}
    BY <1>1, <1>t DEF Start, Goto, RequestInv, AnswerMatches
  <2> QED
    BY <2>1, InsertedNothing DEF HasMoved
<1>2. ASSUME FindStockItem(p) PROVE Inserted(p)'
  <2>1. CASE Reject(p, "OUT_OF_STOCK")
    BY <2>1, RejectInserted
  <2>2. CASE ~Reject(p, "OUT_OF_STOCK")
    <3>1. buf' = buf /\ pc[p] = "item" /\ pc'[p] = "ensure"
      BY <1>2, <1>t, <2>2 DEF FindStockItem, Goto
    <3> QED
      BY <3>1, InsertedKeeps DEF HasMoved
  <2> QED
    BY <2>1, <2>2
<1>3. ASSUME GetById(p) \/ EnsureSelect(p) PROVE Inserted(p)'
  <2>1. pc[p] \in {"getById", "ensure"} /\ buf' = buf
    BY <1>3 DEF GetById, EnsureSelect
  <2>2. pc'[p] \in {"ensure", "insert"} \/ \E w : HoldWallet(p, w)
    BY <1>3, <1>t DEF GetById, EnsureSelect, Goto
  <2>3. ~HasMoved(p)'
    BY <2>2, HoldWalletInserted DEF HasMoved
  <2> QED
    BY <2>1, <2>3, InsertedKeeps DEF HasMoved
<1>4. ASSUME EnsureReread(p) PROVE Inserted(p)'
  <2>1. CASE Reject(p, "WALLET_CREATE_FAILED")
    BY <2>1, RejectInserted
  <2>2. CASE ~Reject(p, "WALLET_CREATE_FAILED")
    <3>1. pc[p] = "reread" /\ buf' = buf /\ \E w : HoldWallet(p, w)
      BY <1>4, <2>2 DEF EnsureReread
    <3>2. ~HasMoved(p)'
      BY <3>1, HoldWalletInserted
    <3> QED
      BY <3>1, <3>2, InsertedKeeps DEF HasMoved
  <2> QED
    BY <2>1, <2>2
<1>5. ASSUME EnsureInsert(p) PROVE Inserted(p)'
  <2> DEFINE e == Entry("ADMIN_ADJUSTMENT", 0, Seed, p)
  <2>1. pc[p] = "insert" /\ ~HasMoved(p)
    BY <1>5 DEF EnsureInsert, HasMoved
  <2>2. e \in Entries /\ e.by = p /\ ~IsMove(e)
    BY DEF Entry, Entries, IsMove
  <2>3. CASE InsertWins(p, req[p].char)
    <3>1. buf' = [buf EXCEPT ![p] = Append(@, e)] /\ HoldWallet(p, SeedWallet)
      BY <1>5, <2>3 DEF EnsureInsert
    <3> QED
      BY <2>1, <2>2, <3>1, HoldWalletInserted, InsertedAppends
  <2>4. CASE ~InsertWins(p, req[p].char)
    <3>1. buf' = buf /\ pc'[p] = "reread"
      BY <1>5, <1>t, <2>4 DEF EnsureInsert, Goto
    <3> QED
      BY <2>1, <3>1, InsertedKeeps DEF HasMoved
  <2> QED
    BY <2>3, <2>4
<1>6. ASSUME UpdateOptimistic(p) PROVE Inserted(p)'
  <2>1. pc[p] = "update" /\ ~HasMoved(p)
    BY <1>6 DEF UpdateOptimistic, HasMoved
  <2>2. req[p].op \in {"transfer", "buy"} /\ AmountOf(req[p]) \in Int /\ snap[p] \in Wallets
    <3>1. req[p].op # "getWallet" /\ snap[p] # NoRow
      BY <1>t, <2>1 DEF RequestInv, SnapFaithful
    <3>2. snap[p] \in Wallets
      BY <3>1 DEF IInv, TypeOK
    <3>3. AmountOf(req[p]) \in Int
      <4>1. /\ req[p].op \in {"transfer", "buy"}
            /\ req[p].op = "buy" => req[p].item \in Item /\ req[p].units \in Nat
            /\ req[p].op = "transfer" => req[p].amount \in Int
        BY <1>t, <2>1, <3>1, Asking DEF RequestInv
      <4>2. CASE req[p].op = "buy"
        <5>1. Price[req[p].item] \in Nat
          BY <4>1, <4>2
        <5> QED
          BY <4>1, <4>2, <5>1 DEF AmountOf
      <4>3. CASE req[p].op = "transfer"
        BY <4>1, <4>3 DEF AmountOf
      <4> QED
        BY <4>1, <4>2, <4>3
    <3> QED
      BY <1>t, <2>1, <3>1, <3>2, <3>3, Asking DEF RequestInv
  <2>3. CASE \E why : Reject(p, why)
    BY <2>3, RejectInserted
  <2>4. CASE Conflict(p) /\ ~\E why : Reject(p, why)
    <3>1. buf' = [buf EXCEPT ![p] = << >>] /\ pc' = [pc EXCEPT ![p] = "getById"]
      BY <2>4 DEF Conflict, Goto
    <3>2. buf'[p] = << >> /\ pc'[p] = "getById"
      BY <1>t, <3>1 DEF TypeOK
    <3> QED
      BY <3>2, InsertedNothing DEF HasMoved
  <2>5. CASE ~Conflict(p) /\ ~\E why : Reject(p, why)
    <3> DEFINE after == transferEddies(snap[p], AmountOf(req[p])).balance
               e == Entry(req[p].op, snap[p].balance, after, p)
    <3>1. /\ buf' = [buf EXCEPT ![p] = Append(@, e)] /\ req' = req
          /\ pc' = [pc EXCEPT ![p] = IF req[p].op = "buy" THEN "stock" ELSE "commit"]
      BY <1>6, <2>5 DEF UpdateOptimistic, Goto
    <3>2. after \in Int
      BY <2>2 DEF transferEddies, Wallets
    <3> HIDE DEF after
    <3>3. e \in Entries /\ e.by = p /\ IsMove(e)
      BY <2>2, <3>2 DEF Entry, Entries, IsMove, Wallets
    <3>4. HasMoved(p)'
      BY <1>t, <2>2, <3>1 DEF HasMoved
    <3> HIDE DEF e
    <3> QED
      BY <2>1, <3>1, <3>3, <3>4, InsertedAppends
  <2> QED
    BY <2>3, <2>4, <2>5
<1>7. ASSUME DecrementStock(p) PROVE Inserted(p)'
  <2>1. pc[p] = "stock" /\ req[p].op = "buy"
    BY <1>7, <1>t DEF DecrementStock, RequestInv, StockMoved
  <2>2. CASE Reject(p, "OUT_OF_STOCK")
    BY <2>2, RejectInserted
  <2>3. CASE ~Reject(p, "OUT_OF_STOCK")
    <3>1. buf' = buf /\ pc'[p] = "commit" /\ req' = req
      BY <1>7, <1>t, <2>3 DEF DecrementStock, Goto
    <3> QED
      BY <2>1, <3>1, InsertedKeeps DEF HasMoved
  <2> QED
    BY <2>2, <2>3
<1>8. ASSUME CommitRequest(p) PROVE Inserted(p)'
  <2>1. buf'[p] = << >> /\ pc'[p] = "done"
    BY <1>8, <1>t DEF CommitRequest, Finish, Goto, TypeOK
  <2> QED
    BY <2>1, InsertedNothing DEF HasMoved
<1> QED
  BY <1>1, <1>2, <1>3, <1>4, <1>5, <1>6, <1>7, <1>8, RejectInserted DEF Step, Lost

\* No step but a commit writes the trail.
LEMMA OnlyCommitLogs ==
  ASSUME NEW p \in Proc, Start(p) \/ Step(p) \/ Lost(p), ~CommitRequest(p)
  PROVE  log' = log
BY DEF Start, Step, Lost, FindStockItem, GetById, EnsureSelect, EnsureInsert, EnsureReread, UpdateOptimistic,
       DecrementStock, Conflict, Reject, HoldWallet

LEMMA OthersUnmoved ==
  ASSUME IInv, NEW p \in Proc, Start(p) \/ Step(p) \/ Lost(p), NEW q \in Proc, q # p
  PROVE  Unmoved(q)
<1> USE DEF IInv, TypeOK, Unmoved, Goto
<1>1. CASE Start(p)
  BY <1>1 DEF Start
<1>2. CASE FindStockItem(p) \/ GetById(p) \/ EnsureSelect(p) \/ EnsureReread(p) \/ Lost(p)
  BY <1>2 DEF FindStockItem, GetById, EnsureSelect, EnsureReread, Lost, Reject, HoldWallet
<1>3. CASE EnsureInsert(p) \/ DecrementStock(p)
  BY <1>3 DEF EnsureInsert, DecrementStock, Reject, HoldWallet
<1>4. CASE UpdateOptimistic(p)
  BY <1>4 DEF UpdateOptimistic, Conflict, Reject
<1>5. CASE CommitRequest(p)
  BY <1>5 DEF CommitRequest, Finish
<1> QED
  BY <1>1, <1>2, <1>3, <1>4, <1>5 DEF Step

LEMMA InvisibleEffects ==
  ASSUME EffectsInv, Invisible, log' = log
  PROVE  /\ \A q \in Proc, c \in Char : Logged(q, c)'
         /\ \A i \in Item : Shelved(i)'
<1>1. ASSUME NEW q \in Proc, NEW c \in Char PROVE Logged(q, c)'
  <2>1. Logged(q, c) /\ (Settled(q, c)' <=> Settled(q, c)) /\ Moves(q, c)' = Moves(q, c)
    BY DEF EffectsInv, Invisible, Settled, Moves
  <2> QED
    BY <2>1 DEF Logged
<1>2. ASSUME NEW i \in Item PROVE Shelved(i)'
  <2>1. Sales(i)' = Sales(i)
    BY DEF Invisible, Sales
  <2>2. \A q \in Sales(i) : req'[q] = req[q]
    BY DEF Invisible, Sales
  <2>3. UnitsSold(i)' = UnitsSold(i)
    BY <2>1, <2>2 DEF UnitsSold
  <2>4. UnitsOwned(i)' = UnitsOwned(i) /\ db' = db
    BY DEF Invisible, UnitsOwned
  <2> QED
    BY <2>3, <2>4 DEF EffectsInv, Shelved
<1> QED
  BY <1>1, <1>2

\* One trail after another: the movements of q are those of either.
LEMMA MovesConcat ==
  ASSUME NEW s \in Seq(Entries), NEW b \in Seq(Entries), NEW q \in Proc
  PROVE  /\ Len(s \o b) = Len(s) + Len(b) /\ Len(s) \in Nat /\ Len(b) \in Nat
         /\ \A k \in 1 .. Len(s) : (s \o b)[k] = s[k]
         /\ \A k \in Len(s) + 1 .. Len(s) + Len(b) : (s \o b)[k] = b[k - Len(s)]
OBVIOUS

LEMMA CommitLogs ==
  ASSUME IInv, EffectsInv, NEW p \in Proc, CommitRequest(p), NEW q \in Proc, NEW c \in Char
  PROVE  Logged(q, c)'
<1>1. /\ pc[p] = "commit" /\ log' = [log EXCEPT ![req[p].char] = @ \o buf[p]] /\ req' = req
      /\ answer' = [answer EXCEPT ![p] = "ok"]
  BY DEF CommitRequest, Finish
<1>2. /\ answer[p] = "none" /\ req[p].char \in Char /\ log \in [Char -> Seq(Entries)] /\ buf[p] \in Seq(Entries)
      /\ log[c] \in Seq(Entries) /\ answer \in [Proc -> Answers]
  BY <1>1, Asking DEF IInv, TypeOK, RequestInv, AnswerMatches
<1>3. Logged(q, c) /\ Inserted(p)
  BY DEF EffectsInv
<1>4. Settled(q, c)' <=> Settled(q, c) \/ (q = p /\ req[p].op # "getWallet" /\ req[p].char = c)
  BY <1>1, <1>2 DEF Settled
<1>5. CASE c # req[p].char
  <2>1. log'[c] = log[c] /\ (Settled(q, c)' <=> Settled(q, c))
    BY <1>1, <1>2, <1>4, <1>5
  <2>2. Moves(q, c)' = Moves(q, c)
    BY <2>1 DEF Moves
  <2> QED
    BY <1>3, <2>1, <2>2 DEF Logged
<1>6. CASE c = req[p].char
  <2> DEFINE s == log[c]
             b == buf[p]
  <2>1. log'[c] = s \o b
    BY <1>1, <1>2, <1>6
  <2>2. /\ Len(s \o b) = Len(s) + Len(b) /\ Len(s) \in Nat /\ Len(b) \in Nat
        /\ \A k \in 1 .. Len(s) : (s \o b)[k] = s[k]
        /\ \A k \in Len(s) + 1 .. Len(s) + Len(b) : (s \o b)[k] = b[k - Len(s)]
    BY <1>2, MovesConcat
  <2>3. \A k \in 1 .. Len(b) : b[k].by = p /\ (IsMove(b[k]) <=> req[p].op # "getWallet" /\ k = Len(b))
    BY <1>1, <1>3 DEF Inserted, HasMoved
  <2>4. req[p].op # "getWallet" => Len(b) >= 1
    <3>1. req[p].op # "getWallet" => b # << >>
      BY <1>1, <1>3 DEF Inserted, HasMoved
    <3>2. b \in Seq(Entries)
      BY <1>2
    <3> QED
      BY <3>1, <3>2
  <2>5. Moves(q, c) = {k \in 1 .. Len(s) : s[k].by = q /\ IsMove(s[k])}
    BY DEF Moves, IsMove
  <2>6. Moves(q, c)' = {k \in 1 .. Len(s \o b) : (s \o b)[k].by = q /\ IsMove((s \o b)[k])}
    BY <2>1 DEF Moves, IsMove
  <2> HIDE DEF s, b
  <2>7. CASE q # p \/ req[p].op = "getWallet"
    <3>1. \A k \in Len(s) + 1 .. Len(s) + Len(b) : ~((s \o b)[k].by = q /\ IsMove((s \o b)[k]))
      <4> TAKE k \in Len(s) + 1 .. Len(s) + Len(b)
      <4>1. k - Len(s) \in 1 .. Len(b) /\ (s \o b)[k] = b[k - Len(s)]
        BY <2>2
      <4> QED
        BY <2>3, <2>7, <4>1
    <3>2. Moves(q, c)' = Moves(q, c)
      BY <2>2, <2>5, <2>6, <3>1
    <3>3. Settled(q, c)' <=> Settled(q, c)
      BY <1>4, <2>7
    <3>4. Len(log'[c]) >= Len(log[c]) /\ Len(log[c]) \in Nat /\ Len(log'[c]) \in Nat
      BY <2>1, <2>2 DEF s
    <3> QED
      BY <1>3, <3>2, <3>3, <3>4 DEF Logged
  <2>8. CASE q = p /\ req[p].op # "getWallet"
    <3> DEFINE n == Len(s) + Len(b)
    <3>1. Moves(p, c) = {}
      BY <1>2, <1>3, <2>8 DEF Logged, Settled
    <3>2. n \in 1 .. Len(s \o b) /\ n \in Len(s) + 1 .. Len(s) + Len(b) /\ n - Len(s) = Len(b) /\ Len(b) \in 1 .. Len(b)
      BY <2>2, <2>4, <2>8
    <3>3. (s \o b)[n].by = p /\ IsMove((s \o b)[n])
      <4>1. (s \o b)[n] = b[n - Len(s)]
        BY <2>2, <3>2
      <4> QED
        BY <2>3, <2>8, <3>2, <4>1
    <3>4. ASSUME NEW k \in 1 .. Len(s \o b), (s \o b)[k].by = p, IsMove((s \o b)[k]) PROVE k = n
      <4>1. CASE k \in 1 .. Len(s)
        BY <2>2, <2>5, <2>8, <3>1, <3>4, <4>1
      <4>2. CASE k \in Len(s) + 1 .. Len(s) + Len(b)
        <5>1. k - Len(s) \in 1 .. Len(b) /\ (s \o b)[k] = b[k - Len(s)]
          BY <2>2, <4>2
        <5>2. k - Len(s) = Len(b)
          BY <2>3, <3>4, <5>1
        <5> QED
          BY <2>2, <4>2, <5>2
      <4> QED
        BY <2>2, <4>1, <4>2
    <3>5. Moves(q, c)' = {n}
      BY <2>6, <2>8, <3>2, <3>3, <3>4
    <3>6. Settled(q, c)' /\ n \in 1 .. Len(log'[c])
      BY <1>4, <1>6, <2>1, <2>8, <3>2
    <3> HIDE DEF n
    <3> QED
      BY <3>5, <3>6 DEF Logged
  <2> QED
    BY <2>7, <2>8
<1> QED
  BY <1>5, <1>6

\* A block of n units of x numbered from m.
Block(x, m, n) == {x} \X (m + 1 .. m + n)

LEMMA BlockSize ==
  ASSUME NEW x, NEW m \in Nat, NEW n \in Nat
  PROVE  IsFiniteSet(Block(x, m, n)) /\ Cardinality(Block(x, m, n)) = n
<1> DEFINE N == m + 1 .. m + n
<1>1. IsFiniteSet({x}) /\ Cardinality({x}) = 1
  BY FS_Singleton
<1>2. IsFiniteSet(N) /\ Cardinality(N) = n
  BY FS_Interval
<1>3. Block(x, m, n) = {x} \X N
  BY DEF Block
<1> HIDE DEF N
<1>4. IsFiniteSet({x} \X N) /\ Cardinality({x} \X N) = n
  BY <1>1, <1>2, FS_Product
<1> QED
  BY <1>3, <1>4, Zenon

LEMMA MoreUnits ==
  ASSUME NEW S, IsFiniteSet(S), NEW T, IsFiniteSet(T), S \cap T = {}
  PROVE  IsFiniteSet(S \cup T) /\ Cardinality(S \cup T) = Cardinality(S) + Cardinality(T)
<1>1. Cardinality(S) \in Nat /\ Cardinality(T) \in Nat
  BY FS_CardinalityType
<1>2. Cardinality(S \cup T) = Cardinality(S) + Cardinality(T) - Cardinality({}) /\ IsFiniteSet(S \cup T)
  BY FS_Union
<1> QED
  BY <1>1, <1>2, FS_EmptySet

\* A commit sells the units it was asked for, or none.
LEMMA CommitShelves ==
  ASSUME IInv, EffectsInv, NEW p \in Proc, CommitRequest(p), NEW i \in Item
  PROVE  Shelved(i)'
<1> DEFINE c == req[p].char
           units == IF req[p].op = "buy" /\ req[p].item \in Catalog THEN req[p].units ELSE 0
<1>1. /\ pc[p] = "commit" /\ req' = req /\ answer' = [answer EXCEPT ![p] = "ok"]
      /\ \A r \in Char \cup Item : db'[r] = IF owner[r] = p THEN pend[r] ELSE db[r]
      /\ owned' = IF units = 0 THEN owned ELSE [owned EXCEPT ![c][req[p].item] = @ + units]
  BY DEF CommitRequest, Finish, Commit, Sees, IInv, TypeOK
<1>2. /\ answer[p] = "none" /\ c \in Char /\ answer \in [Proc -> Answers]
      /\ req[p].op = "buy" => req[p].item \in Item /\ req[p].units \in Nat
      /\ owned \in [Char -> [Item -> Nat]] /\ RequestInv(p)
  BY <1>1, Asking DEF IInv, TypeOK, RequestInv, AnswerMatches
<1>3. Shelved(i)
  BY DEF EffectsInv
<1>4. Sales(i)' = IF req[p].op = "buy" /\ req[p].item = i THEN Sales(i) \cup {p} ELSE Sales(i)
  BY <1>1, <1>2 DEF Sales
<1>5. p \notin Sales(i) /\ \A u \in UnitsSold(i) : u[1] # p
  BY <1>2 DEF Sales, UnitsSold
<1>6. CASE ~(req[p].op = "buy" /\ req[p].item = i)
  <2>1. UnitsSold(i)' = UnitsSold(i)
    BY <1>1, <1>4, <1>6 DEF UnitsSold
  <2>2. \A x \in Char : owned'[x][i] = owned[x][i]
    BY <1>1, <1>2, <1>6
  <2>3. UnitsOwned(i)' = UnitsOwned(i)
    BY <2>2 DEF UnitsOwned
  <2>4. owner[i] # p
    BY <1>1, <1>2, <1>6, EconomyAssumption DEF RequestInv, LocksNamed
  <2>5. db'[i] = db[i]
    BY <1>1, <2>4
  <2> QED
    BY <1>3, <2>1, <2>3, <2>5 DEF Shelved
<1>7. CASE req[p].op = "buy" /\ req[p].item = i
  <2> DEFINE n == req[p].units
             sold == Block(p, 0, n)
             had == owned[c][i]
             got == Block(c, had, n)
  <2>1. n \in Nat /\ had \in Nat
    BY <1>2, <1>7
  <2>2. IsFiniteSet(sold) /\ Cardinality(sold) = n /\ IsFiniteSet(got) /\ Cardinality(got) = n
    <3> HIDE DEF n, had, c
    <3> QED
      BY <2>1, BlockSize
  <2>3. UnitsSold(i)' = UnitsSold(i) \cup sold
    <3>1. UnitsSold(i)' = UNION {{q} \X (1 .. req[q].units) : q \in Sales(i) \cup {p}}
      BY <1>1, <1>4, <1>7 DEF UnitsSold
    <3>2. sold = {p} \X (1 .. req[p].units)
      BY <2>1 DEF Block
    <3> HIDE DEF sold, n
    <3> QED
      BY <3>1, <3>2 DEF UnitsSold
  <2>4. UnitsSold(i) \cap sold = {}
    BY <1>5 DEF Block
  <2>5. IsFiniteSet(UnitsSold(i)') /\ Cardinality(UnitsSold(i)') = Cardinality(UnitsSold(i)) + n
    BY <1>3, <2>2, <2>3, <2>4, MoreUnits DEF Shelved
  <2>6. Cardinality(UnitsSold(i)) \in Nat /\ Cardinality(UnitsOwned(i)) \in Nat
    BY <1>3, FS_CardinalityType DEF Shelved
  <2>7. InitStock[i] >= 0 => db'[i] = db[i] - n /\ db[i] \in Int /\ InitStock[i] \in Int
    <3> SUFFICES ASSUME InitStock[i] >= 0 PROVE db'[i] = db[i] - n /\ db[i] \in Int /\ InitStock[i] \in Int
      OBVIOUS
    <3>1. stk[p] >= 0
      BY <1>1, <1>2, <1>7 DEF RequestInv, StockMoved
    <3>2. owner[i] = p /\ pend[i] = db[i] - n
      BY <1>1, <1>2, <1>7, <3>1 DEF RequestInv, StockMoved
    <3> QED
      BY <1>1, <3>2 DEF IInv, TypeOK
  <2>8. InitStock[i] >= 0 => InitStock[i] - db'[i] = Cardinality(UnitsSold(i)')
    BY <1>3, <2>1, <2>5, <2>6, <2>7 DEF Shelved
  <2>9. CASE i \notin Catalog
    <3>1. owned' = owned
      BY <1>1, <1>7, <2>9
    <3>2. UnitsOwned(i)' = UnitsOwned(i)
      BY <3>1 DEF UnitsOwned
    <3> QED
      BY <1>3, <2>5, <2>8, <2>9, <3>2 DEF Shelved
  <2>10. CASE i \in Catalog
    <3>1. owned'[c][i] = had + n /\ \A x \in Char \ {c} : owned'[x][i] = owned[x][i]
      BY <1>1, <1>2, <1>7, <2>1, <2>10
    <3>2. UnitsOwned(i)' = UnitsOwned(i) \cup got
      <4>1. \A u : u \in UnitsOwned(i)' <=> \E x \in Char : u \in {x} \X (1 .. owned'[x][i])
        BY DEF UnitsOwned
      <4>2. \A u : u \in UnitsOwned(i) <=> \E x \in Char : u \in {x} \X (1 .. owned[x][i])
        BY DEF UnitsOwned
      <4>3. {c} \X (1 .. owned'[c][i]) = ({c} \X (1 .. owned[c][i])) \cup got
        <5>1. 1 .. had + n = (1 .. had) \cup (had + 1 .. had + n)
          BY <2>1
        <5> QED
          BY <3>1, <5>1 DEF Block
      <4> HIDE DEF got, had
      <4>4. \A x \in Char \ {c} : {x} \X (1 .. owned'[x][i]) = {x} \X (1 .. owned[x][i])
        BY <3>1
      <4> HIDE DEF c
      <4> QED
        BY <1>2, <4>1, <4>2, <4>3, <4>4
    <3>3. UnitsOwned(i) \cap got = {}
      <4>1. \A u \in UnitsOwned(i) : u[1] = c => u[2] \in 1 .. had
        BY DEF UnitsOwned
      <4> QED
        BY <2>1, <4>1 DEF Block
    <3>4. IsFiniteSet(UnitsOwned(i)') /\ Cardinality(UnitsOwned(i)') = Cardinality(UnitsOwned(i)) + n
      BY <1>3, <2>2, <3>2, <3>3, MoreUnits DEF Shelved
    <3> QED
      BY <1>3, <2>5, <2>8, <3>4 DEF Shelved
  <2> QED
    BY <2>9, <2>10
<1> QED
  BY <1>6, <1>7

\* Before the first request nothing has moved.
LEMMA EffectsInitInv == Init => EffectsInv
<1> SUFFICES ASSUME Init PROVE EffectsInv
  OBVIOUS
<1>1. ASSUME NEW p \in Proc PROVE Inserted(p)
  BY DEF Init, Inserted, HasMoved
<1>2. ASSUME NEW p \in Proc, NEW c \in Char PROVE Logged(p, c)
  <2>1. answer[p] = "none" /\ log[c] = << >>
    BY DEF Init
  <2>2. Moves(p, c) = {}
    BY <2>1 DEF Moves
  <2> QED
    BY <2>1, <2>2 DEF Logged, Settled
<1>3. ASSUME NEW i \in Item PROVE Shelved(i)
  <2>1. Sales(i) = {}
    BY DEF Init, Sales
  <2>2. UnitsSold(i) = {}
    BY <2>1 DEF UnitsSold
  <2>3. \A c \in Char : 1 .. owned[c][i] = {}
    BY DEF Init
  <2>4. UnitsOwned(i) = {}
    BY <2>3 DEF UnitsOwned
  <2>5. db[i] = InitStock[i] /\ InitStock[i] \in Int
    BY EconomyAssumption DEF Init, RcInit
  <2> QED
    BY <2>2, <2>4, <2>5, FS_EmptySet DEF Shelved
<1> QED
  BY <1>1, <1>2, <1>3 DEF EffectsInv

\* Every step moves what was asked or nothing.
LEMMA EffectsNextInv ==
  ASSUME IInv, EffectsInv, [Next]_vars
  PROVE  EffectsInv'
<1>1. ASSUME NEW p \in Proc, Start(p) \/ Step(p) \/ Lost(p)
      PROVE  EffectsInv'
  <2>1. ASSUME NEW q \in Proc PROVE Inserted(q)'
    <3>1. Inserted(q)
      BY DEF EffectsInv
    <3>2. CASE q = p
      BY <1>1, <3>1, <3>2, InsertedInv
    <3>3. CASE q # p
      BY <1>1, <3>1, <3>3, OthersUnmoved, InsertedStays
    <3> QED
      BY <3>2, <3>3
  <2>2. CASE CommitRequest(p)
    <3>1. \A q \in Proc, c \in Char : Logged(q, c)'
      BY <2>2, CommitLogs
    <3>2. \A i \in Item : Shelved(i)'
      BY <2>2, CommitShelves
    <3> QED
      BY <2>1, <3>1, <3>2 DEF EffectsInv
  <2>3. CASE ~CommitRequest(p)
    <3>1. Invisible
      BY <1>1, <2>3, OtherStepsInvisible
    <3>2. log' = log
      BY <1>1, <2>3, OnlyCommitLogs
    <3> QED
      BY <2>1, <3>1, <3>2, InvisibleEffects DEF EffectsInv
  <2> QED
    BY <2>2, <2>3
<1>2. CASE UNCHANGED vars
  BY <1>2 DEF vars, rcVars, local, EffectsInv, Inserted, HasMoved, Logged, Settled, Moves, Shelved, Sales,
              UnitsSold, UnitsOwned
<1> QED
  BY <1>1, <1>2 DEF Next, AllAnswered

\* The counts of EffectsExact are the sets the invariant names.
LEMMA EffectsCounted ==
  ASSUME IInv, EffectsInv
  PROVE  EffectsExact
<1>1. ASSUME NEW p \in Proc, NEW c \in Char
      PROVE  Cardinality(Moves(p, c)) =
               IF answer[p] = "ok" /\ req[p].op # "getWallet" /\ req[p].char = c THEN 1 ELSE 0
  <2>1. Logged(p, c)
    BY DEF EffectsInv
  <2>2. CASE Settled(p, c)
    <3>1. PICK k \in 1 .. Len(log[c]) : Moves(p, c) = {k}
      BY <2>1, <2>2 DEF Logged
    <3> QED
      BY <2>2, <3>1, FS_Singleton DEF Settled
  <2>3. CASE ~Settled(p, c)
    BY <2>1, <2>3, FS_EmptySet DEF Logged, Settled
  <2> QED
    BY <2>2, <2>3
<1>2. ExactlyOnce
  BY <1>1 DEF ExactlyOnce
<1>3. StockAccounted
  BY DEF IInv, StockKind, EffectsInv, Shelved, StockAccounted
<1> QED
  BY <1>2, <1>3 DEF EffectsExact

\* What was asked is what moved, for every number of requests, characters,
\* items, retries and cut connections: a movement is in the trail once if its
\* request was answered ok and never otherwise (the retries of
\* economy-service.transfer included), what a limited shelf lost is what the
\* answered purchases paid for, and the catalogue goods they paid for are in
\* their buyers' inventories.
THEOREM EffectsExactHolds == Spec => []EffectsExact
<1>1. Init => IInv /\ EffectsInv
  BY EffectsInitInv, InitInv
<1>2. IInv /\ EffectsInv /\ [Next]_vars => (IInv /\ EffectsInv)'
  BY EffectsNextInv, NextInv
<1>3. IInv /\ EffectsInv => EffectsExact
  BY EffectsCounted
<1> QED
  BY <1>1, <1>2, <1>3, PTL DEF Spec
=============================================================================
