------------------------------ MODULE Economy ------------------------------
(***************************************************************************)
(* Wallets, the audit trail and vendor purchases: services/economy-service *)
(* over repositories/wallet-repository, vendor-repository and              *)
(* consumable-repository.  Every p \in Proc is one HTTP request, run one   *)
(* SQL statement at a time against READ COMMITTED rows; a wallet is        *)
(* written by compare-and-swap on its version.                             *)
(*                                                                         *)
(* Rows are wallets (indexed by character) and vendor_inventory stock      *)
(* (indexed by item).  transaction_log and character_consumables only ever *)
(* receive appends and relative increments, so what a transaction adds to  *)
(* them is kept in buf until it commits.                                   *)
(***************************************************************************)
EXTENDS ReadCommitted, Integers, Sequences, FiniteSets

CONSTANTS Proc, Char, Item,
          Amounts,        \* the amounts a transfer may ask for, zero included
          Quantity,       \* the quantities a purchase may ask for
          Price,          \* vendor_inventory.price, already rounded
          InitStock,      \* vendor_inventory.stock, -1 for unlimited
          Catalog,        \* the items findActiveBySlug finds in consumables
          Apagado,        \* the characters that are flatlined
          Seed,           \* INITIAL_BALANCE
          MaxRetries      \* MAX_RETRIES

Wallets == [balance : Int, earned : Int, spent : Int, version : Nat]
Entries == [kind : {"ADMIN_ADJUSTMENT", "transfer", "buy"}, before : Int, after : Int, by : Proc]

ASSUME EconomyAssumption ==
  /\ Char \cap Item = {}
  /\ NoProc \notin Proc
  /\ Amounts \subseteq Int
  /\ Quantity \subseteq Nat \ {0}
  /\ Price \in [Item -> Nat]
  /\ InitStock \in [Item -> Nat \cup {-1}]
  /\ Catalog \subseteq Item
  /\ Apagado \subseteq Char
  /\ Seed \in Nat
  /\ MaxRetries \in Nat \ {0}
  /\ NoRow \notin Wallets \cup Int

VARIABLES log,     \* character -> its committed transaction_log entries
          owned,   \* character -> item -> character_consumables.quantity
          pc, req, \* request -> its next statement, what it asks for
          snap,    \* request -> the wallet it read
          stk,     \* request -> the stock it read
          buf,     \* request -> the log entries its transaction inserted
          tries,   \* request -> attempts used by transfer's retry loop
          answer   \* request -> its response

local == <<pc, req, snap, stk, buf, tries, answer>>
vars == <<rcVars, log, owned, local>>

Requests ==
       [op : {"transfer"}, char : Char, amount : Amounts]
  \cup [op : {"buy"}, char : Char, item : Item, units : Quantity]
  \cup [op : {"getWallet"}, char : Char]

NoRequest == [op |-> "none"]

\* What the request takes from or adds to the wallet.
AmountOf(r) == IF r.op = "buy" THEN -(Price[r.item] * r.units) ELSE r.amount

\* A transaction_log entry; by names the request, so that the properties can
\* tell who moved what.
Entry(kind, before, after, p) == [kind |-> kind, before |-> before, after |-> after, by |-> p]

SeedWallet == [balance |-> Seed, earned |-> Seed, spent |-> 0, version |-> 0]

Init ==
  /\ RcInit([r \in Char \cup Item |-> IF r \in Char THEN NoRow ELSE InitStock[r]])
  /\ log = [c \in Char |-> << >>]
  /\ owned = [c \in Char |-> [i \in Item |-> 0]]
  /\ pc = [p \in Proc |-> "idle"]
  /\ req = [p \in Proc |-> NoRequest]
  /\ snap = [p \in Proc |-> NoRow]
  /\ stk = [p \in Proc |-> 0]
  /\ buf = [p \in Proc |-> << >>]
  /\ tries = [p \in Proc |-> 0]
  /\ answer = [p \in Proc |-> "none"]

Goto(p, l) == pc' = [pc EXCEPT ![p] = l]

\* The callback throws: the transaction rolls back, the request is answered.
Reject_KeepsLocks(p, why) ==
  /\ answer' = [answer EXCEPT ![p] = why]
  /\ Goto(p, "done")
  /\ UNCHANGED <<rcVars, log, owned, req, snap, stk, buf, tries>>
Reject(p, why) ==
  /\ Rollback(p)
  /\ buf' = [buf EXCEPT ![p] = << >>]
  /\ answer' = [answer EXCEPT ![p] = why]
  /\ Goto(p, "done")
  /\ UNCHANGED <<log, owned, req, snap, stk, tries>>

\* The callback returns: what it wrote is committed, what it inserted becomes
\* visible, and units of item enter the character's inventory.
Finish(p, units) ==
  LET c == req[p].char IN
  /\ Commit(p)
  /\ log' = [log EXCEPT ![c] = @ \o buf[p]]
  /\ owned' = IF units = 0 THEN owned ELSE [owned EXCEPT ![c][req[p].item] = @ + units]
  /\ buf' = [buf EXCEPT ![p] = << >>]
  /\ answer' = [answer EXCEPT ![p] = "ok"]
  /\ Goto(p, "done")
  /\ UNCHANGED <<req, snap, stk, tries>>

\* A request arrives.  buyFromVendor opens with the flatline gate; getWallet
\* and transfer start at the wallet.
Start(p) ==
  /\ pc[p] = "idle"
  /\ \E r \in Requests :
       /\ req' = [req EXCEPT ![p] = r]
       /\ IF r.op = "buy" /\ r.char \in Apagado
          THEN Goto(p, "done") /\ answer' = [answer EXCEPT ![p] = "FLATLINED"]
          ELSE Goto(p, IF r.op = "buy" THEN "item" ELSE "getById") /\ UNCHANGED answer
  /\ UNCHANGED <<rcVars, log, owned, snap, stk, buf, tries>>

\* findStockItem and the pre-check of the stock it returned.
FindStockItem(p) ==
  LET stock == Sees(p, req[p].item) IN
  /\ pc[p] = "item"
  /\ \/ /\ stock >= 0 /\ stock < req[p].units
        /\ Reject(p, "OUT_OF_STOCK")
     \/ /\ stock < 0 \/ stock >= req[p].units
        /\ stk' = [stk EXCEPT ![p] = stock]
        /\ Goto(p, "ensure")
        /\ UNCHANGED <<rcVars, log, owned, req, snap, buf, tries, answer>>

HoldWallet(p, w) ==
  /\ snap' = [snap EXCEPT ![p] = w]
  /\ Goto(p, IF req[p].op = "getWallet" THEN "commit" ELSE "update")
  /\ UNCHANGED <<log, owned, req, stk, tries, answer>>

\* getById: the SELECT getWallet and transfer try before ensure.
GetById(p) ==
  LET w == Sees(p, req[p].char) IN
  /\ pc[p] = "getById"
  /\ \/ w # NoRow /\ HoldWallet(p, w) /\ UNCHANGED <<rcVars, buf>>
     \/ w = NoRow /\ Goto(p, "ensure")
        /\ UNCHANGED <<rcVars, log, owned, req, snap, stk, buf, tries, answer>>

\* ensure, its first SELECT.
EnsureSelect(p) ==
  LET w == Sees(p, req[p].char) IN
  /\ pc[p] = "ensure"
  /\ \/ w # NoRow /\ HoldWallet(p, w) /\ UNCHANGED <<rcVars, buf>>
     \/ w = NoRow /\ Goto(p, "insert")
        /\ UNCHANGED <<rcVars, log, owned, req, snap, stk, buf, tries, answer>>

\* INSERT ... ON CONFLICT waits for a transaction that is inserting the same
\* key, and inserts unless that transaction committed.
InsertDecided(p, c) == CanLock(p, c)
InsertWins_Overwrites(p, c) == CanLock(p, c)
InsertWins(p, c) == CanLock(p, c) /\ Sees(p, c) = NoRow

\* ensure, INSERT ... ON CONFLICT DO NOTHING and the seed's audit entry.
EnsureInsert(p) ==
  LET c == req[p].char IN
  /\ pc[p] = "insert"
  /\ InsertDecided(p, c)
  /\ \/ /\ InsertWins(p, c)
        /\ Put(p, c, SeedWallet)
        /\ buf' = [buf EXCEPT ![p] = Append(@, Entry("ADMIN_ADJUSTMENT", 0, Seed, p))]
        /\ HoldWallet(p, SeedWallet)
     \/ /\ ~InsertWins(p, c)
        /\ Goto(p, "reread")
        /\ UNCHANGED <<rcVars, log, owned, req, snap, stk, buf, tries, answer>>

\* ensure, the SELECT after a lost race.
EnsureReread(p) ==
  LET w == Sees(p, req[p].char) IN
  /\ pc[p] = "reread"
  /\ IF w = NoRow
     THEN Reject(p, "WALLET_CREATE_FAILED")
     ELSE HoldWallet(p, w) /\ UNCHANGED <<rcVars, buf>>

\* transferEddies: the wallet after a movement of the given amount.
transferEddies(w, amount) ==
  [balance |-> w.balance + amount,
   earned  |-> w.earned + (IF amount > 0 THEN amount ELSE 0),
   spent   |-> w.spent - (IF amount < 0 THEN amount ELSE 0),
   version |-> w.version]

\* The version the optimistic write leaves behind.
Bumped(w, new) == [new EXCEPT !.version = w.version + 1]

\* The wallet row still carries the version this request read.
VersionMatches_NoCas(p) == Sees(p, req[p].char) # NoRow
VersionMatches(p) ==
  LET w == Sees(p, req[p].char) IN w # NoRow /\ w.version = snap[p].version

\* The optimistic update found another version: transfer retries MAX_RETRIES
\* times from a new transaction, a purchase answers at once.
Conflict(p) ==
  IF req[p].op = "transfer" /\ tries[p] < MaxRetries - 1
  THEN /\ Rollback(p)
       /\ buf' = [buf EXCEPT ![p] = << >>]
       /\ tries' = [tries EXCEPT ![p] = @ + 1]
       /\ Goto(p, "getById")
       /\ UNCHANGED <<log, owned, req, snap, stk, answer>>
  ELSE Reject(p, "CONCURRENCY_CONFLICT")

\* The funds check, transferEddies, updateOptimistic and the audit entry.
UpdateOptimistic(p) ==
  LET c == req[p].char
      w == snap[p]
      amount == AmountOf(req[p])
      new == transferEddies(w, amount)
  IN
  /\ pc[p] = "update"
  /\ \/ w.balance + amount < 0 /\ Reject(p, "INSUFFICIENT_FUNDS")
     \/ amount = 0 /\ Reject(p, "ZERO_AMOUNT")
     \/ /\ w.balance + amount >= 0 /\ amount # 0
        /\ CanLock(p, c)
        /\ \/ ~VersionMatches(p) /\ Conflict(p)
           \/ /\ VersionMatches(p)
              /\ Put(p, c, Bumped(w, new))
              /\ buf' = [buf EXCEPT ![p] =
                           Append(@, Entry(req[p].op, w.balance, new.balance, p))]
              /\ Goto(p, IF req[p].op = "buy" THEN "stock" ELSE "commit")
              /\ UNCHANGED <<log, owned, req, snap, stk, tries, answer>>

\* The WHERE and the SET of decrementStock's UPDATE.
StockCovers_Unguarded(left, units) == TRUE
StockCovers(left, units) == left >= units
StockAfter_Absolute(p, left, units) == stk[p] - units
StockAfter(p, left, units) == left - units

\* decrementStock: relative, and guarded on the stock the row lock reveals.
\* An unlimited item is not touched.
DecrementStock(p) ==
  LET i == req[p].item
      left == Sees(p, i)
  IN
  /\ pc[p] = "stock"
  /\ \/ /\ stk[p] < 0
        /\ Goto(p, "commit")
        /\ UNCHANGED <<rcVars, log, owned, req, snap, stk, buf, tries, answer>>
     \/ /\ stk[p] >= 0
        /\ CanLock(p, i)
        /\ \/ ~StockCovers(left, req[p].units) /\ Reject(p, "OUT_OF_STOCK")
           \/ /\ StockCovers(left, req[p].units)
              /\ Put(p, i, StockAfter(p, left, req[p].units))
              /\ Goto(p, "commit")
              /\ UNCHANGED <<log, owned, req, snap, stk, buf, tries, answer>>

\* addQuantity for an item of the catalogue, and COMMIT.
CommitRequest(p) ==
  /\ pc[p] = "commit"
  /\ Finish(p, IF req[p].op = "buy" /\ req[p].item \in Catalog THEN req[p].units ELSE 0)

\* The connection or the server is lost before COMMIT.
Lost(p) ==
  /\ pc[p] \notin {"idle", "done"}
  /\ Reject(p, "LOST")

Step(p) ==
  \/ FindStockItem(p) \/ GetById(p)
  \/ EnsureSelect(p) \/ EnsureInsert(p) \/ EnsureReread(p)
  \/ UpdateOptimistic(p) \/ DecrementStock(p) \/ CommitRequest(p)

AllAnswered == (\A p \in Proc : pc[p] = "done") /\ UNCHANGED vars

Next == (\E p \in Proc : Start(p) \/ Step(p) \/ Lost(p)) \/ AllAnswered

Spec == Init /\ [][Next]_vars
-----------------------------------------------------------------------------
Answers == {"none", "ok", "LOST", "FLATLINED", "OUT_OF_STOCK", "INSUFFICIENT_FUNDS",
            "ZERO_AMOUNT", "CONCURRENCY_CONFLICT", "WALLET_CREATE_FAILED"}

\* Every value has its type and every request is where its fields say it is.
TypeOK ==
  /\ \A c \in Char : db[c] \in Wallets \cup {NoRow} /\ pend[c] \in Wallets \cup {NoRow}
  /\ \A i \in Item : db[i] \in Nat \cup {-1} /\ pend[i] \in Nat \cup {-1}
  /\ DOMAIN db = Char \cup Item /\ DOMAIN pend = Char \cup Item
  /\ owner \in [Char \cup Item -> Proc \cup {NoProc}]
  /\ log \in [Char -> Seq(Entries)]
  /\ owned \in [Char -> [Item -> Nat]]
  /\ buf \in [Proc -> Seq(Entries)]
  /\ stk \in [Proc -> Nat \cup {-1}]
  /\ answer \in [Proc -> Answers]
  /\ pc \in [Proc -> {"idle", "item", "getById", "ensure", "insert", "reread",
                      "update", "stock", "commit", "done"}]
  /\ req \in [Proc -> Requests \cup {NoRequest}]
  /\ snap \in [Proc -> Wallets \cup {NoRow}]
  /\ tries \in [Proc -> 0 .. MaxRetries - 1]

\* A trail s accounts for wallet w: its entries continue one another from zero
\* to w's balance, the first and only the first is the seed, and w's lifetime
\* counters agree.
Continuous(s) ==
  \A k \in 1 .. Len(s) : s[k].before = IF k = 1 THEN 0 ELSE s[k - 1].after
SeedFirst(s) ==
  \A k \in 1 .. Len(s) : (s[k].kind = "ADMIN_ADJUSTMENT") <=> k = 1
Accounts(s, w) ==
  /\ s # << >>
  /\ s[Len(s)].after = w.balance
  /\ w.balance = w.earned - w.spent
  /\ w.balance >= 0

\* The audit trail accounts for every Grana: a character's entries chain
\* without a gap from zero to the balance of its wallet, in commit order, and
\* the lifetime counters agree with it.  A lost update, a second seed, or an
\* entry without its wallet write breaks the chain (transaction_log is the
\* economy's audit trail; the wallet is only ever written by version CAS).
AuditTrail ==
  \A c \in Char :
    /\ Continuous(log[c])
    /\ db[c] = NoRow => log[c] = << >>
    /\ db[c] # NoRow => Accounts(log[c], db[c])

\* The seed capital is paid once: concurrent first requests that all reach
\* ensure's INSERT leave one ADMIN_ADJUSTMENT entry, the first of the trail.
SeededOnce == \A c \in Char : SeedFirst(log[c])

\* A request moved Grana once if it was answered ok, and never otherwise,
\* however often transfer's loop retried it and wherever it was cut off.
Moves(p, c) == {k \in 1 .. Len(log[c]) : log[c][k].by = p /\ log[c][k].kind # "ADMIN_ADJUSTMENT"}
ExactlyOnce ==
  \A p \in Proc, c \in Char :
    Cardinality(Moves(p, c)) =
      IF answer[p] = "ok" /\ req[p].op # "getWallet" /\ req[p].char = c THEN 1 ELSE 0

\* Limited stock is neither oversold nor lost: what left a shelf is what the
\* answered purchases paid for, unit by unit, and catalogue goods arrived in
\* inventories.
Sales(i) == {p \in Proc : req[p].op = "buy" /\ req[p].item = i /\ answer[p] = "ok"}
UnitsSold(i) == UNION {{p} \X (1 .. req[p].units) : p \in Sales(i)}
UnitsOwned(i) == UNION {{c} \X (1 .. owned[c][i]) : c \in Char}
StockAccounted ==
  \A i \in Item :
    /\ InitStock[i] >= 0 => db[i] >= 0 /\ InitStock[i] - db[i] = Cardinality(UnitsSold(i))
    /\ i \in Catalog => Cardinality(UnitsSold(i)) = Cardinality(UnitsOwned(i))

\* What was asked is what moved: grana and goods at once.
EffectsExact == ExactlyOnce /\ StockAccounted

\* Seen from outside, requests take effect one at a time: the whole service
\* implements the ledger.
Abstract == INSTANCE Ledger
  WITH account <- [c \in Char |-> IF db[c] = NoRow THEN NoRow ELSE db[c].balance],
       shelf <- [i \in Item |-> db[i]],
       goods <- owned,
       receipt <- [p \in Proc |-> IF answer[p] = "ok" THEN req[p] ELSE NoRequest],
       NoAccount <- NoRow,
       NoReceipt <- NoRequest
ImplementsLedger == Abstract!LedgerSpec

\* Nobody waits for ever: every request that was made is answered, through
\* lock waits, lost races and retries.
EveryRequestAnswered == \A p \in Proc : pc[p] # "idle" ~> pc[p] = "done"
-----------------------------------------------------------------------------
(***************************************************************************)
(* The inductive invariant behind AuditTrail, SeededOnce and the           *)
(* refinement.  TLC checks it on the small instance; EconomyProofs proves  *)
(* it for every one.                                                       *)
(***************************************************************************)

\* A transaction only ever holds the wallet and the stock row its request
\* names, and holds nothing before its first write and after its end.
LocksNamed(p) ==
  \A r \in Char \cup Item : owner[r] = p =>
    /\ pc[p] \in {"update", "stock", "commit"}
    /\ r = req[p].char \/ (req[p].op = "buy" /\ r = req[p].item /\ pc[p] = "commit")

\* What a transaction that holds a wallet would commit extends the trail; one
\* that does not hold it has inserted nothing.
TrailExtends(p) ==
  LET c == req[p].char
      s == log[c] \o buf[p]
  IN /\ owner[c] = p => /\ pend[c] # NoRow
                        /\ Continuous(s) /\ SeedFirst(s) /\ Accounts(s, pend[c])
                        /\ db[c] # NoRow => pend[c].version > db[c].version
     /\ owner[c] # p => buf[p] = << >>

\* The wallet a request read is the row's latest version or an older one, and
\* one version has one content.
SnapFaithful(p) ==
  LET c == req[p].char
      w == snap[p]
  IN pc[p] = "update" =>
       /\ req[p].op # "getWallet"
       /\ w # NoRow
       /\ w.balance = w.earned - w.spent
       /\ owner[c] = p => w = pend[c] /\ db[c] = NoRow /\ w = SeedWallet
       /\ owner[c] # p => /\ db[c] # NoRow
                          /\ w.version <= db[c].version
                          /\ w.version = db[c].version => w = db[c]

HeldNow(c) == IF db[c] = NoRow THEN Seed ELSE db[c].balance

\* Past its optimistic write a request holds its wallet, which has moved by
\* exactly what was asked.
WalletMoved(p) ==
  LET r == req[p] IN
  /\ pc[p] \in {"stock", "commit"} /\ r.op # "getWallet" =>
       /\ owner[r.char] = p
       /\ pend[r.char].balance = HeldNow(r.char) + AmountOf(r)
       /\ AmountOf(r) # 0
  /\ pc[p] = "commit" /\ r.op = "getWallet" =>
       /\ owner[r.char] = p => pend[r.char].balance = HeldNow(r.char)
       /\ owner[r.char] # p => db[r.char] # NoRow

\* A purchase past decrementStock holds its shelf, which has moved by exactly
\* what was asked.  Unlimited stock is never held.
StockMoved(p) ==
  LET r == req[p] IN
  /\ pc[p] \in {"item", "stock"} => r.op = "buy"
  /\ pc[p] \notin {"idle", "item", "done"} /\ r.op = "buy" =>
       (stk[p] >= 0 <=> InitStock[r.item] >= 0)
  /\ pc[p] = "commit" /\ r.op = "buy" =>
       IF stk[p] >= 0
       THEN /\ owner[r.item] = p
            /\ pend[r.item] = db[r.item] - r.units
       ELSE owner[r.item] # p

AnswerMatches(p) ==
  /\ pc[p] = "done" <=> answer[p] # "none"
  /\ pc[p] = "idle" <=> req[p] = NoRequest
  /\ pc[p] = "idle" => buf[p] = << >>

RequestInv(p) ==
  /\ LocksNamed(p) /\ AnswerMatches(p)
  /\ pc[p] # "idle" => /\ TrailExtends(p) /\ SnapFaithful(p)
                       /\ WalletMoved(p) /\ StockMoved(p)

\* Limited stock stays limited, unlimited stock unlimited, held or not.
StockKind ==
  \A i \in Item :
    /\ db[i] >= 0 <=> InitStock[i] >= 0
    /\ pend[i] >= 0 <=> InitStock[i] >= 0

IInv ==
  /\ TypeOK /\ PendingIsOwned /\ StockKind
  /\ AuditTrail /\ SeededOnce
  /\ \A p \in Proc : RequestInv(p)
=============================================================================
